----------------------------- MODULE MCTransfer -----------------------------
(***************************************************************************)
(* The two guarded ends of a transfer: the lease that gives one device the *)
(* right to upload, on a clock long enough for a grant to run out, for     *)
(* another device to be granted the zone and for this one to come back;    *)
(* and one downloaded photo published into the library folder.  A          *)
(* behaviour is one of the component in focus while the other rests in its *)
(* initial state, and the states of the two add up.                        *)
(***************************************************************************)
EXTENDS UploadLease, Publication

VARIABLE focus  \* the component whose behaviour this is

focusVars == <<vars, pubVars, focus>>

TransferInit == focus \in {"lease", "publication"} /\ Init /\ PubInit

TransferNext ==
    \/ focus = "lease" /\ Next /\ UNCHANGED <<pubVars, focus>>
    \/ focus = "publication" /\ PubNext /\ UNCHANGED <<vars, focus>>

(* The fairness of the component in focus: as long as one of its threads    *)
(* can go on, one does.                                                     *)
TransferFairness ==
    WF_focusVars(
        \/ /\ focus = "lease"
           /\ Tick \/ WatchdogFires \/ LossSeen \/ DropHeartbeat \/ Released
           /\ UNCHANGED <<pubVars, focus>>
        \/ focus = "publication" /\ (PubCycle \/ Restart) /\ UNCHANGED <<vars, focus>>)

TransferSpec == TransferInit /\ [][TransferNext]_focusVars /\ TransferFairness
=============================================================================
