----------------------------- MODULE MCLibrary ------------------------------
(***************************************************************************)
(* The library behind the pages: the thumbnails, and the projections of    *)
(* the database into the lists the window shows.  They share no state, so  *)
(* a behaviour is one of the component in focus while the other rests in   *)
(* an initial state, and the states of the two add up.                     *)
(***************************************************************************)
EXTENDS Thumbnails, Projection

CONSTANTS c1, c2, w1, w2, fA, fB

(* Thumbnails: cells against each other and a failing worker; a cell        *)
(* against the prewarm; the prewarm against an edit, an eviction, an        *)
(* import, a jump or a failure.                                             *)
MCBudgets ==
    {[asks |-> 2, changes |-> 0, faults |-> 0, prewarm |-> 0],
     [asks |-> 1, changes |-> 0, faults |-> 1, prewarm |-> 0],
     [asks |-> 1, changes |-> 0, faults |-> 0, prewarm |-> 1],
     [asks |-> 0, changes |-> 1, faults |-> 0, prewarm |-> 1],
     [asks |-> 0, changes |-> 0, faults |-> 1, prewarm |-> 1]}

(* Projection: two starts, and the changes that meet each other.            *)
NoChanges == [cap |-> 3, scans |-> 0, upserts |-> 0, deletes |-> 0, updates |-> 0, covers |-> 0, trashes |-> 0,
              reconciles |-> 0, syncs |-> 0, ignores |-> 0, reloads |-> 0, orders |-> 0]

Row(st, at, t) == [st |-> st, at |-> at, time |-> t]
MCProjStarts == {<<Row("live", fA, 1), Row("live", fB, 1), Row("none", fA, 1)>>,
                 <<Row("live", fA, 1), Row("trashed", fA, 2), Row("hidden", fB, 1)>>}

MCProjBudgets ==
    {[NoChanges EXCEPT !.upserts = 1, !.updates = 1],
     [NoChanges EXCEPT !.upserts = 1, !.deletes = 1, !.cap = 2],
     [NoChanges EXCEPT !.upserts = 1, !.scans = 1],
     [NoChanges EXCEPT !.upserts = 1, !.ignores = 1],
     [NoChanges EXCEPT !.upserts = 1, !.reconciles = 1],
     [NoChanges EXCEPT !.deletes = 1, !.syncs = 1],
     [NoChanges EXCEPT !.trashes = 2],
     [NoChanges EXCEPT !.updates = 1, !.reloads = 1],
     [NoChanges EXCEPT !.covers = 1, !.orders = 1]}

-----------------------------------------------------------------------------
VARIABLE focus  \* the component whose behaviour this is

focusVars == <<ThumbVars, projVars, focus>>

(* All the starts of the component in focus, one start of any other. *)
StartsOf(component, starts) == IF focus = component THEN starts ELSE {CHOOSE s \in starts : TRUE}

LibraryInit ==
    /\ focus \in {"thumbnails", "projection"}
    /\ thumbBudget \in StartsOf("thumbnails", Budgets) /\ ThumbInit
    /\ media \in StartsOf("projection", ProjStarts)
    /\ projBudget \in StartsOf("projection", ProjBudgets) /\ ProjInit

LibraryNext ==
    \/ focus = "thumbnails" /\ ThumbNext /\ UNCHANGED <<projVars, focus>>
    \/ focus = "projection" /\ ProjNext /\ UNCHANGED <<ThumbVars, focus>>

LibrarySpec == LibraryInit /\ [][LibraryNext]_focusVars
=============================================================================
