------------------------------- MODULE Mirror -------------------------------
(***************************************************************************)
(* What receiving promises, without pages, fragments, snapshots or tokens: *)
(* the client keeps a view of the zone that only moves forward, photo by   *)
(* photo, through states the zone really had.  Once it claims a position   *)
(* "to", every photo without local work is at least as new as that         *)
(* position.  A view rebuilt from the snapshot at "from" may keep a photo   *)
(* that was deleted before it: absence from a listing is no deletion.       *)
(* "applied" is the position presented to the server before uploading.      *)
(***************************************************************************)
EXTENDS History

VARIABLES log,      \* the zone's history
          view,     \* per photo, the pair the library is projected from
          local,    \* photos with an unconfirmed local change or a conflict
          from,     \* position of the listing the view was built from
          to,       \* position the view claims, None while it is being built
          applied   \* position whose obligations are all settled, or None

None == -1

mvars == <<log, view, local, from, to, applied>>

Init ==
    /\ log = <<>>
    /\ view = [p \in Photos |-> NoPair]
    /\ local = {} /\ from = 0 /\ to = None /\ applied = None

\* A photo never goes back to an older state, and never to a state the zone
\* did not have.
Forward(p) ==
    view'[p] # view[p] =>
        view'[p] \in {StateAt(log', p, k) : k \in Known(view[p])..Len(log')}

\* At least as new as position h, or deleted before the listing was taken.
Current(p, h) ==
    \/ view'[p] \in {StateAt(log', p, k) : k \in h..Len(log')}
    \/ Gone(log', p, from')

ViewIsCurrent ==
    to' # None => \A p \in Photos \ local' : Current(p, to')

\* Somebody commits; the zone's history only grows.
Commit ==
    /\ Len(log') > Len(log) /\ SubSeq(log', 1, Len(log)) = log
    /\ \A p \in Photos : Forward(p)
    /\ ViewIsCurrent
    /\ local' \subseteq local
    /\ UNCHANGED <<from, to, applied>>

\* The user changes a photo.
Work ==
    /\ local \subseteq local'
    /\ UNCHANGED <<log, view, from, to, applied>>

\* The view moves forward; the claimed position never moves back.
Observe ==
    /\ \A p \in Photos : Forward(p)
    /\ to # None => to' >= to /\ from' = from
    /\ ViewIsCurrent
    /\ applied' \in {applied, to'}
    /\ UNCHANGED log

\* The position is given up; what was learned is kept.
Lose ==
    /\ from' = 0 /\ to' = None /\ applied' = None
    /\ UNCHANGED <<log, view, local>>

Next == Commit \/ Work \/ Observe \/ Lose

Spec == Init /\ [][Next]_mvars
=============================================================================
