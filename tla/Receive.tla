------------------------------ MODULE Receive ------------------------------
(***************************************************************************)
(* The downlink of one native job: service/receive.rs drives it,           *)
(* store/receive.rs persists it.  A first receive reads the zone at one     *)
(* pinned snapshot, type by type and page by page; every later receive      *)
(* pages through the changes after the stored position.  Records wait as    *)
(* fragments on their entry until a round is complete and are then promoted *)
(* in whole pairs.  The cycle's uplink (coordinator.rs) shares the position: *)
(* it may upload only at the zone's head and adopts the head it produced.   *)
(*                                                                         *)
(* What a promoted photo owes (download and publication) is Publication's   *)
(* subject and one flag here; the upload itself is Uplink's.                *)
(***************************************************************************)
EXTENDS History, SequencesExt

CONSTANTS MaxChanges,  \* record changes the zone may see
          MaxFaults,   \* crashes and lost replies
          MaxExpiries, \* times the server forgets old positions
          MaxWork,     \* local changes
          Contended    \* another device may edit a photo whose upload result
                       \* is still unknown here

ASSUME ReceiveBounds ==
    /\ MaxChanges \in Nat /\ MaxFaults \in Nat
    /\ MaxExpiries \in Nat /\ MaxWork \in Nat
    /\ Contended \in BOOLEAN

None == -1

VARIABLES
    log,      \* the zone's record changes, in commit order
    horizon,  \* positions before it are expired
    prog,     \* sync_native_progress: snapshot, ingest, target, applied
    boot,     \* bootstrap markers: types complete, photos listed per type
    frag,     \* pending fragments per entry: the master and the asset slot
    pair,     \* the confirmed or captured pair the entry is projected from
    base,     \* entries with a confirmed baseline
    owed,     \* photos whose publication is outstanding
    dirty,    \* local obligation per photo: "clean", "edit" or "delete"
    conflict, \* photos with an open conflict
    issued,   \* per photo, position of a commit whose result is unknown, or 0
    pc,       \* where the cycle stands
    retry,    \* the cycle already reset an expired position once
    height,   \* head of the delta round, or the head read after uploading
    page,     \* photos of the bootstrap page being saved
    faults, expiries, work

server == <<log, horizon>>
entries == <<frag, pair, base, owed, dirty, conflict, issued>>
cycle == <<pc, retry, height, page>>
budget == <<faults, expiries, work>>
vars == <<server, prog, boot, entries, cycle, budget>>

NoFragment == [m |-> 0, a |-> 0]
NoMarkers == [done |-> {}, listed |-> [t \in RecordTypes |-> {}]]
NoProgress == [snapshot |-> None, ingest |-> None, target |-> None, applied |-> None]

Init ==
    /\ log = <<>> /\ horizon = 0
    /\ prog = NoProgress
    /\ boot = NoMarkers
    /\ frag = [p \in Photos |-> NoFragment]
    /\ pair = [p \in Photos |-> NoPair]
    /\ base = {} /\ owed = {} /\ conflict = {}
    /\ issued = [p \in Photos |-> 0]
    /\ dirty = [p \in Photos |-> "clean"]
    /\ pc = "idle" /\ retry = FALSE /\ height = 0 /\ page = {}
    /\ faults = 0 /\ expiries = 0 /\ work = 0

Latest == Len(log)
Bound(p) == pair[p] # NoPair
Complete == boot.done = RecordTypes
NeedsBootstrap == prog.snapshot = None \/ ~Complete

----------------------------------------------------------------------------
(* The zone.  A photo is created once, its content replaced or its metadata *)
(* edited while it lives, and deleted for good; each commit is atomic, and  *)
(* the feed lists its two records in either order.                          *)

Put(p) ==
    LET c(r) == [photo |-> p, rec |-> r, gen |-> Latest + 1, dead |-> FALSE]
    IN {<<c("M"), c("A")>>, <<c("A"), c("M")>>}

Meta(p) ==
    LET a == LastChange(log, "A", p, Latest)
    IN {<<[photo |-> p, rec |-> "A", gen |-> log[a].gen, dead |-> FALSE]>>}

Delete(p) ==
    LET c(r) == [photo |-> p, rec |-> r, gen |-> 0, dead |-> TRUE]
    IN {<<c("A"), c("M")>>}

Alive(p) == StateAt(log, p, Latest) # NoPair

\* Commits the zone accepts for photo p.
Commits(p) ==
    IF Gone(log, p, Latest) THEN {}
    ELSE Put(p) \cup (IF Alive(p) THEN Meta(p) \cup Delete(p) ELSE {})

Committed(c) == Latest + Len(c) <= MaxChanges /\ log' = log \o c

\* Another device commits.  It needs the upload lease, which this device
\* holds from the check to the end of its uplink.
OtherCommits ==
    /\ pc \notin {"upload", "failing"}
    /\ \E p \in Photos :
          /\ Contended \/ issued[p] = 0
          /\ \E c \in Commits(p) : Committed(c)
    /\ UNCHANGED <<horizon, prog, boot, entries, cycle, budget>>

\* The server drops the history before its head.
Expire ==
    /\ expiries < MaxExpiries
    /\ horizon < Latest
    /\ horizon' = Latest /\ expiries' = expiries + 1
    /\ UNCHANGED <<log, prog, boot, entries, cycle, faults, work>>

Expired(token) == token # None /\ token < horizon

----------------------------------------------------------------------------
(* Starting a receive. *)

\* begin_native_receive and the choice between listing and paging.
Begin ==
    /\ pc = "idle" \/ pc = "again"
    /\ retry' = (pc = "again")
    /\ pc' = IF NeedsBootstrap THEN "query" ELSE "delta"
    /\ height' = 0
    /\ UNCHANGED <<server, prog, boot, entries, page, budget>>

\* Both reset_native_progress and a begin under a changed scope, namespace or
\* generation forget the position and the inbox, and nothing else.
Forget ==
    /\ prog' = NoProgress
    /\ boot' = NoMarkers
    /\ frag' = [p \in Photos |-> NoFragment]
    /\ UNCHANGED <<pair, base, owed, dirty, conflict, issued>>

BeginElsewhere ==
    /\ pc = "idle"
    /\ expiries < MaxExpiries
    /\ expiries' = expiries + 1
    /\ Forget
    /\ pc' = "query" /\ retry' = FALSE /\ height' = 0
    /\ UNCHANGED <<server, page, faults, work>>

\* TokenExpired: rebuild from a new snapshot once, then report it.
TokenExpired ==
    /\ \/ pc = "query" /\ Expired(prog.snapshot)
       \/ pc = "delta" /\ Expired(prog.ingest)
    /\ IF retry
       THEN /\ pc' = "idle"
            /\ UNCHANGED <<prog, boot, entries>>
       ELSE /\ pc' = "again"
            /\ Forget
    /\ UNCHANGED <<server, retry, height, page, budget>>

\* A reply is lost or the process ends: only what was saved remains.
Interrupted ==
    /\ pc # "idle"
    /\ faults < MaxFaults
    /\ faults' = faults + 1
    /\ pc' = "idle"
    /\ UNCHANGED <<server, prog, boot, entries, retry, height, page, expiries, work>>

----------------------------------------------------------------------------
(* The inbox. *)

\* Whether a record without a type can be attached: its name is known from the
\* entry's identity or from a fragment waiting there.
Attached(f, i) ==
    \/ Bound(log[i].photo)
    \/ \E s \in DOMAIN NoFragment : f[s] # 0 /\ log[f[s]].rec = log[i].rec

\* One record of stage_records.  A deleted record carries no type: it takes the
\* asset slot only when the entry is already bound to that name.
Stage(fs, i) ==
    LET p == log[i].photo
        slot == IF log[i].rec = "A" /\ (Bound(p) \/ ~log[i].dead) THEN "a" ELSE "m"
    IN IF log[i].dead /\ ~Attached(fs[p], i) THEN fs
       ELSE [fs EXCEPT ![p][slot] = i]

\* Changes in (lo, hi] a delta page lists, each record once, as of round end h.
Listed(lo, hi, h) ==
    SelectSeq([i \in 1..hi |-> i],
              LAMBDA i : i > lo /\ i = LastChange(log, log[i].rec, log[i].photo, h))

\* The fragments of pending_records: with their asset, or a master whose
\* entry has a baseline to complete it with.
Pending(p) == frag[p].a # 0 \/ (frag[p].m # 0 /\ p \in base)

\* Publications captured before the local file changed are projected again.
Invalidated(p) == p \in owed /\ dirty[p] # "clean"

\* The pair promote_pending assembles: the known pair, overlaid by name with
\* the fragments in slot order.
Assembled(p) ==
    LET m == IF Pending(p) THEN frag[p].m ELSE 0
        a == IF Pending(p) THEN frag[p].a ELSE 0
        In(r) == m # 0 /\ log[m].rec = r
    IN [a |-> IF a # 0 THEN a ELSE IF In("A") THEN m ELSE pair[p].a,
        m |-> IF In("M") THEN m ELSE pair[p].m]

Members(v) == {i \in {v.a, v.m} : i # 0}
Deleted(v) == Cardinality({i \in Members(v) : log[i].dead})

\* to_graph: both records, of one content generation.
Whole(v) ==
    /\ v.a # 0 /\ v.m # 0
    /\ ~log[v.a].dead /\ ~log[v.m].dead
    /\ log[v.a].gen = log[v.m].gen

Changed == {p \in Photos : Pending(p) \/ Invalidated(p)}

Refused == \E p \in Changed : ~Whole(Assembled(p)) /\ Deleted(Assembled(p)) # 2

Tombstones == {p \in Changed : Deleted(Assembled(p)) = 2}
Projected == Changed \ Tombstones

\* Obligations that hold the applied position back (unresolved_in_tx).
Unresolved(fs, o, c) ==
    \E p \in Photos : fs[p] # NoFragment \/ p \in o \/ p \in c

CanApply(pr, fs, o, c) ==
    /\ pr.target # None /\ pr.applied # pr.target
    /\ Complete
    /\ ~Unresolved(fs, o, c)

----------------------------------------------------------------------------
(* Promotion. *)

\* What an explicit deletion of a whole pair retires: clean entries, and
\* entries waiting for that very deletion unless its result is still unknown.
Retired ==
    {p \in Tombstones : dirty[p] = "clean" \/ (dirty[p] = "delete" /\ issued[p] = 0)}

\* project_publication: of the projected photos, "wins" take the remote content
\* and owe its publication, the others are settled by what is already local.
Project(wins) ==
    /\ pair' = [p \in Photos |-> IF p \in Projected THEN Assembled(p)
                                 ELSE IF p \in Retired THEN NoPair ELSE pair[p]]
    /\ base' = (base \cup (Projected \ wins)) \ Retired
    /\ owed' = (owed \ Changed) \cup wins
    /\ dirty' = [p \in Photos |-> IF p \in wins \cup Retired THEN "clean" ELSE dirty[p]]
    /\ conflict' = conflict \cup {p \in Tombstones : dirty[p] = "edit"}
    /\ frag' = [p \in Photos |-> IF p \in Changed THEN NoFragment ELSE frag[p]]
    /\ LET moved == [prog EXCEPT !.target = prog.ingest]
       IN prog' = IF CanApply(moved, frag', owed', conflict')
                  THEN [moved EXCEPT !.applied = prog.ingest] ELSE moved
    /\ UNCHANGED issued

\* promote_pending: one incomplete pair refuses the whole promotion.
Promote(next) ==
    /\ IF Refused
       THEN /\ pc' = "idle"
            /\ UNCHANGED <<prog, entries>>
       ELSE /\ pc' = next
            /\ \E wins \in SUBSET {p \in Projected : dirty[p] # "delete"} : Project(wins)
    /\ UNCHANGED <<server, boot, retry, height, page, budget>>

----------------------------------------------------------------------------
(* The first receive: a listing at one pinned height. *)

PinSnapshot ==
    /\ pc = "query" /\ prog.snapshot = None
    /\ prog' = [prog EXCEPT !.snapshot = Latest, !.ingest = Latest]
    /\ UNCHANGED <<server, boot, entries, cycle, budget>>

\* Masters are listed before assets; a complete type is not listed again.
ListedType == IF "M" \in boot.done THEN "A" ELSE "M"

Unlisted == {p \in Photos : StateAt(log, p, prog.snapshot) # NoPair} \ boot.listed[ListedType]

\* query_records and apply_native_bootstrap_page: the page is staged, and a
\* page of assets is promoted before its marker advances.
QueryPage ==
    /\ pc = "query" /\ prog.snapshot # None /\ ~Complete
    /\ ~Expired(prog.snapshot)
    /\ \E ps \in SUBSET Unlisted :
          /\ ps = {} => Unlisted = {}
          /\ page' = ps
          /\ frag' = FoldLeft(Stage, frag,
                        SetToSeq({LastChange(log, ListedType, p, prog.snapshot) : p \in ps}))
    /\ prog' = [prog EXCEPT !.ingest = prog.snapshot]
    /\ pc' = IF ListedType = "A" THEN "promotePage" ELSE "mark"
    /\ UNCHANGED <<server, boot, pair, base, owed, dirty, conflict, issued, retry, height, budget>>

PromotePage == pc = "promotePage" /\ Promote("mark")

\* Mutant: an empty last page does not complete its type.
SaveBootstrapPage_nonempty ==
    /\ pc = "mark"
    /\ boot' = [done |-> IF page = Unlisted /\ page # {} THEN boot.done \cup {ListedType}
                         ELSE boot.done,
                listed |-> [boot.listed EXCEPT ![ListedType] = @ \cup page]]
    /\ pc' = "query"
    /\ page' = {}
    /\ UNCHANGED <<server, prog, entries, retry, height, budget>>

SaveBootstrapPage ==
    /\ pc = "mark"
    /\ boot' = [done |-> IF page = Unlisted THEN boot.done \cup {ListedType} ELSE boot.done,
                listed |-> [boot.listed EXCEPT ![ListedType] = @ \cup page]]
    /\ pc' = "query"
    /\ page' = {}
    /\ UNCHANGED <<server, prog, entries, retry, height, budget>>

BootstrapEnds == pc = "query" /\ Complete /\ Promote("delta")

----------------------------------------------------------------------------
(* Every later receive: one round of changes at a fixed height. *)

DeltaPage ==
    /\ pc = "delta"
    /\ ~Expired(prog.ingest)
    /\ LET h == IF height = 0 THEN Latest ELSE height
       IN \E hi \in prog.ingest..h :
             /\ hi = prog.ingest => hi = h
             /\ frag' = FoldLeft(Stage, frag, Listed(prog.ingest, hi, h))
             /\ prog' = [prog EXCEPT !.ingest = hi]
             /\ height' = h
             /\ pc' = IF hi = h THEN "promote" ELSE "delta"
    /\ UNCHANGED <<server, boot, pair, base, owed, dirty, conflict, issued, retry, page, budget>>

PromoteDelta == pc = "promote" /\ Promote("idle")

----------------------------------------------------------------------------
(* What else moves the entries. *)

\* The publication of a photo completes; its capture is still fresh.
Settle ==
    /\ pc = "idle"
    /\ \E p \in owed :
          /\ dirty[p] = "clean"
          /\ owed' = owed \ {p}
          /\ base' = base \cup {p}
    /\ UNCHANGED <<server, prog, boot, frag, pair, dirty, conflict, issued, cycle, budget>>

AdvanceApplied ==
    /\ pc = "idle"
    /\ CanApply(prog, frag, owed, conflict)
    /\ prog' = [prog EXCEPT !.applied = prog.target]
    /\ UNCHANGED <<server, boot, entries, cycle, budget>>

\* The user edits or permanently deletes a photo the library holds.
LocalWork ==
    /\ work < MaxWork
    /\ \E p \in base, w \in {"edit", "delete"} :
          /\ dirty[p] # "delete" /\ dirty[p] # w
          /\ dirty' = [dirty EXCEPT ![p] = w]
    /\ work' = work + 1
    /\ UNCHANGED <<server, prog, boot, frag, pair, base, owed, conflict, issued, cycle, faults, expiries>>

\* The user settles a conflict with a photo deleted remotely.
Resolve ==
    /\ \E p \in conflict :
          /\ issued[p] = 0 /\ dirty[p] # "delete"
          /\ conflict' = conflict \ {p}
          /\ pair' = [pair EXCEPT ![p] = NoPair]
          /\ base' = base \ {p}
          /\ dirty' = [dirty EXCEPT ![p] = "clean"]
    /\ UNCHANGED <<server, prog, boot, frag, owed, issued, cycle, budget>>

----------------------------------------------------------------------------
(* The uplink of the same cycle. *)

\* Mutant: uploads are admitted without comparing the position with the head.
Gate_behind ==
    /\ pc = "idle"
    /\ prog.applied # None /\ prog.applied = prog.target
    /\ ~Unresolved(frag, owed, conflict)
    /\ pc' = "upload"
    /\ UNCHANGED <<server, prog, boot, entries, retry, height, page, budget>>

\* The server admits uploads only at its head, and only from a client that has
\* nothing left to apply; from here on it accepts no other device's commit.
Gate ==
    /\ pc = "idle"
    /\ prog.applied # None /\ prog.applied = prog.target /\ prog.applied = Latest
    /\ ~Unresolved(frag, owed, conflict)
    /\ pc' = "upload"
    /\ UNCHANGED <<server, prog, boot, entries, retry, height, page, budget>>

\* A confirmed commit becomes the entry's baseline (Command::Confirm).
Confirmed(p, h) ==
    /\ pair' = [pair EXCEPT ![p] = StateAt(log', p, h)]
    /\ base' = IF Gone(log', p, h) THEN base \ {p} ELSE base \cup {p}
    /\ dirty' = [dirty EXCEPT ![p] =
                    IF @ = "delete" /\ ~Gone(log', p, h) THEN @ ELSE "clean"]

Upload ==
    /\ pc \in {"upload", "failing"}
    /\ \E p \in Photos :
          /\ dirty[p] # "clean" /\ p \notin conflict /\ issued[p] = 0 /\ Alive(p)
          /\ \E c \in IF dirty[p] = "delete" THEN Delete(p) ELSE Put(p) \cup Meta(p) :
                Committed(c)
          /\ \/ /\ Confirmed(p, Len(log'))
                /\ UNCHANGED <<issued, pc, faults>>
             \/ /\ faults < MaxFaults /\ faults' = faults + 1
                /\ issued' = [issued EXCEPT ![p] = Len(log')]
                /\ pc' = "failing"
                /\ UNCHANGED <<pair, base, dirty>>
    /\ UNCHANGED <<horizon, prog, boot, frag, owed, conflict, retry, height, page, expiries, work>>

\* A later cycle finds the receipt of a commit whose reply was lost.
Reconcile ==
    /\ pc = "idle"
    /\ UNCHANGED log
    /\ \E p \in Photos :
          /\ issued[p] # 0
          /\ Confirmed(p, issued[p])
          /\ issued' = [issued EXCEPT ![p] = 0]
    /\ UNCHANGED <<horizon, prog, boot, frag, owed, conflict, cycle, budget>>

\* Without failures the head just produced is read and then adopted.
ReadHead ==
    /\ pc = "upload"
    /\ ~Unresolved(frag, owed, conflict)
    /\ height' = Latest
    /\ pc' = "adopt"
    /\ UNCHANGED <<server, prog, boot, entries, retry, page, budget>>

\* Mutant: the head is read again when it is adopted, after the lease.
AdoptConfirmedHead_late ==
    /\ pc = "adopt"
    /\ prog' = [prog EXCEPT !.ingest = Latest, !.target = Latest, !.applied = Latest]
    /\ pc' = "idle"
    /\ UNCHANGED <<server, boot, entries, retry, height, page, budget>>

AdoptConfirmedHead ==
    /\ pc = "adopt"
    /\ prog' = IF Unresolved(frag, owed, conflict) \/ \E p \in Photos : issued[p] # 0
               THEN prog
               ELSE [prog EXCEPT !.ingest = height, !.target = height, !.applied = height]
    /\ pc' = "idle"
    /\ UNCHANGED <<server, boot, entries, retry, height, page, budget>>

EndUplink ==
    /\ pc = "failing"
    /\ pc' = "idle"
    /\ UNCHANGED <<server, prog, boot, entries, retry, height, page, budget>>

----------------------------------------------------------------------------

Cycle ==
    \/ Begin \/ TokenExpired \/ PinSnapshot \/ QueryPage \/ PromotePage
    \/ SaveBootstrapPage \/ BootstrapEnds \/ DeltaPage \/ PromoteDelta
    \/ ReadHead \/ AdoptConfirmedHead \/ EndUplink

Next ==
    \/ OtherCommits \/ Expire \/ BeginElsewhere \/ Interrupted
    \/ Cycle \/ Settle \/ AdvanceApplied \/ LocalWork \/ Resolve
    \/ Gate \/ Upload \/ Reconcile

\* The cycle runs on; the scheduler starts the next one while work remains.
Fairness == WF_vars(Cycle)

Spec == Init /\ [][Next]_vars /\ Fairness

----------------------------------------------------------------------------
(* Properties. *)

TypeOK ==
    /\ log \in Seq(Change) /\ horizon \in 0..MaxChanges
    /\ prog \in [{"snapshot", "ingest", "target", "applied"} -> {None} \cup 0..MaxChanges]
    /\ boot \in [done : SUBSET RecordTypes, listed : [RecordTypes -> SUBSET Photos]]
    /\ frag \in [Photos -> [{"m", "a"} -> 0..MaxChanges]]
    /\ pair \in [Photos -> [{"m", "a"} -> 0..MaxChanges]]
    /\ base \in SUBSET Photos /\ owed \in SUBSET Photos /\ conflict \in SUBSET Photos
    /\ dirty \in [Photos -> {"clean", "edit", "delete"}]
    /\ issued \in [Photos -> 0..MaxChanges]
    /\ pc \in {"idle", "again", "query", "promotePage", "mark", "delta", "promote",
               "upload", "failing", "adopt"}
    /\ retry \in BOOLEAN /\ height \in 0..MaxChanges /\ page \in SUBSET Photos

Local == {p \in Photos : dirty[p] # "clean" \/ p \in conflict}

\* Deleted before the listing the client rebuilt its view from: nothing will
\* ever tell it so.
Missed(p) == Gone(log, p, prog.snapshot)

\* The saved position never runs ahead of the saved records ("a crash can only
\* ever replay, never skip"): once the listing is complete, a record's latest
\* change that the position has passed waits as a fragment, is part of the pair
\* the entry stands for, or is the deletion of a photo not known.
CrashNeverSkips ==
    Complete /\ prog.ingest # None =>
        \A p \in Photos \ Local : \A r \in RecordTypes :
            LET i == LastChange(log, r, p, Latest)
                known == IF r = "A" THEN pair[p].a ELSE pair[p].m
            IN \/ i > prog.ingest \/ known = i \/ i \in {frag[p].m, frag[p].a}
               \/ log[i].dead /\ (pair[p] = NoPair \/ Missed(p))

\* When the server lets this device upload, the device has the zone's latest
\* state of every photo it does not change itself (uplink_held's gate).
GateIsCurrent ==
    pc \in {"upload", "failing"} =>
        \A p \in Photos \ Local :
            pair[p] = StateAt(log, p, Latest) \/ Missed(p)

\* Receiving implements the abstract mirror: pairs are never half one commit
\* and half another, never go back, and are as new as the claimed position.
M == INSTANCE Mirror WITH
        view <- pair, local <- Local,
        from <- IF prog.snapshot = None THEN 0 ELSE prog.snapshot,
        to <- IF Complete THEN prog.target ELSE None,
        applied <- prog.applied

Mirrors == M!Spec

\* A fragment no promotion will ever consume.
Stuck(p) ==
    /\ frag[p] # NoFragment
    /\ IF Pending(p) THEN ~Whole(Assembled(p)) /\ Deleted(Assembled(p)) # 2
       ELSE Complete /\ log[frag[p].m].dead

\* Once the zone is quiet the client reaches its head, whatever was interrupted
\* or expired before, unless a fragment is stuck.
CatchesUp == []<>(prog.target = Latest \/ \E p \in Photos : Stuck(p))

\* "Rerunning it after a failure resumes": every received fragment is in the end
\* completed, applied and cleared.
InboxDrains == \A p \in Photos : frag[p] # NoFragment ~> frag[p] = NoFragment

\* A photo's confirmed pair never goes back to an older one: the receipt of an
\* earlier upload does not undo a newer change received meanwhile.
NeverBack ==
    [][\A p \in Photos : NoPair \notin {pair[p], pair'[p]} =>
            Known(pair'[p]) >= Known(pair[p])]_vars
=============================================================================
