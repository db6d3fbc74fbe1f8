---------------------------- MODULE UplinkProofs ----------------------------
(***************************************************************************)
(* Proofs about Uplink: a photo is published at most once, no cloud copy   *)
(* is forgotten, one operation at a time is outstanding, a deletion is     *)
(* owed until the cloud holds no copy, and a clean entry is published as   *)
(* its row says, for any number of edits, operations and configurations.   *)
(***************************************************************************)
EXTENDS Uplink, TLAPS

\* Zenon is tried first.
USE ZenonT(30), SMTT(60)

(***************************************************************************)
(* What the entry operators return.                                        *)
(***************************************************************************)
Categories == {"metadata", "content", "deletion"}

\* What no step but a confirmation does to an entry: its cloud identity stays, and
\* a deletion stays one.
Kept(e, f) ==
    /\ f.photo = e.photo
    /\ f.dirty \in {e.dirty, "delete", IF e.photo = 0 THEN "new" ELSE "modified"}
    /\ e.dirty = "delete" => f.dirty = "delete"

\* A local change leaves a failure of the cycle noted.
KeptLocally(e, f) == Kept(e, f) /\ (f.error = e.error \/ e.dirty = "absent")

\* The absent and the new entry are entries.
LEMMA NoEntryType == NoEntry \in Entries /\ NewEntry \in Entries
BY DEF NoEntry, NewEntry, Entries, YesNo

\* No operation is an operation.
LEMMA NoOpType == NoOp \in Operations
BY SMTT(60) DEF NoOp, Operations, YesNo

\* mark keeps the identity of the entry.
LEMMA MarkType ==
    ASSUME NEW e \in Entries, NEW category \in Categories
    PROVE  mark(e, category) \in Entries /\ KeptLocally(e, mark(e, category))
<1>1. Dirtied(e, category) \in {"clean", "new", "modified", "delete"}
  BY DEF Dirtied
<1>2. mark(e, category) \in Entries
  <2> DEFINE e1 == [e EXCEPT !.dirty = Dirtied(e, category)]
             e2 == [e1 EXCEPT !.local = e.local + 1]
             e3 == [e2 EXCEPT !.meta = IF category = "metadata" THEN e.meta + 1 ELSE e.meta]
             e4 == [e3 EXCEPT !.content =
                                 IF category = "content" THEN e.content + 1 ELSE e.content]
  <2>1. e1 \in Entries BY <1>1 DEF Entries
  <2>2. e2 \in Entries
    <3> HIDE DEF e1
    <3> QED BY SMTT(60), <2>1 DEF Entries
  <2>3. e3 \in Entries
    <3> HIDE DEF e2
    <3> QED BY SMTT(60), <2>2 DEF Entries
  <2>4. e4 \in Entries
    <3> HIDE DEF e3
    <3> QED BY SMTT(60), <2>3 DEF Entries
  <2>5. e4 = mark(e, category) BY ZenonT(60) DEF mark
  <2> QED BY <2>4, <2>5
<1>3. /\ mark(e, category).photo = e.photo
      /\ mark(e, category).error = e.error
      /\ mark(e, category).dirty = Dirtied(e, category)
  BY DEF mark, Entries
<1> QED BY <1>2, <1>3 DEF KeptLocally, Kept, Dirtied, Entries

\* So does note, which enrols a photo without an entry.
LEMMA NoteType ==
    ASSUME entry \in Entries, Identity(entry), NEW category \in Categories
    PROVE  note(category) \in Entries /\ KeptLocally(entry, note(category))
<1>1. CASE entry.dirty = "absent"
  <2>1. NewEntry.photo = 0 /\ NewEntry.dirty = "new" BY DEF NewEntry, NoEntry
  <2>2. entry.photo = 0 BY <1>1 DEF Identity
  <2> QED BY <1>1, <2>1, <2>2, NoEntryType, MarkType DEF note, KeptLocally, Kept
<1>2. CASE entry.dirty # "absent"
  BY <1>2, MarkType DEF note
<1> QED BY <1>1, <1>2

\* A confirmed deletion leaves no cloud identity.
LEMMA ConfirmedDelete ==
    ASSUME NEW e \in Entries, NEW o \in Operations, o.phase = "delete"
    PROVE  /\ Confirmed(e, o) \in Entries
           /\ Confirmed(e, o).photo = 0
           /\ Confirmed(e, o).dirty \in {"absent", "new"}
<1> DEFINE e1 == [e EXCEPT !.photo = 0]
           e2 == [e1 EXCEPT !.dirty = "new"]
<1>1. e1 \in Entries /\ e1.photo = 0 BY DEF Entries
<1>2. e2 \in Entries /\ e2.photo = 0 /\ e2.dirty = "new"
  <2> HIDE DEF e1
  <2> QED BY <1>1 DEF Entries
<1>3. Confirmed(e, o) = IF e.local = o.local THEN NoEntry ELSE e2
  BY ZenonT(60) DEF Confirmed
<1>4. NoEntry.photo = 0 /\ NoEntry.dirty = "absent" BY DEF NoEntry
<1> HIDE DEF e2
<1> QED BY <1>2, <1>3, <1>4, NoEntryType

\* A confirmed create or modify leaves the identity it published, and a deletion
\* that was noted meanwhile.
LEMMA ConfirmedPublish ==
    ASSUME NEW e \in Entries, NEW o \in Operations, o.phase # "delete"
    PROVE  /\ Confirmed(e, o) \in Entries
           /\ Confirmed(e, o).photo = o.photo
           /\ e.dirty = "delete" => Confirmed(e, o).dirty = "delete"
           /\ e.dirty # "delete" => Confirmed(e, o).dirty \in {"clean", "modified"}
<1> DEFINE am == IF o.sendMeta = "yes" THEN Larger(e.ackedMeta, o.meta) ELSE e.ackedMeta
           ac == IF o.sendContent = "yes" THEN Larger(e.ackedContent, o.content) ELSE e.ackedContent
           behind == e.local # o.local \/ e.meta > am \/ e.content > ac
           cr == IF o.phase = "create" THEN "yes" ELSE e.created
           di == IF e.dirty = "delete" THEN "delete" ELSE IF behind THEN "modified" ELSE "clean"
           e1 == [e EXCEPT !.photo = o.photo]
           e2 == [e1 EXCEPT !.ackedMeta = am]
           e3 == [e2 EXCEPT !.ackedContent = ac]
           e4 == [e3 EXCEPT !.created = cr]
           e5 == [e4 EXCEPT !.dirty = di]
<1>1. am \in Nat /\ ac \in Nat /\ cr \in {"yes", "no"}
  BY DEF Larger, Entries, Operations, YesNo
<1>2. /\ di \in {"delete", "modified", "clean"}
      /\ e.dirty = "delete" => di = "delete"
      /\ e.dirty # "delete" => di \in {"clean", "modified"}
  OBVIOUS
<1>3. e5 = Confirmed(e, o) BY ZenonT(60) DEF Confirmed
<1> HIDE DEF am, ac, cr, di
<1>4. e1 \in Entries /\ e1.photo = o.photo BY DEF Entries, Operations
<1> HIDE DEF e1
<1>5. e2 \in Entries /\ e2.photo = o.photo BY <1>1, <1>4 DEF Entries
<1> HIDE DEF e2
<1>6. e3 \in Entries /\ e3.photo = o.photo BY <1>1, <1>5 DEF Entries
<1> HIDE DEF e3
<1>7. e4 \in Entries /\ e4.photo = o.photo BY <1>1, <1>6 DEF Entries, YesNo
<1> HIDE DEF e4
<1>8. e5 \in Entries /\ e5.photo = o.photo /\ e5.dirty = di BY <1>2, <1>7 DEF Entries
<1> HIDE DEF e5
<1> QED BY <1>2, <1>3, <1>8

(***************************************************************************)
(* The parts of the invariant.                                             *)
(***************************************************************************)
\* The part of the invariant that says nothing of the cycle's position.
Data ==
    /\ Fresh /\ OneIssued /\ PublishedOnce /\ Ledger /\ Identity(entry)
    /\ \A o \in issued : o.body = "null" => o.id \notin done
    /\ \A o \in wire : o \in issued /\ o.id \notin done /\ o.body = "set"

\* It survives a step that changes neither the evidence nor the cloud.
LEMMA DataKept ==
    ASSUME IInv, TypeOK', Kept(entry, entry'), UNCHANGED <<issued, ops, cloud, done>>,
           wire' \subseteq wire, op'.id <= ops, op'.photo <= ops
    PROVE  Data'
<1>1. Identity(entry)' BY DEF IInv, Frozen, Identity, Kept, TypeOK, Entries
<1>2. Fresh' BY DEF IInv, Fresh, Kept
<1>3. OneIssued' /\ PublishedOnce' BY DEF IInv, OneIssued, PublishedOnce
<1>4. Ledger'
  <2>1. (issued = {} => IF entry.photo = 0 THEN cloud = {} ELSE Holds(entry.photo))'
    BY DEF IInv, Ledger, Holds, Kept
  <2>2. ASSUME NEW o \in issued PROVE Owned(o)'
    <3>1. Owned(o) BY DEF IInv, Ledger
    <3> QED BY <3>1 DEF Owned, Holds, Kept
  <2> QED BY <2>1, <2>2 DEF Ledger
<1> QED BY <1>1, <1>2, <1>3, <1>4 DEF IInv, Data, Evidence, OnWire

\* The invariant from its parts.
LEMMA FromParts ==
    TypeOK' /\ Data' /\ Evidence' /\ OnWire' /\ Frozen' /\ Prepared' => IInv'
BY DEF Data, IInv

\* What every step uses of the invariant.
LEMMA InvFacts ==
    ASSUME IInv
    PROVE  /\ TypeOK /\ Data /\ Identity(entry) /\ Identity(view)
           /\ op.id \in Nat /\ op.photo \in Nat /\ op.id <= ops /\ op.photo <= ops
           /\ ops \in Nat /\ entry \in Entries /\ view \in Entries
           /\ Kept(entry, entry)
BY DEF IInv, Data, TypeOK, Fresh, Frozen, Evidence, OnWire, Operations, Kept, Entries

(***************************************************************************)
(* Local changes and configuration edits.                                  *)
(***************************************************************************)
\* Whatever keeps the entry's identity, and touches neither evidence nor cycle nor
\* service, keeps the invariant.
LEMMA LocalStep ==
    ASSUME IInv, TypeOK', KeptLocally(entry, entry'), UNCHANGED <<issued, ops, cycle, service>>
    PROVE  IInv'
<1> USE DEF cycle, service
<1>1. Data' BY InvFacts, DataKept DEF KeptLocally
<1>2. Evidence' BY DEF IInv, Evidence
<1>3. entry.dirty = "absent" => wire = {}
  BY DEF IInv, Ledger, Owned, OnWire
<1>4. OnWire' BY <1>3 DEF IInv, OnWire, KeptLocally
<1>5. Frozen' BY <1>1 DEF IInv, Frozen, Data, KeptLocally, Kept, Identity
<1>6. Prepared' BY DEF IInv, Prepared, KeptLocally, Kept
<1> QED BY <1>1, <1>2, <1>4, <1>5, <1>6, FromParts

\* The photo's file, row and entry change, in the library, without a cycle.
LEMMA LibraryLocal ==
    ASSUME IInv, Library
    PROVE  TypeOK' /\ KeptLocally(entry, entry') /\ UNCHANGED <<issued, ops, cycle, service>>
<1> USE DEF local, job
<1>1. TypeOK /\ entry \in Entries /\ Identity(entry) BY DEF IInv, TypeOK, Frozen
<1>2. KeptLocally(entry, entry) BY <1>1 DEF KeptLocally, Kept, Entries
<1>3. CASE WriteFile
  <2>1. TypeOK' BY SMTT(60), <1>1, <1>3 DEF WriteFile, TypeOK, cycle, service
  <2> QED BY <1>2, <1>3, <2>1 DEF WriteFile
<1>4. CASE RemoveFile
  <2>1. TypeOK' BY <1>1, <1>4 DEF RemoveFile, TypeOK, cycle, service
  <2> QED BY <1>2, <1>4, <2>1 DEF RemoveFile
<1>5. CASE ScanReads
  <2>1. TypeOK' BY <1>1, <1>5 DEF ScanReads, TypeOK, cycle, service
  <2> QED BY <1>2, <1>5, <2>1 DEF ScanReads
<1>6. CASE upsert_media_items
  <2>1. entry' \in Entries /\ KeptLocally(entry, entry')
    BY <1>1, <1>2, <1>6, NoteType DEF upsert_media_items, Categories
  <2>2. row' \in Rows
    <3> DEFINE loc == CASE row.loc = "none" -> "local" [] row.loc = "cloud" -> "both"
                        [] OTHER -> row.loc
    <3>1. loc \in {"none", "local", "cloud", "both"} BY <1>1 DEF TypeOK, Rows
    <3>2. row' = [loc |-> loc, fav |-> row.fav, seen |-> scan]
      BY <1>6 DEF upsert_media_items
    <3> HIDE DEF loc
    <3> QED BY <1>1, <3>1, <3>2 DEF TypeOK, Rows
  <2>3. TypeOK' BY <1>1, <1>6, <2>1, <2>2 DEF upsert_media_items, TypeOK, cycle, service
  <2> QED BY <1>6, <2>1, <2>3 DEF upsert_media_items
<1>7. CASE UpsertRefused
  <2>1. TypeOK' BY <1>1, <1>7 DEF UpsertRefused, TypeOK, cycle, service
  <2> QED BY <1>2, <1>7, <2>1 DEF UpsertRefused
<1>8. CASE RemovalSeen
  <2>1. TypeOK' BY <1>1, <1>8 DEF RemovalSeen, TypeOK, YesNo, cycle, service
  <2> QED BY <1>2, <1>8, <2>1 DEF RemovalSeen
<1>9. CASE delete_live_media
  <2> DEFINE live == row.loc \in {"local", "both"}
             noted == live /\ entry.dirty # "absent" /\ entry.media = "row"
             kept == noted /\ row.loc = "both"
             marked == IF noted THEN mark(entry, "deletion") ELSE entry
             unlinked == [marked EXCEPT !.media = "none"]
  <2>1. marked \in Entries /\ KeptLocally(entry, marked)
    BY <1>1, <1>2, MarkType DEF Categories
  <2>2. /\ row' = IF kept THEN [loc |-> "cloud", fav |-> row.fav, seen |-> row.seen]
                  ELSE IF live THEN NoRow ELSE row
        /\ entry' = IF kept \/ ~live THEN marked ELSE unlinked
        /\ missing' = "no"
        /\ UNCHANGED <<file, contents, scan, issued, ops, job, cycle, service>>
    BY <1>9 DEF delete_live_media
  <2>3. row' \in Rows
    <3> HIDE DEF kept, live
    <3> QED BY SMTT(60), <1>1, <2>2 DEF TypeOK, Rows, NoRow
  <2> HIDE DEF marked
  <2>4. unlinked \in Entries /\ KeptLocally(entry, unlinked)
    BY <2>1 DEF Entries, KeptLocally, Kept
  <2> HIDE DEF unlinked, kept, live
  <2>5. entry' \in Entries /\ KeptLocally(entry, entry') BY <2>1, <2>2, <2>4
  <2>6. TypeOK' BY <1>1, <2>2, <2>3, <2>5 DEF TypeOK, YesNo, cycle, service
  <2> QED BY <2>2, <2>5, <2>6
<1>10. CASE SetFavorite
  <2>1. entry' \in Entries /\ KeptLocally(entry, entry')
    BY <1>1, <1>10, NoteType DEF SetFavorite, Categories
  <2>2. row' \in Rows BY SMTT(60), <1>1, <1>10 DEF SetFavorite, TypeOK, Rows
  <2>3. TypeOK' BY <1>1, <1>10, <2>1, <2>2 DEF SetFavorite, TypeOK, cycle, service
  <2> QED BY <1>10, <2>1, <2>3 DEF SetFavorite
<1> QED
  BY <1>3, <1>4, <1>5, <1>6, <1>7, <1>8, <1>9, <1>10 DEF Library

\* Local changes keep the invariant.
LEMMA LibraryKeeps == ASSUME IInv, Library PROVE IInv'
BY LibraryLocal, LocalStep

\* A configuration edit touches neither entry nor evidence.
LEMMA ConfigurationKeeps ==
    ASSUME IInv, Configuration
    PROVE  IInv'
<1> USE DEF local, job
<1>1. TypeOK /\ KeptLocally(entry, entry) BY DEF IInv, TypeOK, KeptLocally, Kept, Entries
<1>2. CASE QueueEdit
  <2>1. TypeOK' BY <1>1, <1>2 DEF QueueEdit, TypeOK, YesNo, cycle, service
  <2> QED BY <1>1, <1>2, <2>1, LocalStep DEF QueueEdit
<1>3. CASE ApplyEdit
  <2>1. TypeOK' BY SMTT(60), <1>1, <1>3 DEF ApplyEdit, TypeOK, YesNo, cycle, service
  <2> QED BY <1>1, <1>3, <2>1, LocalStep DEF ApplyEdit
<1> QED BY <1>2, <1>3 DEF Configuration

(***************************************************************************)
(* The cycle.                                                              *)
(***************************************************************************)
\* The phases and their order.
LEMMA PhaseValues ==
    /\ NextPhase("delete") = "modify" /\ NextPhase("modify") = "create"
    /\ NextPhase("create") = "idle"
    /\ Ahead("delete") = Phases /\ Ahead("modify") = {"modify", "create"}
    /\ Ahead("create") = {"create"} /\ Ahead("idle") = {"idle"}
    /\ PhaseOf("delete") = "delete" /\ PhaseOf("new") = "create"
    /\ PhaseOf("modified") = "modify" /\ PhaseOf("absent") = "none" /\ PhaseOf("clean") = "none"
BY DEF NextPhase, Ahead, PhaseOf

\* An operation outside the cycle is none.
LEMMA NoOpFacts ==
    /\ NoOp.id = 0 /\ NoOp.photo = 0 /\ Identity(NoEntry)
    /\ NoEntry.dirty = "absent" /\ NoEntry.photo = 0 /\ NoEntry.error = "none"
BY DEF NoOp, NoEntry, Identity

\* Entering or leaving the cycle asks only for the data to agree.
LEMMA OutsideCycle ==
    ASSUME TypeOK', Data', Identity(view)', pc' \in {"idle", "begun"}
    PROVE  IInv'
<1>1. Evidence' BY DEF Data, Evidence, Preparing, Executing
<1>2. OnWire' BY DEF Data, OnWire, Preparing, Phases
<1>3. Frozen' BY DEF Data, Frozen, Phases, Executing
<1>4. Prepared' BY DEF Prepared, Preparing
<1> QED BY <1>1, <1>2, <1>3, <1>4, FromParts

\* Before the phases nothing is frozen and nothing is on the wire.
LEMMA BeforePhases ==
    ASSUME TypeOK', Data', Identity(view)', pc' \in {"reconcile", "gate"}, wire' = {}
    PROVE  IInv'
<1>1. Evidence' BY DEF Data, Evidence, Preparing, Executing
<1>2. OnWire' BY DEF Data, OnWire, Preparing, Phases
<1>3. Frozen' BY DEF Data, Frozen, Phases, Executing
<1>4. Prepared' BY DEF Prepared, Preparing
<1> QED BY <1>1, <1>2, <1>3, <1>4, FromParts

\* Beginning a cycle keeps the invariant.
LEMMA BeginKeeps == ASSUME IInv, Begin PROVE IInv'
<1> USE DEF local, job, service
<1>1. entry' \in Entries /\ Kept(entry, entry')
  BY InvFacts DEF Begin, Entries, Kept
<1>2. Kept(entry, entry') /\ wire' = wire /\ op' = op BY <1>1 DEF Begin
<1>3. TypeOK' BY <1>1, InvFacts DEF Begin, TypeOK, Steps
<1>4. Data' BY <1>2, <1>3, InvFacts, DataKept DEF Begin
<1>5. Identity(view)' BY InvFacts DEF Begin, Identity
<1> QED BY <1>3, <1>4, <1>5, OutsideCycle DEF Begin

\* So does abandoning it, wherever it is.
LEMMA AbandonKeeps == ASSUME IInv, Abandon PROVE IInv'
<1> USE DEF local, job, service
<1>1. TypeOK' BY NoOpType, NoEntryType, InvFacts DEF Abandon, TypeOK, Steps
<1>2. Data' BY SMTT(60), <1>1, NoOpFacts, InvFacts, DataKept DEF Abandon
<1>3. Identity(view)' BY NoOpFacts DEF Abandon
<1> QED BY <1>1, <1>2, <1>3, OutsideCycle DEF Abandon

\* Enrolment keeps the identity of the entry.
LEMMA EnrolledType ==
    ASSUME entry \in Entries, Identity(entry)
    PROVE  Enrolled \in Entries /\ Kept(entry, Enrolled) /\ Identity(Enrolled)
<1>1. NewEntry.photo = 0 /\ NewEntry.dirty = "new" BY DEF NewEntry, NoEntry
<1>2. entry.dirty = "absent" => entry.photo = 0 BY DEF Identity
<1> QED BY <1>1, <1>2, NoEntryType DEF Enrolled, Kept, Identity, Entries

\* The outstanding operation is the only one, so settling it leaves none.
LEMMA OnlyOne ==
    ASSUME OneIssued, NEW o \in issued
    PROVE  issued \ {o} = {}
BY DEF OneIssued

\* Evidence of an operation that was not committed may go.
LEMMA RetireUncommitted ==
    ASSUME IInv, TypeOK', NEW o \in issued, o.id \notin done, issued' = issued \ {o},
           Kept(entry, entry'), UNCHANGED <<ops, cloud, done>>, wire' = {},
           op'.id <= ops, op'.photo <= ops
    PROVE  Data'
<1>1. issued' = {} BY OnlyOne DEF IInv
<1>2. Owned(o) BY DEF IInv, Ledger
<1>3. Identity(entry)' BY DEF IInv, Frozen, Identity, Kept, TypeOK, Entries
<1>4. Fresh' BY <1>1 DEF IInv, Fresh, Kept
<1>5. OneIssued' /\ PublishedOnce' BY <1>1 DEF IInv, OneIssued, PublishedOnce
<1>6. (IF entry.photo = 0 THEN cloud = {} ELSE Holds(entry.photo))'
  BY <1>2 DEF Owned, Holds, Kept
<1>7. Ledger' BY <1>1, <1>6 DEF Ledger
<1> QED BY <1>1, <1>3, <1>4, <1>5, <1>7 DEF Data

\* A confirmation settles the operation the service has committed, or whose effect
\* was already there.
LEMMA ConfirmKeepsData ==
    ASSUME IInv, NEW o \in issued, Confirm(o), o.id \in done \/ o.phase = "modify",
           UNCHANGED <<ops, cloud, done>>, wire' = {}, op'.id <= ops, op'.photo <= ops
    PROVE  Data' /\ entry' \in Entries /\ row' \in Rows
<1>1. issued' = {} BY OnlyOne DEF IInv, Confirm
<1>2. o \in Operations /\ entry \in Entries /\ row \in Rows BY DEF IInv, TypeOK
<1>3. Owned(o) BY DEF IInv, Ledger
<1>4. entry' = Confirmed(entry, o) BY DEF Confirm
<1>5. row' \in Rows BY <1>2 DEF Confirm, ConfirmedRow, Rows
<1>6. /\ entry' \in Entries /\ Identity(entry') /\ entry'.photo <= ops
      /\ IF entry'.photo = 0 THEN cloud = {} ELSE Holds(entry'.photo)
  <2>1. CASE o.phase = "delete"
    <3>1. entry'.photo = 0 /\ entry' \in Entries /\ entry'.dirty \in {"absent", "new"}
      BY <1>2, <1>4, <2>1, ConfirmedDelete
    <3>2. cloud = {} BY <1>3, <2>1 DEF Owned
    <3> QED BY SMTT(60), <3>1, <3>2 DEF Identity, IInv, TypeOK
  <2>2. CASE o.phase # "delete"
    <3>1. /\ entry' \in Entries /\ entry'.photo = o.photo
          /\ entry'.dirty \in {"delete", "clean", "modified"}
      BY <1>2, <1>4, <2>2, ConfirmedPublish
    <3>2. Holds(o.photo) /\ o.photo # 0 BY <1>3, <2>2 DEF Owned
    <3>3. o.photo <= ops BY DEF IInv, Fresh
    <3> QED BY <3>1, <3>2, <3>3 DEF Identity
  <2> QED BY <2>1, <2>2
<1>7. Ledger' BY <1>1, <1>6 DEF Ledger, Holds
<1>8. Fresh' BY <1>1, <1>6 DEF IInv, Fresh
<1>9. OneIssued' /\ PublishedOnce' BY <1>1 DEF IInv, OneIssued, PublishedOnce
<1>10. Identity(entry)' BY <1>6 DEF Identity
<1> QED BY <1>1, <1>5, <1>6, <1>7, <1>8, <1>9, <1>10 DEF Data

\* Under a new lease nothing sent before is accepted.
LEMMA AcquireKeeps == ASSUME IInv, Acquire PROVE IInv'
<1> USE DEF local, job
<1>1. entry' \in Entries /\ Kept(entry, entry') BY InvFacts, EnrolledType DEF Acquire
<1>2. TypeOK' BY <1>1, InvFacts DEF Acquire, TypeOK, Steps
<1>3. Data' BY <1>1, <1>2, InvFacts, DataKept DEF Acquire
<1>4. Identity(view)' BY InvFacts DEF Acquire, Identity
<1> QED BY <1>2, <1>3, <1>4, BeforePhases DEF Acquire

\* Receipts of operations an earlier cycle left behind.
LEMMA ReconcileKeeps == ASSUME IInv, Reconcile PROVE IInv'
<1> USE DEF local, job, cycle, service
<1>1. pc = "reconcile" /\ wire = {} /\ wire' = {}
  BY DEF Reconcile, ReconcileNothing, ReconcileRetires, ReconcileCommitted, ReconcileUnknown,
         ReconcileFails, IInv, OnWire
<1>2. op' = op /\ view' = view /\ op'.id <= ops /\ op'.photo <= ops /\ Identity(view)'
  BY InvFacts DEF Reconcile, ReconcileNothing, ReconcileRetires, ReconcileCommitted,
         ReconcileUnknown, ReconcileFails, Identity
<1>3. CASE ReconcileNothing
  <2>1. TypeOK' BY <1>3, InvFacts DEF ReconcileNothing, TypeOK, Steps
  <2>2. Data' BY <1>1, <1>2, <1>3, <2>1, InvFacts, DataKept DEF ReconcileNothing
  <2> QED BY <1>1, <1>2, <1>3, <2>1, <2>2, BeforePhases DEF ReconcileNothing
<1>4. CASE ReconcileRetires
  <2>1. PICK o \in issued : o.body = "null" /\ issued' = issued \ {o} BY <1>4 DEF ReconcileRetires
  <2>2. TypeOK' BY <1>4, <2>1, InvFacts DEF ReconcileRetires, TypeOK
  <2>3. o.id \notin done BY <2>1 DEF IInv, Evidence
  <2>4. Data' BY <1>1, <1>2, <1>4, <2>1, <2>2, <2>3, InvFacts, RetireUncommitted DEF ReconcileRetires
  <2> QED BY <1>1, <1>2, <1>4, <2>2, <2>4, BeforePhases DEF ReconcileRetires
<1>5. CASE ReconcileCommitted
  <2>1. PICK o \in issued : o.id \in done /\ Confirm(o) BY <1>5 DEF ReconcileCommitted
  <2>2. Data' /\ entry' \in Entries /\ row' \in Rows
    BY <1>1, <1>2, <1>5, <2>1, ConfirmKeepsData DEF ReconcileCommitted
  <2>3. TypeOK' BY <1>5, <2>1, <2>2, InvFacts DEF ReconcileCommitted, Confirm, TypeOK
  <2> QED BY <1>1, <1>2, <1>5, <2>2, <2>3, BeforePhases DEF ReconcileCommitted
<1>6. CASE ReconcileUnknown
  <2>1. pc' \in {"gate", "idle"} BY <1>6 DEF ReconcileUnknown
  <2>2. TypeOK' BY <1>6, <2>1, InvFacts DEF ReconcileUnknown, TypeOK, Steps
  <2>3. Data' BY <1>1, <1>2, <1>6, <2>2, InvFacts, DataKept DEF ReconcileUnknown
  <2> QED BY <1>1, <1>2, <2>1, <2>2, <2>3, BeforePhases, OutsideCycle
<1>7. CASE ReconcileFails
  <2>1. pc' \in {"gate", "idle"} BY <1>7 DEF ReconcileFails
  <2>2. entry' \in Entries /\ Kept(entry, entry')
    BY <1>7, InvFacts DEF ReconcileFails, UploadFailed, Entries, Kept
  <2>3. TypeOK' BY <1>7, <2>1, <2>2, InvFacts DEF ReconcileFails, TypeOK, Steps
  <2>4. Data' BY <1>1, <1>2, <1>7, <2>2, <2>3, InvFacts, DataKept DEF ReconcileFails
  <2> QED BY <1>1, <1>2, <2>1, <2>3, <2>4, BeforePhases, OutsideCycle
<1> QED BY <1>3, <1>4, <1>5, <1>6, <1>7 DEF Reconcile

\* The frozen view is the entry, if that is dirty.
LEMMA GateKeeps == ASSUME IInv, Gate PROVE IInv'
<1> USE DEF local, job, service
<1>1. /\ Enrolled \in Entries /\ Kept(entry, Enrolled) /\ Identity(Enrolled)
      /\ entry' = Enrolled
  BY InvFacts, EnrolledType DEF Gate
<1>2. view' \in Entries BY <1>1, NoEntryType DEF Gate
<1>3. TypeOK' BY <1>1, <1>2, InvFacts DEF Gate, TypeOK, Steps, Phases
<1>4. Data' BY <1>1, <1>3, InvFacts, DataKept DEF Gate
<1>5. pc' = "delete" /\ wire' = {} BY DEF Gate, IInv, OnWire
<1>6. Evidence' BY <1>4, <1>5 DEF Data, Evidence, Preparing, Executing
<1>7. OnWire' BY <1>4, <1>5 DEF Data, OnWire, Preparing, Phases
<1>8. Frozen'
  <2>1. Identity(entry)' /\ Identity(view)'
    BY <1>1, NoOpFacts DEF Gate, Identity
  <2>2. view'.dirty # "absent" => view' = entry' BY <1>1, NoOpFacts DEF Gate
  <2>3. view'.dirty = "absent" => PhaseOf(view'.dirty) \notin Phases
    BY PhaseValues DEF Phases
  <2>4. ASSUME NEW o \in issued', o.phase = "delete" PROVE view'.dirty = "delete"
    <3>1. entry'.dirty = "delete" BY <1>4, <2>4 DEF Data, Ledger, Owned
    <3> QED BY <1>1, <3>1 DEF Gate
  <2>5. Ahead(pc') = Phases BY <1>5, PhaseValues
  <2> QED BY <1>5, <2>1, <2>2, <2>3, <2>4, <2>5 DEF Frozen, Executing
<1>9. Prepared' BY <1>5 DEF Prepared, Preparing
<1> QED BY <1>3, <1>4, <1>6, <1>7, <1>8, <1>9, FromParts

\* Moving on to the next phase.
LEMMA AdvanceKeeps ==
    ASSUME TypeOK', Data', NEW p \in Phases, NEW e, Advances(p, e), e.dirty = entry'.dirty,
           view \in Entries, Identity(view),
           wire' = {} \/ entry'.error = "failed",
           PhaseOf(view.dirty) \in Ahead(NextPhase(p)) => view.photo = entry'.photo,
           \A o \in issued' : o.phase = "delete" => view.dirty = "delete"
    PROVE  IInv'
<1>1. /\ pc' = NextPhase(p)
      /\ view' = IF p = "create" \/ e.dirty = "absent" THEN NoEntry ELSE view
  BY DEF Advances
<1>2. Identity(view)' BY <1>1, NoOpFacts DEF Identity
<1>3. CASE p = "create"
  BY <1>1, <1>2, <1>3, PhaseValues, OutsideCycle
<1>4. CASE p \in {"delete", "modify"}
  <2>1. pc' \in {"modify", "create"} BY <1>1, <1>4, PhaseValues
  <2>2. Evidence' BY <2>1 DEF Data, Evidence, Preparing, Executing
  <2>3. OnWire' BY <2>1 DEF Data, OnWire, Preparing, Phases
  <2>4. Prepared' BY <2>1 DEF Prepared, Preparing
  <2>5. \A o \in issued' : o.phase = "delete" => view'.dirty = "delete"
    <3> SUFFICES ASSUME NEW o \in issued', o.phase = "delete" PROVE view'.dirty = "delete"
      OBVIOUS
    <3>1. entry'.dirty = "delete" BY DEF Data, Ledger, Owned
    <3> QED BY <1>1, <1>4, <3>1
  <2>6. PhaseOf(view'.dirty) \in Ahead(pc') => view'.photo = entry'.photo
    <3>1. CASE e.dirty = "absent"
      BY <1>1, <3>1, NoOpFacts DEF Data, Identity
    <3>2. CASE e.dirty # "absent" BY <1>1, <1>4, <3>2
    <3> QED BY <3>1, <3>2
  <2>7. Frozen' BY <1>2, <2>1, <2>5, <2>6 DEF Frozen, Data, Phases, Executing
  <2> QED BY <2>2, <2>3, <2>4, <2>7, FromParts
<1> QED BY <1>3, <1>4 DEF Phases

\* What is ahead of the next phase is ahead of this one.
LEMMA AheadShrinks ==
    ASSUME NEW p \in Phases, NEW q \in Ahead(NextPhase(p)), q # "idle"
    PROVE  q \in Ahead(p)
BY PhaseValues DEF Phases

\* No dirty state is dispatched outside the phases.
LEMMA PhaseNotIdle == \A e \in Entries : PhaseOf(e.dirty) # "idle"
BY PhaseValues DEF Entries

\* Moving on forgets the operation.
LEMMA AdvancesType ==
    ASSUME TypeOK, NEW p \in Phases, NEW e, Advances(p, e)
    PROVE  pc' \in Steps /\ view' \in Entries /\ op' \in Operations /\ op'.id = 0 /\ op'.photo = 0
<1>1. NextPhase(p) \in {"modify", "create", "idle"} BY PhaseValues DEF Phases
<1> QED BY <1>1, NoOpType, NoEntryType, NoOpFacts DEF Advances, TypeOK, Steps, Phases

\* Taking up, resuming and skipping the photo in a phase.
LEMMA PhaseKeeps == ASSUME IInv, Phase PROVE IInv'
<1> USE DEF local, job, service
<1>1. pc \in Phases BY DEF Phase, PhaseResumes, PhasePrepares, PhaseSkips
<1>2. CASE PhaseResumes
  <2>1. PICK o \in issued : /\ o.phase = pc /\ op' = o /\ pc' \in {"upload", "status"}
                            /\ pc' = "status" => o.body = "set"
    BY <1>2, InvFacts DEF PhaseResumes, TypeOK, Operations
  <2>2. TypeOK' BY <1>2, <2>1, InvFacts DEF PhaseResumes, TypeOK, Steps
  <2>3. wire = {} /\ wire' = {} BY <1>1, <1>2 DEF PhaseResumes, IInv, OnWire
  <2>4. op'.id <= ops /\ op'.photo <= ops BY <2>1 DEF IInv, Fresh
  <2>5. Data' BY <1>2, <2>2, <2>4, InvFacts, DataKept DEF PhaseResumes
  <2>6. Evidence' BY <1>2, <2>1, <2>5 DEF PhaseResumes, Evidence, Data, Preparing
  <2>7. OnWire' BY <2>1, <2>3 DEF OnWire, Phases
  <2>8. Frozen'
    <3>1. /\ view' = view /\ entry' = entry /\ issued' = issued BY <1>2 DEF PhaseResumes
    <3>2. PhaseOf(view.dirty) \in Ahead(NextPhase(pc)) => view.photo = entry.photo
      BY <1>1, AheadShrinks, PhaseNotIdle, InvFacts DEF IInv, Frozen
    <3>3. NextPhase(op'.phase) = NextPhase(pc) BY <2>1
    <3>4. pc' \in Executing /\ pc' \notin Phases BY <2>1 DEF Executing, Phases
    <3>5. \A x \in issued' : x.phase = "delete" => view'.dirty = "delete"
      BY <1>1, <3>1 DEF IInv, Frozen
    <3>6. Identity(entry)' /\ Identity(view)' BY <3>1, InvFacts DEF Identity
    <3> QED BY <3>1, <3>2, <3>3, <3>4, <3>5, <3>6 DEF Frozen, Phases
  <2>9. Prepared' BY <2>1 DEF Prepared, Preparing
  <2> QED BY <2>2, <2>5, <2>6, <2>7, <2>8, <2>9, FromParts
<1>3. CASE PhasePrepares
  <2>1. /\ pc' = "prepare" /\ op' = [NoOp EXCEPT !.phase = pc] /\ issued = {}
        /\ UNCHANGED <<local, entry, issued, ops, job, epoch, view, service>>
    BY <1>3 DEF PhasePrepares
  <2>2. op' \in Operations /\ op'.phase = pc /\ op'.id = 0 /\ op'.photo = 0
    BY <1>1, <2>1, NoOpType, NoOpFacts DEF Operations
  <2>3. TypeOK' BY <2>1, <2>2, InvFacts DEF TypeOK, Steps
  <2>4. Data' BY SMTT(60), <2>1, <2>2, <2>3, InvFacts, DataKept
  <2>5. wire' = {} BY <1>1, <1>3 DEF PhasePrepares, IInv, OnWire
  <2>6. Evidence' BY <2>1, <2>4 DEF Evidence, Data, Executing
  <2>7. OnWire' BY <2>1, <2>5 DEF OnWire, Phases
  <2>8. Frozen' BY <2>1, InvFacts DEF Frozen, Identity, Phases, Executing
  <2>9. Prepared'
    <3>1. PhaseOf(view.dirty) = pc /\ entry.dirty \notin {"absent", "clean"}
      BY <1>3 DEF PhasePrepares, Dispatchable, matches_phase, Current
    <3>2. pc \in Ahead(pc) BY <1>1, PhaseValues DEF Phases
    <3>3. view.photo = entry.photo BY <1>1, <3>1, <3>2 DEF IInv, Frozen
    <3>4. pc = "delete" => view.dirty = "delete"
      BY <3>1, PhaseValues, InvFacts DEF Entries
    <3>5. pc = "delete" => entry.dirty = "delete" BY <3>4 DEF IInv, Frozen
    <3> QED BY <1>1, <2>1, <2>2, <3>1, <3>3, <3>5 DEF Prepared
  <2> QED BY <2>3, <2>4, <2>6, <2>7, <2>8, <2>9, FromParts
<1>4. CASE PhaseSkips
  <2>1. Advances(pc, entry) /\ UNCHANGED <<local, entry, issued, ops, job, epoch, service>>
    BY <1>4 DEF PhaseSkips
  <2>2. pc' \in Steps /\ view' \in Entries /\ op' \in Operations /\ op'.id = 0 /\ op'.photo = 0
    BY <1>1, <2>1, InvFacts, AdvancesType
  <2>3. TypeOK' BY <2>1, <2>2, InvFacts DEF TypeOK
  <2>4. Data' BY SMTT(60), <2>1, <2>2, <2>3, InvFacts, DataKept
  <2>5. wire' = {} \/ entry'.error = "failed"
    BY <1>1, <2>1, InvFacts DEF IInv, OnWire, Entries
  <2>6. PhaseOf(view.dirty) \in Ahead(NextPhase(pc)) => view.photo = entry'.photo
    BY <1>1, <2>1, AheadShrinks, PhaseNotIdle, InvFacts DEF IInv, Frozen
  <2>7. \A o \in issued' : o.phase = "delete" => view.dirty = "delete"
    BY <1>1, <2>1 DEF IInv, Frozen
  <2> QED BY <1>1, <2>1, <2>3, <2>4, <2>5, <2>6, <2>7, InvFacts, AdvanceKeeps
<1> QED BY <1>2, <1>3, <1>4 DEF Phase

\* The dirty state behind each phase.
LEMMA DispatchedAs ==
    \A e \in Entries : /\ PhaseOf(e.dirty) = "delete" => e.dirty = "delete"
                       /\ PhaseOf(e.dirty) = "modify" => e.dirty = "modified"
                       /\ PhaseOf(e.dirty) = "create" => e.dirty = "new"
BY PhaseValues DEF Entries

\* An entry that does not change keeps its identity.
LEMMA SameEntry == ASSUME IInv, entry' = entry PROVE Identity(entry)'
BY InvFacts DEF Identity

\* Preparing an operation up to its evidence.
LEMMA PrepareKeeps == ASSUME IInv, Prepare PROVE IInv'
<1> USE DEF local, job, service
<1>1. /\ pc \in Preparing /\ issued = {} /\ wire = {}
      /\ op.phase \in Phases /\ op.phase = PhaseOf(view.dirty)
      /\ view.photo = entry.photo /\ entry.dirty # "absent"
      /\ op.phase = "delete" => entry.dirty = "delete"
  BY DEF Prepare, PrepareDefers, PrepareAbsent, PrepareCaptures, PrepareSnapshots, PrepareSaves,
         Preparing, IInv, Evidence, OnWire, Prepared
<1>2. CASE PrepareDefers
  <2>1. /\ Advances(op.phase, entry) /\ UNCHANGED <<local, entry, issued, ops, job, epoch, service>>
    BY <1>2 DEF PrepareDefers
  <2>2. pc' \in Steps /\ view' \in Entries /\ op' \in Operations /\ op'.id = 0 /\ op'.photo = 0
    BY <1>1, <2>1, InvFacts, AdvancesType
  <2>3. TypeOK' BY <2>1, <2>2, InvFacts DEF TypeOK
  <2>4. Data'
    <3>1. Kept(entry, entry') BY <2>1 DEF Kept
    <3>2. op'.id <= ops /\ op'.photo <= ops BY SMTT(60), <2>2, InvFacts
    <3> QED BY <2>1, <2>3, <3>1, <3>2, DataKept
  <2> QED BY <1>1, <2>1, <2>3, <2>4, InvFacts, AdvanceKeeps
<1>3. CASE PrepareAbsent
  <2>1. /\ Advances("delete", NoEntry) /\ entry' = NoEntry /\ entry.photo = 0
        /\ UNCHANGED <<local, issued, ops, job, epoch, service>>
    BY <1>3 DEF PrepareAbsent
  <2>2. pc' \in Steps /\ view' \in Entries /\ op' \in Operations /\ op'.id = 0 /\ op'.photo = 0
    BY <2>1, InvFacts, AdvancesType DEF Phases
  <2>3. TypeOK' BY <2>1, <2>2, InvFacts, NoEntryType DEF TypeOK
  <2>4. cloud = {} BY <1>1, <2>1 DEF IInv, Ledger
  <2>5. Data'
    <3>1. Fresh' BY <1>1, <2>1, <2>2, <2>4, NoOpFacts, InvFacts DEF IInv, Fresh
    <3>2. OneIssued' /\ PublishedOnce' BY <1>1, <2>1, <2>4 DEF OneIssued, PublishedOnce
    <3>3. Ledger' BY <1>1, <2>1, <2>4, NoOpFacts DEF Ledger
    <3>4. Identity(entry)' BY <2>1, NoOpFacts DEF Identity
    <3> QED BY <1>1, <2>1, <3>1, <3>2, <3>3, <3>4 DEF Data
  <2>6. "delete" \in Phases /\ NoEntry.dirty = entry'.dirty /\ view.photo = entry'.photo
    BY <1>1, <2>1, NoOpFacts DEF Phases
  <2>7. issued' = {} /\ wire' = {} /\ view \in Entries /\ Identity(view)
    BY <1>1, <2>1, InvFacts
  <2>8. Advances("delete", NoEntry) BY <2>1
  <2> HIDE DEF local, job, service
  <2> QED BY <2>3, <2>5, <2>6, <2>7, <2>8, AdvanceKeeps
<1>4. CASE PrepareCaptures
  <2>1. /\ ops' = ops + 1 /\ pc' \in {"snapshot", "save"}
        /\ UNCHANGED <<local, entry, issued, job, epoch, view, service>>
        /\ ~NeverPublished
    BY <1>4 DEF PrepareCaptures
  <2>2. /\ op'.id = ops + 1 /\ op'.phase = op.phase
        /\ op'.photo = IF view.photo = 0 THEN ops + 1 ELSE view.photo
        /\ op'.sendMeta = IF op.phase = "create" \/ has_metadata_change(view) THEN "yes" ELSE "no"
        /\ op'.sendContent = IF NeedsContent THEN "yes" ELSE "no"
    BY <1>4 DEF PrepareCaptures
  <2>3. op' \in Operations
    <3> DEFINE meta == IF op.phase = "create" \/ has_metadata_change(view) THEN "yes" ELSE "no"
               content == IF NeedsContent THEN "yes" ELSE "no"
               fav == IF entry.media = "row" THEN row.fav ELSE 0
               body == IF op.phase = "delete" THEN "set" ELSE "null"
    <3>1. meta \in YesNo /\ content \in YesNo /\ body \in {"null", "set"} BY DEF YesNo
    <3>2. fav \in 0..1 BY SMTT(60), InvFacts DEF TypeOK, Rows
    <3>3. op' = [id |-> ops + 1, phase |-> op.phase, config |-> epoch,
                 local |-> view.local, meta |-> view.meta, content |-> view.content,
                 photo |-> IF view.photo = 0 THEN ops + 1 ELSE view.photo,
                 body |-> body, sendMeta |-> meta, sendContent |-> content,
                 fav |-> fav, bytes |-> 0]
      BY <1>4 DEF PrepareCaptures
    <3> HIDE DEF meta, content, fav, body
    <3> QED BY SMTT(60), <1>1, <3>1, <3>2, <3>3, InvFacts DEF TypeOK, Operations, Entries
  <2>4. TypeOK'
    <3>1. pc' \in Steps /\ ops' \in Nat BY SMTT(60), <2>1, InvFacts DEF TypeOK, Steps
    <3> QED BY <2>1, <2>3, <3>1, InvFacts DEF TypeOK
  <2>5. Data'
    <3>1. Fresh'
      <4>1. ops \in Nat /\ ops' = ops + 1 /\ entry.photo \in Nat /\ view.photo = entry.photo
        BY <1>1, <2>1, InvFacts DEF Entries
      <4>2. entry.photo <= ops BY DEF IInv, Fresh
      <4>3. entry'.photo <= ops' BY SMTT(60), <2>1, <4>1, <4>2
      <4>4. op'.id <= ops' /\ op'.photo <= ops' BY SMTT(60), <2>2, <4>1, <4>2
      <4>5. \A c \in cloud : c.photo \in Nat /\ c.photo <= ops
        BY InvFacts DEF IInv, Fresh, TypeOK, Records
      <4>6. \A c \in cloud' : c.photo <= ops' BY SMTT(60), <2>1, <4>1, <4>5
      <4>7. \A i \in done : i \in Nat /\ i <= ops BY InvFacts DEF IInv, Fresh, TypeOK
      <4>8. \A i \in done' : i <= ops' BY SMTT(60), <2>1, <4>1, <4>7
      <4> QED BY <1>1, <2>1, <4>3, <4>4, <4>6, <4>8 DEF Fresh
    <3>2. OneIssued' /\ PublishedOnce' BY <2>1 DEF IInv, OneIssued, PublishedOnce
    <3>3. Ledger' BY <1>1, <2>1 DEF IInv, Ledger, Holds
    <3>4. Identity(entry)' BY <2>1, SameEntry
    <3> QED BY <1>1, <2>1, <3>1, <3>2, <3>3, <3>4 DEF Data
  <2>6. Evidence' BY <1>1, <2>1 DEF Evidence, Executing
  <2>7. OnWire' BY <1>1, <2>1 DEF OnWire, Phases
  <2>8. Frozen' BY <2>1, InvFacts DEF Frozen, Identity, Phases, Executing
  <2>9. Prepared'
    <3>1. op'.id \notin done
      BY SMTT(60), <2>2, InvFacts DEF IInv, Fresh, TypeOK
    <3>2. op.phase = "create" => NeedsContent BY DEF NeedsContent
    <3>3. op.phase = "modify" => view.photo # 0
      BY <1>1, DispatchedAs, InvFacts DEF Identity
    <3>4. op.phase # "create" => view.photo # 0
      BY <1>1, <2>1, <3>3 DEF NeverPublished, Phases
    <3>5. op'.photo # 0 /\ (op.phase # "create" => op'.photo = entry.photo)
      BY SMTT(60), <1>1, <2>2, <3>4, InvFacts
    <3> QED BY <1>1, <2>1, <2>2, <3>1, <3>2, <3>5 DEF Prepared
  <2> QED BY <2>4, <2>5, <2>6, <2>7, <2>8, <2>9, FromParts
<1>5. CASE PrepareSnapshots
  <2>1. /\ pc = "snapshot" /\ pc' = "save" /\ op' = [op EXCEPT !.bytes = file]
        /\ UNCHANGED <<local, entry, issued, ops, job, epoch, view, service>>
    BY <1>5 DEF PrepareSnapshots
  <2>2. /\ op' \in Operations /\ op'.id = op.id /\ op'.photo = op.photo /\ op'.phase = op.phase
        /\ op'.sendMeta = op.sendMeta /\ op'.sendContent = op.sendContent
    BY <2>1, InvFacts DEF TypeOK, Operations
  <2>3. TypeOK' BY <2>1, <2>2, InvFacts DEF TypeOK, Steps
  <2>4. Data' BY <2>1, <2>2, <2>3, InvFacts, DataKept
  <2>5. Evidence' BY <1>1, <2>1 DEF Evidence, Executing
  <2>6. OnWire' BY <1>1, <2>1 DEF OnWire, Phases
  <2>7. Frozen' BY <2>1, InvFacts DEF Frozen, Identity, Phases, Executing
  <2>8. Prepared' BY SMTT(60), <1>1, <2>1, <2>2 DEF IInv, Prepared
  <2> QED BY <2>3, <2>4, <2>5, <2>6, <2>7, <2>8, FromParts
<1>6. CASE PrepareSaves
  <2>1. /\ pc = "save" /\ pc' \in {"upload", "status"} /\ issued' = {op}
        /\ entry.dirty \notin {"absent", "clean"}
        /\ pc' = "status" => op.body = "set"
        /\ UNCHANGED <<local, entry, ops, job, epoch, view, op, service>>
    BY <1>1, <1>6, InvFacts DEF PrepareSaves, Current, TypeOK, Operations
  <2>2. TypeOK' BY <2>1, InvFacts DEF TypeOK, Steps
  <2>3. /\ op.id \notin done /\ op.photo # 0
        /\ op.phase # "create" => op.photo = entry.photo
        /\ op.phase = "create" => op.sendMeta = "yes" /\ op.sendContent = "yes"
    BY <2>1 DEF IInv, Prepared
  <2>4. op.phase = "create" => view.photo = 0
    BY <1>1, DispatchedAs, InvFacts DEF Identity
  <2>5. Owned(op)'
    <3>1. IF entry.photo = 0 THEN cloud = {} ELSE Holds(entry.photo)
      BY <1>1 DEF IInv, Ledger
    <3>2. Owned(op)
      BY <1>1, <2>1, <2>3, <2>4, <3>1, InvFacts DEF Owned, Identity, Phases, Entries
    <3> QED BY <2>1, <3>2 DEF Owned, Holds
  <2>6. Data'
    <3>1. Fresh' BY <1>1, <2>1 DEF IInv, Fresh
    <3>2. OneIssued' /\ PublishedOnce' BY <2>1 DEF IInv, OneIssued, PublishedOnce
    <3>3. Ledger' BY <2>1, <2>5 DEF Ledger
    <3>4. Identity(entry)' BY <2>1, SameEntry
    <3> QED BY <1>1, <2>1, <2>3, <3>1, <3>2, <3>3, <3>4 DEF Data
  <2>7. Evidence' BY <2>1, <2>6 DEF Evidence, Preparing, Data
  <2>8. OnWire' BY <1>1, <2>1 DEF OnWire, Phases
  <2>9. Frozen'
    <3>1. op.phase = "delete" => view.dirty = "delete"
      BY <1>1, DispatchedAs, InvFacts
    <3> QED BY <1>1, <2>1, <3>1, InvFacts DEF Frozen, Identity, Phases
  <2>10. Prepared' BY <2>1 DEF Prepared, Preparing
  <2> QED BY <2>2, <2>6, <2>7, <2>8, <2>9, <2>10, FromParts
<1> QED BY <1>2, <1>3, <1>4, <1>5, <1>6 DEF Prepare

\* What is known of the operation under execution.
LEMMA ExecutingFacts ==
    ASSUME IInv, pc \in Executing
    PROVE  /\ op \in issued /\ op.phase \in Phases /\ Owned(op)
           /\ issued \ {op} = {}
           /\ \A o \in issued : o.phase = "delete" => view.dirty = "delete"
           /\ PhaseOf(view.dirty) \in Ahead(NextPhase(op.phase)) => view.photo = entry.photo
<1>1. op \in issued /\ Owned(op) BY DEF IInv, Evidence, Ledger
<1>2. op.phase \in Phases BY <1>1 DEF Owned, Phases
<1>3. issued \ {op} = {} BY <1>1, OnlyOne DEF IInv
<1> QED BY <1>1, <1>2, <1>3 DEF IInv, Frozen

\* Executing an operation whose evidence is saved.
LEMMA ExecuteKeeps == ASSUME IInv, Execute PROVE IInv'
<1> USE DEF local, job, service
<1>2. CASE ExecuteUploads
  <2>1. /\ pc = "upload" /\ pc' = "status" /\ op' = [op EXCEPT !.body = "set"]
        /\ issued' = (issued \ {op}) \union {op'}
        /\ UNCHANGED <<local, entry, ops, job, epoch, view, service>>
    BY <1>2 DEF ExecuteUploads
  <2>2. /\ op' \in Operations /\ op'.id = op.id /\ op'.photo = op.photo /\ op'.phase = op.phase
        /\ op'.sendMeta = op.sendMeta /\ op'.sendContent = op.sendContent /\ op'.body = "set"
    BY <2>1, InvFacts DEF TypeOK, Operations
  <2>3. pc \in Executing BY <2>1 DEF Executing
  <2>4. issued' = {op'} BY <2>1, <2>3, ExecutingFacts
  <2>5. TypeOK' BY <2>1, <2>2, <2>4, InvFacts DEF TypeOK, Steps
  <2>6. wire' = {} BY <2>1 DEF IInv, OnWire
  <2>7. Data'
    <3>1. Fresh'
      <4>1. op'.id <= ops /\ op'.photo <= ops BY <2>2, InvFacts
      <4> QED BY <2>1, <2>4, <2>6, <4>1 DEF IInv, Fresh
    <3>2. OneIssued' /\ PublishedOnce' BY <2>1, <2>4 DEF IInv, OneIssued, PublishedOnce
    <3>3. Owned(op)' BY SMTT(60), <2>1, <2>2, <2>3, ExecutingFacts DEF Owned, Holds
    <3>4. Ledger' BY <2>4, <3>3 DEF Ledger
    <3>5. Identity(entry)' BY <2>1, SameEntry
    <3> QED BY <2>2, <2>4, <2>6, <3>1, <3>2, <3>4, <3>5 DEF Data
  <2>8. Evidence' BY <2>1, <2>2, <2>4, <2>7 DEF Evidence, Data, Preparing
  <2>9. OnWire' BY <2>1, <2>6 DEF OnWire, Phases
  <2>10. Frozen'
    <3>1. Identity(entry)' /\ Identity(view)' BY <2>1, InvFacts DEF Identity
    <3>2. op'.phase = "delete" => view.dirty = "delete" BY <2>2, <2>3, ExecutingFacts
    <3>3. PhaseOf(view.dirty) \in Ahead(NextPhase(op'.phase)) => view.photo = entry.photo
      BY <2>2, <2>3, ExecutingFacts
    <3> QED BY <2>1, <2>4, <3>1, <3>2, <3>3 DEF Frozen, Phases
  <2>11. Prepared' BY <2>1 DEF Prepared, Preparing
  <2> QED BY <2>5, <2>7, <2>8, <2>9, <2>10, <2>11, FromParts
<1>3. CASE ExecuteSends
  <2>1. /\ pc = "status" /\ pc' = "sent" /\ wire' = wire \union {op} /\ op.id \notin done
        /\ UNCHANGED <<local, entry, issued, ops, job, epoch, view, op, cloud, done>>
    BY <1>3 DEF ExecuteSends
  <2>2. pc \in Executing BY <2>1 DEF Executing
  <2>3. wire' = {op} BY <2>1 DEF IInv, OnWire
  <2>4. TypeOK' BY <2>1, InvFacts DEF TypeOK, Steps
  <2>5. op.body = "set" BY <2>1 DEF IInv, Evidence
  <2>6. Data'
    <3>1. Fresh' BY <2>1, <2>3 DEF IInv, Fresh
    <3>2. OneIssued' /\ PublishedOnce' BY <2>1 DEF IInv, OneIssued, PublishedOnce
    <3>3. Ledger' BY <2>1 DEF IInv, Ledger, Owned, Holds
    <3>4. Identity(entry)' BY <2>1, SameEntry
    <3>5. op \in issued BY <2>2, ExecutingFacts
    <3> QED BY <2>1, <2>3, <2>5, <3>1, <3>2, <3>3, <3>4, <3>5 DEF IInv, Data, Evidence
  <2>7. Evidence' BY <2>1, <2>2, <2>5, <2>6, ExecutingFacts DEF Evidence, Data, Preparing
  <2>8. OnWire' BY <2>1, <2>3, <2>6 DEF OnWire, Data, Phases, Preparing
  <2>9. Frozen'
    <3>1. Identity(entry)' /\ Identity(view)' BY <2>1, InvFacts DEF Identity
    <3> QED BY <2>1, <2>2, <3>1, ExecutingFacts DEF Frozen, Phases
  <2>10. Prepared' BY <2>1 DEF Prepared, Preparing
  <2> QED BY <2>4, <2>6, <2>7, <2>8, <2>9, <2>10, FromParts
<1>4. CASE ExecuteConfirms
  <2>1. pc \in {"status", "sent"} BY <1>4 DEF ExecuteConfirms
  <2>2. /\ Confirm(op) /\ Advances(op.phase, entry')
        /\ op.id \in done \/ (pc = "status" /\ op.phase = "modify")
        /\ UNCHANGED <<file, contents, scan, missing, ops, job, epoch, service>>
    BY <1>4 DEF ExecuteConfirms, metadata_matches
  <2>3. pc \in Executing BY <2>1 DEF Executing
  <2>4. /\ op \in issued /\ op.phase \in Phases /\ Owned(op) /\ issued \ {op} = {}
    BY <2>3, ExecutingFacts
  <2>5. wire = {} BY <2>1, <2>2 DEF IInv, OnWire
  <2>6. pc' \in Steps /\ view' \in Entries /\ op' \in Operations /\ op'.id = 0 /\ op'.photo = 0
    BY <2>2, <2>4, InvFacts, AdvancesType
  <2>7. op'.id <= ops /\ op'.photo <= ops BY SMTT(60), <2>6, InvFacts
  <2>8. Data' /\ entry' \in Entries /\ row' \in Rows
    BY <2>2, <2>4, <2>5, <2>7, ConfirmKeepsData
  <2>9. issued' = {} /\ entry' = Confirmed(entry, op) BY <2>2, <2>4 DEF Confirm
  <2>10. TypeOK' BY <2>2, <2>6, <2>8, <2>9, InvFacts DEF TypeOK
  <2>11. PhaseOf(view.dirty) \in Ahead(NextPhase(op.phase)) => view.photo = entry'.photo
    <3>1. CASE op.phase = "delete"
      <4>1. PhaseOf(view.dirty) = "delete" BY <2>3, <3>1, ExecutingFacts, PhaseValues
      <4>2. Ahead(NextPhase(op.phase)) = {"modify", "create"} BY <3>1, PhaseValues
      <4> QED BY <4>1, <4>2
    <3>2. CASE op.phase = "modify"
      <4>1. entry'.photo = op.photo BY <2>9, <3>2, InvFacts, ConfirmedPublish DEF TypeOK
      <4>2. entry.photo = op.photo BY <2>4, <3>2 DEF Owned
      <4> QED BY <2>3, <4>1, <4>2, ExecutingFacts
    <3>3. CASE op.phase = "create"
      <4>1. Ahead(NextPhase(op.phase)) = {"idle"} BY <3>3, PhaseValues
      <4> QED BY <4>1, PhaseNotIdle, InvFacts
    <3>4. op.phase \in {"delete", "modify", "create"} BY <2>4 DEF Phases
    <3> QED BY <3>1, <3>2, <3>3, <3>4
  <2>12. view \in Entries /\ Identity(view) BY InvFacts
  <2>13. wire' = {} BY <2>2, <2>5
  <2> QED
    BY <2>2, <2>4, <2>8, <2>9, <2>10, <2>11, <2>12, <2>13, AdvanceKeeps
<1>5. CASE ExecuteRejected
  <2>1. /\ pc = "rejected" /\ issued' = issued \ {op} /\ Advances(op.phase, entry)
        /\ entry' = [entry EXCEPT !.error = "failed"]
        /\ UNCHANGED <<local, ops, job, epoch, service>>
    BY <1>5 DEF ExecuteRejected, UploadFailed
  <2>2. pc \in Executing BY <2>1 DEF Executing
  <2>3. wire = {} /\ op.id \notin done BY <2>1 DEF IInv, OnWire, Evidence
  <2>4. pc' \in Steps /\ view' \in Entries /\ op' \in Operations /\ op'.id = 0 /\ op'.photo = 0
    BY <2>1, <2>2, ExecutingFacts, InvFacts, AdvancesType
  <2>5. /\ entry' \in Entries /\ Kept(entry, entry')
        /\ entry'.dirty = entry.dirty /\ entry'.photo = entry.photo
    BY <2>1, InvFacts DEF Entries, Kept
  <2>6. TypeOK' BY <2>1, <2>4, <2>5, InvFacts DEF TypeOK
  <2>7. Data' BY SMTT(60), <2>1, <2>2, <2>3, <2>4, <2>5, <2>6, ExecutingFacts, InvFacts, RetireUncommitted
  <2> QED BY <2>1, <2>2, <2>3, <2>5, <2>6, <2>7, ExecutingFacts, InvFacts, AdvanceKeeps
<1>6. CASE ExecuteFails
  <2>1. /\ pc \in Preparing \union Executing /\ Advances(op.phase, entry)
        /\ entry' = [entry EXCEPT !.error = "failed"]
        /\ UNCHANGED <<local, issued, ops, job, epoch, service>>
    BY <1>6 DEF ExecuteFails, UploadFailed, Preparing, Executing
  <2>2. /\ op.phase \in Phases
        /\ \A o \in issued : o.phase = "delete" => view.dirty = "delete"
        /\ PhaseOf(view.dirty) \in Ahead(NextPhase(op.phase)) => view.photo = entry.photo
    BY <2>1, ExecutingFacts DEF IInv, Prepared, Evidence
  <2>3. pc' \in Steps /\ view' \in Entries /\ op' \in Operations /\ op'.id = 0 /\ op'.photo = 0
    BY <2>1, <2>2, InvFacts, AdvancesType
  <2>4. /\ entry' \in Entries /\ Kept(entry, entry') /\ entry'.error = "failed"
        /\ entry'.dirty = entry.dirty /\ entry'.photo = entry.photo
    BY <2>1, InvFacts DEF Entries, Kept
  <2>5. TypeOK' BY <2>1, <2>3, <2>4, InvFacts DEF TypeOK
  <2>6. Data' BY SMTT(60), <2>1, <2>3, <2>4, <2>5, InvFacts, DataKept
  <2> QED BY <2>1, <2>2, <2>4, <2>5, <2>6, InvFacts, AdvanceKeeps
<1> QED BY <1>2, <1>3, <1>4, <1>5, <1>6 DEF Execute

(***************************************************************************)
(* The service.                                                            *)
(***************************************************************************)
\* The record an operation leaves has the operation's identity.
LEMMA WrittenType ==
    ASSUME TypeOK, NEW o \in Operations,
           Holds(o.photo) \/ (o.sendMeta = "yes" /\ o.sendContent = "yes")
    PROVE  Written(o) \in Records /\ Written(o).photo = o.photo
<1> DEFINE old == CHOOSE c \in cloud : c.photo = o.photo
           fav == IF o.sendMeta = "yes" THEN o.fav ELSE old.fav
           content == IF o.sendContent = "yes" THEN o.bytes ELSE old.content
<1>1. Holds(o.photo) => old \in Records BY DEF Holds, TypeOK
<1> HIDE DEF old
<1>2. fav \in 0..1 /\ content \in Nat BY <1>1 DEF Records, Operations
<1>3. Written(o) = [photo |-> o.photo, fav |-> fav, content |-> content]
  BY DEF Written, old
<1> HIDE DEF fav, content
<1> QED BY SMTT(60), <1>2, <1>3 DEF Records, Operations

\* The service commits the one operation on the wire.
LEMMA ServiceCommitsKeeps == ASSUME IInv, ServiceCommits PROVE IInv'
<1> USE DEF local, job, cycle
<1>1. PICK o \in wire :
         /\ o.id \notin done /\ wire' = wire \ {o} /\ done' = done \union {o.id}
         /\ cloud' = {c \in cloud : c.photo # o.photo}
                     \union (IF o.phase = "delete" THEN {} ELSE {Written(o)})
  BY DEF ServiceCommits
<1>2. UNCHANGED <<local, entry, issued, ops, job, cycle>> BY DEF ServiceCommits
<1>3. /\ o \in issued /\ o \in Operations /\ o.body = "set" /\ Owned(o) /\ o.id \in Nat
      /\ \A x \in issued : x = o
  BY DEF IInv, OnWire, Ledger, TypeOK, OneIssued, Operations
<1>4. wire' = {} BY <1>1, <1>3 DEF IInv, OnWire
<1>5. \A c \in cloud : c.photo = o.photo
  BY <1>1, <1>3 DEF Owned, Holds, IInv, PublishedOnce
<1>6. Written(o) \in Records /\ Written(o).photo = o.photo
  BY <1>1, <1>3, InvFacts, WrittenType DEF Owned
<1>7. /\ o.phase = "delete" => cloud' = {}
      /\ o.phase # "delete" => cloud' = {Written(o)}
  BY <1>1, <1>5
<1>8. TypeOK' BY <1>1, <1>2, <1>3, <1>4, <1>6, <1>7, InvFacts DEF TypeOK
<1>9. Data'
  <2>1. Fresh' BY <1>1, <1>2, <1>3, <1>4, <1>6, <1>7 DEF IInv, Fresh
  <2>2. OneIssued' /\ PublishedOnce' BY <1>2, <1>7 DEF IInv, OneIssued, PublishedOnce
  <2>3. Owned(o)' BY <1>1, <1>2, <1>3, <1>6, <1>7 DEF Owned, Holds
  <2>4. Ledger' BY <1>2, <1>3, <2>3 DEF Ledger
  <2>5. Identity(entry)' BY <1>2, InvFacts DEF Identity
  <2> QED BY <1>2, <1>3, <1>4, <2>1, <2>2, <2>4, <2>5 DEF Data
<1>10. pc \notin Preparing /\ pc \notin {"upload", "status", "rejected"}
  BY DEF IInv, OnWire
<1>11. Evidence' BY <1>2, <1>9, <1>10 DEF IInv, Evidence, Data
<1>12. OnWire' BY <1>4 DEF OnWire
<1>13. Frozen' BY <1>2 DEF IInv, Frozen, Identity
<1>14. Prepared' BY <1>2, <1>10 DEF Prepared, Preparing
<1> QED BY <1>8, <1>9, <1>11, <1>12, <1>13, <1>14, FromParts

\* It rejects it, which the cycle may or may not hear.
LEMMA ServiceRejectsKeeps == ASSUME IInv, ServiceRejects PROVE IInv'
<1> USE DEF local, job
<1>1. PICK o \in wire :
         /\ wire' = wire \ {o}
         /\ pc' = IF pc = "sent" /\ o = op THEN "rejected" ELSE pc
  BY DEF ServiceRejects
<1>2. UNCHANGED <<local, entry, issued, ops, job, epoch, view, op, cloud, done>>
  BY DEF ServiceRejects
<1>3. TypeOK' BY <1>1, <1>2, InvFacts DEF TypeOK, Steps
<1>4. Data' BY <1>1, <1>2, <1>3, InvFacts, DataKept
<1>5. CASE pc = "sent" /\ o = op
  <2>1. pc' = "rejected" /\ wire' = {} /\ op.id \notin done
    BY <1>1, <1>5 DEF IInv, OnWire
  <2>2. pc \in Executing /\ pc' \in Executing BY <1>5, <2>1 DEF Executing
  <2>3. Evidence' BY <1>2, <1>5, <2>1, <2>2, <1>4 DEF IInv, Evidence, Data, Preparing
  <2>4. OnWire' BY <2>1 DEF OnWire, Phases
  <2>5. Frozen' BY <1>2, <2>1, <2>2 DEF IInv, Frozen, Identity, Phases
  <2>6. Prepared' BY <2>1 DEF Prepared, Preparing
  <2> QED BY <1>3, <1>4, <2>3, <2>4, <2>5, <2>6, FromParts
<1>6. CASE ~(pc = "sent" /\ o = op)
  <2>1. pc' = pc BY <1>1, <1>6
  <2>2. Evidence' BY <1>2, <2>1 DEF IInv, Evidence
  <2>3. OnWire' BY <1>1, <1>2, <2>1 DEF IInv, OnWire
  <2>4. Frozen' BY <1>2, <2>1 DEF IInv, Frozen, Identity
  <2>5. Prepared' BY <1>2, <2>1 DEF IInv, Prepared
  <2> QED BY <1>3, <1>4, <2>2, <2>3, <2>4, <2>5, FromParts
<1> QED BY <1>5, <1>6

\* It never receives it.
LEMMA RequestLostKeeps == ASSUME IInv, RequestLost PROVE IInv'
<1> USE DEF local, job, cycle
<1>1. PICK o \in wire : wire' = wire \ {o} BY DEF RequestLost
<1>2. UNCHANGED <<local, entry, issued, ops, job, cycle, cloud, done>> BY DEF RequestLost
<1>3. TypeOK' BY <1>1, <1>2, InvFacts DEF TypeOK
<1>4. Data' BY <1>1, <1>2, <1>3, InvFacts, DataKept
<1>5. Evidence' BY <1>2 DEF IInv, Evidence
<1>6. OnWire' BY <1>1, <1>2 DEF IInv, OnWire
<1>7. Frozen' BY <1>2 DEF IInv, Frozen, Identity
<1>8. Prepared' BY <1>2 DEF IInv, Prepared
<1> QED BY <1>3, <1>4, <1>5, <1>6, <1>7, <1>8, FromParts

(***************************************************************************)
(* The theorems.                                                           *)
(***************************************************************************)
\* The invariant holds at first.
LEMMA InitHolds == Init => IInv
<1> SUFFICES ASSUME Init PROVE IInv OBVIOUS
<1>1. TypeOK BY SMTT(60), NoOpType, NoEntryType DEF Init, TypeOK, Rows, NoRow, YesNo, Steps
<1>2. Fresh BY SMTT(60), NoOpFacts DEF Init, Fresh
<1>3. OneIssued /\ PublishedOnce BY DEF Init, OneIssued, PublishedOnce
<1>4. Evidence /\ OnWire BY DEF Init, Evidence, OnWire, Preparing, Executing, Phases
<1>5. Frozen BY NoOpFacts DEF Init, Frozen, Identity, Phases, Executing
<1>6. Prepared BY DEF Init, Prepared, Preparing
<1>7. Ledger BY NoOpFacts DEF Init, Ledger
<1> QED BY <1>1, <1>2, <1>3, <1>4, <1>5, <1>6, <1>7 DEF IInv

\* Every step keeps it.
LEMMA NextKeeps == IInv /\ [Next]_vars => IInv'
<1> SUFFICES ASSUME IInv, [Next]_vars PROVE IInv' OBVIOUS
<1>1. CASE UNCHANGED vars
  <2>1. UNCHANGED <<issued, ops, cycle, service>> /\ TypeOK' /\ entry' = entry
    BY <1>1, InvFacts DEF vars, local, job, cycle, service, TypeOK
  <2>2. KeptLocally(entry, entry') BY <2>1, InvFacts DEF KeptLocally
  <2> QED BY <2>1, <2>2, LocalStep
<1>2. CASE Library BY <1>2, LibraryKeeps
<1>3. CASE Configuration BY <1>3, ConfigurationKeeps
<1>4. CASE Cycle
  BY <1>4, BeginKeeps, AcquireKeeps, ReconcileKeeps, GateKeeps, PhaseKeeps, PrepareKeeps,
     ExecuteKeeps, AbandonKeeps DEF Cycle
<1>5. CASE Service
  BY <1>5, ServiceCommitsKeeps, ServiceRejectsKeeps, RequestLostKeeps DEF Service
<1> QED BY <1>1, <1>2, <1>3, <1>4, <1>5 DEF Next

(***************************************************************************)
(* A clean entry is published.                                             *)
(***************************************************************************)
\* What a step that settles no operation does to the entry: its acknowledgements
\* stay, its versions only grow, and with the same versions it stands for the same
\* row and file.
Follows ==
    /\ entry'.photo = entry.photo
    /\ entry'.ackedMeta = entry.ackedMeta /\ entry'.ackedContent = entry.ackedContent
    /\ entry.meta <= entry'.meta /\ entry.content <= entry'.content
    /\ entry'.dirty = "clean" =>
          entry.dirty = "clean" /\ entry'.meta = entry.meta /\ entry'.content = entry.content
    /\ Live' /\ entry.dirty # "absent" =>
          /\ Live
          /\ entry'.meta = entry.meta => row'.fav = row.fav
          /\ entry'.content = entry.content /\ row'.seen = file' => row.seen = file /\ file' = file

\* The versions of an entry and of an operation are numbers.
LEMMA Numbers ==
    ASSUME TypeOK
    PROVE  /\ entry.meta \in Nat /\ entry.content \in Nat /\ entry.local \in Nat
           /\ entry.ackedMeta \in Nat /\ entry.ackedContent \in Nat /\ entry.photo \in Nat
           /\ view.meta \in Nat /\ view.content \in Nat
           /\ view.ackedMeta \in Nat /\ view.ackedContent \in Nat
           /\ op.meta \in Nat /\ op.content \in Nat
           /\ \A o \in issued : o.meta \in Nat /\ o.content \in Nat
           /\ row.seen \in Nat /\ file \in Nat /\ scan \in Nat /\ contents \in Nat
BY DEF TypeOK, Entries, Operations, Rows

\* An operation that was true of its versions stays true.
LEMMA StaysTrue ==
    ASSUME TypeOK, TypeOK', Follows, entry.dirty # "absent", NEW o \in Operations, Versioned(o)
    PROVE  /\ Versioned(o)'
           /\ MetaTrue(o) => MetaTrue(o)'
           /\ ContentTrue(o) => ContentTrue(o)'
<1>1. /\ entry.meta \in Nat /\ entry.content \in Nat /\ entry'.meta \in Nat /\ entry'.content \in Nat
      /\ entry.ackedMeta \in Nat /\ entry.ackedContent \in Nat
      /\ o.meta \in Nat /\ o.content \in Nat
  BY DEF TypeOK, Entries, Operations
<1>2. Versioned(o)' BY SMTT(60), <1>1 DEF Versioned, Follows
<1>3. MetaTrue(o) => MetaTrue(o)'
  <2> SUFFICES ASSUME MetaTrue(o), Live', o.phase # "delete", o.sendMeta = "yes"
               PROVE  /\ o.meta = entry'.meta => o.fav = row'.fav
                      /\ o.phase = "modify" => entry'.ackedMeta < entry'.meta
    BY DEF MetaTrue
  <2>1. Live BY DEF Follows
  <2>2. o.meta = entry'.meta => entry'.meta = entry.meta BY SMTT(60), <1>1 DEF Follows, Versioned
  <2> QED BY SMTT(60), <1>1, <2>1, <2>2 DEF MetaTrue, Follows
<1>4. ContentTrue(o) => ContentTrue(o)'
  <2> SUFFICES ASSUME ContentTrue(o), Live', o.phase # "delete", o.sendContent = "yes"
               PROVE  /\ o.content = entry'.content /\ row'.seen = file' => o.bytes = file'
                      /\ o.phase = "modify" => entry'.ackedContent < entry'.content
    BY DEF ContentTrue
  <2>1. Live BY DEF Follows
  <2>2. o.content = entry'.content => entry'.content = entry.content BY SMTT(60), <1>1 DEF Follows, Versioned
  <2>3. o.content = entry'.content /\ row'.seen = file' => o.bytes = file'
    BY <2>1, <2>2 DEF ContentTrue, Follows
  <2>4. o.phase = "modify" => entry.ackedContent < entry.content BY <2>1 DEF ContentTrue
  <2>5. entry'.ackedContent = entry.ackedContent /\ entry.content <= entry'.content BY DEF Follows
  <2> QED BY SMTT(60), <1>1, <2>3, <2>4, <2>5
<1> QED BY <1>2, <1>3, <1>4

\* What is issued belongs to an entry.
LEMMA IssuedHasEntry ==
    ASSUME IInv
    PROVE  /\ issued # {} => entry.dirty # "absent"
           /\ pc \in Preparing => entry.dirty # "absent"
BY DEF IInv, Ledger, Owned, Prepared

\* A step that settles nothing and leaves the cloud keeps the agreement.
LEMMA FollowsData ==
    ASSUME IInv, TypeOK', SyncedData, Follows, Linked', issued' \subseteq issued,
           UNCHANGED <<cloud, done>>
    PROVE  SyncedData'
<1>1. TypeOK BY DEF IInv
<1>2. Counted'
  BY SMTT(60), <1>1 DEF SyncedData, Counted, Follows, TypeOK, Entries
<1>3. Acknowledged'
  <2> SUFFICES ASSUME Live', entry'.photo # 0, NEW c \in cloud
               PROVE  /\ entry'.meta <= entry'.ackedMeta => c.fav = row'.fav
                      /\ entry'.content <= entry'.ackedContent /\ row'.seen = file'
                            => c.content = file'
    BY DEF Acknowledged
  <2>1. entry.dirty # "absent" /\ entry.photo # 0 BY DEF Follows, IInv, Frozen, Identity
  <2>2. Live BY <2>1 DEF Follows
  <2>3. /\ entry.meta <= entry.ackedMeta => c.fav = row.fav
        /\ entry.content <= entry.ackedContent /\ row.seen = file => c.content = file
    BY <2>1, <2>2 DEF SyncedData, Acknowledged
  <2>4. /\ entry'.meta <= entry'.ackedMeta => entry'.meta = entry.meta /\ entry.meta <= entry.ackedMeta
        /\ entry'.content <= entry'.ackedContent =>
              entry'.content = entry.content /\ entry.content <= entry.ackedContent
    BY SMTT(60), <1>1 DEF SyncedData, Counted, Follows, TypeOK, Entries
  <2> QED BY <2>1, <2>3, <2>4 DEF Follows
<1>4. ASSUME NEW o \in issued'
      PROVE  (Versioned(o) /\ MetaTrue(o) /\ ContentTrue(o) /\ Landed(o))'
  <2>1. Versioned(o) /\ MetaTrue(o) /\ ContentTrue(o) /\ Landed(o) BY DEF SyncedData
  <2>2. o \in Operations /\ entry.dirty # "absent" BY <1>1, IssuedHasEntry DEF TypeOK
  <2>3. Landed(o)' BY <2>1 DEF Landed
  <2> QED BY <1>1, <2>1, <2>2, <2>3, StaysTrue
<1> QED BY <1>2, <1>3, <1>4 DEF SyncedData

\* The view stays behind an entry that only moves on.
LEMMA StaysBehind ==
    ASSUME TypeOK, TypeOK', Follows, Behind, view' = view
    PROVE  Behind'
BY SMTT(60) DEF Behind, Follows, TypeOK, Entries

\* A step outside the cycle keeps all of it.
LEMMA FollowsKeeps ==
    ASSUME IInv, TypeOK', Synced, Follows, Linked', UNCHANGED <<issued, cycle, cloud, done>>
    PROVE  Synced'
<1> USE DEF cycle
<1>1. TypeOK BY DEF IInv
<1>2. SyncedData' BY FollowsData DEF Synced
<1>3. ViewBehind'
  <2>1. Behind => Behind' BY <1>1, StaysBehind
  <2> QED BY <2>1 DEF Synced, ViewBehind
<1>4. Drafted'
  <2>1. op \in Operations /\ op' = op /\ pc' = pc BY <1>1 DEF TypeOK
  <2>2. CASE pc \in {"snapshot", "save"}
    <3>1. entry.dirty # "absent" BY <2>2, IssuedHasEntry DEF Preparing
    <3>2. Versioned(op) /\ MetaTrue(op) BY <2>2 DEF Synced, Drafted
    <3>3. Versioned(op)' /\ MetaTrue(op)' /\ (ContentTrue(op) => ContentTrue(op)')
      <4>1. ASSUME NEW o \in Operations, Versioned(o)
            PROVE  /\ Versioned(o)'
                   /\ MetaTrue(o) => MetaTrue(o)'
                   /\ ContentTrue(o) => ContentTrue(o)'
        BY <1>1, <3>1, <4>1, StaysTrue
      <4>2. ASSUME NEW o \in Operations, o = op
            PROVE  /\ Versioned(o) <=> Versioned(op)
                   /\ MetaTrue(o) <=> MetaTrue(op)
                   /\ ContentTrue(o) <=> ContentTrue(op)
                   /\ Versioned(o)' <=> Versioned(op)'
                   /\ MetaTrue(o)' <=> MetaTrue(op)'
                   /\ ContentTrue(o)' <=> ContentTrue(op)'
        BY <2>1, <4>2 DEF Versioned, MetaTrue, ContentTrue
      <4> QED BY <2>1, <3>2, <4>1, <4>2
    <3>4. pc = "snapshot" /\ Live' /\ op.phase = "modify" => entry'.ackedContent < entry'.content
      <4>1. Live' => Live BY <3>1 DEF Follows
      <4>2. pc = "snapshot" /\ Live /\ op.phase = "modify" => entry.ackedContent < entry.content
        BY DEF Synced, Drafted
      <4>3. entry'.ackedContent = entry.ackedContent /\ entry.content <= entry'.content BY DEF Follows
      <4>4. entry.content \in Nat /\ entry'.content \in Nat /\ entry.ackedContent \in Nat
        BY <1>1 DEF TypeOK, Entries
      <4> QED BY SMTT(60), <4>1, <4>2, <4>3, <4>4
    <3> QED BY <2>1, <2>2, <3>3, <3>4 DEF Synced, Drafted
  <2>3. CASE pc \notin {"snapshot", "save"} BY <2>1, <2>3 DEF Drafted
  <2> QED BY <2>2, <2>3
<1> QED BY <1>2, <1>3, <1>4 DEF Synced

\* What mark counts and what it leaves.
LEMMA MarkFields ==
    ASSUME NEW e \in Entries, NEW category \in Categories
    PROVE  /\ mark(e, category).dirty = Dirtied(e, category)
           /\ mark(e, category).local = e.local + 1
           /\ mark(e, category).meta = IF category = "metadata" THEN e.meta + 1 ELSE e.meta
           /\ mark(e, category).content = IF category = "content" THEN e.content + 1 ELSE e.content
           /\ mark(e, category).media = e.media /\ mark(e, category).photo = e.photo
           /\ mark(e, category).ackedMeta = e.ackedMeta
           /\ mark(e, category).ackedContent = e.ackedContent
BY SMTT(60) DEF mark, Entries

\* What a new entry starts with.
LEMMA NewFields ==
    /\ NewEntry.dirty = "new" /\ NewEntry.media = "row"
    /\ NewEntry.local = 0 /\ NewEntry.meta = 0 /\ NewEntry.content = 0
    /\ NewEntry.ackedMeta = 0 /\ NewEntry.ackedContent = 0 /\ NewEntry.photo = 0
    /\ NoEntry.dirty = "absent" /\ NoEntry.media = "none"
    /\ NoEntry.local = 0 /\ NoEntry.meta = 0 /\ NoEntry.content = 0
    /\ NoEntry.ackedMeta = 0 /\ NoEntry.ackedContent = 0 /\ NoEntry.photo = 0
BY SMTT(60) DEF NewEntry, NoEntry

\* What an ordinary change notes.
LEMMA NoteFields ==
    ASSUME entry \in Entries, Identity(entry), entry.dirty = "absent" => entry = NoEntry, CanNote,
           NEW category \in {"metadata", "content"}, entry' = note(category)
    PROVE  /\ entry'.dirty \in {"new", "modified", "delete"}
           /\ entry'.dirty = "delete" <=> entry.dirty = "delete"
           /\ entry'.media = "row" /\ entry'.photo = entry.photo
           /\ entry'.meta = IF category = "metadata" THEN entry.meta + 1 ELSE entry.meta
           /\ entry'.content = IF category = "content" THEN entry.content + 1 ELSE entry.content
           /\ entry'.ackedMeta = entry.ackedMeta /\ entry'.ackedContent = entry.ackedContent
<1> DEFINE e == IF entry.dirty = "absent" THEN NewEntry ELSE entry
<1>1. e \in Entries /\ entry' = mark(e, category) /\ category \in Categories
  BY NoEntryType DEF note, Categories
<1>2. /\ e.media = "row" /\ e.photo = entry.photo /\ e.meta = entry.meta
      /\ e.content = entry.content /\ e.ackedMeta = entry.ackedMeta
      /\ e.ackedContent = entry.ackedContent
      /\ e.dirty = "delete" <=> entry.dirty = "delete"
  BY NewFields DEF CanNote
<1>3. Dirtied(e, category) \in {"new", "modified", "delete"}
      /\ (Dirtied(e, category) = "delete" <=> e.dirty = "delete")
  BY DEF Dirtied
<1> HIDE DEF e
<1> QED BY SMTT(60), <1>1, <1>2, <1>3, MarkFields

\* A live entry's row holds a content that was written.
LEMMA LiveRow ==
    ASSUME Linked, Live
    PROVE  entry.media = "row" /\ row.loc # "none" /\ row.seen # 0 /\ row.seen <= contents
BY DEF Linked

\* The file changes, or is read.
LEMMA FilesKeep ==
    ASSUME IInv, TypeOK', Synced, UNCHANGED <<row, entry, issued, cycle, service>>,
           contents <= contents', file' <= contents', scan' <= contents',
           file' \in {file, 0} \/ contents < file'
    PROVE  Synced'
<1> USE DEF service
<1>1. TypeOK /\ Linked BY DEF IInv, Synced, SyncedData
<1>2. /\ row.seen \in Nat /\ contents \in Nat /\ contents' \in Nat /\ file' \in Nat
      /\ entry.meta \in Nat /\ entry.content \in Nat
  BY <1>1 DEF TypeOK, Entries, Rows
<1>3. Linked'
  <2>1. row.seen <= contents' BY SMTT(60), <1>1, <1>2 DEF Linked
  <2> QED BY <1>1, <2>1 DEF Linked, Live
<1>4. Live /\ row.seen = file' => file' = file BY SMTT(60), <1>1, <1>2, LiveRow
<1>5. entry.meta <= entry.meta /\ entry.content <= entry.content BY SMTT(60), <1>2
<1>6. Follows BY <1>4, <1>5 DEF Follows, Live
<1> QED BY <1>3, <1>6, FollowsKeeps

\* What an ordinary change notes, the view and the operations are behind of.
LEMMA NoteKeeps ==
    ASSUME IInv, TypeOK', Synced, NEW category \in {"metadata", "content"}, CanNote,
           entry' = note(category), row.loc # "none", row'.loc \in {row.loc, "both"},
           row'.seen # 0, row'.seen <= contents, scan' <= contents,
           category = "content" => row'.fav = row.fav,
           category = "metadata" => row'.seen = row.seen,
           UNCHANGED <<file, contents, issued, cycle, service>>
    PROVE  Synced'
<1> USE DEF service
<1>1. TypeOK /\ Linked /\ Identity(entry) /\ entry \in Entries
  BY InvFacts DEF Synced, SyncedData
<1>2. /\ entry.meta \in Nat /\ entry.content \in Nat BY <1>1 DEF Entries
<1>3. /\ entry'.dirty \in {"new", "modified", "delete"}
      /\ entry'.dirty = "delete" <=> entry.dirty = "delete"
      /\ entry'.media = "row" /\ entry'.photo = entry.photo
      /\ entry'.meta = IF category = "metadata" THEN entry.meta + 1 ELSE entry.meta
      /\ entry'.content = IF category = "content" THEN entry.content + 1 ELSE entry.content
      /\ entry'.ackedMeta = entry.ackedMeta /\ entry'.ackedContent = entry.ackedContent
  BY <1>1, NoteFields DEF Linked
<1>4. Linked'
  <2>1. entry.photo # 0 => row.loc \in {"both", "cloud"}
    BY <1>1 DEF Linked, CanNote, Identity
  <2>2. row'.loc # "none" /\ (entry'.photo # 0 => row'.loc \in {"both", "cloud"})
    BY <1>3, <2>1
  <2> QED BY <1>1, <1>3, <2>2 DEF Linked, Live
<1>5. /\ entry.meta <= entry'.meta /\ entry.content <= entry'.content
      /\ entry'.meta = entry.meta => category = "content"
      /\ entry'.content = entry.content => category = "metadata"
  BY SMTT(60), <1>2, <1>3
<1>6. Follows BY <1>3, <1>5 DEF Follows, Live
<1> QED BY <1>4, <1>6, FollowsKeeps

\* A step of the library that touches neither entry nor evidence.
LEMMA UnlinkedRow ==
    ASSUME IInv, TypeOK', Synced, entry' = entry, ~Live \/ row' = row,
           entry.media = "row" => row' = row,
           row'.loc # "none" => row'.seen # 0, row'.seen <= contents, scan' <= contents,
           UNCHANGED <<file, contents, issued, cycle, service>>
    PROVE  Synced'
<1> USE DEF service
<1>1. Linked /\ entry.meta \in Nat /\ entry.content \in Nat
  BY InvFacts DEF Synced, SyncedData, Entries
<1>2. Linked' BY <1>1 DEF Linked, Live
<1>3. entry.meta <= entry.meta /\ entry.content <= entry.content BY SMTT(60), <1>1
<1>4. Follows BY <1>3 DEF Follows, Live
<1> QED BY <1>2, <1>4, FollowsKeeps

\* A deletion is noted.
LEMMA DeletionNoted ==
    ASSUME IInv, TypeOK', Synced, entry'.dirty = "delete", entry'.photo = entry.photo,
           entry'.meta = entry.meta, entry'.content = entry.content,
           entry'.ackedMeta = entry.ackedMeta, entry'.ackedContent = entry.ackedContent,
           entry'.media = "row" => row'.loc = "cloud", entry'.media = "none" => entry.photo = 0,
           row'.loc # "none" => row'.seen # 0, row'.seen <= contents,
           UNCHANGED <<file, contents, scan, issued, cycle, service>>
    PROVE  Synced'
<1> USE DEF service
<1>1. Linked /\ entry.meta \in Nat /\ entry.content \in Nat
  BY InvFacts DEF Synced, SyncedData, Entries
<1>2. Linked'
  <2>1. entry.photo = 0 => \A o \in issued : o.phase # "delete"
    BY DEF IInv, Ledger, Owned
  <2> QED BY <1>1, <2>1 DEF Linked, Live
<1>3. entry.meta <= entry.meta /\ entry.content <= entry.content BY SMTT(60), <1>1
<1>4. Follows BY <1>3 DEF Follows, Live
<1> QED BY <1>2, <1>4, FollowsKeeps

\* Local changes keep the agreement.
LEMMA LibrarySynced ==
    ASSUME IInv, Synced, Library
    PROVE  Synced'
<1>1. TypeOK' /\ UNCHANGED <<issued, cycle, service>> BY LibraryLocal
<1>2. TypeOK /\ Linked /\ entry \in Entries /\ Identity(entry)
  BY InvFacts DEF Synced, SyncedData
<1>3. /\ row \in Rows /\ row.seen \in Nat /\ contents \in Nat /\ file \in Nat /\ scan \in Nat
      /\ file <= contents /\ scan <= contents /\ row.seen <= contents
  BY <1>2 DEF TypeOK, Rows, Linked
<1>4. CASE WriteFile
  <2>1. /\ contents' = contents + 1 /\ file' = contents + 1
        /\ UNCHANGED <<row, entry, issued, cycle, service>> /\ scan' = scan
    BY <1>1, <1>4 DEF WriteFile
  <2>2. /\ contents <= contents' /\ file' <= contents' /\ scan' <= contents' /\ contents < file'
    BY SMTT(60), <1>3, <2>1
  <2> QED BY <1>1, <2>1, <2>2, FilesKeep
<1>5. CASE RemoveFile \/ ScanReads \/ UpsertRefused \/ RemovalSeen
  <2>1. /\ contents' = contents /\ file' \in {file, 0} /\ scan' \in {scan, file, 0}
        /\ UNCHANGED <<row, entry, issued, cycle, service>>
    BY <1>1, <1>5 DEF RemoveFile, ScanReads, UpsertRefused, RemovalSeen
  <2>2. contents <= contents' /\ file' <= contents' /\ scan' <= contents'
    BY SMTT(60), <1>3, <2>1
  <2> QED BY <1>1, <2>1, <2>2, FilesKeep
<1>6. CASE upsert_media_items
  <2>1. /\ scan # 0 /\ scan' = 0 /\ UNCHANGED <<file, contents>>
        /\ row'.loc = (CASE row.loc = "none" -> "local" [] row.loc = "cloud" -> "both"
                         [] OTHER -> row.loc)
        /\ row'.fav = row.fav /\ row'.seen = scan
        /\ upsert_changed => CanNote
        /\ entry' = IF upsert_changed THEN note("content") ELSE entry
    BY <1>6 DEF upsert_media_items
  <2>2. scan' <= contents BY SMTT(60), <1>3, <2>1
  <2>3. CASE upsert_changed
    <3>1. row.loc # "none" /\ row'.loc \in {row.loc, "both"}
      BY <2>1, <2>3 DEF upsert_changed
    <3> QED BY <1>1, <1>3, <2>1, <2>2, <2>3, <3>1, NoteKeeps
  <2>4. CASE ~upsert_changed
    <3>1. CASE row.loc = "none"
      <4>1. ~Live /\ entry.media # "row" BY <1>2, <3>1 DEF Linked
      <4> QED BY <1>1, <1>3, <2>1, <2>2, <2>4, <4>1, UnlinkedRow
    <3>2. CASE row.loc # "none"
      <4>1. row.loc # "cloud" /\ row.seen = scan BY <2>4, <3>2 DEF upsert_changed
      <4>2. row' = [loc |-> row.loc, fav |-> row.fav, seen |-> row.seen]
        BY <1>6, <3>2, <4>1 DEF upsert_media_items
      <4>3. row' = row BY SMTT(60), <1>3, <4>2 DEF Rows
      <4> QED BY <1>1, <1>3, <2>1, <2>2, <2>4, <4>3, UnlinkedRow
    <3> QED BY <3>1, <3>2
  <2> QED BY <2>3, <2>4
<1>7. CASE SetFavorite
  <2>1. /\ CanNote /\ entry' = note("metadata") /\ UNCHANGED <<file, contents, scan>>
        /\ row'.loc = row.loc /\ row'.seen = row.seen /\ row.loc # "none"
    BY <1>7 DEF SetFavorite, Visible
  <2>2. row'.seen # 0 BY <1>2, <2>1 DEF Linked
  <2> QED BY <1>1, <1>3, <2>1, <2>2, NoteKeeps
<1>8. CASE delete_live_media
  <2> DEFINE live == row.loc \in {"local", "both"}
             noted == live /\ entry.dirty # "absent" /\ entry.media = "row"
             kept == noted /\ row.loc = "both"
             marked == IF noted THEN mark(entry, "deletion") ELSE entry
             unlinked == [marked EXCEPT !.media = "none"]
  <2>1. /\ row' = IF kept THEN [loc |-> "cloud", fav |-> row.fav, seen |-> row.seen]
                  ELSE IF live THEN NoRow ELSE row
        /\ entry' = IF kept \/ ~live THEN marked ELSE unlinked
        /\ UNCHANGED <<file, contents, scan>>
    BY <1>8 DEF delete_live_media
  <2>2. NoRow.loc = "none" /\ NoRow.seen = 0 /\ 0 <= contents BY SMTT(60), <1>3 DEF NoRow
  <2>3. CASE noted
    <3>1. /\ marked \in Entries /\ marked.dirty = "delete" /\ marked.photo = entry.photo
          /\ marked.meta = entry.meta /\ marked.content = entry.content
          /\ marked.ackedMeta = entry.ackedMeta /\ marked.ackedContent = entry.ackedContent
          /\ marked.media = "row"
      <4>1. marked = mark(entry, "deletion") /\ "deletion" \in Categories
        BY <2>3 DEF Categories
      <4>2. Dirtied(entry, "deletion") = "delete" BY DEF Dirtied
      <4> HIDE DEF marked
      <4> QED BY <1>2, <2>3, <4>1, <4>2, MarkFields, MarkType
    <3> HIDE DEF marked
    <3>2. /\ unlinked.dirty = "delete" /\ unlinked.photo = entry.photo
          /\ unlinked.meta = entry.meta /\ unlinked.content = entry.content
          /\ unlinked.ackedMeta = entry.ackedMeta /\ unlinked.ackedContent = entry.ackedContent
          /\ unlinked.media = "none"
      BY SMTT(60), <3>1 DEF Entries
    <3> HIDE DEF unlinked
    <3>3. CASE row.loc = "both"
      <4>1. entry' = marked /\ row' = [loc |-> "cloud", fav |-> row.fav, seen |-> row.seen]
        BY <2>1, <2>3, <3>3
      <4>2. row'.loc = "cloud" /\ row'.seen = row.seen /\ row.seen # 0
        BY <1>2, <3>3, <4>1 DEF Linked
      <4> QED BY <1>1, <1>3, <2>1, <3>1, <4>1, <4>2, DeletionNoted
    <3>4. CASE row.loc # "both"
      <4>1. entry' = unlinked /\ row' = NoRow BY <2>1, <2>3, <3>4
      <4>2. entry.photo = 0 BY <1>2, <2>3, <3>4 DEF Linked
      <4> QED BY <1>1, <2>1, <2>2, <3>2, <4>1, <4>2, DeletionNoted
    <3> QED BY <3>3, <3>4
  <2>4. CASE ~noted
    <3>1. live => ~Live /\ entry.media = "none"
      <4>1. entry.media \in {"none", "row"} BY <1>2 DEF Entries
      <4>2. entry.dirty = "absent" => entry.media = "none" BY <1>2, NewFields DEF Linked
      <4>3. Live => entry.media = "row" /\ entry.dirty # "absent" BY <1>2 DEF Linked, Live
      <4> QED BY <2>4, <4>1, <4>2, <4>3
    <3>2. [entry EXCEPT !.media = entry.media] = entry BY SMTT(60), <1>2 DEF Entries
    <3>3. entry' = entry BY <2>1, <2>4, <3>1, <3>2
    <3>4. row' = IF live THEN NoRow ELSE row BY <2>1, <2>4
    <3>5. row'.loc # "none" => row'.seen # 0 BY <1>2, <2>2, <3>4 DEF Linked
    <3> HIDE DEF live
    <3> QED BY <1>1, <1>3, <2>1, <2>2, <3>1, <3>3, <3>4, <3>5, UnlinkedRow
  <2> QED BY <2>3, <2>4
<1> QED BY <1>4, <1>5, <1>6, <1>7, <1>8 DEF Library

\* An entry that is only enrolled, or noted as failed.
LEMMA EnrolledFollows ==
    ASSUME IInv, TypeOK', SyncedData, issued' \subseteq issued,
           UNCHANGED <<file, contents, scan, row, cloud, done>>,
           \/ entry' = entry \/ entry' = Enrolled
           \/ entry' = [entry EXCEPT !.error = "none"]
           \/ entry.dirty # "absent" /\ entry' = [entry EXCEPT !.error = "failed"]
    PROVE  SyncedData' /\ Follows
<1>1. TypeOK /\ entry \in Entries /\ Linked /\ Identity(entry) BY InvFacts DEF SyncedData
<1>2. entry.meta \in Nat /\ entry.content \in Nat /\ entry.dirty = "absent" => entry = NoEntry
  BY <1>1 DEF Entries, Linked
<1>3. entry.meta <= entry.meta /\ entry.content <= entry.content BY SMTT(60), <1>1 DEF Entries
<1>4. CASE entry.dirty = "absent" /\ entry' = NewEntry /\ row.loc \in {"local", "both"}
  <2>1. Linked' BY <1>1, <1>4, NewFields DEF Linked, Live
  <2>2. Follows BY <1>1, <1>3, <1>4, NewFields DEF Follows, Live, Linked
  <2> QED BY <2>1, <2>2, FollowsData
<1>5. CASE /\ entry'.dirty = entry.dirty /\ entry'.media = entry.media
           /\ entry'.local = entry.local /\ entry'.meta = entry.meta
           /\ entry'.content = entry.content /\ entry'.ackedMeta = entry.ackedMeta
           /\ entry'.ackedContent = entry.ackedContent /\ entry'.photo = entry.photo
           /\ entry.dirty = "absent" => entry' = NoEntry
  <2>1. Linked' BY <1>1, <1>5 DEF Linked, Live
  <2>2. Follows BY <1>3, <1>5 DEF Follows, Live
  <2> QED BY <2>1, <2>2, FollowsData
<1>6. CASE entry' = entry BY <1>1, <1>5, <1>6 DEF Linked
<1>7. CASE entry' = Enrolled BY <1>4, <1>6, <1>7 DEF Enrolled
<1>8. CASE entry' = [entry EXCEPT !.error = "none"]
  <2>1. entry.dirty = "absent" => entry' = NoEntry
    BY SMTT(60), <1>1, <1>8 DEF Linked, NoEntry
  <2> QED BY SMTT(60), <1>1, <1>5, <1>8, <2>1 DEF Entries
<1>9. CASE entry.dirty # "absent" /\ entry' = [entry EXCEPT !.error = "failed"]
  BY SMTT(60), <1>1, <1>5, <1>9 DEF Entries
<1> QED BY <1>6, <1>7, <1>8, <1>9

\* Where nothing is frozen or prepared only the data have to agree.
LEMMA OutsideSynced ==
    ASSUME SyncedData', pc' \in {"idle", "begun", "reconcile", "gate"}
    PROVE  Synced'
BY DEF Synced, ViewBehind, Drafted, Phases, Executing, Preparing

\* Moving on to the next phase.
LEMMA AdvanceSynced ==
    ASSUME IInv, TypeOK', SyncedData', NEW p \in Phases, NEW e, Advances(p, e),
           PhaseOf(view.dirty) \in Ahead(NextPhase(p)) /\ view' = view => Behind'
    PROVE  Synced'
<1>1. /\ pc' = NextPhase(p)
      /\ view' = IF p = "create" \/ e.dirty = "absent" THEN NoEntry ELSE view
  BY DEF Advances
<1>2. CASE p = "create" BY <1>1, <1>2, PhaseValues, OutsideSynced
<1>3. CASE p \in {"delete", "modify"}
  <2>1. pc' \in {"modify", "create"} BY <1>1, <1>3, PhaseValues
  <2>2. PhaseOf(NoEntry.dirty) \notin Ahead(pc') BY <2>1, PhaseValues, NoOpFacts
  <2>3. PhaseOf(view'.dirty) \in Ahead(pc') => Behind' BY <1>1, <2>2
  <2> QED BY <2>1, <2>3 DEF Synced, ViewBehind, Drafted, Phases, Executing, Preparing
<1> QED BY <1>2, <1>3 DEF Phases

\* What a confirmed publication acknowledges.
LEMMA ConfirmedFields ==
    ASSUME NEW e \in Entries, NEW o \in Operations, o.phase # "delete"
    PROVE  LET am == IF o.sendMeta = "yes" THEN Larger(e.ackedMeta, o.meta) ELSE e.ackedMeta
               ac == IF o.sendContent = "yes" THEN Larger(e.ackedContent, o.content)
                     ELSE e.ackedContent
           IN  /\ Confirmed(e, o).ackedMeta = am /\ Confirmed(e, o).ackedContent = ac
               /\ Confirmed(e, o).meta = e.meta /\ Confirmed(e, o).content = e.content
               /\ Confirmed(e, o).media = e.media /\ Confirmed(e, o).photo = o.photo
               /\ Confirmed(e, o).dirty = IF e.dirty = "delete" THEN "delete"
                                          ELSE IF e.local # o.local \/ e.meta > am \/ e.content > ac
                                          THEN "modified" ELSE "clean"
<1> DEFINE am == IF o.sendMeta = "yes" THEN Larger(e.ackedMeta, o.meta) ELSE e.ackedMeta
           ac == IF o.sendContent = "yes" THEN Larger(e.ackedContent, o.content) ELSE e.ackedContent
           cr == IF o.phase = "create" THEN "yes" ELSE e.created
           di == IF e.dirty = "delete" THEN "delete"
                 ELSE IF e.local # o.local \/ e.meta > am \/ e.content > ac
                 THEN "modified" ELSE "clean"
           f == [e EXCEPT !.photo = o.photo, !.ackedMeta = am, !.ackedContent = ac,
                          !.created = cr, !.dirty = di]
<1>1. Confirmed(e, o) = f BY ZenonT(60) DEF Confirmed
<1> HIDE DEF am, ac, cr, di
<1>2. /\ f.ackedMeta = am /\ f.ackedContent = ac /\ f.meta = e.meta /\ f.content = e.content
      /\ f.media = e.media /\ f.photo = o.photo /\ f.dirty = di
  BY SMTT(60) DEF Entries
<1> HIDE DEF f
<1>3. /\ Confirmed(e, o).ackedMeta = am /\ Confirmed(e, o).ackedContent = ac
      /\ Confirmed(e, o).meta = e.meta /\ Confirmed(e, o).content = e.content
      /\ Confirmed(e, o).media = e.media /\ Confirmed(e, o).photo = o.photo
      /\ Confirmed(e, o).dirty = di
  BY <1>1, <1>2
<1> QED BY ZenonT(60), <1>3 DEF am, ac, di

\* A settled operation leaves the agreement, since its evidence says what the record
\* now holds.
LEMMA ConfirmSynced ==
    ASSUME IInv, TypeOK', SyncedData, NEW o \in issued, Confirm(o),
           o.id \in done \/ metadata_matches(o),
           UNCHANGED <<file, contents, scan, cloud, done>>
    PROVE  SyncedData'
<1>1. /\ TypeOK /\ entry \in Entries /\ o \in Operations /\ Owned(o) /\ Linked /\ Counted
      /\ Versioned(o) /\ MetaTrue(o) /\ ContentTrue(o) /\ Landed(o) /\ Acknowledged
  BY InvFacts DEF IInv, TypeOK, Ledger, SyncedData
<1>2. issued' = {} /\ entry' = Confirmed(entry, o) BY OnlyOne DEF IInv, Confirm
<1>3. /\ row'.fav = row.fav /\ row'.seen = row.seen
      /\ IF entry.media = "row" THEN row'.loc = "both" ELSE row' = row
  BY DEF Confirm, ConfirmedRow
<1>4. /\ row'.loc # "none" => row'.seen # 0
      /\ file' <= contents' /\ scan' <= contents' /\ row'.seen <= contents'
  BY <1>1, <1>3 DEF Linked
<1>5. CASE o.phase = "delete"
  <2>1. CASE entry.local = o.local
    <3>1. entry' = NoEntry BY <1>2, <1>5, <2>1 DEF Confirmed
    <3>2. Counted' BY SMTT(60), <3>1, NewFields DEF Counted
    <3>3. Linked' BY <1>2, <1>4, <3>1, NewFields DEF Linked, Live
    <3>4. Acknowledged' BY <3>1, NewFields DEF Acknowledged
    <3> QED BY <1>2, <3>2, <3>3, <3>4 DEF SyncedData
  <2>2. CASE entry.local # o.local
    <3>1. entry' = [entry EXCEPT !.photo = 0, !.dirty = "new"] BY <1>2, <1>5, <2>2 DEF Confirmed
    <3>2. /\ entry'.photo = 0 /\ entry'.dirty = "new" /\ entry'.media = entry.media
          /\ entry'.meta = entry.meta /\ entry'.content = entry.content
          /\ entry'.ackedMeta = entry.ackedMeta /\ entry'.ackedContent = entry.ackedContent
      BY SMTT(60), <1>1, <3>1 DEF Entries
    <3>3. entry.media = "row" BY <1>1, <1>5, <2>2 DEF Linked, Entries
    <3>4. Counted' BY <1>1, <3>2 DEF Counted
    <3>5. Linked' BY <1>2, <1>3, <1>4, <3>2, <3>3 DEF Linked, Live
    <3>6. Acknowledged' BY <3>2 DEF Acknowledged
    <3> QED BY <1>2, <3>4, <3>5, <3>6 DEF SyncedData
  <2> QED BY <2>1, <2>2
<1>6. CASE o.phase # "delete"
  <2> DEFINE am == IF o.sendMeta = "yes" THEN Larger(entry.ackedMeta, o.meta) ELSE entry.ackedMeta
             ac == IF o.sendContent = "yes" THEN Larger(entry.ackedContent, o.content)
                   ELSE entry.ackedContent
  <2>1. /\ entry'.ackedMeta = am /\ entry'.ackedContent = ac
        /\ entry'.meta = entry.meta /\ entry'.content = entry.content
        /\ entry'.media = entry.media /\ entry'.photo = o.photo
        /\ entry'.dirty = IF entry.dirty = "delete" THEN "delete"
                          ELSE IF entry.local # o.local \/ entry.meta > am \/ entry.content > ac
                          THEN "modified" ELSE "clean"
    BY ZenonT(60), <1>1, <1>2, <1>6, ConfirmedFields
  <2>2. /\ entry.meta \in Nat /\ entry.content \in Nat /\ entry.ackedMeta \in Nat
        /\ entry.ackedContent \in Nat /\ o.meta \in Nat /\ o.content \in Nat
        /\ o.sendMeta \in {"yes", "no"} /\ o.sendContent \in {"yes", "no"}
    BY <1>1 DEF Entries, Operations, YesNo
  <2>3. /\ o.sendMeta = "yes" => am = o.meta
        /\ o.sendMeta # "yes" => am = entry.ackedMeta
        /\ o.sendContent = "yes" => ac = o.content
        /\ o.sendContent # "yes" => ac = entry.ackedContent
    BY SMTT(60), <1>1, <2>2 DEF Versioned, Larger
  <2>4. am \in Nat /\ ac \in Nat /\ am <= entry.meta /\ ac <= entry.content
    BY SMTT(60), <1>1, <2>2, <2>3 DEF Versioned, Counted
  <2> HIDE DEF am, ac
  <2>5. entry'.dirty \in {"delete", "modified", "clean"}
        /\ (entry'.dirty = "delete" <=> entry.dirty = "delete")
    BY <2>1
  <2>6. Counted' BY SMTT(60), <2>1, <2>2, <2>4 DEF Counted
  <2>7. Linked'
    <3>1. Live' => entry'.media = "row" BY <1>1, <2>1, <2>5 DEF Linked, Live, Owned
    <3> QED BY <1>2, <1>3, <1>4, <2>1, <2>5, <3>1 DEF Linked
  <2>8. Acknowledged'
    <3> SUFFICES ASSUME Live', NEW c \in cloud
                 PROVE  /\ entry.meta <= am => c.fav = row.fav
                        /\ entry.content <= ac /\ row.seen = file => c.content = file
      BY <1>3, <2>1 DEF Acknowledged
    <3>1. Live BY <1>1, <2>5 DEF Live, Owned
    <3>2. o.phase = "create" \/ (o.phase = "modify" /\ entry.photo # 0)
      BY <1>1, <1>6 DEF Owned
    <3>3. c.photo = o.photo BY <1>1, <1>6 DEF Owned, Holds, IInv, PublishedOnce
    <3>4. o.sendMeta = "yes" => c.fav = o.fav
      BY <1>1, <1>6 DEF Landed, metadata_matches, IInv, PublishedOnce
    <3>5. o.sendContent = "yes" => c.content = o.bytes
      BY <1>1, <1>6, <2>2 DEF Landed, metadata_matches
    <3>6. entry.meta <= am => c.fav = row.fav
      <4>1. CASE o.sendMeta = "yes"
        <5>1. entry.meta <= am => o.meta = entry.meta BY SMTT(60), <1>1, <2>2, <2>3, <4>1 DEF Versioned
        <5> QED BY <1>1, <1>6, <3>1, <3>4, <4>1, <5>1 DEF MetaTrue
      <4>2. CASE o.sendMeta # "yes"
        <5>1. entry.photo # 0 BY <1>1, <3>2, <4>2 DEF Owned
        <5> QED BY <1>1, <2>3, <3>1, <4>2, <5>1 DEF Acknowledged
      <4> QED BY <4>1, <4>2
    <3>7. entry.content <= ac /\ row.seen = file => c.content = file
      <4>1. CASE o.sendContent = "yes"
        <5>1. entry.content <= ac => o.content = entry.content
          BY SMTT(60), <1>1, <2>2, <2>3, <4>1 DEF Versioned
        <5> QED BY <1>1, <1>6, <3>1, <3>5, <4>1, <5>1 DEF ContentTrue
      <4>2. CASE o.sendContent # "yes"
        <5>1. entry.photo # 0 BY <1>1, <3>2, <4>2 DEF Owned
        <5> QED BY <1>1, <2>3, <3>1, <4>2, <5>1 DEF Acknowledged
      <4> QED BY <4>1, <4>2
    <3> QED BY <3>6, <3>7
  <2> QED BY <1>2, <2>6, <2>7, <2>8 DEF SyncedData
<1> QED BY <1>5, <1>6

\* Beginning, leaving and preparing a cycle.
LEMMA EntrySynced ==
    ASSUME IInv, IInv', Synced, Begin \/ Abandon \/ Acquire \/ Reconcile
    PROVE  Synced'
<1> USE DEF local, job, cycle, service
<1>1. TypeOK' /\ SyncedData BY DEF IInv, Synced
<1>2. CASE Begin
  BY <1>1, <1>2, EnrolledFollows, OutsideSynced DEF Begin
<1>3. CASE Abandon
  <2>1. SyncedData' BY <1>1, <1>3, EnrolledFollows DEF Abandon
  <2> QED BY <1>3, <2>1, OutsideSynced DEF Abandon
<1>4. CASE Acquire
  BY <1>1, <1>4, EnrolledFollows, OutsideSynced DEF Acquire
<1>5. CASE ReconcileNothing \/ ReconcileUnknown
  <2>1. SyncedData' BY <1>1, <1>5, EnrolledFollows DEF ReconcileNothing, ReconcileUnknown
  <2>2. pc' \in {"gate", "idle"} BY <1>5 DEF ReconcileNothing, ReconcileUnknown
  <2> QED BY <2>1, <2>2, OutsideSynced
<1>6. CASE ReconcileRetires
  <2>1. issued' \subseteq issued /\ pc' = "reconcile"
    BY <1>6 DEF ReconcileRetires
  <2>2. SyncedData' BY <1>1, <1>6, <2>1, EnrolledFollows DEF ReconcileRetires
  <2> QED BY <2>1, <2>2, OutsideSynced
<1>7. CASE ReconcileCommitted
  <2>1. PICK o \in issued : o.id \in done /\ Confirm(o) BY <1>7 DEF ReconcileCommitted
  <2>2. SyncedData' BY <1>1, <1>7, <2>1, ConfirmSynced DEF ReconcileCommitted
  <2> QED BY <1>7, <2>2, OutsideSynced DEF ReconcileCommitted
<1>8. CASE ReconcileFails
  <2>1. SyncedData' BY <1>1, <1>8, EnrolledFollows DEF ReconcileFails, UploadFailed
  <2>2. pc' \in {"gate", "idle"} BY <1>8 DEF ReconcileFails
  <2> QED BY <2>1, <2>2, OutsideSynced
<1> QED BY <1>2, <1>3, <1>4, <1>5, <1>6, <1>7, <1>8 DEF Reconcile

\* The frozen view starts as the entry.
LEMMA GateSynced == ASSUME IInv, IInv', Synced, Gate PROVE Synced'
<1> USE DEF local, job, service
<1>1. TypeOK' /\ SyncedData BY DEF IInv, Synced
<1>2. SyncedData' BY <1>1, EnrolledFollows DEF Gate
<1>3. pc' = "delete" /\ view' = IF entry'.dirty = "clean" THEN NoEntry ELSE entry' BY DEF Gate
<1>4. PhaseOf(NoEntry.dirty) \notin Phases /\ Ahead("delete") = Phases
  BY PhaseValues, NoOpFacts DEF Phases
<1>5. view' = entry' => Behind'
  <2>1. /\ entry'.meta \in Nat /\ entry'.content \in Nat BY <1>1 DEF TypeOK, Entries
  <2> QED BY SMTT(60), <1>2, <2>1 DEF Behind, SyncedData, Counted
<1>6. PhaseOf(view'.dirty) \in Ahead(pc') => Behind' BY <1>3, <1>4, <1>5
<1> QED BY <1>2, <1>3, <1>6 DEF Synced, ViewBehind, Drafted, Executing, Preparing

\* Taking up, resuming and skipping the photo in a phase.
LEMMA PhaseSynced == ASSUME IInv, IInv', Synced, Phase PROVE Synced'
<1> USE DEF local, job, service
<1>1. TypeOK' /\ SyncedData /\ TypeOK BY DEF IInv, Synced
<1>2. /\ pc \in Phases /\ UNCHANGED <<file, contents, scan, row, entry, issued, cloud, done>>
  BY DEF Phase, PhaseResumes, PhasePrepares, PhaseSkips
<1>3. SyncedData' BY <1>1, <1>2, EnrolledFollows
<1>4. PhaseOf(view.dirty) \in Ahead(NextPhase(pc)) => Behind
  BY <1>2, AheadShrinks, PhaseNotIdle, InvFacts DEF Synced, ViewBehind
<1>5. view' = view /\ Behind => Behind' BY <1>2 DEF Behind
<1>6. CASE PhaseResumes
  <2>1. /\ op'.phase = pc /\ pc' \in {"upload", "status"} /\ view' = view
    BY <1>6 DEF PhaseResumes
  <2>2. PhaseOf(view'.dirty) \in Ahead(NextPhase(op'.phase)) => Behind' BY <1>4, <1>5, <2>1
  <2> QED BY <1>3, <2>1, <2>2 DEF Synced, ViewBehind, Drafted, Phases, Preparing
<1>7. CASE PhasePrepares
  <2>1. /\ pc' = "prepare" /\ view' = view /\ PhaseOf(view.dirty) = pc
    BY <1>7 DEF PhasePrepares, Dispatchable, matches_phase
  <2>2. pc \in Ahead(pc) BY <1>2, PhaseValues DEF Phases
  <2>3. Behind' BY <1>2, <1>5, <2>1, <2>2 DEF Synced, ViewBehind
  <2> QED BY <1>3, <2>1, <2>3 DEF Synced, ViewBehind, Drafted, Phases, Executing
<1>8. CASE PhaseSkips
  <2>1. Advances(pc, entry) BY <1>8 DEF PhaseSkips
  <2> QED BY <1>1, <1>2, <1>3, <1>4, <1>5, <2>1, AdvanceSynced
<1> QED BY <1>6, <1>7, <1>8 DEF Phase

\* Preparing an operation up to its evidence.
LEMMA PrepareSynced == ASSUME IInv, IInv', Synced, Prepare PROVE Synced'
<1> USE DEF local, job, service
<1>1. TypeOK' /\ SyncedData /\ TypeOK /\ Linked BY DEF IInv, Synced, SyncedData
<1>2. /\ pc \in Preparing /\ Behind /\ issued = {} /\ op.phase \in Phases /\ entry.dirty # "absent"
  BY DEF Prepare, PrepareDefers, PrepareAbsent, PrepareCaptures, PrepareSnapshots, PrepareSaves,
         Preparing, Synced, ViewBehind, IInv, Evidence, Prepared
<1>3. CASE PrepareDefers
  <2>1. /\ Advances(op.phase, entry)
        /\ UNCHANGED <<file, contents, scan, row, entry, issued, cloud, done>>
    BY <1>3 DEF PrepareDefers
  <2>2. SyncedData' BY <1>1, <2>1, EnrolledFollows
  <2>3. view' = view => Behind' BY <1>2, <2>1 DEF Behind
  <2> QED BY <1>1, <1>2, <2>1, <2>2, <2>3, AdvanceSynced
<1>4. CASE PrepareAbsent
  <2>1. /\ Advances("delete", NoEntry) /\ entry' = NoEntry
        /\ UNCHANGED <<file, contents, scan, row, issued, cloud, done>>
    BY <1>4 DEF PrepareAbsent
  <2>2. SyncedData'
    <3>1. Counted' BY SMTT(60), <2>1, NewFields DEF Counted
    <3>2. Linked' BY <1>1, <1>2, <2>1, NewFields DEF Linked, Live
    <3>3. Acknowledged' BY <2>1, NewFields DEF Acknowledged
    <3> QED BY <1>2, <2>1, <3>1, <3>2, <3>3 DEF SyncedData
  <2>3. view' = NoEntry /\ pc' = "modify" BY <2>1, PhaseValues, NoOpFacts DEF Advances
  <2>4. PhaseOf(view'.dirty) \notin Ahead(pc') BY <2>3, PhaseValues, NoOpFacts
  <2> QED BY <2>2, <2>3, <2>4 DEF Synced, ViewBehind, Drafted, Executing, Preparing
<1>5. CASE PrepareCaptures
  <2>1. /\ pc' = IF NeedsContent THEN "snapshot" ELSE "save"
        /\ UNCHANGED <<file, contents, scan, row, entry, issued, view, cloud, done>>
        /\ op'.phase = op.phase /\ op'.meta = view.meta /\ op'.content = view.content
        /\ op'.sendMeta = IF op.phase = "create" \/ has_metadata_change(view) THEN "yes" ELSE "no"
        /\ op'.sendContent = IF NeedsContent THEN "yes" ELSE "no"
        /\ op'.fav = IF entry.media = "row" THEN row.fav ELSE 0
    BY <1>5 DEF PrepareCaptures
  <2>2. SyncedData' BY <1>1, <2>1, EnrolledFollows
  <2>3. Behind' BY <1>2, <2>1 DEF Behind
  <2>4. Versioned(op)' BY <1>2, <2>1 DEF Behind, Versioned
  <2>5. /\ has_metadata_change(view) => entry.ackedMeta < entry.meta
        /\ has_content_change(view) => entry.ackedContent < entry.content
    BY SMTT(60), <1>1, <1>2, Numbers DEF Behind, has_metadata_change, has_content_change
  <2>6. MetaTrue(op)'
    <3>1. Live => op'.fav = row.fav BY <1>1, <2>1 DEF Linked
    <3>2. op.phase = "modify" /\ op'.sendMeta = "yes" => entry.ackedMeta < entry.meta BY <2>1, <2>5
    <3> QED BY <2>1, <3>1, <3>2 DEF MetaTrue, Live
  <2>7. pc' = "save" => ContentTrue(op)' BY <2>1 DEF ContentTrue
  <2>8. pc' = "snapshot" /\ op'.phase = "modify" => entry'.ackedContent < entry'.content
    BY <2>1, <2>5 DEF NeedsContent
  <2>9. pc' \in {"snapshot", "save"} BY <2>1
  <2> QED
    BY <2>2, <2>3, <2>4, <2>6, <2>7, <2>8, <2>9 DEF Synced, ViewBehind, Drafted, Phases, Executing
<1>6. CASE PrepareSnapshots
  <2>1. /\ pc = "snapshot" /\ pc' = "save" /\ op' = [op EXCEPT !.bytes = file]
        /\ UNCHANGED <<file, contents, scan, row, entry, issued, view, cloud, done>>
    BY <1>6 DEF PrepareSnapshots
  <2>2. /\ op'.bytes = file /\ op'.phase = op.phase /\ op'.meta = op.meta
        /\ op'.content = op.content /\ op'.sendMeta = op.sendMeta /\ op'.fav = op.fav
    BY SMTT(60), <1>1, <2>1 DEF TypeOK, Operations
  <2>3. SyncedData' BY <1>1, <2>1, EnrolledFollows
  <2>4. Behind' BY <1>2, <2>1 DEF Behind
  <2>5. Versioned(op)' /\ MetaTrue(op)'
    BY <2>1, <2>2 DEF Synced, Drafted, Versioned, MetaTrue, Live
  <2>6. ContentTrue(op)' BY <2>1, <2>2 DEF Synced, Drafted, ContentTrue, Live
  <2> QED BY <2>1, <2>3, <2>4, <2>5, <2>6 DEF Synced, ViewBehind, Drafted, Phases, Executing
<1>7. CASE PrepareSaves
  <2>1. /\ pc = "save" /\ pc' \in {"upload", "status"} /\ issued' = {op}
        /\ entry.local = op.local
        /\ UNCHANGED <<file, contents, scan, row, entry, view, op, cloud, done>>
    BY <1>2, <1>7 DEF PrepareSaves, Current
  <2>2. (Versioned(op) /\ MetaTrue(op) /\ ContentTrue(op))'
    BY <2>1 DEF Synced, Drafted, Versioned, MetaTrue, ContentTrue, Live
  <2>3. Landed(op)' BY <2>1 DEF IInv, Prepared, Landed
  <2>4. (Counted /\ Linked /\ Acknowledged)'
    BY <1>1, <2>1 DEF SyncedData, Counted, Linked, Acknowledged, Live
  <2>5. SyncedData' BY <2>1, <2>2, <2>3, <2>4 DEF SyncedData
  <2>6. Behind' BY <1>2, <2>1 DEF Behind
  <2> QED BY <2>1, <2>5, <2>6 DEF Synced, ViewBehind, Drafted, Preparing, Phases
<1> QED BY <1>3, <1>4, <1>5, <1>6, <1>7 DEF Prepare

\* Executing an operation whose evidence is saved.
LEMMA ExecuteSynced == ASSUME IInv, IInv', Synced, Execute PROVE Synced'
<1> USE DEF local, job, service
<1>1. TypeOK' /\ SyncedData /\ TypeOK BY DEF IInv, Synced
<1>2. CASE ExecuteUploads
  <2>1. /\ pc = "upload" /\ pc' = "status" /\ op' = [op EXCEPT !.body = "set"]
        /\ issued' = (issued \ {op}) \union {op'}
        /\ UNCHANGED <<file, contents, scan, row, entry, view, cloud, done>>
    BY <1>2 DEF ExecuteUploads
  <2>2. pc \in Executing /\ pc' \in Executing BY <2>1 DEF Executing
  <2>3. op \in issued /\ issued' = {op'} BY <2>1, <2>2, ExecutingFacts
  <2>4. /\ op'.id = op.id /\ op'.phase = op.phase /\ op'.local = op.local /\ op'.meta = op.meta
        /\ op'.content = op.content /\ op'.sendMeta = op.sendMeta
        /\ op'.sendContent = op.sendContent /\ op'.fav = op.fav /\ op'.bytes = op.bytes
    BY SMTT(60), <1>1, <2>1 DEF TypeOK, Operations
  <2>5. (Versioned(op) /\ MetaTrue(op) /\ ContentTrue(op) /\ Landed(op))'
    <3>1. Versioned(op) /\ MetaTrue(op) /\ ContentTrue(op) /\ Landed(op) BY <1>1, <2>3 DEF SyncedData
    <3> QED BY SMTT(60), <2>1, <2>4, <3>1 DEF Versioned, MetaTrue, ContentTrue, Landed, Live
  <2>6. (Counted /\ Linked /\ Acknowledged)'
    <3>1. (Counted /\ Acknowledged)' BY <1>1, <2>1 DEF SyncedData, Counted, Acknowledged, Live
    <3>2. Linked BY <1>1 DEF SyncedData
    <3>3. entry.media = "none" => \A o \in issued' : o.phase = "delete" => o.local = entry.local
      BY <2>3, <2>4, <3>2 DEF Linked
    <3>4. Linked' BY <2>1, <3>2, <3>3 DEF Linked, Live
    <3> QED BY <3>1, <3>4
  <2>7. SyncedData' BY <2>3, <2>5, <2>6 DEF SyncedData
  <2>8. PhaseOf(view'.dirty) \in Ahead(NextPhase(op'.phase)) => Behind'
    BY <2>1, <2>2, <2>4 DEF Synced, ViewBehind, Behind
  <2> QED BY <2>1, <2>7, <2>8 DEF Synced, ViewBehind, Drafted, Preparing, Phases
<1>3. CASE ExecuteSends
  <2>1. /\ pc = "status" /\ pc' = "sent"
        /\ UNCHANGED <<file, contents, scan, row, entry, issued, view, op, cloud, done>>
    BY <1>3 DEF ExecuteSends
  <2>2. pc \in Executing BY <2>1 DEF Executing
  <2>3. SyncedData' BY <1>1, <2>1, EnrolledFollows
  <2>4. PhaseOf(view'.dirty) \in Ahead(NextPhase(op'.phase)) => Behind'
    BY <2>1, <2>2 DEF Synced, ViewBehind, Behind
  <2> QED BY <2>1, <2>3, <2>4 DEF Synced, ViewBehind, Drafted, Preparing, Phases
<1>4. CASE ExecuteConfirms
  <2>1. /\ pc \in Executing /\ Confirm(op) /\ Advances(op.phase, entry')
        /\ op.id \in done \/ metadata_matches(op)
        /\ UNCHANGED <<file, contents, scan, cloud, done>>
    BY <1>4 DEF ExecuteConfirms, Executing
  <2>2. /\ op \in issued /\ op.phase \in Phases /\ Owned(op) BY <2>1, ExecutingFacts
  <2>3. SyncedData' BY <1>1, <2>1, <2>2, ConfirmSynced
  <2>4. PhaseOf(view.dirty) \notin Ahead(NextPhase(op.phase))
    <3>1. CASE op.phase = "delete"
      <4>1. PhaseOf(view.dirty) = "delete" BY <2>1, <2>2, <3>1, ExecutingFacts, PhaseValues
      <4> QED BY <3>1, <4>1, PhaseValues
    <3>2. CASE op.phase = "modify"
      <4>1. entry.photo # 0 BY <2>2, <3>2 DEF Owned
      <4>2. PhaseOf(view.dirty) = "create" => view.photo = 0
        BY DispatchedAs, InvFacts DEF Identity
      <4> QED BY <2>1, <3>2, <4>1, <4>2, ExecutingFacts, PhaseValues
    <3>3. CASE op.phase = "create" BY <3>3, PhaseValues, PhaseNotIdle, InvFacts
    <3> QED BY <2>2, <3>1, <3>2, <3>3 DEF Phases
  <2> QED BY <1>1, <2>1, <2>2, <2>3, <2>4, AdvanceSynced
<1>5. CASE ExecuteRejected \/ ExecuteFails
  <2>1. /\ pc \in Preparing \union Executing /\ Advances(op.phase, entry)
        /\ entry.dirty # "absent" /\ entry' = [entry EXCEPT !.error = "failed"]
        /\ issued' \subseteq issued /\ UNCHANGED <<file, contents, scan, row, cloud, done>>
    BY <1>5 DEF ExecuteRejected, ExecuteFails, UploadFailed, Preparing, Executing
  <2>2. SyncedData' /\ Follows BY <1>1, <2>1, EnrolledFollows
  <2>3. op.phase \in Phases BY <2>1, ExecutingFacts DEF IInv, Prepared
  <2>4. PhaseOf(view.dirty) \in Ahead(NextPhase(op.phase)) => Behind
    BY <2>1 DEF Synced, ViewBehind
  <2>5. view' = view /\ Behind => Behind' BY <1>1, <2>2, StaysBehind
  <2> QED BY <1>1, <2>1, <2>2, <2>3, <2>4, <2>5, AdvanceSynced
<1> QED BY <1>2, <1>3, <1>4, <1>5 DEF Execute

\* The service writes what the operation carries and leaves the rest of the record.
LEMMA CommitSynced == ASSUME IInv, IInv', Synced, ServiceCommits PROVE Synced'
<1> USE DEF local, job, cycle
<1>1. PICK o \in wire :
         /\ done' = done \union {o.id}
         /\ cloud' = {c \in cloud : c.photo # o.photo}
                     \union (IF o.phase = "delete" THEN {} ELSE {Written(o)})
  BY DEF ServiceCommits
<1>2. UNCHANGED <<local, entry, issued, ops, job, cycle>> BY DEF ServiceCommits
<1>3. /\ o \in issued /\ o \in Operations /\ Owned(o) /\ o.id \notin done
      /\ \A x \in issued : x = o
  BY DEF IInv, OnWire, Ledger, TypeOK, OneIssued
<1>4. \A c \in cloud : c.photo = o.photo
  BY <1>3 DEF Owned, Holds, IInv, PublishedOnce
<1>5. /\ SyncedData /\ Versioned(o) /\ MetaTrue(o) /\ ContentTrue(o)
  BY <1>3 DEF Synced, SyncedData
<1>6. o.phase # "delete" => cloud' = {Written(o)} BY <1>1, <1>4
<1> DEFINE old == CHOOSE c \in cloud : c.photo = o.photo
<1>7. Holds(o.photo) => old \in cloud BY DEF Holds
<1>8. /\ Written(o).fav = IF o.sendMeta = "yes" THEN o.fav ELSE old.fav
      /\ Written(o).content = IF o.sendContent = "yes" THEN o.bytes ELSE old.content
  BY DEF Written
<1> HIDE DEF old
<1>9. Landed(o)' BY <1>6, <1>8 DEF Landed
<1>10. (Counted /\ Linked)' BY <1>2, <1>5 DEF SyncedData, Counted, Linked, Live
<1>11. Acknowledged'
  <2> SUFFICES ASSUME Live, entry.photo # 0
               PROVE  /\ entry.meta <= entry.ackedMeta => Written(o).fav = row.fav
                      /\ entry.content <= entry.ackedContent /\ row.seen = file
                            => Written(o).content = file
    BY <1>2, <1>3, <1>6 DEF Acknowledged, Live, Owned
  <2>1. o.phase = "modify" /\ Holds(o.photo) BY <1>3 DEF Owned, Live
  <2>2. /\ entry.meta <= entry.ackedMeta => old.fav = row.fav
        /\ entry.content <= entry.ackedContent /\ row.seen = file => old.content = file
    BY <1>5, <1>7, <2>1 DEF SyncedData, Acknowledged
  <2>3. /\ entry.meta <= entry.ackedMeta => o.sendMeta # "yes"
        /\ entry.content <= entry.ackedContent => o.sendContent # "yes"
    <3>1. /\ o.sendMeta = "yes" => entry.ackedMeta < entry.meta
          /\ o.sendContent = "yes" => entry.ackedContent < entry.content
      BY <1>5, <2>1 DEF MetaTrue, ContentTrue
    <3> QED BY SMTT(60), <3>1, InvFacts, Numbers
  <2> QED BY <1>8, <2>2, <2>3
<1>12. (Versioned(o) /\ MetaTrue(o) /\ ContentTrue(o))'
  BY <1>2, <1>5 DEF Versioned, MetaTrue, ContentTrue, Live
<1>13. SyncedData' BY <1>2, <1>3, <1>9, <1>10, <1>11, <1>12 DEF SyncedData
<1>14. ViewBehind' BY <1>2 DEF Synced, ViewBehind, Behind
<1>15. Drafted' BY <1>2 DEF Synced, Drafted, Versioned, MetaTrue, ContentTrue, Live
<1> QED BY <1>13, <1>14, <1>15 DEF Synced

\* A step that changes neither the entry nor the data it stands for, nor where the
\* cycle is, or only notes that an operation was rejected.
LEMMA NothingSettled ==
    ASSUME IInv, IInv', Synced,
           UNCHANGED <<file, contents, scan, row, entry, issued, view, op, cloud, done>>,
           pc' = pc \/ (pc = "sent" /\ pc' = "rejected")
    PROVE  Synced'
<1>1. TypeOK' /\ SyncedData BY DEF IInv, Synced
<1>2. SyncedData' BY <1>1, EnrolledFollows
<1>3. ViewBehind' BY DEF Synced, ViewBehind, Behind, Phases, Executing, Preparing
<1>4. Drafted' BY DEF Synced, Drafted, Versioned, MetaTrue, ContentTrue, Live
<1> QED BY <1>2, <1>3, <1>4 DEF Synced

\* The agreement holds at first.
LEMMA InitSynced == Init => Synced
<1> SUFFICES ASSUME Init PROVE Synced OBVIOUS
<1>1. Counted BY SMTT(60), NewFields DEF Init, Counted
<1>2. Linked
  <2>1. NoRow.loc = "none" /\ NoRow.seen = 0 /\ 0 <= 0 BY SMTT(60) DEF NoRow
  <2> QED BY <2>1, NewFields DEF Init, Linked, Live
<1>3. Acknowledged BY NewFields DEF Init, Acknowledged
<1>4. SyncedData BY <1>1, <1>2, <1>3 DEF Init, SyncedData
<1>5. ViewBehind /\ Drafted BY DEF Init, ViewBehind, Drafted, Phases, Executing, Preparing
<1> QED BY <1>4, <1>5 DEF Synced

\* Every step keeps it.
LEMMA NextSynced == IInv /\ IInv' /\ Synced /\ [Next]_vars => Synced'
<1> SUFFICES ASSUME IInv, IInv', Synced, [Next]_vars PROVE Synced' OBVIOUS
<1>1. CASE UNCHANGED vars
  BY <1>1, NothingSettled DEF vars, local, cycle, service
<1>2. CASE Library BY <1>2, LibrarySynced
<1>3. CASE Configuration
  BY <1>3, NothingSettled DEF Configuration, QueueEdit, ApplyEdit, local, cycle, service
<1>4. CASE Cycle
  BY <1>4, EntrySynced, GateSynced, PhaseSynced, PrepareSynced, ExecuteSynced DEF Cycle
<1>5. CASE Service
  <2>1. CASE ServiceRejects BY <2>1, NothingSettled DEF ServiceRejects, local
  <2>2. CASE RequestLost BY <2>2, NothingSettled DEF RequestLost, local, cycle
  <2> QED BY <1>5, <2>1, <2>2, CommitSynced DEF Service
<1> QED BY <1>1, <1>2, <1>3, <1>4, <1>5 DEF Next

\* IInv is inductive.
THEOREM Inductive == Spec => []IInv
BY InitHolds, NextKeeps, PTL DEF Spec

\* TypeOK holds of every behaviour of the uplink.
THEOREM TypeCorrect == Spec => []TypeOK
<1>1. IInv => TypeOK BY DEF IInv
<1> QED BY <1>1, Inductive, PTL

\* NoOrphan: a record in the cloud is always named by the entry or by evidence
\* that is still issued, whatever answer was lost and wherever a cycle died (save
\* before send in prepare_and_send, RetireIssued).
THEOREM NothingForgotten == Spec => []NoOrphan
<1>1. IInv => NoOrphan
  <2> SUFFICES ASSUME IInv, NEW c \in cloud
               PROVE  c.photo = entry.photo \/ \E o \in issued : o.photo = c.photo
    BY DEF NoOrphan
  <2>1. CASE issued = {} BY <2>1 DEF IInv, Ledger, Holds, PublishedOnce
  <2>2. CASE issued # {} BY SMTT(60), <2>2 DEF IInv, Ledger, Owned, Holds, PublishedOnce
  <2> QED BY <2>1, <2>2
<1> QED BY <1>1, Inductive, PTL

\* PublishedOnce: retries of a create never leave two records of one photo
\* (execute_issued, uplink_held).
THEOREM NeverTwice == Spec => []PublishedOnce
<1>1. IInv => PublishedOnce BY DEF IInv
<1> QED BY <1>1, Inductive, PTL

\* OneIssued: a second operation of a photo is derived only after the outcome of
\* the first is settled (uplink_held).
THEOREM OneAtATime == Spec => []OneIssued
<1>1. IInv => OneIssued BY DEF IInv
<1> QED BY <1>1, Inductive, PTL

\* A confirmation takes back a deletion only when the cloud has carried it out.
LEMMA ConfirmKeepsDeletion ==
    ASSUME IInv, NEW o \in issued, Confirm(o), o.id \in done \/ o.phase = "modify",
           entry.dirty = "delete", entry'.dirty # "delete"
    PROVE  cloud = {}
<1>1. Owned(o) /\ o \in Operations /\ entry \in Entries BY DEF IInv, Ledger, TypeOK
<1>2. o.phase = "delete" BY <1>1, ConfirmedPublish DEF Confirm
<1> QED BY <1>1, <1>2 DEF Owned

\* Nothing but a confirmation and a proof of absence ends a deletion.
LEMMA DeletionStep ==
    ASSUME IInv, Next, entry.dirty = "delete", entry'.dirty # "delete"
    PROVE  cloud = {}
<1> USE DEF local, job, cycle
<1>1. entry \in Entries BY InvFacts
<1>2. CASE Library BY <1>2, LibraryLocal DEF KeptLocally, Kept
<1>3. CASE Configuration BY <1>3 DEF Configuration, QueueEdit, ApplyEdit
<1>4. CASE Service BY <1>4 DEF Service, ServiceCommits, ServiceRejects, RequestLost
<1>5. CASE Begin BY <1>1, <1>5 DEF Begin, Entries
<1>6. CASE Acquire \/ Gate BY <1>6 DEF Acquire, Gate, Enrolled
<1>7. CASE Reconcile
  <2>1. CASE ReconcileCommitted BY <2>1, ConfirmKeepsDeletion DEF ReconcileCommitted
  <2>2. CASE ReconcileFails BY <1>1, <2>2 DEF ReconcileFails, UploadFailed, Entries
  <2> QED
    BY <1>7, <2>1, <2>2 DEF Reconcile, ReconcileNothing, ReconcileRetires, ReconcileUnknown
<1>8. CASE Phase BY <1>8 DEF Phase, PhaseResumes, PhasePrepares, PhaseSkips
<1>9. CASE Prepare
  <2>1. CASE PrepareAbsent BY <2>1 DEF PrepareAbsent, IInv, Ledger
  <2> QED
    BY <1>9, <2>1 DEF Prepare, PrepareDefers, PrepareCaptures, PrepareSnapshots, PrepareSaves
<1>10. CASE Execute
  <2>1. CASE ExecuteConfirms
    <3>1. Confirm(op) /\ op \in issued /\ (op.id \in done \/ op.phase = "modify")
      BY <2>1 DEF ExecuteConfirms, Confirm, metadata_matches
    <3> QED BY <3>1, ConfirmKeepsDeletion
  <2>2. CASE ExecuteRejected BY <1>1, <2>2 DEF ExecuteRejected, UploadFailed, Entries
  <2>3. CASE ExecuteFails BY <1>1, <2>3 DEF ExecuteFails, UploadFailed, Entries
  <2> QED BY <1>10, <2>1, <2>2, <2>3 DEF Execute, ExecuteUploads, ExecuteSends
<1>11. CASE Abandon BY <1>11 DEF Abandon
<1> QED
  BY <1>2, <1>3, <1>4, <1>5, <1>6, <1>7, <1>8, <1>9, <1>10, <1>11 DEF Next, Cycle

\* DeletionKept: a photo's deletion stays owed through edits, retries and crashes
\* until the cloud holds no copy of it (mark, Confirm, ConfirmAbsentDeletion).
THEOREM DeletionAlwaysKept == Spec => DeletionKept
<1>1. IInv /\ [Next]_vars =>
         [entry.dirty = "delete" /\ entry'.dirty # "delete" => cloud = {}]_vars
  BY DeletionStep
<1> QED BY <1>1, Inductive, PTL DEF Spec, DeletionKept

\* CleanIsPublished: an entry goes clean only when the cloud holds what the row says,
\* whatever was edited, rewritten, lost or retried while its operation was prepared,
\* sent or confirmed by a later cycle (Confirm, uplink_held, prepare_and_send).
THEOREM CleanAlwaysPublished == Spec => []CleanIsPublished
<1>1. Spec => [](IInv /\ Synced)
  <2>1. (IInv /\ Synced) /\ [Next]_vars => (IInv /\ Synced)' BY NextKeeps, NextSynced
  <2> QED BY InitHolds, InitSynced, <2>1, PTL DEF Spec
<1>2. IInv /\ Synced => CleanIsPublished
  <2> SUFFICES ASSUME IInv, Synced, entry.dirty = "clean"
               PROVE  \E c \in cloud : /\ c.photo = entry.photo
                                       /\ c.fav = row.fav
                                       /\ row.seen = file => c.content = file
    BY DEF CleanIsPublished
  <2>1. issued = {} BY DEF IInv, Ledger, Owned
  <2>2. entry.photo # 0 BY DEF IInv, Frozen, Identity
  <2>3. PICK c \in cloud : c.photo = entry.photo BY <2>1, <2>2 DEF IInv, Ledger, Holds
  <2>4. Live /\ entry.meta <= entry.ackedMeta /\ entry.content <= entry.ackedContent
    BY DEF Synced, SyncedData, Counted, Live
  <2>5. c.fav = row.fav /\ (row.seen = file => c.content = file)
    BY <2>2, <2>4 DEF Synced, SyncedData, Acknowledged
  <2> QED BY <2>3, <2>5
<1> QED BY <1>1, <1>2, PTL
=============================================================================
