------------------------------- MODULE Uplink -------------------------------
(***************************************************************************)
(* One photo on its way to the cloud.                                      *)
(*                                                                         *)
(* Local side: the file, its media_items row, its sync_entries row with    *)
(* the dirty state and the per-category versions (store/dirty.rs,          *)
(* core/db.rs), and the issued-operation evidence (store/runtime.rs).      *)
(* Cycle side: `uplink_held`, `prepare_and_send` and `execute_issued`      *)
(* (service/coordinator.rs), cut at their awaits and transactions, so that *)
(* user edits, scans, configuration edits and crashes fall in between.     *)
(*                                                                         *)
(* The service is external: it applies an atomic operation at most once    *)
(* per operation id and refuses a request that carries an earlier lease.   *)
(* Downlink, upload albums and the system trash are not in this module.    *)
(***************************************************************************)
EXTENDS Integers, FiniteSets

CONSTANTS
    MaxVersion,   \* bound on native_local_version
    MaxContent,   \* bound on the number of distinct file contents
    MaxOps,       \* bound on the number of operation ids
    MaxConfig     \* bound on config_generation

ASSUME BoundsAssumption ==
    MaxVersion \in Nat /\ MaxContent \in Nat /\ MaxOps \in Nat /\ MaxConfig \in Nat

VARIABLES
    file,      \* content of the file at the photo's path, 0 when there is none
    contents,  \* number of contents written so far
    scan,      \* content an indexing pass has read and not yet committed, 0 when none
    missing,   \* "yes" when a pass has seen the file missing and not yet committed it
    row,       \* the media_items row: storage_location, favourite, content indexed
    entry,     \* the sync_entries row
    issued,    \* the sync_tasks rows in state 'issued'
    ops,       \* number of operation ids handed out
    config,    \* config_generation of the job
    editing,   \* "yes" while a sync_job_changes row exists
    pc,        \* where the cycle is
    epoch,     \* the configuration the cycle captured
    view,      \* the entry as frozen behind the gate
    op,        \* the operation being prepared or executed
    wire,      \* external: operations sent under the latest lease and not yet served
    cloud,     \* external: the records this device's operations left in the zone
    done       \* external: ids of the operations the service has committed

local == <<file, contents, scan, missing, row>>
job == <<config, editing>>
cycle == <<pc, epoch, view, op>>
service == <<wire, cloud, done>>
vars == <<local, entry, issued, ops, job, cycle, service>>

NoRow == [loc |-> "none", fav |-> 0, seen |-> 0]

\* No sync_entries row.  `created` says that a confirmed create names the entry.
NoEntry ==
    [dirty |-> "absent", media |-> "none", local |-> 0, meta |-> 0, content |-> 0,
     ackedMeta |-> 0, ackedContent |-> 0, photo |-> 0, error |-> "none", created |-> "no"]

NewEntry == [NoEntry EXCEPT !.dirty = "new", !.media = "row"]

NoOp ==
    [id |-> 0, phase |-> "none", config |-> 0, local |-> 0, meta |-> 0, content |-> 0,
     photo |-> 0, body |-> "null", sendMeta |-> "no", sendContent |-> "no", fav |-> 0, bytes |-> 0]

(***************************************************************************)
(* Local changes and the obligations they create.                          *)
(***************************************************************************)
Dirtied(e, category) ==
    IF category = "deletion" \/ e.dirty = "delete" THEN "delete"
    ELSE IF e.photo = 0 THEN "new" ELSE "modified"

\* Mutant: an ordinary change takes a pending deletion back.
mark_revives(e, category) ==
    [e EXCEPT !.dirty = IF category = "deletion" THEN "delete"
                        ELSE IF e.photo = 0 THEN "new" ELSE "modified",
              !.local = @ + 1,
              !.meta = IF category = "metadata" THEN @ + 1 ELSE @,
              !.content = IF category = "content" THEN @ + 1 ELSE @]

\* The single funnel of every local change to an entry.
mark(e, category) ==
    [e EXCEPT !.dirty = Dirtied(e, category),
              !.local = @ + 1,
              !.meta = IF category = "metadata" THEN @ + 1 ELSE @,
              !.content = IF category = "content" THEN @ + 1 ELSE @]

\* note() finds the entry by media id and path.  When the path has an entry that
\* is not linked to the row, the insert breaks UNIQUE(job_id, relative_path).
CanNote == entry.dirty = "absent" \/ entry.media = "row"

note(category) == mark(IF entry.dirty = "absent" THEN NewEntry ELSE entry, category)

MayChange == entry.local < MaxVersion

\* The user or another program writes the file, or removes it.
WriteFile ==
    /\ contents < MaxContent
    /\ file' = contents + 1
    /\ contents' = contents + 1
    /\ UNCHANGED <<scan, missing, row, entry, issued, ops, job, cycle, service>>

RemoveFile ==
    /\ file # 0
    /\ file' = 0
    /\ UNCHANGED <<contents, scan, missing, row, entry, issued, ops, job, cycle, service>>

\* A scan or the watcher reads the file, and the row is written later.  What is
\* already indexed is skipped, unless its row is cloud-only.
ScanReads ==
    /\ scan = 0
    /\ file # 0
    /\ row.loc \in {"none", "cloud"} \/ row.seen # file
    /\ scan' = file
    /\ UNCHANGED <<file, contents, missing, row, entry, issued, ops, job, cycle, service>>

\* A known row is noted as changed content when it was cloud-only or differs
\* from what was indexed; a new row is only inserted.
upsert_changed == row.loc # "none" /\ (row.loc = "cloud" \/ row.seen # scan)

upsert_media_items ==
    /\ scan # 0
    /\ scan' = 0
    /\ upsert_changed => CanNote /\ MayChange
    /\ entry' = IF upsert_changed THEN note("content") ELSE entry
    /\ row' = [loc |-> CASE row.loc = "none" -> "local"
                         [] row.loc = "cloud" -> "both"
                         [] OTHER -> row.loc,
               fav |-> row.fav, seen |-> scan]
    /\ UNCHANGED <<file, contents, missing, issued, ops, job, cycle, service>>

\* The transaction of a change that cannot be noted rolls back.
UpsertRefused ==
    /\ scan # 0
    /\ upsert_changed /\ ~CanNote
    /\ scan' = 0
    /\ UNCHANGED <<file, contents, missing, row, entry, issued, ops, job, cycle, service>>

\* visible_media: a cloud-only row whose deletion is pending is not shown.
Visible ==
    \/ row.loc \in {"local", "both"}
    \/ row.loc = "cloud" /\ entry.media = "row" /\ entry.dirty # "delete"

\* SetFavorite: the toggle and its obligation are one transaction.
SetFavorite ==
    /\ Visible
    /\ CanNote /\ MayChange
    /\ row' = [loc |-> row.loc, fav |-> 1 - row.fav, seen |-> row.seen]
    /\ entry' = note("metadata")
    /\ UNCHANGED <<file, contents, scan, missing, issued, ops, job, cycle, service>>

\* A missing file is recognised before the write lock is taken.
RemovalSeen ==
    /\ missing = "no"
    /\ file = 0
    /\ row.loc \in {"local", "both"}
    /\ missing' = "yes"
    /\ UNCHANGED <<file, contents, scan, row, entry, issued, ops, job, cycle, service>>

\* remove_or_trash_live_row_in: deleting the row unlinks its entry; the row stays
\* as cloud-only when the deletion was noted and there is a cloud copy.
delete_live_media ==
    /\ missing = "yes"
    /\ missing' = "no"
    /\ LET live == row.loc \in {"local", "both"}
           noted == live /\ entry.dirty # "absent" /\ entry.media = "row"
           kept == noted /\ row.loc = "both"
           marked == IF noted THEN mark(entry, "deletion") ELSE entry
       IN  /\ noted => MayChange
           /\ row' = IF kept THEN [loc |-> "cloud", fav |-> row.fav, seen |-> row.seen]
                     ELSE IF live THEN NoRow ELSE row
           /\ entry' = IF kept \/ ~live THEN marked ELSE [marked EXCEPT !.media = "none"]
    /\ UNCHANGED <<file, contents, scan, issued, ops, job, cycle, service>>

\* A configuration edit is queued at once and applied when no cycle runs.
QueueEdit ==
    /\ editing = "no"
    /\ config < MaxConfig
    /\ editing' = "yes"
    /\ UNCHANGED <<local, entry, issued, ops, config, cycle, service>>

ApplyEdit ==
    /\ editing = "yes"
    /\ pc = "idle"
    /\ editing' = "no"
    /\ config' = config + 1
    /\ UNCHANGED <<local, entry, issued, ops, cycle, service>>

(***************************************************************************)
(* The cycle's transactions: Command variants of store/runtime.rs.         *)
(***************************************************************************)
\* Every one of them is refused once the configuration it began with is gone.
valid_epoch == editing = "no" /\ epoch = config

\* A live local row without an entry at its path gets one.
Enrolled == IF entry.dirty = "absent" /\ row.loc \in {"local", "both"} THEN NewEntry ELSE entry

Larger(a, b) == IF a > b THEN a ELSE b

\* Mutant: success clears the dirty state whatever changed since the capture.
Confirmed_blind(e, o) ==
    IF o.phase = "delete" THEN NoEntry
    ELSE [e EXCEPT !.photo = o.photo, !.ackedMeta = o.meta, !.ackedContent = o.content,
                   !.created = IF o.phase = "create" THEN "yes" ELSE @,
                   !.dirty = IF @ = "delete" THEN "delete" ELSE "clean"]

\* What a confirmed operation leaves.  A deletion at the captured version retires
\* and removes the entry, after a newer change the photo is new again.  A create
\* or modify acknowledges what it sent and stays dirty for what came later.
Confirmed(e, o) ==
    IF o.phase = "delete"
    THEN IF e.local = o.local THEN NoEntry ELSE [e EXCEPT !.photo = 0, !.dirty = "new"]
    ELSE LET ackedMeta == IF o.sendMeta = "yes" THEN Larger(e.ackedMeta, o.meta) ELSE e.ackedMeta
             ackedContent ==
                 IF o.sendContent = "yes" THEN Larger(e.ackedContent, o.content) ELSE e.ackedContent
             behind == e.local # o.local \/ e.meta > ackedMeta \/ e.content > ackedContent
         IN  [e EXCEPT !.photo = o.photo, !.ackedMeta = ackedMeta, !.ackedContent = ackedContent,
                       !.created = IF o.phase = "create" THEN "yes" ELSE @,
                       !.dirty = IF @ = "delete" THEN "delete"
                                 ELSE IF behind THEN "modified" ELSE "clean"]

\* Every confirmation marks the linked row as stored on both sides.  A deletion
\* then deletes the row if it is cloud-only, which after that it is not.
ConfirmedRow ==
    IF entry.media = "row" THEN [loc |-> "both", fav |-> row.fav, seen |-> row.seen] ELSE row

Confirm(o) ==
    /\ valid_epoch
    /\ o \in issued
    /\ entry' = Confirmed(entry, o)
    /\ row' = ConfirmedRow
    /\ issued' = issued \ {o}

\* upload_failed: the photo is left alone until the next Begin.
UploadFailed ==
    valid_epoch /\ entry.dirty # "absent" /\ entry' = [entry EXCEPT !.error = "failed"]

(***************************************************************************)
(* The cycle.                                                              *)
(***************************************************************************)
\* Begin captures the configuration and clears old failures.
Begin ==
    /\ pc = "idle"
    /\ editing = "no"
    /\ pc' = "begun"
    /\ epoch' = config
    /\ entry' = [entry EXCEPT !.error = "none"]
    /\ UNCHANGED <<local, issued, ops, job, view, op, service>>

\* The cycle stops here: the gate is closed, a transaction was refused, the lease
\* is lost, the task is cancelled or the process dies.  The database and the
\* requests on the wire remain.
Abandon ==
    /\ pc # "idle"
    /\ pc' = "idle" /\ view' = NoEntry /\ op' = NoOp
    /\ UNCHANGED <<local, entry, issued, ops, job, epoch, service>>

\* cycle_inner: enrol and acquire the lease.  From here the service refuses what
\* was sent under an earlier one.
Acquire ==
    /\ pc = "begun"
    /\ valid_epoch
    /\ entry' = Enrolled
    /\ wire' = {}
    /\ pc' = "reconcile"
    /\ UNCHANGED <<local, issued, ops, job, epoch, view, op, cloud, done>>

\* Nothing issued, or only operations that were never sent.
ReconcileNothing ==
    /\ pc = "reconcile"
    /\ \A o \in issued : o.body = "null" /\ o.config = epoch
    /\ pc' = "gate"
    /\ UNCHANGED <<local, entry, issued, ops, job, epoch, view, op, service>>

\* Mutant: any operation of an older configuration is dropped.
ReconcileRetires_sent ==
    /\ pc = "reconcile"
    /\ valid_epoch
    /\ \E o \in issued : o.config # epoch /\ issued' = issued \ {o}
    /\ UNCHANGED <<local, entry, ops, job, cycle, service>>

\* RetireIssued: preparation of an older configuration that was never sent.
ReconcileRetires ==
    /\ pc = "reconcile"
    /\ valid_epoch
    /\ \E o \in issued : o.body = "null" /\ o.config # epoch /\ issued' = issued \ {o}
    /\ UNCHANGED <<local, entry, ops, job, cycle, service>>

\* The receipt says the operation was committed.
ReconcileCommitted ==
    /\ pc = "reconcile"
    /\ \E o \in issued : o.body = "set" /\ o.id \in done /\ Confirm(o)
    /\ UNCHANGED <<file, contents, scan, missing, ops, job, cycle, service>>

\* Not known to be committed.  An older configuration's operation stops the cycle.
ReconcileUnknown ==
    /\ pc = "reconcile"
    /\ \E o \in issued :
          /\ o.body = "set" /\ o.id \notin done
          /\ pc' = IF o.config = epoch THEN "gate" ELSE "idle"
    /\ UNCHANGED <<local, entry, issued, ops, job, epoch, view, op, service>>

\* The receipt could not be read, or its confirmation failed.
ReconcileFails ==
    /\ pc = "reconcile"
    /\ UploadFailed
    /\ \E o \in issued : o.body = "set" /\ pc' = IF o.config = epoch THEN "gate" ELSE "idle"
    /\ UNCHANGED <<local, issued, ops, job, epoch, view, op, service>>

\* The gate is open: enrol once more and freeze the dirty view.
Gate ==
    /\ pc = "gate"
    /\ valid_epoch
    /\ entry' = Enrolled
    /\ view' = IF Enrolled.dirty = "clean" THEN NoEntry ELSE Enrolled
    /\ pc' = "delete"
    /\ UNCHANGED <<local, issued, ops, job, epoch, op, service>>

Phases == {"delete", "modify", "create"}

NextPhase(p) ==
    CASE p = "delete" -> "modify" [] p = "modify" -> "create" [] OTHER -> "idle"

\* The loop moves on to the next phase; an entry removed meanwhile leaves the view.
Advances(p, e) ==
    /\ pc' = NextPhase(p)
    /\ op' = NoOp
    /\ view' = IF p = "create" \/ e.dirty = "absent" THEN NoEntry ELSE view

PhaseOf(dirty) ==
    CASE dirty = "delete" -> "delete" [] dirty = "new" -> "create"
      [] dirty = "modified" -> "modify" [] OTHER -> "none"

matches_phase(e, p) == PhaseOf(e.dirty) = p

has_content_change(e) == e.content > e.ackedContent

has_metadata_change(e) == e.meta > e.ackedMeta

\* A deletion needs the file to be gone, an upload needs it to be there.
eligible(e) ==
    IF e.dirty = "delete" THEN file = 0
    ELSE file # 0 \/ (e.dirty # "new" /\ ~has_content_change(e))

\* uplink_entry_version: still dirty, and nothing changed since the freeze.
Current(e) == entry.dirty \notin {"absent", "clean"} /\ entry.local = e.local

Dispatchable == matches_phase(view, pc) /\ eligible(view) /\ Current(view)

\* An operation left issued is executed in its own phase.
PhaseResumes ==
    /\ pc \in Phases
    /\ entry.error = "none"
    /\ \E o \in issued :
          /\ o.phase = pc
          /\ op' = o
          /\ pc' = IF o.body = "null" THEN "upload" ELSE "status"
    /\ UNCHANGED <<local, entry, issued, ops, job, epoch, view, service>>

\* With nothing issued the frozen entry is taken up in its phase.
PhasePrepares ==
    /\ pc \in Phases
    /\ entry.error = "none"
    /\ issued = {}
    /\ Dispatchable
    /\ op' = [NoOp EXCEPT !.phase = pc]
    /\ pc' = "prepare"
    /\ UNCHANGED <<local, entry, issued, ops, job, epoch, view, service>>

\* The photo is set aside, its operation belongs to another phase or is deferred by
\* a full batch, or there is nothing to dispatch.
PhaseSkips ==
    /\ pc \in Phases
    /\ entry.error = "failed" \/ issued # {} \/ ~Dispatchable
    /\ Advances(pc, entry)
    /\ UNCHANGED <<local, entry, issued, ops, job, epoch, service>>

NeedsContent == op.phase = "create" \/ (op.phase = "modify" /\ has_content_change(view))

\* The batch is full, the file is too large or its thumbnail is not cached yet.
PrepareDefers ==
    /\ pc = "prepare"
    /\ Advances(op.phase, entry)
    /\ UNCHANGED <<local, entry, issued, ops, job, epoch, service>>

NeverPublished == op.phase = "delete" /\ view.photo = 0

\* Nothing to delete in the cloud.  An issued operation refuses this, and so does
\* a confirmed create of this entry.
PrepareAbsent ==
    /\ pc = "prepare"
    /\ NeverPublished
    /\ valid_epoch
    /\ entry.dirty = "delete" /\ entry.local = view.local /\ entry.photo = 0
    /\ issued = {} /\ entry.created = "no"
    /\ entry' = NoEntry
    /\ Advances("delete", NoEntry)
    /\ UNCHANGED <<local, issued, ops, job, epoch, service>>

\* The operation takes the frozen versions and reads the metadata as it is now.
PrepareCaptures ==
    /\ pc = "prepare"
    /\ ~NeverPublished
    /\ ops < MaxOps
    /\ ops' = ops + 1
    /\ op' = [id |-> ops + 1, phase |-> op.phase, config |-> epoch,
              local |-> view.local, meta |-> view.meta, content |-> view.content,
              photo |-> IF view.photo = 0 THEN ops + 1 ELSE view.photo,
              body |-> IF op.phase = "delete" THEN "set" ELSE "null",
              sendMeta |-> IF op.phase = "create" \/ has_metadata_change(view) THEN "yes" ELSE "no",
              sendContent |-> IF NeedsContent THEN "yes" ELSE "no",
              fav |-> IF entry.media = "row" THEN row.fav ELSE 0,
              bytes |-> 0]
    /\ pc' = IF NeedsContent THEN "snapshot" ELSE "save"
    /\ UNCHANGED <<local, entry, issued, job, epoch, view, service>>

\* The original is copied into owned staging.
PrepareSnapshots ==
    /\ pc = "snapshot"
    /\ file # 0
    /\ op' = [op EXCEPT !.bytes = file]
    /\ pc' = "save"
    /\ UNCHANGED <<local, entry, issued, ops, job, epoch, view, service>>

\* The version is checked again and the evidence saved before any mutation.
PrepareSaves ==
    /\ pc = "save"
    /\ Current(op)
    /\ valid_epoch
    /\ issued' = issued \union {op}
    /\ pc' = IF op.body = "null" THEN "upload" ELSE "status"
    /\ UNCHANGED <<local, entry, ops, job, epoch, view, op, service>>

\* The resources are uploaded and the exact body is saved.  An empty patch is an
\* error, so such an operation is never sent.
ExecuteUploads ==
    /\ pc = "upload"
    /\ op.sendMeta = "yes" \/ op.sendContent = "yes"
    /\ op \in issued
    /\ valid_epoch
    /\ op' = [op EXCEPT !.body = "set"]
    /\ issued' = (issued \ {op}) \union {op'}
    /\ pc' = "status"
    /\ UNCHANGED <<local, entry, ops, job, epoch, view, service>>

\* The cloud already says what a metadata-only edit wants.
metadata_matches(o) ==
    /\ o.phase = "modify" /\ o.sendContent = "no"
    /\ \E c \in cloud : c.photo = o.photo /\ c.fav = o.fav

\* The status is unknown: the operation is sent under the lease.
ExecuteSends ==
    /\ pc = "status"
    /\ op.id \notin done /\ ~metadata_matches(op)
    /\ wire' = wire \union {op}
    /\ pc' = "sent"
    /\ UNCHANGED <<local, entry, issued, ops, job, epoch, view, op, cloud, done>>

\* The operation is committed, or its effect is already there.
ExecuteConfirms ==
    /\ \/ pc = "status" /\ metadata_matches(op)
       \/ pc \in {"status", "sent"} /\ op.id \in done
    /\ Confirm(op)
    /\ Advances(op.phase, entry')
    /\ UNCHANGED <<file, contents, scan, missing, ops, job, epoch, service>>

\* A definite rejection retires the evidence; the obligation stays.
ExecuteRejected ==
    /\ pc = "rejected"
    /\ op \in issued
    /\ issued' = issued \ {op}
    /\ UploadFailed
    /\ Advances(op.phase, entry)
    /\ UNCHANGED <<local, ops, job, epoch, service>>

\* Mutant: a lost answer is taken for a rejection.
ExecuteFails_retires ==
    /\ pc \in {"prepare", "snapshot", "save", "upload", "status", "sent", "rejected"}
    /\ UploadFailed
    /\ issued' = issued \ {op}
    /\ Advances(op.phase, entry)
    /\ UNCHANGED <<local, ops, job, epoch, service>>

\* Any other failure of this photo: evidence already saved stays issued.
ExecuteFails ==
    /\ pc \in {"prepare", "snapshot", "save", "upload", "status", "sent", "rejected"}
    /\ UploadFailed
    /\ Advances(op.phase, entry)
    /\ UNCHANGED <<local, issued, ops, job, epoch, service>>

(***************************************************************************)
(* The service (external).                                                 *)
(***************************************************************************)
Known(o) == \E c \in cloud : c.photo = o.photo

\* The record an operation leaves: the fields it carries, the others unchanged.
Written(o) ==
    LET old == CHOOSE c \in cloud : c.photo = o.photo
    IN  [photo |-> o.photo,
         fav |-> IF o.sendMeta = "yes" THEN o.fav ELSE old.fav,
         content |-> IF o.sendContent = "yes" THEN o.bytes ELSE old.content]

\* An operation is committed atomically and at most once.
ServiceCommits ==
    /\ \E o \in wire :
          /\ o.id \notin done
          /\ o.phase = "create" \/ Known(o)
          /\ wire' = wire \ {o}
          /\ done' = done \union {o.id}
          /\ cloud' = {c \in cloud : c.photo # o.photo}
                      \union (IF o.phase = "delete" THEN {} ELSE {Written(o)})
    /\ UNCHANGED <<local, entry, issued, ops, job, cycle>>

\* Another device's newer revision, or a request the service does not accept.
ServiceRejects ==
    /\ \E o \in wire :
          /\ wire' = wire \ {o}
          /\ pc' = IF pc = "sent" /\ o = op THEN "rejected" ELSE pc
    /\ UNCHANGED <<local, entry, issued, ops, job, epoch, view, op, cloud, done>>

\* The request never arrives.
RequestLost ==
    /\ \E o \in wire : wire' = wire \ {o}
    /\ UNCHANGED <<local, entry, issued, ops, job, cycle, cloud, done>>

-----------------------------------------------------------------------------
Init ==
    /\ file = 0 /\ contents = 0 /\ scan = 0 /\ missing = "no"
    /\ row = NoRow
    /\ entry = NoEntry
    /\ issued = {} /\ ops = 0
    /\ config = 0 /\ editing = "no"
    /\ pc = "idle" /\ epoch = 0 /\ view = NoEntry /\ op = NoOp
    /\ wire = {} /\ cloud = {} /\ done = {}

Library ==
    \/ WriteFile \/ RemoveFile
    \/ ScanReads \/ upsert_media_items \/ UpsertRefused
    \/ RemovalSeen \/ delete_live_media
    \/ SetFavorite

Configuration == QueueEdit \/ ApplyEdit

Reconcile ==
    \/ ReconcileNothing \/ ReconcileRetires \/ ReconcileCommitted
    \/ ReconcileUnknown \/ ReconcileFails

Phase == PhaseResumes \/ PhasePrepares \/ PhaseSkips

Prepare ==
    \/ PrepareDefers \/ PrepareAbsent \/ PrepareCaptures \/ PrepareSnapshots
    \/ PrepareSaves

Execute ==
    \/ ExecuteUploads \/ ExecuteSends \/ ExecuteConfirms \/ ExecuteRejected
    \/ ExecuteFails

Cycle == Begin \/ Acquire \/ Reconcile \/ Gate \/ Phase \/ Prepare \/ Execute \/ Abandon

Service == ServiceCommits \/ ServiceRejects \/ RequestLost

Next == Library \/ Configuration \/ Cycle \/ Service

Spec == Init /\ [][Next]_vars

(***************************************************************************)
(* Properties.                                                             *)
(***************************************************************************)
YesNo == {"yes", "no"}

Rows == [loc : {"none", "local", "cloud", "both"}, fav : 0..1, seen : Nat]

Entries ==
    [dirty : {"absent", "clean", "new", "modified", "delete"}, media : {"none", "row"},
     local : Nat, meta : Nat, content : Nat, ackedMeta : Nat, ackedContent : Nat,
     photo : Nat, error : {"none", "failed"}, created : YesNo]

Operations ==
    [id : Nat, phase : Phases \union {"none"}, config : Nat, local : Nat, meta : Nat,
     content : Nat, photo : Nat, body : {"null", "set"}, sendMeta : YesNo,
     sendContent : YesNo, fav : 0..1, bytes : Nat]

Records == [photo : Nat, fav : 0..1, content : Nat]

Steps ==
    {"idle", "begun", "reconcile", "gate", "prepare", "snapshot", "save", "upload", "status",
     "sent", "rejected"} \union Phases

\* Every variable keeps its type.
TypeOK ==
    /\ file \in Nat /\ contents \in Nat /\ scan \in Nat /\ missing \in YesNo
    /\ row \in Rows /\ entry \in Entries
    /\ issued \subseteq Operations /\ ops \in Nat
    /\ config \in Nat /\ editing \in YesNo
    /\ pc \in Steps /\ epoch \in Nat /\ view \in Entries /\ op \in Operations
    /\ wire \subseteq Operations /\ cloud \subseteq Records /\ done \subseteq Nat

\* A clean entry means published: the cloud holds the photo the entry names, with
\* the favourite flag of the row, and with the file's content once the library has
\* indexed what is on disk.  (Confirm, versus edits made while an operation was
\* prepared, sent, lost, retried or confirmed by a later cycle.)
CleanIsPublished ==
    entry.dirty = "clean" =>
        \E c \in cloud :
            /\ c.photo = entry.photo
            /\ c.fav = row.fav
            /\ row.seen = file => c.content = file

\* No cloud copy is ever forgotten: each record is the one the entry names, or
\* that of an operation whose evidence is still issued.  (Save before send,
\* RetireIssued only for what was never sent or definitely rejected.)
NoOrphan ==
    \A c \in cloud : c.photo = entry.photo \/ \E o \in issued : o.photo = c.photo

\* One photo is never published twice, however often a create is retried.
PublishedOnce == \A c, d \in cloud : c = d

\* At most one operation of a photo is outstanding; the next one is derived only
\* after its outcome is settled.
OneIssued == \A o, p \in issued : o = p

\* A deletion obligation ends only when the cloud really holds no copy any more.
\* (mark, Confirm, ConfirmAbsentDeletion.)
DeletionKept ==
    [][entry.dirty = "delete" /\ entry'.dirty # "delete" => cloud = {}]_vars

(***************************************************************************)
(* The inductive invariant behind NoOrphan, PublishedOnce, OneIssued and   *)
(* DeletionKept.                                                           *)
(***************************************************************************)
Preparing == {"prepare", "snapshot", "save"}

Executing == {"upload", "status", "sent", "rejected"}

\* Identities are drawn from the counter and so are fresh.
Fresh ==
    /\ entry.photo <= ops /\ op.id <= ops /\ op.photo <= ops
    /\ \A o \in issued : o.id <= ops /\ o.photo <= ops
    /\ \A o \in wire : o.id <= ops
    /\ \A c \in cloud : c.photo <= ops
    /\ \A i \in done : i <= ops

\* Nothing is issued while an operation is prepared; what is executed is issued.
\* What has no body was never sent, and a rejected operation was not committed.
Evidence ==
    /\ pc \in Preparing => issued = {}
    /\ pc \in Executing => op \in issued
    /\ \A o \in issued : o.body = "null" => o.id \notin done
    /\ pc = "rejected" => op.id \notin done
    /\ pc \in {"status", "sent", "rejected"} => op.body = "set"

\* Only operations with evidence are on the wire, and after the lease was acquired
\* only the one this cycle has sent.
OnWire ==
    /\ \A o \in wire : o \in issued /\ o.id \notin done /\ o.body = "set"
    /\ pc \in {"reconcile", "gate", "upload", "status", "rejected"} \union Preparing => wire = {}
    /\ pc = "sent" => wire \subseteq {op}
    /\ pc \in Phases /\ entry.error = "none" => wire = {}

\* The dirty state and the cloud identity agree.
Identity(e) ==
    /\ e.dirty \in {"absent", "new"} => e.photo = 0
    /\ e.dirty \in {"clean", "modified"} => e.photo # 0

\* The phases the frozen view can still be dispatched in.
Ahead(p) ==
    CASE p = "delete" -> Phases [] p = "modify" -> {"modify", "create"} [] OTHER -> {p}

\* The frozen view keeps naming the entry's cloud identity until its phase is over.
Frozen ==
    /\ Identity(entry) /\ Identity(view)
    /\ pc \in Phases /\ PhaseOf(view.dirty) \in Ahead(pc) => view.photo = entry.photo
    /\ pc \in Executing /\ PhaseOf(view.dirty) \in Ahead(NextPhase(op.phase)) =>
          view.photo = entry.photo
    /\ pc \in Phases \union Executing =>
          \A o \in issued : o.phase = "delete" => view.dirty = "delete"
    /\ pc = "delete" /\ view.dirty = "delete" => entry.dirty = "delete"

\* An operation in preparation is of the frozen entry's phase and identity.
Prepared ==
    /\ pc \in Preparing =>
          /\ op.phase \in Phases /\ op.phase = PhaseOf(view.dirty)
          /\ view.photo = entry.photo /\ entry.dirty # "absent"
          /\ op.phase = "delete" => entry.dirty = "delete"
    /\ pc \in {"snapshot", "save"} =>
          /\ op.id \notin done /\ op.photo # 0
          /\ op.phase # "create" => op.photo = entry.photo
          /\ op.phase = "create" => op.sendMeta = "yes" /\ op.sendContent = "yes"

Holds(photo) == \E c \in cloud : c.photo = photo

\* What the cloud holds follows from the entry and from the issued operation.
Owned(o) ==
    /\ o.photo # 0
    /\ \/ /\ o.phase = "create"
          /\ o.sendMeta = "yes" /\ o.sendContent = "yes"
          /\ entry.photo = 0 /\ entry.dirty \in {"new", "delete"}
          /\ IF o.id \in done THEN Holds(o.photo) ELSE cloud = {}
       \/ /\ o.phase = "modify"
          /\ entry.photo = o.photo /\ entry.dirty \in {"modified", "delete"}
          /\ Holds(o.photo)
       \/ /\ o.phase = "delete"
          /\ entry.photo = o.photo /\ entry.dirty = "delete"
          /\ IF o.id \in done THEN cloud = {} ELSE Holds(o.photo)

Ledger ==
    /\ issued = {} => IF entry.photo = 0 THEN cloud = {} ELSE Holds(entry.photo)
    /\ \A o \in issued : Owned(o)

IInv ==
    /\ TypeOK /\ Fresh /\ OneIssued /\ Evidence /\ OnWire
    /\ Frozen /\ Prepared /\ Ledger /\ PublishedOnce

(***************************************************************************)
(* The inductive invariant behind CleanIsPublished, on top of IInv.        *)
(***************************************************************************)
\* There is a photo to publish.
Live == entry.dirty \notin {"absent", "delete"}

\* What is acknowledged was noted before, and of a clean entry that is everything.
Counted ==
    /\ entry.ackedMeta <= entry.meta /\ entry.ackedContent <= entry.content
    /\ entry.dirty = "clean" =>
          entry.meta <= entry.ackedMeta /\ entry.content <= entry.ackedContent

\* A live entry is linked to its row, and only a cloud copy lets a deletion keep it.
\* A deletion that lost its row does not change again.
Linked ==
    /\ entry.dirty = "absent" => entry = NoEntry
    /\ Live => entry.media = "row"
    /\ entry.media = "row" =>
          row.loc # "none" /\ (entry.photo # 0 => row.loc \in {"both", "cloud"})
    /\ row.loc # "none" => row.seen # 0
    /\ file <= contents /\ scan <= contents /\ row.seen <= contents
    /\ entry.media = "none" => \A o \in issued : o.phase = "delete" => o.local = entry.local

\* The versions of an operation lie between what is acknowledged and what is noted.
Versioned(o) ==
    /\ entry.ackedMeta <= o.meta /\ o.meta <= entry.meta
    /\ entry.ackedContent <= o.content /\ o.content <= entry.content

\* An operation carries the flag of its version, and a patch only what is not
\* acknowledged yet.
MetaTrue(o) ==
    Live /\ o.phase # "delete" /\ o.sendMeta = "yes" =>
        /\ o.meta = entry.meta => o.fav = row.fav
        /\ o.phase = "modify" => entry.ackedMeta < entry.meta

\* The same of the content, as far as the library has indexed the file.
ContentTrue(o) ==
    Live /\ o.phase # "delete" /\ o.sendContent = "yes" =>
        /\ o.content = entry.content /\ row.seen = file => o.bytes = file
        /\ o.phase = "modify" => entry.ackedContent < entry.content

\* What the service has committed is in the record.
Landed(o) ==
    o.id \in done /\ o.phase # "delete" =>
        \A c \in cloud : /\ o.sendMeta = "yes" => c.fav = o.fav
                         /\ o.sendContent = "yes" => c.content = o.bytes

\* What is acknowledged is in the record.
Acknowledged ==
    Live /\ entry.photo # 0 =>
        \A c \in cloud :
            /\ entry.meta <= entry.ackedMeta => c.fav = row.fav
            /\ entry.content <= entry.ackedContent /\ row.seen = file => c.content = file

\* The frozen view has the entry's acknowledgements, and versions the entry had.
Behind ==
    /\ view.ackedMeta = entry.ackedMeta /\ view.ackedContent = entry.ackedContent
    /\ entry.ackedMeta <= view.meta /\ view.meta <= entry.meta
    /\ entry.ackedContent <= view.content /\ view.content <= entry.content

\* It does until its phase is over.
ViewBehind ==
    /\ pc \in Phases /\ PhaseOf(view.dirty) \in Ahead(pc) => Behind
    /\ pc \in Executing /\ PhaseOf(view.dirty) \in Ahead(NextPhase(op.phase)) => Behind
    /\ pc \in Preparing => Behind

\* An operation in preparation, before and after its content is copied.
Drafted ==
    /\ pc \in {"snapshot", "save"} => Versioned(op) /\ MetaTrue(op)
    /\ pc = "snapshot" /\ Live /\ op.phase = "modify" => entry.ackedContent < entry.content
    /\ pc = "save" => ContentTrue(op)

SyncedData ==
    /\ Counted /\ Linked /\ Acknowledged
    /\ \A o \in issued : Versioned(o) /\ MetaTrue(o) /\ ContentTrue(o) /\ Landed(o)

Synced == SyncedData /\ ViewBehind /\ Drafted

(***************************************************************************)
(* What the repository says of the program, and the code does not do.      *)
(***************************************************************************)
\* The delete confirmation removes the row that was kept as cloud-only waiting
\* for it.
ConfirmedDeletionRemovesRow ==
    [][row.loc = "cloud" /\ entry.media = "row" /\ entry'.dirty = "absent" => row' = NoRow]_vars

\* An edit of a photo whose file is in the folder can always be recorded.
EditsEnroll == row.loc \in {"local", "both"} /\ file # 0 => CanNote

\* A deletion of a photo without cloud identity is refused only while an operation
\* that is not confirmed still owns it.
RefusedOnlyByUnconfirmed ==
    (entry.dirty = "delete" /\ entry.photo = 0 /\ issued = {}) => entry.created = "no"
=============================================================================
