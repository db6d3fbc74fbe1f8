------------------------------- MODULE Trash -------------------------------
(***************************************************************************)
(* One photo, the folder it lives in and the trash.                        *)
(*                                                                         *)
(* The file, its media_items row and the obligation its sync entry carries *)
(* are changed by four parties: the user through the app (mark, move,      *)
(* commit; restore; permanent delete), other programs on the same files,   *)
(* the watcher, which classifies what it sees before it writes, and the    *)
(* trash reconciliation, which plans before it writes.  The process can    *)
(* die at any point; starting again scans the folder and reconciles.       *)
(*                                                                         *)
(* The uplink is reduced to its effect: the cloud is told the state of the *)
(* row (Uplink.tla has the details).  The photo's content never changes.   *)
(***************************************************************************)
CONSTANT Backends      \* the trash backends in use: "System" (gio) and "App"

ASSUME BackendsAssumption == Backends \subseteq {"System", "App"}

VARIABLES
    disk,      \* where the file is: its folder, the trash with or without its
               \* trashinfo ("trash", "orphan"), staged for unlinking, or nowhere
    removed,   \* history: how far the file ever came to be removed: "no", "staged", "yes"
    row,       \* media_items: "live", "trashed", "none"
    stored,    \* its storage_location: "local", "cloud" or "both"
    entry,     \* sync_entries: "linked" to the row, "unlinked", "none"
    owed,      \* the obligation of the entry: "none", "metadata", "deletion"
    told,      \* external: the state the cloud was last told
    task,      \* the app's trash operation in progress
    folder,    \* "yes" while the watcher has an unprocessed event of the folder
    trash,     \* "yes" while it has one of the trash directories
    watch,     \* what the watcher saw and has not yet written
    plan,      \* the reconciliation that is planned and not yet written
    calm       \* history: "yes" after a restart, until somebody touches the photo

files == <<disk, removed>>
sync == <<entry, owed, told>>
events == <<folder, trash>>
library == <<row, stored>>
vars == <<files, library, sync, task, events, watch, plan, calm>>

\* The database actor runs one command at a time: a removal looks at the disk and
\* writes, a reconciliation writes twice, with no other command between.
ActorFree == watch \notin {"missing", "trashed"} /\ plan \notin {"marked", "inserted"}

\* A change is noted on the entry of the row.  A row without one is enrolled, which
\* fails while an entry without a row holds its path.
CanNote == entry # "unlinked"

NotedChange ==
    /\ entry' = "linked"
    /\ owed' = IF owed = "deletion" THEN owed ELSE "metadata"

NotedDeletion == owed' = IF entry = "linked" THEN "deletion" ELSE owed

(***************************************************************************)
(* The user, through the app.                                              *)
(***************************************************************************)
\* The row is marked before the file moves.
MarkTrashed ==
    /\ task = "idle" /\ ActorFree
    /\ row = "live" /\ stored # "cloud"
    /\ row' = "trashed"
    /\ task' = "marked"
    /\ calm' = "no"
    /\ UNCHANGED <<files, stored, sync, events, watch, plan>>

\* gio moves the file together with its trashinfo.
move_to_system_trash ==
    /\ task = "marked"
    /\ "System" \in Backends
    /\ disk = "folder"
    /\ disk' = "trash"
    /\ task' = "moved"
    /\ folder' = "yes" /\ trash' = "yes"
    /\ calm' = "no"
    /\ UNCHANGED <<removed, library, sync, watch, plan>>

\* The app's own trash moves the file and writes the trashinfo after it.
move_to_app_trash ==
    /\ task = "marked"
    /\ "App" \in Backends
    /\ disk = "folder"
    /\ disk' = "orphan"
    /\ task' = "writing"
    /\ folder' = "yes" /\ trash' = "yes"
    /\ calm' = "no"
    /\ UNCHANGED <<removed, library, sync, watch, plan>>

WriteTrashinfo ==
    /\ task = "writing"
    /\ disk' = "trash"
    /\ task' = "moved"
    /\ trash' = "yes"
    /\ calm' = "no"
    /\ UNCHANGED <<removed, library, sync, folder, watch, plan>>

\* The trashinfo cannot be written: the file moves back.
WriteTrashinfoFails ==
    /\ task = "writing"
    /\ disk' = "folder"
    /\ task' = "failed"
    /\ folder' = "yes"
    /\ calm' = "no"
    /\ UNCHANGED <<removed, library, sync, trash, watch, plan>>

MoveFails ==
    /\ task = "marked"
    /\ task' = "failed"
    /\ calm' = "no"
    /\ UNCHANGED <<files, library, sync, events, watch, plan>>

\* unmark_trashed
RollbackTrashed ==
    /\ task = "failed" /\ ActorFree
    /\ row' = IF row = "trashed" THEN "live" ELSE row
    /\ task' = "idle"
    /\ calm' = "no"
    /\ UNCHANGED <<files, stored, sync, events, watch, plan>>

\* commit_trash_metadata: the obligation, in a transaction of its own.
CommitMovedToTrash ==
    /\ task = "moved" /\ ActorFree
    /\ task' = "idle"
    /\ IF row # "none" /\ CanNote THEN NotedChange ELSE UNCHANGED <<entry, owed>>
    /\ calm' = "no"
    /\ UNCHANGED <<files, library, told, events, watch, plan>>

\* The file moves back before the row is written.
prepare_restore ==
    /\ task = "idle"
    /\ row = "trashed"
    /\ disk = "trash"
    /\ disk' = "folder"
    /\ task' = "restoring"
    /\ folder' = "yes" /\ trash' = "yes"
    /\ calm' = "no"
    /\ UNCHANGED <<removed, library, sync, watch, plan>>

\* restore_trashed_metadata: the row and its obligation in one transaction.
RestoreTrashed ==
    /\ task = "restoring" /\ ActorFree
    /\ row # "none" /\ CanNote
    /\ row' = IF row = "trashed" THEN "live" ELSE row
    /\ NotedChange
    /\ task' = "idle"
    /\ calm' = "no"
    /\ UNCHANGED <<files, stored, told, events, watch, plan>>

\* The transaction fails or the row is gone: dropping the restore moves the file
\* into the trash again.
RestoreFails ==
    /\ task = "restoring"
    /\ disk' = IF disk = "folder" THEN "trash" ELSE disk
    /\ task' = "idle"
    /\ folder' = "yes" /\ trash' = "yes"
    /\ calm' = "no"
    /\ UNCHANGED <<removed, library, sync, watch, plan>>

prepare_permanent_delete ==
    /\ task = "idle"
    /\ row = "trashed"
    /\ disk = "trash"
    /\ disk' = "staged"
    /\ removed' = IF removed = "no" THEN "staged" ELSE removed
    /\ task' = "staged"
    /\ trash' = "yes"
    /\ calm' = "no"
    /\ UNCHANGED <<library, sync, folder, watch, plan>>

Unlink ==
    /\ task = "staged"
    /\ disk' = "gone"
    /\ removed' = "yes"
    /\ task' = "unlinked"
    /\ trash' = "yes"
    /\ calm' = "no"
    /\ UNCHANGED <<library, sync, folder, watch, plan>>

UnlinkFails ==
    /\ task = "staged"
    /\ disk' = "trash"
    /\ task' = "idle"
    /\ trash' = "yes"
    /\ calm' = "no"
    /\ UNCHANGED <<removed, library, sync, folder, watch, plan>>

\* Mutant: the row is deleted and the obligation left to a later pass.
commit_permanent_deletions_silent ==
    IF row = "trashed"
    THEN /\ entry' = IF entry = "linked" THEN "unlinked" ELSE entry
         /\ row' = "none" /\ stored' = "local"
         /\ UNCHANGED owed
    ELSE UNCHANGED <<library, entry, owed>>

\* The obligation and the removal of a trashed row are one transaction; deleting
\* the row unlinks its entry.
commit_permanent_deletions ==
    IF row = "trashed"
    THEN /\ NotedDeletion
         /\ entry' = IF entry = "linked" THEN "unlinked" ELSE entry
         /\ row' = "none" /\ stored' = "local"
    ELSE UNCHANGED <<library, entry, owed>>

DeleteTrashedRows ==
    /\ task = "unlinked" /\ ActorFree
    /\ commit_permanent_deletions
    /\ task' = "idle"
    /\ calm' = "no"
    /\ UNCHANGED <<files, told, events, watch, plan>>

(***************************************************************************)
(* Other programs.                                                         *)
(***************************************************************************)
\* No other program touches the file while the app is moving it.
Untouched == task \notin {"writing", "restoring", "staged"}

ExternalTrash ==
    /\ Untouched /\ disk = "folder"
    /\ disk' = "trash"
    /\ folder' = "yes" /\ trash' = "yes"
    /\ calm' = "no"
    /\ UNCHANGED <<removed, library, sync, task, watch, plan>>

ExternalRestore ==
    /\ Untouched /\ disk = "trash"
    /\ disk' = "folder"
    /\ folder' = "yes" /\ trash' = "yes"
    /\ calm' = "no"
    /\ UNCHANGED <<removed, library, sync, task, watch, plan>>

\* The file is removed from its folder, or the trash is emptied.
ExternalDelete ==
    /\ Untouched /\ disk \in {"folder", "trash"}
    /\ disk' = "gone"
    /\ removed' = "yes"
    /\ folder' = IF disk = "folder" THEN "yes" ELSE folder
    /\ trash' = IF disk = "trash" THEN "yes" ELSE trash
    /\ calm' = "no"
    /\ UNCHANGED <<library, sync, task, watch, plan>>

\* A copy is put back where the photo was.
ExternalCopy ==
    /\ Untouched /\ disk = "gone"
    /\ disk' = "folder"
    /\ folder' = "yes"
    /\ calm' = "no"
    /\ UNCHANGED <<removed, library, sync, task, trash, watch, plan>>

(***************************************************************************)
(* The watcher and the startup scan.                                       *)
(***************************************************************************)

Classified ==
    CASE disk = "folder" -> "present" [] disk = "trash" -> "trashed" [] OTHER -> "missing"

\* What happened is looked up on disk; the write follows.
flush_pending_paths ==
    /\ watch = "none" /\ ActorFree
    /\ folder = "yes"
    /\ folder' = "no"
    /\ watch' = Classified
    /\ UNCHANGED <<files, calm, library, sync, task, trash, plan>>

\* The row becomes live.  Only one that was cloud-only is noted, as changed content.
Upserted ==
    /\ row' = "live"
    /\ stored' = IF row = "none" THEN "local" ELSE IF stored = "cloud" THEN "both" ELSE stored
    /\ IF row # "none" /\ stored = "cloud" THEN NotedChange ELSE UNCHANGED <<entry, owed>>

\* Mutant: a scan leaves the mark of a trashed row alone.
upsert_media_items_marked ==
    /\ watch = "present" /\ ActorFree
    /\ watch' = "none"
    /\ IF row = "trashed" THEN UNCHANGED <<library, entry, owed>> ELSE Upserted
    /\ UNCHANGED <<files, calm, told, task, events, plan>>

upsert_media_items ==
    /\ watch = "present" /\ ActorFree
    /\ watch' = "none"
    /\ Upserted
    /\ UNCHANGED <<files, calm, told, task, events, plan>>

\* The row of a file that went to the trash is marked; of one that is gone the
\* row waits for the cloud, or goes when nothing is synchronised.
remove_or_trash_live_row ==
    \/ /\ watch = "trashed" /\ CanNote
       /\ row' = "trashed"
       /\ NotedChange
       /\ UNCHANGED stored
    \/ /\ watch = "missing" /\ entry = "linked" /\ stored = "both"
       /\ stored' = "cloud"
       /\ NotedDeletion
       /\ UNCHANGED <<row, entry>>
    \/ /\ watch = "missing" /\ ~(entry = "linked" /\ stored = "both")
       /\ row' = "none" /\ stored' = "local"
       /\ NotedDeletion
       /\ entry' = IF entry = "linked" THEN "unlinked" ELSE entry
    \/ /\ watch = "trashed" /\ ~CanNote
       /\ UNCHANGED <<library, entry, owed>>

\* delete_live_media_by_paths: only a live row with a local file is touched.
delete_live_media ==
    /\ watch \in {"missing", "trashed"}
    /\ watch' = "none"
    /\ IF row = "live" /\ stored # "cloud"
       THEN remove_or_trash_live_row
       ELSE UNCHANGED <<library, entry, owed>>
    /\ UNCHANGED <<files, calm, told, task, events, plan>>

(***************************************************************************)
(* Trash reconciliation.                                                   *)
(***************************************************************************)
\* Rows against trash entries, without writing anything.
prepare_trash_reconcile ==
    /\ plan = "none"
    /\ trash = "yes"
    /\ trash' = "no"
    /\ plan' = CASE disk = "trash" /\ row = "live" -> "mark"
                 [] disk = "trash" /\ row = "none" -> "insert"
                 [] disk \notin {"folder", "trash"} /\ row = "trashed" -> "prune"
                 [] OTHER -> "none"
    /\ UNCHANGED <<files, calm, library, sync, task, folder, watch>>

\* commit_trash_reconcile marks the row and notes it in two transactions.
ReconcileMarks ==
    /\ plan = "mark" /\ ActorFree
    /\ row' = IF row = "none" THEN row ELSE "trashed"
    /\ plan' = "marked"
    /\ UNCHANGED <<files, calm, stored, sync, task, events, watch>>

ReconcileNotes ==
    /\ plan = "marked"
    /\ IF row # "none" /\ CanNote THEN NotedChange ELSE UNCHANGED <<entry, owed>>
    /\ plan' = "none"
    /\ UNCHANGED <<files, calm, library, told, task, events, watch>>

\* A row the library does not have is inserted live and then marked.
ReconcileInserts ==
    /\ plan = "insert" /\ ActorFree
    /\ Upserted
    /\ plan' = "inserted"
    /\ UNCHANGED <<files, calm, told, task, events, watch>>

ReconcileMarksNew ==
    /\ plan = "inserted"
    /\ row' = "trashed"
    /\ plan' = "none"
    /\ UNCHANGED <<files, calm, stored, sync, task, events, watch>>

ReconcilePrunes ==
    /\ plan = "prune" /\ ActorFree
    /\ commit_permanent_deletions
    /\ plan' = "none"
    /\ UNCHANGED <<files, calm, told, task, events, watch>>

(***************************************************************************)
(* The process dies and starts again: reconcile, scan and prune.           *)
(***************************************************************************)
Crash ==
    /\ task # "idle" \/ watch # "none" \/ plan # "none"
    /\ task' = "idle" /\ watch' = "none" /\ plan' = "none"
    /\ folder' = "yes" /\ trash' = "yes"
    /\ calm' = "yes"
    /\ UNCHANGED <<files, library, sync>>

(***************************************************************************)
(* The uplink, by its effect.                                              *)
(***************************************************************************)
\* A live row without an entry is enrolled and created.
UplinkCreates ==
    /\ ActorFree
    /\ entry = "none"
    /\ row = "live" /\ disk = "folder"
    /\ entry' = "linked" /\ owed' = "none" /\ told' = "live"
    /\ stored' = "both"
    /\ UNCHANGED <<files, calm, row, task, events, watch, plan>>

\* isTrashed follows the row; a photo the cloud does not have needs its file.
UplinkModifies ==
    /\ ActorFree
    /\ owed = "metadata"
    /\ told = "deleted" => disk = "folder"
    /\ owed' = "none"
    /\ told' = row
    /\ stored' = "both"
    /\ UNCHANGED <<files, calm, row, entry, task, events, watch, plan>>

\* A deletion is sent only while the file is neither in its folder nor in the
\* trash.  Its confirmation removes the entry and leaves the row.
UplinkDeletes ==
    /\ ActorFree
    /\ owed = "deletion"
    /\ disk \notin {"folder", "trash"}
    /\ owed' = "none" /\ entry' = "none" /\ told' = "deleted"
    /\ stored' = IF entry = "linked" THEN "both" ELSE stored
    /\ UNCHANGED <<files, calm, row, task, events, watch, plan>>

-----------------------------------------------------------------------------
Init ==
    /\ disk = "folder" /\ removed = "no"
    /\ row = "live" /\ stored = "both"
    /\ entry = "linked" /\ owed = "none" /\ told = "live"
    /\ task = "idle" /\ folder = "no" /\ trash = "no"
    /\ watch = "none" /\ plan = "none" /\ calm = "no"

MoveToTrash ==
    \/ MarkTrashed \/ move_to_system_trash \/ move_to_app_trash \/ WriteTrashinfo
    \/ WriteTrashinfoFails \/ MoveFails \/ RollbackTrashed \/ CommitMovedToTrash

Restore == prepare_restore \/ RestoreTrashed \/ RestoreFails

DeletePermanently == prepare_permanent_delete \/ Unlink \/ UnlinkFails \/ DeleteTrashedRows

External == ExternalTrash \/ ExternalRestore \/ ExternalDelete \/ ExternalCopy

Watcher == flush_pending_paths \/ upsert_media_items \/ delete_live_media

Reconcile ==
    \/ prepare_trash_reconcile \/ ReconcileMarks \/ ReconcileNotes \/ ReconcileInserts
    \/ ReconcileMarksNew \/ ReconcilePrunes

Uplink == UplinkCreates \/ UplinkModifies \/ UplinkDeletes

Next ==
    \/ MoveToTrash \/ Restore \/ DeletePermanently \/ External
    \/ Watcher \/ Reconcile \/ Crash \/ Uplink

Spec == Init /\ [][Next]_vars

(***************************************************************************)
(* Properties.                                                             *)
(***************************************************************************)
\* Every variable keeps its type.
TypeOK ==
    /\ disk \in {"folder", "trash", "orphan", "staged", "gone"}
    /\ removed \in {"no", "staged", "yes"}
    /\ row \in {"live", "trashed", "none"} /\ stored \in {"local", "cloud", "both"}
    /\ entry \in {"linked", "unlinked", "none"}
    /\ owed \in {"none", "metadata", "deletion"}
    /\ told \in {"live", "trashed", "deleted"}
    /\ task \in {"idle", "marked", "writing", "moved", "failed", "restoring", "staged", "unlinked"}
    /\ folder \in {"yes", "no"} /\ trash \in {"yes", "no"} /\ calm \in {"yes", "no"}
    /\ watch \in {"none", "present", "missing", "trashed"}
    /\ plan \in {"none", "mark", "marked", "insert", "inserted", "prune"}

\* No photo leaves the library without the obligation to delete its cloud copy:
\* it is owed until the cloud has been told, whatever the process died in
\* (commit_permanent_deletions, remove_or_trash_live_row_in).
RemovalOwed ==
    row = "none" \/ stored = "cloud" => owed = "deletion" \/ told = "deleted"

\* Moving to the trash and restoring are metadata: a deletion is owed only when
\* the file was being unlinked, by the app or by another program (the trash
\* lookup and the trashed_at guard of delete_live_media_by_paths, and the prune of
\* the reconciliation).
DeletionIsPhysical == owed = "deletion" => removed # "no"

Quiet ==
    task = "idle" /\ folder = "no" /\ trash = "no" /\ watch = "none" /\ plan = "none"

\* After a restart the scan and the reconciliation make library and disk agree,
\* in whatever order they run and whatever the crash interrupted (reconcile_trash).
RestartConverges ==
    Quiet /\ calm = "yes" =>
        /\ disk = "folder" => row = "live" /\ stored # "cloud"
        /\ disk = "trash" <=> row = "trashed"

(***************************************************************************)
(* The inductive invariants behind them.                                   *)
(***************************************************************************)
\* An entry that names a row has one, and one that does not owes the deletion or
\* is already deleted in the cloud.
Claimed ==
    /\ entry = "linked" => row # "none"
    /\ entry # "linked" => owed # "metadata" /\ (owed = "deletion" \/ told = "deleted")

\* While nobody has unlinked the file it is in its folder or a complete trash
\* entry, and nothing believes otherwise.
Intact ==
    removed = "no" =>
        /\ disk \in {"folder", "trash"}
        /\ watch # "missing" /\ plan # "prune"
        /\ task \notin {"writing", "staged", "unlinked"}
        /\ owed # "deletion"

\* After a restart, what the library does not yet say is on its way to it.
Settling ==
    calm = "yes" =>
        /\ task = "idle"
        /\ disk = "folder" =>
              /\ watch \in {"none", "present"} /\ plan = "none"
              /\ folder = "yes" \/ watch = "present" \/ (row = "live" /\ stored # "cloud")
        /\ disk = "trash" =>
              /\ watch \in {"none", "trashed"} /\ plan # "prune"
              /\ trash = "yes" \/ plan \in {"mark", "insert", "inserted"} \/ row = "trashed"
              /\ plan = "mark" => row # "none"
        /\ disk \notin {"folder", "trash"} =>
              /\ watch \in {"none", "missing"} /\ plan \in {"none", "prune"}
              /\ trash = "yes" \/ plan = "prune" \/ row # "trashed"

(***************************************************************************)
(* What the repository says of the program, and the code does not do.      *)
(***************************************************************************)
\* A photo that went to the trash is trashed in the cloud, or this is owed
\* (CommitMovedToTrash, commit_trash_reconcile).
TrashIsOwed ==
    Quiet /\ row = "trashed" /\ disk = "trash" /\ owed = "none" => told = "trashed"

\* A photo that came back from the trash is live in the cloud, or this is owed
\* (restore_trashed_metadata, upsert_media_items_in).
RestoreIsOwed ==
    Quiet /\ row = "live" /\ disk = "folder" /\ owed = "none" => told # "trashed"

\* A permanent deletion that failed to unlink the file leaves no deletion owed
\* (PreparedPermanentDelete).
FailedDeletionOwesNothing == removed = "staged" /\ disk = "trash" => owed # "deletion"
=============================================================================
