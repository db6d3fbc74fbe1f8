---------------------------- MODULE TrashProofs ----------------------------
(***************************************************************************)
(* Proofs about Trash: no row leaves the library without its obligation, a *)
(* restart converges, and with the system trash alone a deletion is owed   *)
(* only after a physical removal.                                          *)
(***************************************************************************)
EXTENDS Trash, TLAPS

\* The provers of a leaf that names none.
USE SMTT(60), ZenonT(30)

OwedInv == TypeOK /\ Claimed /\ RemovalOwed

\* The tuples behind UNCHANGED.
USE DEF files, library, sync, events

\* A step of the user, the app or another program keeps rows and obligations
\* together.
LEMMA UserKeepsOwed ==
    ASSUME OwedInv, MoveToTrash \/ Restore \/ DeletePermanently \/ External
    PROVE  OwedInv'
<1> USE DEF OwedInv, TypeOK, Claimed, RemovalOwed
<1>1. CASE MarkTrashed BY <1>1 DEF MarkTrashed
<1>2. CASE move_to_system_trash BY <1>2 DEF move_to_system_trash
<1>3. CASE move_to_app_trash BY <1>3 DEF move_to_app_trash
<1>4. CASE WriteTrashinfo BY <1>4 DEF WriteTrashinfo
<1>5. CASE WriteTrashinfoFails BY <1>5 DEF WriteTrashinfoFails
<1>6. CASE MoveFails BY <1>6 DEF MoveFails
<1>7. CASE RollbackTrashed BY <1>7 DEF RollbackTrashed
<1>8. CASE CommitMovedToTrash BY <1>8 DEF CommitMovedToTrash, NotedChange, CanNote
<1>9. CASE prepare_restore BY <1>9 DEF prepare_restore
<1>10. CASE RestoreTrashed BY <1>10 DEF RestoreTrashed, NotedChange, CanNote
<1>11. CASE RestoreFails BY <1>11 DEF RestoreFails
<1>12. CASE prepare_permanent_delete BY <1>12 DEF prepare_permanent_delete
<1>13. CASE Unlink BY <1>13 DEF Unlink
<1>14. CASE UnlinkFails BY <1>14 DEF UnlinkFails
<1>15. CASE DeleteTrashedRows
  BY <1>15 DEF DeleteTrashedRows, commit_permanent_deletions, NotedDeletion
<1>16. CASE ExternalTrash BY <1>16 DEF ExternalTrash
<1>17. CASE ExternalRestore BY <1>17 DEF ExternalRestore
<1>18. CASE ExternalDelete BY <1>18 DEF ExternalDelete
<1>19. CASE ExternalCopy BY <1>19 DEF ExternalCopy
<1> QED
  BY <1>1, <1>2, <1>3, <1>4, <1>5, <1>6, <1>7, <1>8, <1>9, <1>10, <1>11, <1>12, <1>13,
     <1>14, <1>15, <1>16, <1>17, <1>18, <1>19
  DEF MoveToTrash, Restore, DeletePermanently, External

\* So does a step of the watcher, the reconciliation, the uplink, and a crash.
LEMMA BackgroundKeepsOwed ==
    ASSUME OwedInv, Watcher \/ Reconcile \/ Crash \/ Uplink
    PROVE  OwedInv'
<1> USE DEF OwedInv, TypeOK, Claimed, RemovalOwed
<1>1. CASE flush_pending_paths BY <1>1 DEF flush_pending_paths, Classified
<1>2. CASE upsert_media_items BY <1>2 DEF upsert_media_items, Upserted, NotedChange
<1>3. CASE delete_live_media
  BY <1>3 DEF delete_live_media, remove_or_trash_live_row, NotedChange, NotedDeletion, CanNote
<1>4. CASE prepare_trash_reconcile BY <1>4 DEF prepare_trash_reconcile
<1>5. CASE ReconcileMarks BY <1>5 DEF ReconcileMarks
<1>6. CASE ReconcileNotes BY <1>6 DEF ReconcileNotes, NotedChange, CanNote
<1>7. CASE ReconcileInserts BY <1>7 DEF ReconcileInserts, Upserted, NotedChange
<1>8. CASE ReconcileMarksNew BY <1>8 DEF ReconcileMarksNew
<1>9. CASE ReconcilePrunes
  BY <1>9 DEF ReconcilePrunes, commit_permanent_deletions, NotedDeletion
<1>10. CASE Crash BY <1>10 DEF Crash
<1>11. CASE UplinkCreates BY <1>11 DEF UplinkCreates
<1>12. CASE UplinkModifies BY <1>12 DEF UplinkModifies
<1>13. CASE UplinkDeletes BY <1>13 DEF UplinkDeletes
<1> QED
  BY <1>1, <1>2, <1>3, <1>4, <1>5, <1>6, <1>7, <1>8, <1>9, <1>10, <1>11, <1>12, <1>13
  DEF Watcher, Reconcile, Uplink

\* Rows and obligations stay together in every behaviour.
LEMMA OwedInductive == Spec => []OwedInv
<1>1. Init => OwedInv BY DEF Init, OwedInv, TypeOK, Claimed, RemovalOwed
<1>2. OwedInv /\ UNCHANGED vars => OwedInv'
  BY DEF OwedInv, TypeOK, Claimed, RemovalOwed, vars
<1>3. OwedInv /\ [Next]_vars => OwedInv'
  BY <1>2, UserKeepsOwed, BackgroundKeepsOwed DEF Next
<1> QED BY <1>1, <1>3, PTL DEF Spec

\* TypeOK holds of every behaviour of the trash model.
THEOREM TypeCorrect == Spec => []TypeOK
BY OwedInductive, PTL DEF OwedInv

\* RemovalOwed: whatever the process died in, a row that left the library, or whose
\* file did, has its cloud deletion owed or done (commit_permanent_deletions,
\* remove_or_trash_live_row).
THEOREM RemovalAlwaysOwed == Spec => []RemovalOwed
BY OwedInductive, PTL DEF OwedInv

-----------------------------------------------------------------------------
\* The restart's promise ends when somebody touches the photo.
LEMMA TouchEndsCalm ==
    ASSUME MoveToTrash \/ Restore \/ DeletePermanently \/ External
    PROVE  calm' = "no"
BY DEF MoveToTrash, Restore, DeletePermanently, External, MarkTrashed, move_to_system_trash,
       move_to_app_trash, WriteTrashinfo, WriteTrashinfoFails, MoveFails, RollbackTrashed,
       CommitMovedToTrash, prepare_restore, RestoreTrashed, RestoreFails,
       prepare_permanent_delete, Unlink, UnlinkFails, DeleteTrashedRows, ExternalTrash,
       ExternalRestore, ExternalDelete, ExternalCopy

\* The watcher, the reconciliation and the uplink bring the library nearer to the
\* disk, in whatever order they run.
LEMMA BackgroundSettles ==
    ASSUME TypeOK, Settling, Watcher \/ Reconcile \/ Crash \/ Uplink
    PROVE  Settling'
<1> USE DEF TypeOK, Settling, ActorFree
<1>1. CASE flush_pending_paths BY <1>1 DEF flush_pending_paths, Classified
<1>2. CASE upsert_media_items BY <1>2 DEF upsert_media_items, Upserted
<1>3. CASE delete_live_media
  BY <1>3 DEF delete_live_media, remove_or_trash_live_row
<1>4. CASE prepare_trash_reconcile BY <1>4 DEF prepare_trash_reconcile
<1>5. CASE ReconcileMarks BY <1>5 DEF ReconcileMarks
<1>6. CASE ReconcileNotes BY <1>6 DEF ReconcileNotes
<1>7. CASE ReconcileInserts BY <1>7 DEF ReconcileInserts, Upserted
<1>8. CASE ReconcileMarksNew BY <1>8 DEF ReconcileMarksNew
<1>9. CASE ReconcilePrunes BY <1>9 DEF ReconcilePrunes, commit_permanent_deletions
<1>10. CASE Crash BY <1>10 DEF Crash
<1>11. CASE UplinkCreates BY <1>11 DEF UplinkCreates
<1>12. CASE UplinkModifies BY <1>12 DEF UplinkModifies
<1>13. CASE UplinkDeletes BY <1>13 DEF UplinkDeletes
<1> QED
  BY <1>1, <1>2, <1>3, <1>4, <1>5, <1>6, <1>7, <1>8, <1>9, <1>10, <1>11, <1>12, <1>13
  DEF Watcher, Reconcile, Uplink

\* RestartConverges: once the scan and the reconciliation of a restart are through,
\* library and disk agree (reconcile_trash, upsert_media_items, delete_live_media).
THEOREM RestartAlwaysConverges == Spec => []RestartConverges
<1>1. Init => Settling BY DEF Init, Settling
<1>2. TypeOK /\ Settling /\ [Next]_vars => Settling'
  <2> SUFFICES ASSUME TypeOK, Settling, [Next]_vars PROVE Settling'
    OBVIOUS
  <2>1. CASE UNCHANGED vars BY <2>1 DEF Settling, vars
  <2>2. CASE MoveToTrash \/ Restore \/ DeletePermanently \/ External
    BY <2>2, TouchEndsCalm DEF Settling
  <2>3. CASE Watcher \/ Reconcile \/ Crash \/ Uplink BY <2>3, BackgroundSettles
  <2> QED BY <2>1, <2>2, <2>3 DEF Next
<1>3. TypeOK /\ Settling => RestartConverges
  BY DEF TypeOK, Settling, RestartConverges, Quiet
<1> QED BY <1>1, <1>2, <1>3, TypeCorrect, PTL DEF Spec

-----------------------------------------------------------------------------
\* With the system trash alone nothing ever takes an intact file for a removed one.
LEMMA SystemTrashKeepsIntact ==
    ASSUME "App" \notin Backends, TypeOK, Intact, [Next]_vars
    PROVE  Intact'
<1> USE DEF TypeOK, Intact
<1>1. CASE UNCHANGED vars BY <1>1 DEF vars
<1>2. CASE MarkTrashed BY <1>2 DEF MarkTrashed
<1>3. CASE move_to_system_trash BY <1>3 DEF move_to_system_trash
<1>4. CASE move_to_app_trash BY <1>4 DEF move_to_app_trash
<1>5. CASE WriteTrashinfo BY <1>5 DEF WriteTrashinfo
<1>6. CASE WriteTrashinfoFails BY <1>6 DEF WriteTrashinfoFails
<1>7. CASE MoveFails BY <1>7 DEF MoveFails
<1>8. CASE RollbackTrashed BY <1>8 DEF RollbackTrashed
<1>9. CASE CommitMovedToTrash BY <1>9 DEF CommitMovedToTrash, NotedChange, CanNote
<1>10. CASE prepare_restore BY <1>10 DEF prepare_restore
<1>11. CASE RestoreTrashed BY <1>11 DEF RestoreTrashed, NotedChange, CanNote
<1>12. CASE RestoreFails BY <1>12 DEF RestoreFails
<1>13. CASE prepare_permanent_delete BY <1>13 DEF prepare_permanent_delete
<1>14. CASE Unlink BY <1>14 DEF Unlink
<1>15. CASE UnlinkFails BY <1>15 DEF UnlinkFails
<1>16. CASE DeleteTrashedRows BY <1>16 DEF DeleteTrashedRows, commit_permanent_deletions, NotedDeletion
<1>17. CASE ExternalTrash BY <1>17 DEF ExternalTrash
<1>18. CASE ExternalRestore BY <1>18 DEF ExternalRestore
<1>19. CASE ExternalDelete BY <1>19 DEF ExternalDelete
<1>20. CASE ExternalCopy BY <1>20 DEF ExternalCopy
<1>21. CASE flush_pending_paths BY <1>21 DEF flush_pending_paths, Classified
<1>22. CASE upsert_media_items BY <1>22 DEF upsert_media_items, Upserted, NotedChange
<1>23. CASE delete_live_media BY <1>23 DEF delete_live_media, remove_or_trash_live_row, NotedChange
<1>24. CASE prepare_trash_reconcile BY <1>24 DEF prepare_trash_reconcile
<1>25. CASE ReconcileMarks BY <1>25 DEF ReconcileMarks
<1>26. CASE ReconcileNotes BY <1>26 DEF ReconcileNotes, NotedChange
<1>27. CASE ReconcileInserts BY <1>27 DEF ReconcileInserts, Upserted, NotedChange
<1>28. CASE ReconcileMarksNew BY <1>28 DEF ReconcileMarksNew
<1>29. CASE ReconcilePrunes BY <1>29 DEF ReconcilePrunes
<1>30. CASE Crash BY <1>30 DEF Crash
<1>31. CASE UplinkCreates BY <1>31 DEF UplinkCreates
<1>32. CASE UplinkModifies BY <1>32 DEF UplinkModifies
<1>33. CASE UplinkDeletes BY <1>33 DEF UplinkDeletes
<1> QED
  BY <1>1, <1>2, <1>3, <1>4, <1>5, <1>6, <1>7, <1>8, <1>9, <1>10, <1>11, <1>12,
     <1>13, <1>14, <1>15, <1>16, <1>17, <1>18, <1>19, <1>20, <1>21, <1>22, <1>23,
     <1>24, <1>25, <1>26, <1>27, <1>28, <1>29, <1>30, <1>31, <1>32, <1>33
  DEF Next, MoveToTrash, Restore, DeletePermanently, External, Watcher, Reconcile, Uplink

\* DeletionIsPhysical: with the system trash, moving to the trash and restoring never
\* come to owe a deletion (the trash lookup of the watcher, the trashed_at guard of
\* the removal, the prune of the reconciliation).
THEOREM SystemDeletionPhysical ==
    ASSUME "App" \notin Backends
    PROVE  Spec => []DeletionIsPhysical
<1>1. Init => Intact BY DEF Init, Intact
<1>2. TypeOK /\ Intact /\ [Next]_vars => Intact'
  BY SystemTrashKeepsIntact
<1>3. Intact => DeletionIsPhysical BY DEF Intact, DeletionIsPhysical
<1> QED BY <1>1, <1>2, <1>3, TypeCorrect, PTL DEF Spec
=============================================================================
