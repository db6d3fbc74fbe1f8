---------------------------- MODULE MCSyncWorker ----------------------------
(***************************************************************************)
(* Model checking of SyncWorker: every counter of user actions and faults  *)
(* is bounded by a constant, one configuration per question.               *)
(***************************************************************************)
EXTENDS SyncWorker
=============================================================================
