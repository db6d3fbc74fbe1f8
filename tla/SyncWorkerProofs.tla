-------------------------- MODULE SyncWorkerProofs --------------------------
(***************************************************************************)
(* Proofs about SyncWorker, for every bound and every set of failures.     *)
(***************************************************************************)
EXTENDS SyncWorker, TLAPS

\* The provers of a leaf that names none.
USE SMTT(60), ZenonT(30)

-----------------------------------------------------------------------------
(***************************************************************************)
(* The inductive invariant.                                                *)
(***************************************************************************)
Counts ==
    /\ pending \in Nat /\ accepted \in Nat /\ generation \in Nat
    /\ work \in Nat /\ batch \in Nat /\ tokens \in Nat

\* Who holds the gate of the resets, who is in the table of active jobs, and that a
\* flag that was given up has no worker behind it.
Held ==
    /\ gate = "reset" <=> reset \in {"read", "wait", "clean", "finish", "discard"}
    /\ gate = "decision" <=> decision = "wait"
    /\ active = "yes" <=> Running \/ decision = "run"
    /\ active \in Flag
    /\ working = "no" => worker = "off"
    /\ resetting = "no" => reset \in {"off", "again"}

\* A pending edit is the latest one that was accepted.
Latest ==
    /\ pending # 0 => pending = accepted
    /\ worker = "apply" => chosen # 0
    /\ NewestEditWins

IInv ==
    /\ Counts
    /\ Held
    /\ Exclusive
    /\ RunKeepsConfiguration
    /\ Latest
    /\ worker = "frozen" => batch <= work

-----------------------------------------------------------------------------
\* The invariant survives the user's actions: none takes the slot, the gate or the flag of a worker from
\* whoever holds it.
LEMMA UserKeepsIInv == IInv /\ UserSteps => IInv'
  <1> SUFFICES ASSUME IInv, UserSteps PROVE IInv'  OBVIOUS
  <1> USE DEF IInv, Counts, Held, Latest, NewestEditWins, Exclusive, RunKeepsConfiguration, Running,
              Flag, reset_pending, request_job_sync, start_reset_worker,
              switch, intent, config, record, owed, cycle, workers, others, decide, resets
  <1>1. CASE note_local_change  BY <1>1 DEF note_local_change
  <1>2. CASE accept_edit  BY <1>2 DEF accept_edit, queue_edit
  <1>3. CASE delete_job  BY <1>3 DEF delete_job, queue_edit
  <1>4. CASE SetJobPaused  BY <1>4 DEF SetJobPaused
  <1>5. CASE request_all_sync  BY <1>5 DEF request_all_sync
  <1>6. CASE set_sync_enabled  BY <1>6 DEF set_sync_enabled
  <1>7. CASE DecisionEnters  BY <1>7 DEF DecisionEnters
  <1> QED  BY <1>1, <1>2, <1>3, <1>4, <1>5, <1>6, <1>7 DEF UserSteps

\* The invariant survives the scheduler (start_scheduler).
LEMMA SchedulerKeepsIInv == IInv /\ SchedulerSteps => IInv'
  <1> SUFFICES ASSUME IInv, SchedulerSteps PROVE IInv'  OBVIOUS
  <1> USE DEF IInv, Counts, Held, Latest, NewestEditWins, Exclusive, RunKeepsConfiguration, Running,
              Flag, reset_pending, request_job_sync, start_reset_worker,
              switch, intent, config, record, owed, cycle, workers, others, decide, resets
  <1>1. CASE Subscribe  BY <1>1 DEF Subscribe
  <1>2. CASE settled  BY <1>2 DEF settled
  <1>3. CASE request_scheduled_sync  BY <1>3 DEF request_scheduled_sync
  <1> QED  BY <1>1, <1>2, <1>3 DEF SchedulerSteps

\* The invariant survives a photo decision (accept_photo_action): it enters the slot under the gate.
LEMMA DecisionKeepsIInv == IInv /\ DecisionSteps => IInv'
  <1> SUFFICES ASSUME IInv, DecisionSteps PROVE IInv'  OBVIOUS
  <1> USE DEF IInv, Counts, Held, Latest, NewestEditWins, Exclusive, RunKeepsConfiguration, Running,
              Flag, reset_pending, request_job_sync, start_reset_worker,
              switch, intent, config, record, owed, cycle, workers, others, decide, resets
  <1>1. CASE DecisionAcquires  BY <1>1 DEF DecisionAcquires, acquire_slot, job_gate_is_free
  <1>2. CASE DecisionEnds  BY <1>2 DEF DecisionEnds
  <1>3. CASE DecisionAsks  BY <1>3, SMTT(60) DEF DecisionAsks
  <1> QED  BY <1>1, <1>2, <1>3 DEF DecisionSteps

\* The invariant survives the reset worker (perform_sync_reset): once nothing is active, nothing becomes so
\* before the gate is free again.
LEMMA ResetKeepsIInv == IInv /\ ResetSteps => IInv'
  <1> SUFFICES ASSUME IInv, ResetSteps PROVE IInv'  OBVIOUS
  <1> USE DEF IInv, Counts, Held, Latest, NewestEditWins, Exclusive, RunKeepsConfiguration, Running,
              Flag, reset_pending, request_job_sync, start_reset_worker,
              switch, intent, config, record, owed, cycle, workers, others, decide, resets
  <1>1. CASE ResetLocks  BY <1>1 DEF ResetLocks
  <1>2. CASE ResetReads  BY <1>2 DEF ResetReads
  <1>3. CASE ResetWaits  BY <1>3 DEF ResetWaits
  <1>4. CASE ResetCleans  BY <1>4 DEF ResetCleans
  <1>5. CASE ResetFailsToRecover  BY <1>5 DEF ResetFailsToRecover
  <1>6. CASE ResetFailsToClean  BY <1>6 DEF ResetFailsToClean
  <1>7. CASE ResetFinishes  BY <1>7 DEF ResetFinishes, finish_reset
  <1>8. CASE ResetFailsToFinish  BY <1>8 DEF ResetFailsToFinish
  <1>9. CASE discard_queued_work  BY <1>9 DEF discard_queued_work
  <1>10. CASE ResetCloses  BY <1>10 DEF ResetCloses
  <1>11. CASE ResetLooksAgain  BY <1>11 DEF ResetLooksAgain
  <1> QED  BY <1>1, <1>2, <1>3, <1>4, <1>5, <1>6, <1>7, <1>8, <1>9, <1>10, <1>11, ZenonT(60) DEF ResetSteps

\* The invariant survives a running cycle (run_cycle_mode).
LEMMA RunKeepsIInv == IInv /\ RunSteps => IInv'
  <1> SUFFICES ASSUME IInv, RunSteps PROVE IInv'  OBVIOUS
  <1> USE DEF IInv, Counts, Held, Latest, NewestEditWins, Exclusive, RunKeepsConfiguration, Running,
              Flag, reset_pending, request_job_sync, start_reset_worker,
              switch, intent, config, record, owed, cycle, workers, others, decide, resets
  <1>1. CASE RunFreezes  BY <1>1 DEF RunFreezes
  <1>2. CASE RunIsBusy  BY <1>2 DEF RunIsBusy, finish_run
  <1>3. CASE RunIsBehind  BY <1>3 DEF RunIsBehind, finish_run
  <1>4. ASSUME NEW sent \in 0..batch, NEW failure, RunCompletes(sent, failure) PROVE IInv'
    BY <1>4 DEF RunCompletes, finish_run, Chain
  <1>5. ASSUME NEW cause, RunFails(cause) PROVE IInv'
    <2>1. Counts' /\ Latest'  BY <1>5 DEF RunFails
    <2>2. Held' /\ Exclusive'  BY <1>5 DEF RunFails
    <2>3. worker' = "drain"  BY <1>5 DEF RunFails
    <2>4. RunKeepsConfiguration' /\ (worker' = "frozen" => batch' <= work')  BY <2>3, ZenonT(60)
    <2> QED  BY <2>1, <2>2, <2>4, ZenonT(60)
  <1> QED  BY <1>1, <1>2, <1>3, <1>4, <1>5 DEF RunSteps

\* The invariant survives the configuration worker (configuration_worker).
LEMMA WorkerKeepsIInv == IInv /\ WorkerSteps => IInv'
  <1> SUFFICES ASSUME IInv, WorkerSteps PROVE IInv'  OBVIOUS
  <1>1. CASE RunSteps  BY <1>1, RunKeepsIInv
  <1> USE DEF IInv, Counts, Held, Latest, NewestEditWins, Exclusive, RunKeepsConfiguration, Running,
              Flag, reset_pending, request_job_sync, start_reset_worker,
              switch, intent, config, record, owed, cycle, workers, others, decide, resets
  <1>2. CASE WorkerDrains  BY <1>2 DEF WorkerDrains
  <1>3. CASE WorkerEntersTransition  BY <1>3 DEF WorkerEntersTransition
  <1>4. CASE WorkerQuiesces  BY <1>4 DEF WorkerQuiesces
  <1>5. CASE WorkerApplies  BY <1>5 DEF WorkerApplies, apply
  <1>6. CASE WorkerFailsToApply  BY <1>6 DEF WorkerFailsToApply
  <1>7. CASE WorkerLooksForCycle  BY <1>7 DEF WorkerLooksForCycle
  <1>8. CASE WorkerAcquires  BY <1>8 DEF WorkerAcquires, acquire_slot
  <1>9. CASE WorkerCloses
    <2>1. Counts' /\ Latest'  BY <1>9 DEF WorkerCloses
    <2>2. Held' /\ Exclusive'  BY <1>9 DEF WorkerCloses
    <2>3. worker' = "off"  BY <1>9 DEF WorkerCloses
    <2>4. RunKeepsConfiguration' /\ (worker' = "frozen" => batch' <= work')  BY <2>3, ZenonT(60)
    <2> QED  BY <2>1, <2>2, <2>4, ZenonT(60)
  <1> QED  BY <1>1, <1>2, <1>3, <1>4, <1>5, <1>6, <1>7, <1>8, <1>9 DEF WorkerSteps

\* The invariant survives startup, a late call and the death of the process (Startup
\* of app.rs, request_job_sync, sync_enabled_changed, schedule_continuation).
LEMMA OthersKeepIInv ==
    IInv /\ (Startup \/ Ask \/ sync_enabled_changed \/ WorkerLooksAgain \/ ContinuationWakes \/ Crash)
    => IInv'
  <1> USE DEF IInv, Counts, Held, Latest, NewestEditWins, Exclusive, RunKeepsConfiguration, Running,
              Flag, reset_pending, request_job_sync, start_reset_worker,
              switch, intent, config, record, owed, cycle, workers, others, decide, resets
  <1>1. ASSUME IInv, Startup PROVE IInv'  BY <1>1 DEF Startup, BeginReset, reconcile_interrupted_runs,
     resume_unfinished_work, resume_local_changes
  <1>2. ASSUME IInv, Ask PROVE IInv'  BY <1>2 DEF Ask
  <1>3. ASSUME IInv, sync_enabled_changed PROVE IInv'  BY <1>3 DEF sync_enabled_changed, BeginReset
  <1>4. ASSUME IInv, WorkerLooksAgain PROVE IInv'  BY <1>4 DEF WorkerLooksAgain
  <1>5. ASSUME IInv, ContinuationWakes PROVE IInv'  BY <1>5 DEF ContinuationWakes
  <1>6. ASSUME IInv, Crash PROVE IInv'  BY <1>6 DEF Crash
  <1> QED  BY <1>1, <1>2, <1>3, <1>4, <1>5, <1>6, ZenonT(60)

\* The inductive invariant holds throughout, whoever of the tasks is scheduled when.
THEOREM Invariance == Spec => []IInv
  <1>1. Init => IInv
    BY DEF Init, IInv, Counts, Held, Latest, NewestEditWins, Exclusive, RunKeepsConfiguration, Running,
           Flag, reset_pending
  <1>2. IInv /\ [Next]_vars => IInv'
    <2> SUFFICES ASSUME IInv, [Next]_vars PROVE IInv'  OBVIOUS
    <2>1. CASE UNCHANGED vars
      BY <2>1 DEF vars, IInv, Counts, Held, Latest, NewestEditWins, Exclusive, RunKeepsConfiguration,
         Running, Flag, reset_pending,
         switch, intent, config, record, owed, cycle, workers, others, decide, resets
    <2> QED
      BY <2>1, UserKeepsIInv, SchedulerKeepsIInv, DecisionKeepsIInv, WorkerKeepsIInv, ResetKeepsIInv,
         OthersKeepIInv DEF Next
  <1> QED  BY <1>1, <1>2, PTL DEF Spec

\* Clearing, installing an edit, running a cycle and deciding about a photo exclude
\* each other (the gates, ActiveJobGuard and transitions).
THEOREM ExclusiveHolds == Spec => []Exclusive
  <1>1. IInv => Exclusive  BY DEF IInv
  <1> QED  BY <1>1, Invariance, PTL

\* No configuration is installed below a running cycle (config_generation).
THEOREM RunKeepsConfigurationHolds == Spec => []RunKeepsConfiguration
  <1>1. IInv => RunKeepsConfiguration  BY DEF IInv
  <1> QED  BY <1>1, Invariance, PTL

\* No accepted edit is overwritten by an older one (apply, finish).
THEOREM NewestEditWinsHolds == Spec => []NewestEditWins
  <1>1. IInv => NewestEditWins  BY DEF IInv, Latest
  <1> QED  BY <1>1, Invariance, PTL

-----------------------------------------------------------------------------
(***************************************************************************)
(* The status of a job, where unfinished publications can be settled.      *)
(***************************************************************************)
\* Whoever asks for a cycle does not end the one that runs (request_job_sync).
LEMMA AskingKeepsStatus ==
    IInv /\ StatusIsTrue /\ (UserSteps \/ SchedulerSteps \/ DecisionSteps)
    => StatusIsTrue'
  <1> SUFFICES ASSUME IInv, StatusIsTrue, UserSteps \/ SchedulerSteps \/ DecisionSteps PROVE StatusIsTrue'  OBVIOUS
  <1> USE DEF StatusIsTrue, IInv, Counts, Held, Running, reset_pending, request_job_sync,
              start_reset_worker,
              switch, intent, config, record, owed, cycle, workers, others, decide, resets
  <1>1. CASE note_local_change  BY <1>1 DEF note_local_change
  <1>2. CASE accept_edit  BY <1>2 DEF accept_edit, queue_edit
  <1>3. CASE delete_job  BY <1>3 DEF delete_job, queue_edit
  <1>4. CASE SetJobPaused  BY <1>4 DEF SetJobPaused
  <1>5. CASE request_all_sync  BY <1>5 DEF request_all_sync
  <1>6. CASE set_sync_enabled  BY <1>6 DEF set_sync_enabled
  <1>7. CASE DecisionEnters  BY <1>7 DEF DecisionEnters
  <1>8. CASE Subscribe  BY <1>8 DEF Subscribe
  <1>9. CASE settled  BY <1>9 DEF settled
  <1>10. CASE request_scheduled_sync  BY <1>10 DEF request_scheduled_sync
  <1>11. CASE DecisionAcquires  BY <1>11 DEF DecisionAcquires
  <1>12. CASE DecisionEnds  BY <1>12 DEF DecisionEnds
  <1>13. CASE DecisionAsks  BY <1>13 DEF DecisionAsks
  <1> QED  BY <1>1, <1>2, <1>3, <1>4, <1>5, <1>6, <1>7, <1>8, <1>9, <1>10, <1>11, <1>12, <1>13 DEF UserSteps, SchedulerSteps, DecisionSteps

\* The worker opens a run where it starts it and closes it where it ends, superseded or
\* not (mark_job_started, finish_run).
LEMMA WorkerKeepsStatus == IInv /\ StatusIsTrue /\ WorkerSteps => StatusIsTrue'
  <1> SUFFICES ASSUME IInv, StatusIsTrue, WorkerSteps PROVE StatusIsTrue'  OBVIOUS
  <1> USE DEF StatusIsTrue, IInv, Counts, Held, Running, reset_pending, request_job_sync,
              start_reset_worker,
              switch, intent, config, record, owed, cycle, workers, others, decide, resets
  <1>1. CASE WorkerDrains  BY <1>1 DEF WorkerDrains
  <1>2. CASE WorkerEntersTransition  BY <1>2 DEF WorkerEntersTransition
  <1>3. CASE WorkerQuiesces  BY <1>3 DEF WorkerQuiesces
  <1>4. CASE WorkerApplies  BY <1>4 DEF WorkerApplies, apply
  <1>5. CASE WorkerFailsToApply  BY <1>5 DEF WorkerFailsToApply
  <1>6. CASE WorkerLooksForCycle  BY <1>6 DEF WorkerLooksForCycle
  <1>7. CASE WorkerAcquires  BY <1>7 DEF WorkerAcquires
  <1>8. CASE RunFreezes  BY <1>8 DEF RunFreezes
  <1>9. CASE RunIsBusy  BY <1>9 DEF RunIsBusy, finish_run
  <1>10. CASE RunIsBehind  BY <1>10 DEF RunIsBehind, finish_run
  <1>11. CASE WorkerCloses  BY <1>11 DEF WorkerCloses
  <1>12. ASSUME NEW sent \in 0..batch, NEW failure, RunCompletes(sent, failure) PROVE StatusIsTrue'
    BY <1>12 DEF RunCompletes, finish_run, Chain
  <1>13. ASSUME NEW cause, RunFails(cause) PROVE StatusIsTrue'
    BY <1>13 DEF RunFails, finish_run
  <1> QED  BY <1>1, <1>2, <1>3, <1>4, <1>5, <1>6, <1>7, <1>8, <1>9, <1>10, <1>11, <1>12, <1>13 DEF WorkerSteps, RunSteps

\* A reset that completes closes the run a dead process left open (finish).
LEMMA ResetKeepsStatus == IInv /\ StatusIsTrue /\ ResetSteps => StatusIsTrue'
  <1> SUFFICES ASSUME IInv, StatusIsTrue, ResetSteps PROVE StatusIsTrue'  OBVIOUS
  <1> USE DEF StatusIsTrue, IInv, Counts, Held, Running, reset_pending, request_job_sync,
              start_reset_worker,
              switch, intent, config, record, owed, cycle, workers, others, decide, resets
  <1>1. CASE ResetLocks  BY <1>1 DEF ResetLocks
  <1>2. CASE ResetReads  BY <1>2 DEF ResetReads
  <1>3. CASE ResetWaits  BY <1>3 DEF ResetWaits
  <1>4. CASE ResetCleans  BY <1>4 DEF ResetCleans
  <1>5. CASE ResetFailsToRecover  BY <1>5 DEF ResetFailsToRecover
  <1>6. CASE ResetFailsToClean  BY <1>6 DEF ResetFailsToClean
  <1>7. CASE ResetFailsToFinish  BY <1>7 DEF ResetFailsToFinish
  <1>8. CASE discard_queued_work  BY <1>8 DEF discard_queued_work
  <1>9. CASE ResetCloses  BY <1>9 DEF ResetCloses
  <1>10. CASE ResetLooksAgain  BY <1>10 DEF ResetLooksAgain
  <1>11. CASE ResetFinishes  BY <1>11 DEF ResetFinishes, finish_reset
  <1> QED  BY <1>1, <1>2, <1>3, <1>4, <1>5, <1>6, <1>7, <1>8, <1>9, <1>10, <1>11, ZenonT(60) DEF ResetSteps

\* Startup closes the run a dead process left open, or leaves it to a pending reset
\* (reconcile_interrupted_runs).
LEMMA OthersKeepStatus ==
    ASSUME "recovery" \notin Failures, IInv, StatusIsTrue,
           Startup \/ Ask \/ sync_enabled_changed \/ WorkerLooksAgain \/ ContinuationWakes \/ Crash
    PROVE  StatusIsTrue'
  <1>1. BeginReset => reset_pending'
    <2>1. tokens \in Nat  BY DEF IInv, Counts
    <2>2. tokens + 1 # 0  BY <2>1
    <2>3. BeginReset => token' = tokens + 1  BY DEF BeginReset
    <2> QED  BY <2>2, <2>3 DEF reset_pending
  <1> USE DEF StatusIsTrue, Running, reset_pending
  <1>2. Running => working # "no"
    BY DEF IInv, Held
  <1>3. request_job_sync /\ Running => Running'
    BY <1>2 DEF request_job_sync
  <1>4. CASE Startup
    <2>1. CASE enabled = "no"
      <3>1. BeginReset  BY <1>4, <2>1 DEF Startup
      <3> QED  BY <3>1, <1>1
    <2>2. CASE enabled # "no" /\ reset_pending
      <3>1. token' = token  BY <1>4, <2>2 DEF Startup, intent
      <3> QED  BY <3>1, <2>2
    <2>3. CASE enabled # "no" /\ ~reset_pending
      <3>1. reconcile_interrupted_runs  BY <1>4, <2>3 DEF Startup
      <3>2. open' = "no"  BY <3>1 DEF reconcile_interrupted_runs
      <3> QED  BY <3>2
    <2> QED  BY <2>1, <2>2, <2>3
  <1>5. CASE Ask
    <2>1. request_job_sync /\ up' = up /\ token' = token /\ open' = open
      BY <1>5 DEF Ask, intent, record
    <2> QED  BY <2>1, <1>3
  <1>6. CASE sync_enabled_changed
    <2>1. CASE enabled = "no"
      <3>1. BeginReset  BY <1>6, <2>1 DEF sync_enabled_changed
      <3> QED  BY <3>1, <1>1
    <2>2. CASE enabled # "no"
      <3>1. up' = up /\ token' = token /\ open' = open
        BY <1>6, <2>2 DEF sync_enabled_changed, others, record
      <3>2. reset_pending \/ request_job_sync \/ worker' = worker
        BY <1>6, <2>2 DEF sync_enabled_changed
      <3> QED  BY <3>1, <3>2, <1>3
    <2> QED  BY <2>1, <2>2
  <1>7. CASE WorkerLooksAgain
    <2>1. up' = up /\ token' = token /\ open' = open
      BY <1>7 DEF WorkerLooksAgain, others, intent, record
    <2>2. request_job_sync \/ worker' = worker
      BY <1>7 DEF WorkerLooksAgain
    <2> QED  BY <2>1, <2>2, <1>3
  <1>8. CASE ContinuationWakes
    <2>1. up' = up /\ token' = token /\ open' = open
      BY <1>8 DEF ContinuationWakes, intent, record
    <2>2. request_job_sync \/ worker' = worker
      BY <1>8 DEF ContinuationWakes
    <2> QED  BY <2>1, <2>2, <1>3
  <1>9. CASE Crash  BY <1>9 DEF Crash
  <1> QED  BY <1>4, <1>5, <1>6, <1>7, <1>8, <1>9

\* A job reads as running only while it runs, across edits, resets and restarts, as
\* long as startup can settle unfinished publications (FinishRun,
\* ReconcileInterruptedRuns).
THEOREM StatusIsTrueHolds ==
    ASSUME "recovery" \notin Failures
    PROVE  Spec => []StatusIsTrue
  <1>1. Init => StatusIsTrue
    BY DEF Init, StatusIsTrue
  <1>2. IInv /\ StatusIsTrue /\ [Next]_vars => StatusIsTrue'
    <2> SUFFICES ASSUME IInv, StatusIsTrue, [Next]_vars PROVE StatusIsTrue'  OBVIOUS
    <2>1. CASE UNCHANGED vars
      BY <2>1 DEF vars, StatusIsTrue, Running, reset_pending,
         switch, intent, config, record, owed, cycle, workers, others, decide, resets
    <2> QED
      BY <2>1, AskingKeepsStatus, WorkerKeepsStatus, ResetKeepsStatus, OthersKeepStatus DEF Next
  <1> QED  BY <1>1, <1>2, Invariance, PTL DEF Spec
=============================================================================
