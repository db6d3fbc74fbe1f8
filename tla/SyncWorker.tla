----------------------------- MODULE SyncWorker -----------------------------
(***************************************************************************)
(* Who starts a synchronization cycle of a job, and who may run beside it. *)
(*                                                                         *)
(* The debounced scheduler (debounce.rs, service/scheduling.rs), the       *)
(* configuration worker that applies accepted edits and chains cycles      *)
(* (service/configuration.rs), the reset worker behind the global switch   *)
(* (service/reset.rs, store/reset.rs), a user's decision about a photo     *)
(* (service/actions.rs) and startup (app.rs).  They are tasks of one       *)
(* runtime that share two locks, the table of active jobs, a few flags in  *)
(* memory and the job's rows in the database.                              *)
(*                                                                         *)
(* One job, and of a cycle only what it reports: Uplink has the rest.      *)
(* Accounts, their selection and their credentials are not in this module. *)
(***************************************************************************)
EXTENDS Integers

CONSTANTS
    MaxEdits,     \* bound on the number of accepted edits
    MaxResets,    \* bound on the number of reset tokens
    MaxChanges,   \* bound on the number of local changes
    MaxDecisions, \* bound on the number of photo decisions
    MaxCrashes,   \* bound on the number of times the process dies
    MaxChained,   \* MAX_CHAINED_CYCLES
    Failures      \* what can go wrong: a subset of the ways named in AllFailures

AllFailures ==
    {"cycle",     \* a cycle ends with an error or with failed photos
     "busy",      \* another device holds the upload lease
     "behind",    \* the cloud moved on between the downlink and the lease
     "apply",     \* applying an edit fails
     "decision",  \* a photo decision is refused or fails
     "cleanup",   \* a reset cannot clear its files, or cannot commit
     "recovery"}  \* an unfinished publication cannot be settled

ASSUME BoundsAssumption ==
    /\ MaxEdits \in Nat /\ MaxResets \in Nat /\ MaxChanges \in Nat
    /\ MaxDecisions \in Nat /\ MaxCrashes \in Nat
ASSUME ChainedAssumption == MaxChained \in Nat \ {0}
ASSUME FailuresAssumption == Failures \subseteq AllFailures

VARIABLES
    enabled,     \* the global switch, as persisted in the preferences
    switched,    \* "yes" while sync_enabled_changed is still to run for a switch
    token,       \* sync_reset_state: the token of the pending reset, 0 when none
    tokens,      \* tokens handed out so far
    resetError,  \* "yes" once the pending reset has recorded a failure
    tracking,    \* native_sync_local_changes_enabled
    job,         \* "present" or "removed"
    pending,     \* sync_job_changes: revision of the accepted edit, 0 when none
    removing,    \* "yes" when the accepted edit is the removal of the job
    accepted,    \* history: the latest revision that was accepted
    edits,       \* edits accepted so far
    generation,  \* config_generation
    paused,      \* sync_jobs.paused
    lastError,   \* class of sync_jobs.last_error
    open,        \* "yes" while last_started_at is ahead of last_completed_at
    stranded,    \* history: "yes" from a clean cycle that made progress and left work
                 \* to the start of the next cycle
    work,        \* obligations of the job: dirty entries and unresolved resources
    changes,     \* local changes so far
    requested,   \* JobWork.requested
    working,     \* JobWork.working
    worker,      \* where the configuration worker is
    closing,     \* "yes" while a worker that gave up `working` has yet to look again
    chosen,      \* the revision the worker is about to apply
    chained,     \* cycles chained so far
    batch,       \* obligations the running cycle has frozen
    epoch,       \* the generation the running cycle captured
    continuation,\* "yes" while a continuation sleeps
    active,      \* ACTIVE_JOBS holds the job
    decision,    \* accept_photo_action: "off", "wait" for the gate, "run", "ask"
    decisions,   \* decisions so far
    gate,        \* ResetWork.gate: "free", "decision", "reset"
    resetting,   \* ResetWork.working
    reset,       \* where the reset worker is
    mine,        \* the token of its pass
    scheduler,   \* "off", "start", "listen", "count", "fire"
    asking,      \* "yes" while a caller has yet to call request_job_sync
    up,          \* "yes" once startup ran
    crashes      \* times the process died

switch == <<enabled, switched>>
intent == <<token, tokens, resetError, tracking>>
config == <<job, pending, removing, accepted, edits, generation, paused>>
record == <<lastError, open>>
owed == <<work, changes, stranded>>
cycle == <<chained, batch, epoch>>
workers == <<requested, working, worker, closing, chosen>>
others == <<continuation, scheduler, asking, up, crashes>>
decide == <<decision, decisions, gate, active>>
resets == <<resetting, reset, mine>>
vars == <<switch, intent, config, record, owed, cycle, workers, others, decide, resets>>

-----------------------------------------------------------------------------
reset_pending == token # 0

\* Only a failure the user has to clear keeps an unattended cycle from starting.
unattended_retry_is_worthwhile(cause) == cause # "user"

has_pending_work == resetting = "yes" \/ reset_pending \/ pending # 0 \/ working = "yes"

start_reset_worker ==
    /\ resetting' = "yes"
    /\ reset' = IF resetting = "no" THEN "lock" ELSE reset

\* Wakes the worker of the job, or the reset worker while a reset is pending.
request_job_sync ==
    IF reset_pending
    THEN start_reset_worker /\ UNCHANGED <<requested, working, worker, mine>>
    ELSE /\ requested' = "yes"
         /\ working' = "yes"
         /\ worker' = IF working = "no" THEN "drain" ELSE worker
         /\ UNCHANGED resets

\* begin: the token, the end of tracking and a new generation, in one transaction.
BeginReset ==
    /\ tokens < MaxResets
    /\ token' = tokens + 1 /\ tokens' = tokens + 1
    /\ resetError' = "no"
    /\ tracking' = "no"
    /\ generation' = generation + 1

\* Callers have seen that no reset is pending.
resume_local_changes == tracking' = "yes"

-----------------------------------------------------------------------------
(***************************************************************************)
(* Local changes and the scheduler.                                        *)
(***************************************************************************)
\* A change that is noted on an entry of the job.  It starts the countdown or
\* starts it over, if the scheduler is listening.
note_local_change ==
    /\ job = "present" /\ tracking = "yes"
    /\ changes < MaxChanges
    /\ changes' = changes + 1 /\ work' = work + 1
    /\ scheduler' = IF scheduler \in {"listen", "count"} THEN "count" ELSE scheduler
    /\ UNCHANGED <<switch, intent, config, record, stranded, cycle, workers, continuation, asking, up,
                   crashes, decide, resets>>

\* A new receiver: what was sent before counts as seen.
Subscribe ==
    /\ scheduler = "start"
    /\ scheduler' = "listen"
    /\ UNCHANGED <<switch, intent, config, record, owed, cycle, workers, continuation, asking, up,
                   crashes, decide, resets>>

settled ==
    /\ scheduler = "count"
    /\ scheduler' = "fire"
    /\ UNCHANGED <<switch, intent, config, record, owed, cycle, workers, continuation, asking, up,
                   crashes, decide, resets>>

\* An unattended request is not made while the job is busy in any way.
request_scheduled_sync ==
    /\ scheduler = "fire"
    /\ scheduler' = "start"
    /\ IF enabled = "yes" /\ ~reset_pending
       THEN /\ resume_local_changes
            /\ IF /\ job = "present" /\ paused = "no"
                  /\ unattended_retry_is_worthwhile(lastError)
                  /\ ~has_pending_work /\ active = "no"
               THEN request_job_sync
               ELSE UNCHANGED <<requested, working, worker, resets>>
       ELSE UNCHANGED <<tracking, requested, working, worker, resets>>
    /\ UNCHANGED <<switch, token, tokens, resetError, config, record, owed, cycle, closing, chosen,
                   continuation, asking, up, crashes, decide>>

\* Mutant: the interruption is put down as an error, the run is not closed.
reconcile_interrupted_runs_open ==
    /\ open' = open
    /\ lastError' = IF open = "yes" THEN "retry" ELSE lastError

\* A run that a dead process left open is closed, unless an unfinished publication
\* cannot be settled first.
reconcile_interrupted_runs ==
    \/ /\ open' = "no"
       /\ lastError' = IF open = "yes" THEN "retry" ELSE lastError
    \/ "recovery" \in Failures /\ UNCHANGED record

has_unfinished_work == work > 0

\* Once per launch, after the runs are closed.
resume_unfinished_work ==
    /\ resume_local_changes
    /\ IF /\ job = "present" /\ paused = "no"
          /\ unattended_retry_is_worthwhile(lastError')
          /\ has_unfinished_work /\ ~has_pending_work
       THEN request_job_sync
       ELSE UNCHANGED <<requested, working, worker, resets>>

\* Startup takes up a reset, or the work that is owed.  The scheduler starts after it.
Startup ==
    /\ up = "no"
    /\ up' = "yes"
    /\ scheduler' = "start"
    /\ IF enabled = "no"
       THEN /\ BeginReset
            /\ start_reset_worker
            /\ UNCHANGED <<record, requested, working, worker, mine>>
       ELSE IF reset_pending
       THEN start_reset_worker /\ UNCHANGED <<intent, generation, record, requested, working, worker, mine>>
       ELSE /\ reconcile_interrupted_runs
            /\ resume_unfinished_work
            /\ UNCHANGED <<token, tokens, resetError, generation>>
    /\ UNCHANGED <<switch, job, pending, removing, accepted, edits, paused, owed, cycle, closing,
                   chosen, continuation, asking, crashes, decide>>

(***************************************************************************)
(* The user.                                                               *)
(***************************************************************************)
\* The accepted edit is durable before anything is asked for.  A later one
\* supersedes it, nothing supersedes a removal.
queue_edit(delete) ==
    /\ edits < MaxEdits /\ edits' = edits + 1
    /\ LET revision == 1 + (IF pending > generation THEN pending ELSE generation)
       IN  pending' = revision /\ accepted' = revision
    /\ removing' = delete
    /\ lastError' = "none"

\* A new direction or a new choice of albums.
accept_edit ==
    /\ up = "yes" /\ job = "present" /\ asking = "no"
    /\ removing = "no"
    /\ queue_edit("no")
    /\ asking' = "yes"
    /\ UNCHANGED <<switch, intent, job, generation, paused, open, owed, cycle, workers, continuation,
                   scheduler, up, crashes, decide, resets>>

\* A removal that is already accepted is asked for once more.
delete_job ==
    /\ up = "yes" /\ job = "present" /\ asking = "no"
    /\ IF removing = "yes" THEN UNCHANGED <<pending, removing, accepted, edits, lastError>>
       ELSE queue_edit("yes")
    /\ asking' = "yes"
    /\ UNCHANGED <<switch, intent, job, generation, paused, open, owed, cycle, workers, continuation,
                   scheduler, up, crashes, decide, resets>>

\* The call that follows an accepted edit or a resumed job.
Ask ==
    /\ asking = "yes"
    /\ asking' = "no"
    /\ request_job_sync
    /\ UNCHANGED <<switch, intent, config, record, owed, cycle, closing, chosen, continuation,
                   scheduler, up, crashes, decide>>

\* The pause button writes the opposite of what it shows.
SetJobPaused ==
    /\ up = "yes" /\ job = "present" /\ asking = "no"
    /\ paused' = IF paused = "yes" THEN "no" ELSE "yes"
    /\ asking' = paused
    /\ UNCHANGED <<switch, intent, job, pending, removing, accepted, edits, generation, record, owed,
                   cycle, workers, continuation, scheduler, up, crashes, decide, resets>>

\* Sync now.
request_all_sync ==
    /\ up = "yes"
    /\ enabled = "yes" /\ ~reset_pending
    /\ resume_local_changes
    /\ IF job = "present" /\ paused = "no" /\ ~has_pending_work /\ active = "no"
       THEN request_job_sync
       ELSE UNCHANGED <<requested, working, worker, resets>>
    /\ UNCHANGED <<switch, token, tokens, resetError, config, record, owed, cycle, closing, chosen,
                   others, decide>>

\* The switch is persisted first; what follows from it runs as a task.
set_sync_enabled ==
    /\ up = "yes" /\ switched = "no"
    /\ enabled = "yes" => tokens < MaxResets
    /\ enabled' = IF enabled = "yes" THEN "no" ELSE "yes"
    /\ switched' = "yes"
    /\ UNCHANGED <<intent, config, record, owed, cycle, workers, others, decide, resets>>

\* Off begins a reset, on waits for one or asks for a cycle.
sync_enabled_changed ==
    /\ switched = "yes"
    /\ switched' = "no"
    /\ IF enabled = "no"
       THEN BeginReset /\ start_reset_worker /\ UNCHANGED <<requested, working, worker, mine>>
       ELSE /\ UNCHANGED <<token, tokens, resetError, generation>>
            /\ IF reset_pending
               THEN /\ start_reset_worker
                    /\ UNCHANGED <<tracking, requested, working, worker, mine>>
               ELSE /\ resume_local_changes
                    /\ IF job = "present" THEN request_job_sync
                       ELSE UNCHANGED <<requested, working, worker, resets>>
    /\ UNCHANGED <<enabled, job, pending, removing, accepted, edits, paused, record, owed, cycle,
                   closing, chosen, others, decide>>

\* accept_photo_action: the slot of the job is taken as a cycle takes it, the reset
\* gate first.  The gate is kept while the job's own gate is awaited.
DecisionEnters ==
    /\ up = "yes" /\ job = "present" /\ decision = "off"
    /\ gate = "free" /\ ~reset_pending
    /\ decisions < MaxDecisions /\ decisions' = decisions + 1
    /\ decision' = "wait" /\ gate' = "decision"
    /\ UNCHANGED <<switch, intent, config, record, owed, cycle, workers, others, active, resets>>

\* The worker holds the job's gate while it waits for quiescence and applies an edit.
job_gate_is_free == worker \notin {"quiesce", "apply"}

acquire_slot == pending = 0 /\ active = "no"

DecisionAcquires ==
    /\ decision = "wait" /\ job_gate_is_free
    /\ gate' = "free"
    /\ IF acquire_slot THEN decision' = "run" /\ active' = "yes"
       ELSE decision' = "off" /\ UNCHANGED active
    /\ UNCHANGED <<switch, intent, config, record, owed, cycle, workers, others, decisions, resets>>

\* The slot is given back; only a decision that was recorded asks for a cycle.
DecisionEnds ==
    /\ decision = "run"
    /\ decision' \in {"ask"} \cup (IF "decision" \in Failures THEN {"off"} ELSE {})
    /\ active' = "no"
    /\ UNCHANGED <<switch, intent, config, record, owed, cycle, workers, others, decisions, gate,
                   resets>>

DecisionAsks ==
    /\ decision = "ask"
    /\ decision' = "off"
    /\ request_job_sync
    /\ UNCHANGED <<switch, intent, config, record, owed, cycle, closing, chosen, others, decisions,
                   gate, active>>

-----------------------------------------------------------------------------
(***************************************************************************)
(* configuration_worker.                                                   *)
(*                                                                         *)
(*   drain -> transition -> quiesce -> apply -> cycle -> slot -> run ->    *)
(*   frozen -> drain, and from drain to exit when nothing is requested     *)
(***************************************************************************)
WorkerDrains ==
    /\ worker = "drain"
    /\ requested' = "no"
    /\ worker' = IF requested = "yes" THEN "transition" ELSE "exit"
    /\ UNCHANGED <<switch, intent, config, record, owed, cycle, working, closing, chosen, others,
                   decide, resets>>

\* acquire_configuration_transition, and the job's gate.
WorkerEntersTransition ==
    /\ worker = "transition" /\ gate = "free"
    /\ worker' = IF reset_pending THEN "cycle" ELSE "quiesce"
    /\ UNCHANGED <<switch, intent, config, record, owed, cycle, requested, working, closing, chosen,
                   others, decide, resets>>

\* The job is paused once nothing runs it.
WorkerQuiesces ==
    /\ worker = "quiesce" /\ active = "no"
    /\ IF reset_pending \/ job = "removed" \/ pending = 0
       THEN worker' = "cycle" /\ UNCHANGED <<paused, chosen>>
       ELSE worker' = "apply" /\ paused' = "yes" /\ chosen' = pending
    /\ UNCHANGED <<switch, intent, job, pending, removing, accepted, edits, generation, record, owed,
                   cycle, requested, working, closing, others, decide, resets>>

\* Mutant: whatever is pending is taken for the revision the worker saw.
apply_blind(revision) ==
    IF reset_pending \/ pending = 0
    THEN UNCHANGED <<job, pending, removing, generation, paused, record>>
    ELSE /\ paused = "yes"
         /\ pending' = 0 /\ removing' = "no"
         /\ lastError' = "none" /\ open' = "no"
         /\ generation' = revision /\ paused' = "no" /\ UNCHANGED job

\* apply, for the revision the worker saw.
apply(revision) ==
    IF reset_pending \/ pending # revision
    THEN UNCHANGED <<job, pending, removing, generation, paused, record>>
    ELSE /\ paused = "yes"
         /\ pending' = 0 /\ removing' = "no"
         /\ lastError' = "none" /\ open' = "no"
         /\ IF removing = "yes"
            THEN job' = "removed" /\ UNCHANGED <<generation, paused>>
            ELSE generation' = revision /\ paused' = "no" /\ UNCHANGED job

WorkerApplies ==
    /\ worker = "apply"
    /\ apply(chosen)
    /\ worker' = "cycle"
    /\ UNCHANGED <<switch, intent, accepted, edits, owed, cycle, requested, working, closing, chosen,
                   others, decide, resets>>

\* Mutant: a failed application is only logged.
WorkerFailsToApply_silent ==
    /\ worker = "apply"
    /\ \/ "apply" \in Failures
       \/ ~reset_pending /\ pending = chosen /\ paused = "no"
    /\ worker' = "drain"
    /\ UNCHANGED <<switch, intent, config, record, owed, cycle, requested, working, closing, chosen,
                   others, decide, resets>>

\* The job was resumed behind the worker's back, or the write failed: the failure is
\* put down to the edit that is still queued.
WorkerFailsToApply ==
    /\ worker = "apply"
    /\ \/ "apply" \in Failures
       \/ ~reset_pending /\ pending = chosen /\ paused = "no"
    /\ lastError' = IF pending # 0 THEN "edit" ELSE lastError
    /\ worker' = "drain"
    /\ UNCHANGED <<switch, intent, config, open, owed, cycle, requested, working, closing, chosen,
                   others, decide, resets>>

WorkerLooksForCycle ==
    /\ worker = "cycle"
    /\ worker' = IF enabled = "yes" /\ ~reset_pending /\ job = "present" /\ paused = "no"
                 THEN "slot" ELSE "drain"
    /\ chained' = 0
    /\ UNCHANGED <<switch, intent, config, record, owed, batch, epoch, requested, working, closing,
                   chosen, others, decide, resets>>

\* acquire_run_slot and mark_job_started.  A refused slot ends the chain.
WorkerAcquires ==
    /\ worker = "slot" /\ gate = "free"
    /\ IF ~reset_pending /\ job = "present" /\ acquire_slot
       THEN /\ active' = "yes" /\ worker' = "run"
            /\ epoch' = generation
            /\ lastError' = "none" /\ open' = "yes"
            /\ stranded' = "no"
       ELSE worker' = "drain" /\ UNCHANGED <<active, epoch, record, stranded>>
    /\ UNCHANGED <<switch, intent, config, work, changes, chained, batch, requested, working, closing,
                   chosen, others, decision, decisions, gate, resets>>

epoch_current == generation = epoch /\ paused = "no" /\ pending = 0 /\ ~reset_pending

\* The round of the cycle is cut; what changes later is for another cycle.
RunFreezes ==
    /\ worker = "run" /\ epoch_current
    /\ worker' = "frozen" /\ batch' = work
    /\ UNCHANGED <<switch, intent, config, record, owed, chained, epoch, requested, working, closing,
                   chosen, others, decide, resets>>

\* finish_run: the error is written only if it is about the current configuration.
finish_run(verdict) ==
    /\ open' = "no"
    /\ lastError' = IF generation = epoch /\ pending = 0 THEN verdict ELSE lastError

\* Mutant: a chain that reaches its cap just ends.
Chain_ends(progressed, clean) ==
    /\ UNCHANGED continuation
    /\ IF progressed /\ work' > 0 /\ chained < MaxChained
       THEN worker' = "slot" /\ chained' = chained + 1
       ELSE worker' = "drain" /\ UNCHANGED chained

\* What the worker does with a report: the next cycle of the chain, a continuation
\* at the cap, or nothing.
Chain(progressed, clean) ==
    IF ~(progressed /\ work' > 0)
    THEN worker' = "drain" /\ UNCHANGED <<chained, continuation>>
    ELSE IF chained >= MaxChained
    THEN /\ worker' = "drain" /\ UNCHANGED chained
         /\ continuation' = IF clean /\ unattended_retry_is_worthwhile(lastError')
                            THEN "yes" ELSE continuation
    ELSE IF unattended_retry_is_worthwhile(lastError')
    THEN worker' = "slot" /\ chained' = chained + 1 /\ UNCHANGED continuation
    ELSE worker' = "drain" /\ UNCHANGED <<chained, continuation>>

causes == {"retry", "user"}

\* The cycle settled `sent` of its obligations; some photos may have failed.
RunCompletes(sent, failure) ==
    /\ worker = "frozen"
    /\ active' = "no" /\ batch' = 0
    /\ work' = work - sent
    /\ \E verdict \in IF failure # "none" THEN {failure}
                      ELSE IF work' > 0 THEN {"none", "retry"} ELSE {"none"} :
           finish_run(verdict)
    /\ Chain(sent > 0, failure = "none")
    /\ stranded' = IF sent > 0 /\ work' > 0 /\ failure = "none" THEN "yes" ELSE "no"
    /\ UNCHANGED <<switch, intent, config, changes, epoch, requested, working, closing, chosen,
                   scheduler, asking, up, crashes, decision, decisions, gate, resets>>

\* Another device holds the lease: nothing was sent.
RunIsBusy ==
    /\ worker = "run" /\ "busy" \in Failures
    /\ active' = "no" /\ worker' = "drain"
    /\ finish_run("busy")
    /\ UNCHANGED <<switch, intent, config, owed, cycle, requested, working, closing, chosen, others,
                   decision, decisions, gate, resets>>

\* caught_up_behind_lock: the head moved between the downlink and the lease.  The
\* worker asks itself for a full cycle, unless the chain is at its cap.
RunIsBehind ==
    /\ worker = "run" /\ "behind" \in Failures
    /\ active' = "no" /\ worker' = "drain"
    /\ finish_run("behind")
    /\ requested' = IF chained < MaxChained /\ unattended_retry_is_worthwhile(lastError')
                    THEN "yes" ELSE requested
    /\ UNCHANGED <<switch, intent, config, owed, cycle, working, closing, chosen, others, decision,
                   decisions, gate, resets>>

\* The cycle ends with an error, as it does when its epoch is superseded.
RunFails(cause) ==
    /\ worker \in {"run", "frozen"}
    /\ "cycle" \in Failures \/ (~epoch_current /\ cause = "retry")
    /\ active' = "no" /\ worker' = "drain" /\ batch' = 0
    /\ finish_run(cause)
    /\ UNCHANGED <<switch, intent, config, owed, chained, epoch, requested, working, closing, chosen,
                   others, decision, decisions, gate, resets>>

RunSteps ==
    \/ RunFreezes \/ RunIsBusy \/ RunIsBehind
    \/ \E sent \in 0..batch :
           \/ RunCompletes(sent, "none")
           \/ "cycle" \in Failures /\ \E cause \in causes : RunCompletes(sent, cause)
    \/ \E cause \in causes : RunFails(cause)

\* The flag is given up first; what was requested meanwhile is looked at after it.
WorkerCloses ==
    /\ worker = "exit"
    /\ working' = "no" /\ worker' = "off" /\ closing' = "yes"
    /\ UNCHANGED <<switch, intent, config, record, owed, cycle, requested, chosen, others, decide,
                   resets>>

WorkerLooksAgain ==
    /\ closing = "yes"
    /\ closing' = "no"
    /\ IF requested = "yes" THEN request_job_sync
       ELSE UNCHANGED <<requested, working, worker, resets>>
    /\ UNCHANGED <<switch, intent, config, record, owed, cycle, chosen, others, decide>>

\* schedule_continuation, after its delay.
ContinuationWakes ==
    /\ continuation = "yes"
    /\ continuation' = "no"
    /\ IF enabled = "yes" /\ ~reset_pending /\ job = "present" /\ paused = "no"
       THEN request_job_sync
       ELSE UNCHANGED <<requested, working, worker, resets>>
    /\ UNCHANGED <<switch, intent, config, record, owed, cycle, closing, chosen, scheduler, asking, up,
                   crashes, decide>>

-----------------------------------------------------------------------------
(***************************************************************************)
(* The reset worker: lock -> read -> wait -> clean -> finish -> discard    *)
(* -> read, until no reset is pending, then unlock and look again.         *)
(***************************************************************************)
ResetLocks ==
    /\ reset = "lock" /\ gate = "free"
    /\ gate' = "reset" /\ reset' = "read"
    /\ UNCHANGED <<switch, intent, config, record, owed, cycle, workers, others, decision, decisions, active,
                   resetting, mine>>

ResetReads ==
    /\ reset = "read"
    /\ mine' = token
    /\ IF reset_pending THEN reset' = "wait" /\ UNCHANGED gate
       ELSE reset' = "exit" /\ gate' = "free"
    /\ UNCHANGED <<switch, intent, config, record, owed, cycle, workers, others, decision, decisions, active,
                   resetting>>

\* Mutant: only running jobs are waited for, not configuration transitions.
ResetWaits_jobs ==
    /\ reset = "wait"
    /\ active = "no"
    /\ reset' = "clean"
    /\ UNCHANGED <<switch, intent, config, record, owed, cycle, workers, others, decide, resetting,
                   mine>>

\* No job is active and no configuration transition is open.
ResetWaits ==
    /\ reset = "wait"
    /\ active = "no" /\ worker \notin {"quiesce", "apply"}
    /\ reset' = "clean"
    /\ UNCHANGED <<switch, intent, config, record, owed, cycle, workers, others, decide, resetting,
                   mine>>

\* Unfinished publications are settled, staging and temporaries are deleted.
ResetCleans ==
    /\ reset = "clean"
    /\ reset' = "finish"
    /\ UNCHANGED <<switch, intent, config, record, owed, cycle, workers, others, decide, resetting,
                   mine>>

\* The pass ends where recover_publications fails, without a word to the store.
ResetFailsToRecover ==
    /\ reset = "clean" /\ "recovery" \in Failures
    /\ reset' = "exit" /\ gate' = "free"
    /\ UNCHANGED <<switch, intent, config, record, owed, cycle, workers, others, decision, decisions, active,
                   resetting, mine>>

fail_reset == resetError' = IF token = mine THEN "yes" ELSE resetError

\* A failed cleanup is recorded, unless a newer reset has taken over.
ResetFailsToClean ==
    /\ reset = "clean" /\ "cleanup" \in Failures
    /\ IF token # mine THEN reset' = "read" /\ UNCHANGED <<gate, resetError>>
       ELSE fail_reset /\ reset' = "exit" /\ gate' = "free"
    /\ UNCHANGED <<switch, token, tokens, tracking, config, record, owed, cycle, workers, others,
                   decision, decisions, active, resetting, mine>>

\* finish: the accepted edits are installed, the history and the intent are deleted.
finish_reset ==
    IF token # mine THEN UNCHANGED <<intent, config, record, owed>>
    ELSE /\ token' = 0 /\ resetError' = "no"
         /\ pending' = 0 /\ removing' = "no"
         /\ job' = IF removing = "yes" THEN "removed" ELSE job
         /\ generation' = 1 + (IF pending > generation THEN pending ELSE generation)
         /\ paused' = "no"
         /\ lastError' = "none" /\ open' = "no"
         /\ work' = 0 /\ stranded' = "no"
         /\ UNCHANGED <<tokens, tracking, accepted, edits, changes>>

ResetFinishes ==
    /\ reset = "finish"
    /\ finish_reset
    /\ reset' = IF token = mine THEN "discard" ELSE "read"
    /\ UNCHANGED <<switch, cycle, workers, others, decide, resetting, mine>>

ResetFailsToFinish ==
    /\ reset = "finish" /\ "cleanup" \in Failures
    /\ fail_reset
    /\ reset' = "exit" /\ gate' = "free"
    /\ UNCHANGED <<switch, token, tokens, tracking, config, record, owed, cycle, workers, others,
                   decision, decisions, active, resetting, mine>>

discard_queued_work ==
    /\ reset = "discard"
    /\ reset' = "read"
    /\ requested' = "no"
    /\ UNCHANGED <<switch, intent, config, record, owed, cycle, working, worker, closing, chosen,
                   others, decide, resetting, mine>>

\* The flag is given up, then a reset with no recorded failure starts a new pass.
\* A worker started in between makes the second look idle: it looks itself.
ResetCloses ==
    /\ reset = "exit"
    /\ reset' = "again" /\ resetting' = "no"
    /\ UNCHANGED <<switch, intent, config, record, owed, cycle, workers, others, decide, mine>>

\* Mutant: the reset worker leaves without a second look.
ResetLooksAgain_never ==
    /\ reset = "again"
    /\ reset' = "off"
    /\ UNCHANGED <<switch, intent, config, record, owed, cycle, workers, others, decide, resetting,
                   mine>>

ResetLooksAgain ==
    /\ reset = "again"
    /\ IF reset_pending /\ resetError = "no" THEN resetting' = "yes" /\ reset' = "lock"
       ELSE reset' = "off" /\ UNCHANGED resetting
    /\ UNCHANGED <<switch, intent, config, record, owed, cycle, workers, others, decide, mine>>

-----------------------------------------------------------------------------
\* The process dies.  What is in memory is gone, the rows and the preferences stay.
Crash ==
    /\ up = "yes"
    /\ crashes < MaxCrashes
    /\ enabled = "no" => tokens < MaxResets
    /\ crashes' = crashes + 1
    /\ up' = "no" /\ scheduler' = "off" /\ asking' = "no" /\ continuation' = "no"
    /\ switched' = "no"
    /\ requested' = "no" /\ working' = "no" /\ worker' = "off" /\ closing' = "no" /\ chosen' = 0
    /\ chained' = 0 /\ batch' = 0 /\ epoch' = 0
    /\ decision' = "off" /\ gate' = "free" /\ active' = "no"
    /\ resetting' = "no" /\ reset' = "off" /\ mine' = 0
    /\ stranded' = "no"
    /\ UNCHANGED <<enabled, intent, config, record, work, changes, decisions>>

Init ==
    /\ enabled = "yes" /\ switched = "no"
    /\ token = 0 /\ tokens = 0 /\ resetError = "no" /\ tracking = "yes"
    /\ job = "present" /\ pending = 0 /\ removing = "no" /\ accepted = 0 /\ edits = 0
    /\ generation = 0 /\ paused = "no"
    /\ lastError = "none" /\ open = "no"
    /\ work = 0 /\ changes = 0 /\ stranded = "no"
    /\ chained = 0 /\ batch = 0 /\ epoch = 0
    /\ requested = "no" /\ working = "no" /\ worker = "off" /\ closing = "no" /\ chosen = 0
    /\ continuation = "no" /\ scheduler = "off" /\ asking = "no" /\ up = "no" /\ crashes = 0
    /\ decision = "off" /\ decisions = 0 /\ gate = "free" /\ active = "no"
    /\ resetting = "no" /\ reset = "off" /\ mine = 0

UserSteps ==
    \/ note_local_change \/ accept_edit \/ delete_job \/ SetJobPaused
    \/ request_all_sync \/ set_sync_enabled \/ DecisionEnters

SchedulerSteps == Subscribe \/ settled \/ request_scheduled_sync

DecisionSteps == DecisionAcquires \/ DecisionEnds \/ DecisionAsks

WorkerSteps ==
    \/ WorkerDrains \/ WorkerEntersTransition \/ WorkerQuiesces
    \/ WorkerApplies \/ WorkerFailsToApply \/ WorkerLooksForCycle
    \/ WorkerAcquires \/ RunSteps \/ WorkerCloses

ResetSteps ==
    \/ ResetLocks \/ ResetReads \/ ResetWaits \/ ResetCleans
    \/ ResetFailsToRecover \/ ResetFailsToClean
    \/ ResetFinishes \/ ResetFailsToFinish \/ discard_queued_work
    \/ ResetCloses \/ ResetLooksAgain

Next ==
    \/ Startup \/ UserSteps \/ SchedulerSteps \/ DecisionSteps \/ WorkerSteps \/ ResetSteps
    \/ Ask \/ sync_enabled_changed \/ WorkerLooksAgain \/ ContinuationWakes \/ Crash

\* The runtime keeps polling every task that can go on, a timer that is not started
\* over fires, a network call returns or times out.  A tokio Mutex is handed on in
\* the order it was asked for: whoever waits for the gate gets it.  Nothing is
\* assumed of the user, nor that the process dies.
Fairness ==
    /\ WF_vars(Startup) /\ WF_vars(Ask) /\ WF_vars(sync_enabled_changed)
    /\ WF_vars(SchedulerSteps) /\ WF_vars(DecisionSteps)
    /\ WF_vars(WorkerSteps) /\ WF_vars(WorkerLooksAgain) /\ WF_vars(ContinuationWakes)
    /\ WF_vars(ResetSteps)
    /\ SF_vars(WorkerEntersTransition) /\ SF_vars(WorkerAcquires) /\ SF_vars(ResetLocks)

Spec == Init /\ [][Next]_vars

FairSpec == Spec /\ Fairness

-----------------------------------------------------------------------------
Flag == {"yes", "no"}

\* Every variable has its type, and a chain never exceeds its cap (MAX_CHAINED_CYCLES).
TypeOK ==
    /\ enabled \in Flag /\ switched \in Flag
    /\ token \in 0..MaxResets /\ tokens \in 0..MaxResets
    /\ resetError \in Flag /\ tracking \in Flag
    /\ job \in {"present", "removed"}
    /\ pending \in Nat /\ accepted \in Nat /\ generation \in Nat /\ edits \in 0..MaxEdits
    /\ removing \in Flag /\ paused \in Flag
    /\ lastError \in {"none", "retry", "user", "busy", "behind", "edit"}
    /\ open \in Flag
    /\ work \in Nat /\ changes \in 0..MaxChanges /\ stranded \in Flag
    /\ chained \in 0..MaxChained /\ batch \in Nat /\ epoch \in Nat
    /\ requested \in Flag /\ working \in Flag /\ closing \in Flag /\ chosen \in Nat
    /\ worker \in {"off", "drain", "transition", "quiesce", "apply", "cycle", "slot", "run",
                   "frozen", "exit"}
    /\ continuation \in Flag /\ asking \in Flag /\ up \in Flag
    /\ scheduler \in {"off", "start", "listen", "count", "fire"}
    /\ crashes \in 0..MaxCrashes
    /\ decision \in {"off", "wait", "run", "ask"} /\ decisions \in 0..MaxDecisions
    /\ gate \in {"free", "decision", "reset"} /\ active \in Flag
    /\ resetting \in Flag /\ mine \in 0..MaxResets
    /\ reset \in {"off", "lock", "read", "wait", "clean", "finish", "discard", "exit", "again"}

Running == worker \in {"run", "frozen"}

\* Files and history are cleared, and an edit is installed, only while no cycle and
\* no photo decision is under way, and never two of these at once (ResetWork.gate,
\* the job's gate, ActiveJobGuard, transitions).
Exclusive ==
    /\ ~(Running /\ decision = "run")
    /\ worker = "apply" => decision # "run"
    /\ reset \in {"clean", "finish"} =>
          ~Running /\ decision # "run" /\ worker \notin {"quiesce", "apply"}

\* A cycle keeps running under the configuration it captured, unless a reset has
\* been ordered since: nobody installs another one below it (config_generation).
RunKeepsConfiguration == Running /\ ~reset_pending => generation = epoch

\* Once no edit is pending, the configuration installed is at least as new as the
\* latest one the user was told is accepted (apply, finish).
NewestEditWins == pending = 0 /\ job = "present" => generation >= accepted

\* The overview says "syncing" only of a job that is running: a run that ended, was
\* superseded or died with its process does not stay open (FinishRun,
\* ReconcileInterruptedRuns).
StatusIsTrue == up = "yes" /\ ~reset_pending /\ open = "yes" => Running

\* A request is taken, by this worker or by the next: none falls between the last
\* look of a worker and the flag it gives up (configuration_worker).  A reset comes
\* first: one that failed and is still owed holds every request back.
RequestIsTaken == []<>(requested = "no" \/ reset_pending)

\* An accepted edit is installed, or its failure is shown (apply_pending_job).
EditApplied == []<>(pending = 0 \/ lastError = "edit")

\* A reset that was ordered completes, or stops with a failure on record, even if
\* another one is ordered while the worker leaves (start_reset_worker).
ResetSettles == []<>(~reset_pending \/ resetError = "yes")

\* What keeps a job from a cycle by the user's own choice, or until the user acts.
HeldBack ==
    \/ enabled = "no" \/ reset_pending \/ job = "removed" \/ paused = "yes" \/ pending # 0
    \/ lastError = "user"

\* Work that a clean cycle left after making progress gets another cycle, over the
\* cap of a chain too (schedule_continuation).
AdmittedWorkContinues == []<>(stranded = "no" \/ HeldBack)

(***************************************************************************)
(* What the repository says of the program, and the code does not do.      *)
(***************************************************************************)
\* A job that reports a scheduled retry runs again (run_cycle_mode).
RetryFollows == lastError = "busy" ~> Running \/ HeldBack

\* A tracked change is followed by a cycle or by a countdown that asks for one
\* (note_local_change, settled).
ChangeIsServed == work > 0 ~> work = 0 \/ Running \/ HeldBack

\* Once the switch is on and the barrier is passed, local changes are tracked
\* (sync_enabled_changed, resume_local_changes).
TrackingResumes ==
    enabled = "yes" /\ switched = "no" /\ ~reset_pending ~>
        tracking = "yes" \/ enabled = "no" \/ reset_pending
=============================================================================
