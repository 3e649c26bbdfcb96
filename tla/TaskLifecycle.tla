---------------------------- MODULE TaskLifecycle ----------------------------
(***************************************************************************)
(* The life of CLI tasks in the TORQUE server: startTask                   *)
(* (execution/task-startup.js), the child process and its listeners        *)
(* (execution/process-lifecycle.js, process-tracker.js), the finalizer     *)
(* (task-finalizer.js, retry-framework.js, validation/close-phases.js),    *)
(* cancelTask and the periodic sweeps (maintenance/orphan-cleanup.js).     *)
(*                                                                         *)
(* The server is one Node process.  An action is a run of code between two *)
(* points where the event loop can turn: a real await, a timer callback, a *)
(* child-process event or a request.                                       *)
(***************************************************************************)
EXTENDS TaskRow, FiniteSets

CONSTANTS
    Tasks,
    MaxConcurrent,     \* max_concurrent
    ProviderLimit,     \* per-provider max_concurrent: [Providers -> Nat]
    MaxStalls,         \* stall_recovery_max_attempts
    MaxAttempts,       \* bound: attempts of a task that are followed
    RetryBound,        \* bound: retry_count at which operators stop retrying
    Overlap            \* may a sweep or an operator act on a task while an
                       \* earlier attempt of it is still in progress?

ASSUME LifecycleAssumption ==
    /\ IsFiniteSet(Tasks)
    /\ MaxConcurrent \in Nat
    /\ ProviderLimit \in [Providers -> Nat]
    /\ MaxStalls \in Nat
    /\ MaxAttempts \in Nat
    /\ RetryBound \in Nat
    /\ Overlap \in BOOLEAN

VARIABLES
    row,         \* the tasks table
    att,         \* per task, the state of each attempt (see AttemptState)
    tracked,     \* runningProcesses: the attempt of the entry, 0 if none
    guard,       \* cleanupGuard has the task
    fin,         \* the finalizeTask call that holds the task's lock
    waiting,     \* attempts whose close handler waits for that lock
    retryTimer,  \* pendingRetryTimeouts has the task
    looseTimers, \* retry timers whose entry there was overwritten or deleted
    laneTimers   \* timers set by scheduleSameProviderRetry, kept nowhere

vars == <<row, att, tracked, guard, fin, waiting, retryTimer, looseTimers, laneTimers>>
procVars == <<att, tracked, guard>>
finVars == <<fin, waiting>>
timerVars == <<retryTimer, looseTimers, laneTimers>>

(***************************************************************************)
(* unused    not started yet                                               *)
(* starting  startTask has claimed the slot and is suspended in an await   *)
(* live      the child runs and the close handler listens to it            *)
(* deaf      the child runs, nobody listens (the spawn step threw)         *)
(* exited    the child is gone, its close event not yet handled            *)
(* dropped   its close event was discarded by the cleanup guard            *)
(* done      signalled or exited, and no further event will be handled     *)
(***************************************************************************)
AttemptState == {"unused", "starting", "live", "deaf", "exited", "dropped", "done"}
Attempts == 1..MaxAttempts

\* What a finalizeTask call carries between its awaits: the status it is
\* going to write, whether the exit code of the process was not 0, whether a
\* stage threw, and the counters of the row it read first.
Context == [out : {"completed", "failed"}, raw : BOOLEAN, err : BOOLEAN,
            tries : Nat, lane : Nat]
Idle == [out |-> "idle"]

TypeOK ==
    /\ row \in [Tasks -> Row]
    /\ att \in [Tasks -> [Attempts -> AttemptState]]
    /\ tracked \in [Tasks -> 0..MaxAttempts]
    /\ guard \in [Tasks -> BOOLEAN]
    /\ fin \in [Tasks -> Context \cup {Idle}]
    /\ waiting \in [Tasks -> SUBSET Attempts]
    /\ retryTimer \in [Tasks -> BOOLEAN]
    /\ looseTimers \in [Tasks -> Nat]
    /\ laneTimers \in [Tasks -> Nat]

Init ==
    /\ row = [t \in Tasks |-> createTask]
    /\ att = [t \in Tasks |-> [i \in Attempts |-> "unused"]]
    /\ tracked = [t \in Tasks |-> 0]
    /\ guard = [t \in Tasks |-> FALSE]
    /\ fin = [t \in Tasks |-> Idle]
    /\ waiting = [t \in Tasks |-> {}]
    /\ retryTimer = [t \in Tasks |-> FALSE]
    /\ looseTimers = [t \in Tasks |-> 0]
    /\ laneTimers = [t \in Tasks |-> 0]

Status(t) == row[t].status

\* An attempt whose handlers may still write the row, or whose child runs.
InProgress == {"starting", "live", "deaf", "exited", "dropped"}
QuietBut(t, S) ==
    /\ \A i \in Attempts : att[t][i] \in InProgress => i \in S
    /\ fin[t] = Idle
    /\ waiting[t] = {}
Quiet(t) == QuietBut(t, {})

SetRow(t, r) == row' = [row EXCEPT ![t] = r]
SetAttempt(t, i, s) == att' = [att EXCEPT ![t][i] = s]

-----------------------------------------------------------------------------
(***************************************************************************)
(* startTask, up to its first await.                                       *)
(***************************************************************************)
Running == {t \in Tasks : Status(t) = "running"}
RunningOn(p) == {t \in Running : row[t].provider = p}

\* Mutant of SlotFree: the comparisons are off by one.
SlotFreeOffByOne(p) ==
    /\ Cardinality(Running) <= MaxConcurrent
    /\ Cardinality(RunningOn(p)) <= ProviderLimit[p]

\* The counts tryClaimTaskSlot checks inside its transaction.
SlotFree(p) ==
    /\ Cardinality(Running) < MaxConcurrent
    /\ Cardinality(RunningOn(p)) < ProviderLimit[p]

FirstUnused(t, i) ==
    /\ att[t][i] = "unused"
    /\ \A j \in Attempts : j < i => att[t][j] # "unused"

\* startTask called when the row is r: it claims a slot and goes on to its
\* awaits, is parked as queued (no slot, restart barrier, disk pressure,
\* provider disabled), completes from the result cache, or fails preflight.
startTask(t, r) ==
    \/ \E p \in Providers, i \in Attempts :
          /\ SlotFree(p)
          /\ FirstUnused(t, i)
          /\ SetRow(t, claimSlot(r, p))
          /\ SetAttempt(t, i, "starting")
    \/ /\ SetRow(t, updateTaskStatus(r, "queued"))
       /\ UNCHANGED att
    \/ \E s \in {"completed", "failed"} :
          /\ SetRow(t, updateTaskStatus(r, s))
          /\ UNCHANGED att

\* attemptTaskStart from processQueue or from a request.
StartTask(t) ==
    /\ Status(t) \in Startable
    /\ startTask(t, row[t])
    /\ UNCHANGED <<tracked, guard, finVars, timerVars>>

-----------------------------------------------------------------------------
(***************************************************************************)
(* cancelTask, which other handlers call too.  The tracked child is killed *)
(* and its listeners removed; an untracked task only has its row written.  *)
(* kill is the set of attempts the caller ends as well.                    *)
(***************************************************************************)
EndAttempts(t, S) ==
    att' = [att EXCEPT ![t] = [i \in Attempts |->
                                  IF i \in S THEN "done" ELSE att[t][i]]]

cancelTask(t, s, kill) ==
    /\ retryTimer' = [retryTimer EXCEPT ![t] = FALSE]
    /\ SetRow(t, softUpdateTaskStatus(row[t], s))
    /\ EndAttempts(t, kill)
    /\ tracked' = [tracked EXCEPT ![t] = 0]
    /\ UNCHANGED <<guard, finVars, looseTimers, laneTimers>>

\* A cancel request ("cancelled"), or an internal failure reason ("failed").
Cancel(t, s) ==
    /\ Status(t) \notin Terminal \/ tracked[t] # 0 \/ retryTimer[t]
    /\ cancelTask(t, s, {tracked[t]})

\* cancelTask with abandon: the child and its listeners are left alone.
Abandon(t) ==
    /\ tracked[t] # 0
    /\ cancelTask(t, "cancelled", {})

-----------------------------------------------------------------------------
(***************************************************************************)
(* startTask, after its awaits.                                            *)
(***************************************************************************)
\* spawnAndTrackProcess.  A cancelled row makes it kill the child and
\* return with the entry still tracked; another terminal row makes the
\* status write throw, before any listener is attached.
spawnAndTrackProcess(t, i) ==
    /\ att[t][i] = "starting"
    /\ tracked' = [tracked EXCEPT ![t] = i]
    /\ \/ /\ Status(t) = "cancelled"
          /\ SetAttempt(t, i, "done")
          /\ UNCHANGED row
       \/ /\ Status(t) # "cancelled"
          /\ ~Accepts(row[t], "running")
          /\ SetAttempt(t, i, "deaf")
          /\ UNCHANGED row
       \/ /\ Accepts(row[t], "running")
          /\ SetAttempt(t, i, "live")
          /\ SetRow(t, setRunningPid(row[t]))
    /\ UNCHANGED <<guard, finVars, timerVars>>

\* Mutant of FileLockConflict: the early return is missing, and startTask
\* goes on to the spawn.
FileLockConflictGoesOn(t, i) ==
    /\ att[t][i] = "starting"
    /\ SetRow(t, requeueTaskAfterAttemptedStart(row[t]))
    /\ UNCHANGED <<procVars, finVars, timerVars>>

\* resolveAndLockFiles: another task holds a file lock.
FileLockConflict(t, i) ==
    /\ att[t][i] = "starting"
    /\ SetAttempt(t, i, "done")
    /\ SetRow(t, requeueTaskAfterAttemptedStart(row[t]))
    /\ UNCHANGED <<tracked, guard, finVars, timerVars>>

\* evaluateClaimedPolicyForStartup: cancelTask with reason policy_block.
PolicyBlocked(t, i) ==
    /\ att[t][i] = "starting"
    /\ cancelTask(t, "failed", {i, tracked[t]})

\* Any other exception after the claim: releaseClaimedSlot fails the row
\* only if it is running and has no pid; a deterministic preflight error
\* fails it anyway (markPreflightFailed).
StartThrows(t, i) ==
    /\ att[t][i] = "starting"
    /\ SetAttempt(t, i, "done")
    /\ \/ /\ Status(t) = "running" /\ ~row[t].pid
          /\ SetRow(t, updateTaskStatus(row[t], "failed"))
       \/ /\ Status(t) # "running" \/ row[t].pid
          /\ UNCHANGED row
       \/ SetRow(t, [softUpdateTaskStatus(row[t], "failed") EXCEPT !.pid = FALSE])
    /\ UNCHANGED <<tracked, guard, finVars, timerVars>>

-----------------------------------------------------------------------------
(***************************************************************************)
(* finalizeTask, up to its first long stage: the re-read of the row, the   *)
(* retry decision and the safeguard checks run without giving up the loop. *)
(* g is the value of the cleanup guard when it is called.                  *)
(***************************************************************************)
EnterStages(t, out, raw) ==
    fin' = [fin EXCEPT ![t] = [out |-> out, raw |-> raw, err |-> FALSE,
                               tries |-> row[t].retries, lane |-> row[t].lane]]
SetGuard(t, b) == guard' = [guard EXCEPT ![t] = b]

\* handleRetryLogic on the row r whose counter it has just incremented: the
\* guard is cleared, the row parked and a timer registered.  A timer that
\* is registered already loses its entry but is not stopped.
handleRetryLogic(t, r) ==
    /\ SetRow(t, scheduleRetry(r))
    /\ SetGuard(t, FALSE)
    /\ retryTimer' = [retryTimer EXCEPT ![t] = TRUE]
    /\ looseTimers' = [looseTimers EXCEPT ![t] = IF retryTimer[t] THEN @ + 1 ELSE @]
    /\ UNCHANGED laneTimers

finalizeTask(t, g) ==
    \* isFinalizableStatus fails.
    \/ /\ Status(t) # "running"
       /\ SetGuard(t, g)
       /\ UNCHANGED <<row, fin, timerVars>>
    \* Exit code # 0, retryable, budget left.
    \/ /\ Status(t) = "running"
       /\ row[t].retries + 1 <= maxRetries(row[t])
       /\ handleRetryLogic(t, incrementRetry(row[t]))
       /\ UNCHANGED fin
    \* Exit code # 0, retryable, budget exhausted: the counter still moves.
    \/ /\ Status(t) = "running"
       /\ row[t].retries + 1 > maxRetries(row[t])
       /\ SetRow(t, incrementRetry(row[t]))
       /\ EnterStages(t, "failed", TRUE)
       /\ SetGuard(t, g)
       /\ UNCHANGED timerVars
    \* Exit code # 0, not retryable.
    \/ /\ Status(t) = "running"
       /\ EnterStages(t, "failed", TRUE)
       /\ SetGuard(t, g)
       /\ UNCHANGED <<row, timerVars>>
    \* Exit code 0, safeguards fail, budget left.
    \/ /\ Status(t) = "running"
       /\ row[t].retries < maxRetries(row[t])
       /\ SetRow(t, safeguardRequeue(row[t]))
       /\ SetGuard(t, FALSE)
       /\ UNCHANGED <<fin, timerVars>>
    \* Exit code 0: safeguards pass, or fail with the budget exhausted.
    \/ /\ Status(t) = "running"
       /\ \E out \in {"completed", "failed"} :
             /\ out = "failed" => row[t].retries >= maxRetries(row[t])
             /\ EnterStages(t, out, FALSE)
       /\ SetGuard(t, g)
       /\ UNCHANGED <<row, timerVars>>

-----------------------------------------------------------------------------
(***************************************************************************)
(* The child process and its close event.                                  *)
(***************************************************************************)
\* The child exits, by itself or killed by the zombie check.
ProcessExit(t, i) ==
    /\ \/ att[t][i] = "live" /\ SetAttempt(t, i, "exited")
       \/ att[t][i] = "deaf" /\ SetAttempt(t, i, "done")
    /\ UNCHANGED <<row, tracked, guard, finVars, timerVars>>

\* The close listener up to the first await.  handleCloseCleanup drops the
\* whole tracker entry of the task, whichever attempt it belongs to.
handleClose(t, i) ==
    /\ ~guard[t]
    /\ tracked' = [tracked EXCEPT ![t] = 0]
    /\ \/ /\ Status(t) = "cancelled"
          /\ SetGuard(t, TRUE)
          /\ UNCHANGED <<row, finVars, timerVars>>
       \/ /\ Status(t) # "cancelled"
          /\ fin[t] # Idle
          /\ SetGuard(t, TRUE)
          /\ waiting' = [waiting EXCEPT ![t] = @ \cup {i}]
          /\ UNCHANGED <<row, fin, timerVars>>
       \/ /\ Status(t) # "cancelled"
          /\ fin[t] = Idle
          /\ finalizeTask(t, TRUE)
          /\ UNCHANGED waiting

\* The close event of a child that has exited.
Close(t, i) ==
    /\ att[t][i] = "exited"
    /\ \/ handleClose(t, i) /\ SetAttempt(t, i, "done")
       \/ /\ guard[t]                    \* markCleanedUp returns false
          /\ SetAttempt(t, i, "dropped")
          /\ UNCHANGED <<row, tracked, guard, finVars, timerVars>>

\* checkZombieProcesses emits close again for an exited child that is still
\* tracked; while the guard is set nothing comes of it.
ZombieClose(t, i) ==
    /\ att[t][i] = "dropped"
    /\ tracked[t] = i
    /\ handleClose(t, i)
    /\ SetAttempt(t, i, "done")

\* checkZombieProcesses emits close for a child it takes for finished
\* (output completion, inactivity): the child and its listener live on.
SyntheticClose(t, i) ==
    /\ Overlap
    /\ att[t][i] = "live"
    /\ tracked[t] = i
    /\ handleClose(t, i)
    /\ UNCHANGED att

\* A close handler that waited gets the finalization lock.
LockGranted(t, i) ==
    /\ i \in waiting[t]
    /\ fin[t] = Idle
    /\ waiting' = [waiting EXCEPT ![t] = @ \ {i}]
    /\ finalizeTask(t, guard[t])
    /\ UNCHANGED <<att, tracked>>

\* The sweep in markCleanedUp drops guard entries older than their TTL.
GuardExpires(t) ==
    /\ guard[t]
    /\ SetGuard(t, FALSE)
    /\ UNCHANGED <<row, att, tracked, finVars, timerVars>>

-----------------------------------------------------------------------------
(***************************************************************************)
(* finalizeTask, its stages and its end.                                   *)
(***************************************************************************)
Release(t) == fin' = [fin EXCEPT ![t] = Idle]

\* A stage fails the task, or throws (runStage then sets pipelineError).
StageFails(t) ==
    /\ fin[t] # Idle
    /\ \E err \in BOOLEAN :
          fin' = [fin EXCEPT ![t].out = "failed", ![t].err = @ \/ err]
    /\ UNCHANGED <<row, procVars, waiting, timerVars>>

\* A no-change or phantom-success verdict runs handleRetryLogic a second
\* time: its counter moves whatever the row has become, and parking a row
\* that has become terminal throws after the guard was cleared.
LateRetry(t) ==
    /\ fin[t] # Idle
    /\ fin[t].out = "completed"
    /\ LET r == incrementRetry(row[t]) IN
       \/ /\ r.retries <= maxRetries(r)
          /\ Accepts(r, "retry_scheduled")
          /\ handleRetryLogic(t, r)
          /\ Release(t)
       \/ /\ r.retries <= maxRetries(r)
          /\ ~Accepts(r, "retry_scheduled")
          /\ SetRow(t, r)
          /\ SetGuard(t, FALSE)
          /\ fin' = [fin EXCEPT ![t].out = "failed", ![t].err = TRUE]
          /\ UNCHANGED timerVars
       \/ /\ r.retries > maxRetries(r)
          /\ SetRow(t, r)
          /\ fin' = [fin EXCEPT ![t].out = "failed"]
          /\ UNCHANGED <<guard, timerVars>>
    /\ UNCHANGED <<att, tracked, waiting>>

\* handleAutoVerifyRetry submits a fix task and fails this one itself.
VerifyRetry(t) ==
    /\ fin[t] # Idle
    /\ fin[t].out = "completed"
    /\ Accepts(row[t], "failed")
    /\ SetRow(t, updateTaskStatus(row[t], "failed"))
    /\ SetGuard(t, FALSE)
    /\ Release(t)
    /\ UNCHANGED <<att, tracked, waiting, timerVars>>

\* The part of handleProviderFailover that the failed provider gets.
MayFailover(t) ==
    /\ fin[t].out = "failed"
    /\ fin[t].raw
    /\ ~fin[t].err
    /\ fin[t].tries < MaxFailovers

\* scheduleSameProviderRetry.
LaneRetry(t) ==
    /\ fin[t] # Idle
    /\ MayFailover(t)
    /\ fin[t].lane + 1 <= MaxFailovers
    /\ Accepts(row[t], "retry_scheduled")
    /\ SetRow(t, laneRetry(row[t], fin[t].tries, fin[t].lane))
    /\ laneTimers' = [laneTimers EXCEPT ![t] = @ + 1]
    /\ SetGuard(t, FALSE)
    /\ Release(t)
    /\ UNCHANGED <<att, tracked, waiting, retryTimer, looseTimers>>

\* pending_provider_switch and approveProviderSwitch, which leave the row
\* queued for another provider.
ProviderSwitch(t) ==
    /\ fin[t] # Idle
    /\ MayFailover(t)
    /\ Accepts(row[t], "pending_provider_switch")
    /\ SetRow(t, approveProviderSwitch(row[t]))
    /\ SetGuard(t, FALSE)
    /\ Release(t)
    /\ UNCHANGED <<att, tracked, waiting, timerVars>>

\* The final write; also what is left when no failover applies or when it
\* threw because the row was terminal already.
FinalWrite(t) ==
    /\ fin[t] # Idle
    /\ SetRow(t, softUpdateTaskStatus(row[t], fin[t].out))
    /\ Release(t)
    /\ UNCHANGED <<procVars, waiting, timerVars>>

\* An exception outside the stages: failed, if the row is still running.
FinalizeFatal(t) ==
    /\ fin[t] # Idle
    /\ SetRow(t, IF Status(t) = "running"
                 THEN updateTaskStatus(row[t], "failed") ELSE row[t])
    /\ Release(t)
    /\ UNCHANGED <<procVars, waiting, timerVars>>

-----------------------------------------------------------------------------
(***************************************************************************)
(* Timers, operators and sweeps.                                           *)
(***************************************************************************)
\* The callback of a timer of handleRetryLogic.  It deletes the task's entry,
\* also when that entry is a newer timer's, and calls startTask itself.
RetryTimerFires(t) ==
    /\ \/ retryTimer[t] /\ UNCHANGED looseTimers
       \/ /\ looseTimers[t] > 0
          /\ looseTimers' = [looseTimers EXCEPT ![t] = IF retryTimer[t] THEN @ ELSE @ - 1]
    /\ retryTimer' = [retryTimer EXCEPT ![t] = FALSE]
    /\ IF Status(t) = "retry_scheduled"
       THEN startTask(t, resumeRetry(row[t]))
       ELSE UNCHANGED <<row, att>>
    /\ UNCHANGED <<tracked, guard, finVars, laneTimers>>

\* Mutant of LaneTimerFires: a timer that has fired fires again.
LaneTimerFiresAgain(t) ==
    /\ laneTimers' = [laneTimers EXCEPT ![t] = @ - 1]
    /\ SetRow(t, IF Status(t) = "retry_scheduled"
                 THEN laneRequeue(row[t]) ELSE row[t])
    /\ UNCHANGED <<procVars, finVars, retryTimer, looseTimers>>

\* The callback of scheduleSameProviderRetry's timer.
LaneTimerFires(t) ==
    /\ laneTimers[t] > 0
    /\ laneTimers' = [laneTimers EXCEPT ![t] = @ - 1]
    /\ SetRow(t, IF Status(t) = "retry_scheduled"
                 THEN laneRequeue(row[t]) ELSE row[t])
    /\ UNCHANGED <<procVars, finVars, retryTimer, looseTimers>>

\* Mutant of SweepRetryTimer: retry_scheduled is missing from the list of
\* statuses whose timer is kept.
SweepParkedTimer(t) ==
    /\ retryTimer[t]
    /\ Status(t) \notin Startable
    /\ retryTimer' = [retryTimer EXCEPT ![t] = FALSE]
    /\ UNCHANGED <<row, procVars, finVars, looseTimers, laneTimers>>

\* cleanupOrphanedRetryTimeouts.
SweepRetryTimer(t) ==
    /\ retryTimer[t]
    /\ Status(t) \notin Startable \cup {"retry_scheduled"}
    /\ retryTimer' = [retryTimer EXCEPT ![t] = FALSE]
    /\ UNCHANGED <<row, procVars, finVars, looseTimers, laneTimers>>

\* The dashboard's retry button.
OperatorRetry(t) ==
    /\ Status(t) = "failed"
    /\ row[t].retries < RetryBound
    /\ Overlap \/ Quiet(t)
    /\ SetRow(t, requeueKeepingPid(row[t]))
    /\ UNCHANGED <<procVars, finVars, timerVars>>

\* Mutant of StaleCheck: it trusts a recorded pid.
StaleCheckTrustsPid(t) ==
    /\ Status(t) = "running" /\ ~row[t].pid
    /\ tracked[t] = 0
    /\ fin[t] = Idle
    /\ Overlap \/ Quiet(t)
    /\ SetRow(t, IF row[t].retries < maxRetries(row[t])
                 THEN requeueKeepingPid(row[t])
                 ELSE updateTaskStatus(row[t], "failed"))
    /\ UNCHANGED <<procVars, finVars, timerVars>>

\* checkStaleRunningTasks on a row this server owns but does not track.  A
\* finalization in progress is marked and skipped; a suspended startTask is
\* not.
StaleCheck(t) ==
    /\ Status(t) = "running"
    /\ tracked[t] = 0
    /\ fin[t] = Idle
    /\ Overlap \/ Quiet(t)
    /\ SetRow(t, IF row[t].retries < maxRetries(row[t])
                 THEN requeueKeepingPid(row[t])
                 ELSE updateTaskStatus(row[t], "failed"))
    /\ UNCHANGED <<procVars, finVars, timerVars>>

\* checkStaleRunningTasks on a tracked row past its timeout.
TimeoutCheck(t) ==
    /\ Status(t) = "running"
    /\ tracked[t] # 0
    /\ cancelTask(t, "failed", {tracked[t]})

\* checkStalledTasks and tryStallRecovery on a tracked entry without recent
\* output, whatever the row says and whether or not its child still runs:
\* the child is killed, its listeners and its entry removed, and the row
\* requeued, or failed when tryLocalFirstFallback has nothing left; past the
\* limit the task is cancelled.
StallRecovery(t) ==
    /\ tracked[t] # 0
    /\ Overlap \/ QuietBut(t, {tracked[t]})
    /\ \/ /\ row[t].stalls < MaxStalls
          /\ \/ SetRow(t, stallRequeue(row[t]))
             \/ SetRow(t, updateTaskStatus(stallRequeue(row[t]), "failed"))
          /\ EndAttempts(t, {tracked[t]})
          /\ tracked' = [tracked EXCEPT ![t] = 0]
          /\ SetGuard(t, FALSE)
          /\ UNCHANGED <<finVars, timerVars>>
       \/ /\ row[t].stalls >= MaxStalls
          /\ cancelTask(t, "failed", {tracked[t]})

-----------------------------------------------------------------------------
Finalize(t) ==
    \/ StageFails(t) \/ LateRetry(t) \/ VerifyRetry(t) \/ LaneRetry(t)
    \/ ProviderSwitch(t) \/ FinalWrite(t) \/ FinalizeFatal(t)

Sweep(t) ==
    \/ GuardExpires(t) \/ SweepRetryTimer(t) \/ StaleCheck(t)
    \/ TimeoutCheck(t) \/ StallRecovery(t)

Attempt(t, i) ==
    \/ spawnAndTrackProcess(t, i) \/ FileLockConflict(t, i)
    \/ PolicyBlocked(t, i) \/ StartThrows(t, i)
    \/ ProcessExit(t, i) \/ Close(t, i) \/ ZombieClose(t, i)
    \/ SyntheticClose(t, i) \/ LockGranted(t, i)

TaskStep(t) ==
    \/ StartTask(t)
    \/ \E i \in Attempts : Attempt(t, i)
    \/ Finalize(t)
    \/ \E s \in {"cancelled", "failed"} : Cancel(t, s)
    \/ Abandon(t)
    \/ RetryTimerFires(t) \/ LaneTimerFires(t)
    \/ OperatorRetry(t)
    \/ Sweep(t)

Next == \E t \in Tasks : TaskStep(t)

Spec == Init /\ [][Next]_vars

\* startTask's awaits end, a child exits or is killed, its close event is
\* delivered, the stages of a finalization have timeouts, timers fire and
\* the sweeps run.  Nothing is assumed of the queue, of operators or of the
\* optional stall check.
Resume(t, i) ==
    \/ spawnAndTrackProcess(t, i) \/ FileLockConflict(t, i)
    \/ PolicyBlocked(t, i) \/ StartThrows(t, i)

Fairness ==
    \A t \in Tasks :
        /\ \A i \in Attempts :
              /\ WF_vars(Resume(t, i)) /\ WF_vars(ProcessExit(t, i))
              /\ WF_vars(Close(t, i)) /\ WF_vars(ZombieClose(t, i))
              /\ WF_vars(LockGranted(t, i))
        /\ WF_vars(FinalWrite(t))
        /\ WF_vars(RetryTimerFires(t)) /\ WF_vars(LaneTimerFires(t))
        /\ WF_vars(GuardExpires(t)) /\ WF_vars(StaleCheck(t))
        /\ WF_vars(TimeoutCheck(t))

FairSpec == Spec /\ Fairness

-----------------------------------------------------------------------------
(***************************************************************************)
(* Properties.                                                             *)
(***************************************************************************)
\* A row parked as retry_scheduled is never left without a timer that will
\* requeue it: one of handleRetryLogic or one of scheduleSameProviderRetry,
\* whatever cancels, sweeps and late finalizers did in between.
ParkedHasTimer ==
    \A t \in Tasks : Status(t) = "retry_scheduled" =>
        retryTimer[t] \/ looseTimers[t] > 0 \/ laneTimers[t] > 0

\* When no sweep or operator acts on a task during an earlier attempt of
\* it, tryClaimTaskSlot keeps the running rows within max_concurrent and
\* every provider within its limit, although the limits are checked at the
\* claim only and many handlers put rows back.
CapacityRespected ==
    ~Overlap =>
        /\ Cardinality(Running) <= MaxConcurrent
        /\ \A p \in Providers : Cardinality(RunningOn(p)) <= ProviderLimit[p]

\* Under the same assumption a task has one owner at a time: at most one
\* attempt in progress or one finalization, and none at all while its row is
\* one that startTask, a timer or a dependent workflow may act on.
OneOwner ==
    ~Overlap => \A t \in Tasks :
        /\ \A i, j \in Attempts :
              att[t][i] \in InProgress /\ att[t][j] \in InProgress => i = j
        /\ fin[t] # Idle => \A i \in Attempts : att[t][i] \notin InProgress
        /\ waiting[t] = {}
        /\ Status(t) \in Startable \cup {"retry_scheduled", "completed"} => Quiet(t)

\* A cancelled or completed row stays as it is once startTask is not
\* suspended on it and nothing is tracked for it: a finalizer that is still
\* running its stages, a retry or lane timer, a guard that expired or a
\* waiting close handler does not bring it back.
SettledStays ==
    [][\A t \in Tasks :
          /\ Status(t) \in {"cancelled", "completed"}
          /\ tracked[t] = 0
          /\ \A i \in Attempts : att[t][i] # "starting"
          => Status(t)' = Status(t)]_vars

\* A running row does not stay running for ever: its child's close event is
\* handled in the end, or made up for by the zombie check when the guard of an
\* earlier attempt discarded it, or the stale check takes the row back, or (a
\* row whose tracker entry outlived its child) the timeout check fails it.
RunningEnds ==
    \A t \in Tasks : Status(t) = "running" ~> Status(t) # "running"

\* A parked row is requeued or settled in the end.
ParkedLeaves ==
    \A t \in Tasks : Status(t) = "retry_scheduled" ~> Status(t) # "retry_scheduled"

-----------------------------------------------------------------------------
(***************************************************************************)
(* Statements of the documentation, comments and tests that the code does  *)
(* not keep.                                                               *)
(***************************************************************************)
\* docs/cancellation-cleanup.md: "Operations re-read task.status and bail if
\* it's not what they expected".  A cancelled task therefore stays cancelled;
\* nothing in the server requeues one on an operator's behalf.
CancelledStays ==
    [][\A t \in Tasks : Status(t) = "cancelled" => Status(t)' = "cancelled"]_vars
=============================================================================
