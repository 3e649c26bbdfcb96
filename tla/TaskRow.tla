------------------------------- MODULE TaskRow -------------------------------
(***************************************************************************)
(* One row of the tasks table (server/db/task-core.js) and the writes the  *)
(* rest of the server makes to it.  Every operator maps the row before the *)
(* write to the row after it; better-sqlite3 is synchronous, so a write is *)
(* never interleaved with anything.                                        *)
(***************************************************************************)
EXTENDS Integers

CONSTANTS
    Providers,      \* provider names
    NoProvider,     \* provider = NULL
    MaxRetries,     \* max_retries given to createTask
    MaxFailovers    \* MAX_FAILOVERS of close-phases.js

ASSUME RowAssumption ==
    /\ NoProvider \notin Providers
    /\ MaxRetries \in Nat
    /\ MaxFailovers \in Nat

Terminal == {"completed", "failed", "cancelled"}
Startable == {"pending", "queued"}
Statuses == Terminal \cup Startable \cup {"running", "retry_scheduled"}

\* retry_count, the provider-lane counter kept in the metadata, the
\* persisted stall counter, and whether pid is set.
Row == [status : Statuses, provider : Providers \cup {NoProvider},
        retries : Nat, lane : Nat, stalls : Nat, pid : BOOLEAN]

\* createTask.
createTask == [status |-> "pending", provider |-> NoProvider,
               retries |-> 0, lane |-> 0, stalls |-> 0, pid |-> FALSE]

\* max_retries of the row: scheduleSameProviderRetry raises it.
maxRetries(r) ==
    IF r.lane > 0 /\ MaxFailovers > MaxRetries THEN MaxFailovers ELSE MaxRetries

\* Mutant of Accepts: the terminal-status check is missing.
AcceptsAlways(r, s) == TRUE

\* The transition check of updateTaskStatus: a terminal row accepts only a
\* write that requeues it.
Accepts(r, s) == r.status \notin Terminal \/ s \in Startable

\* updateTaskStatus when the check passes.  Writing 'queued' clears the
\* provider of a row that has no provider-selection lock.
updateTaskStatus(r, s) ==
    [r EXCEPT !.status = s,
              !.provider = IF s = "queued" THEN NoProvider ELSE @]

\* safeUpdateTaskStatus and the callers that swallow the exception.
softUpdateTaskStatus(r, s) == IF Accepts(r, s) THEN updateTaskStatus(r, s) ELSE r

\* The UPDATE of tryClaimTaskSlot.
claimSlot(r, p) == [r EXCEPT !.status = "running", !.provider = p]

\* updateTaskStatus(id, 'running', {pid}) after the spawn.
setRunningPid(r) == [updateTaskStatus(r, "running") EXCEPT !.pid = TRUE]

\* requeueTaskAfterAttemptedStart: no check of the current status.
requeueTaskAfterAttemptedStart(r) ==
    [updateTaskStatus(r, "queued") EXCEPT !.pid = FALSE]

\* incrementRetry.
incrementRetry(r) == [r EXCEPT !.retries = @ + 1]

\* The write of handleRetryLogic; r already has its incremented counter.
scheduleRetry(r) == updateTaskStatus(r, "retry_scheduled")

\* The write of the retry timer's callback: retry_count is incremented a
\* second time.
resumeRetry(r) == incrementRetry(updateTaskStatus(r, "queued"))

\* The retry of handleSafeguardChecks.
safeguardRequeue(r) ==
    [incrementRetry(updateTaskStatus(r, "queued")) EXCEPT !.pid = FALSE]

\* scheduleSameProviderRetry, from the counters the finalizer captured.
laneRetry(r, tries, lane) ==
    [updateTaskStatus(r, "retry_scheduled") EXCEPT
        !.retries = IF tries > lane + 1 THEN tries ELSE lane + 1,
        !.lane = lane + 1]

\* The write of the lane timer's callback.
laneRequeue(r) == [updateTaskStatus(r, "queued") EXCEPT !.pid = FALSE]

\* approveProviderSwitch.
approveProviderSwitch(r) ==
    [incrementRetry(updateTaskStatus(r, "queued")) EXCEPT !.pid = FALSE]

\* The requeue of checkStaleRunningTasks and of the dashboard's retry: the
\* pid column keeps the dead process's pid.
requeueKeepingPid(r) == incrementRetry(updateTaskStatus(r, "queued"))

\* The requeue of tryStallRecovery.
stallRequeue(r) ==
    [updateTaskStatus(r, "queued") EXCEPT !.pid = FALSE, !.stalls = @ + 1]
=============================================================================
