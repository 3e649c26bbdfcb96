----------------------------- MODULE TaskProofs -----------------------------
(***************************************************************************)
(* Proofs about the life of CLI tasks, for any number of tasks, providers, *)
(* slots, retries and attempts.                                            *)
(***************************************************************************)
EXTENDS TaskLifecycle, FiniteSetTheorems, TLAPS

-----------------------------------------------------------------------------
(* The writes to a row. *)

\* Every write to a row of the tasks table gives a row.
LEMMA RowWrites ==
    ASSUME NEW r \in Row
    PROVE  /\ \A s \in Statuses : updateTaskStatus(r, s) \in Row
           /\ \A s \in Statuses : softUpdateTaskStatus(r, s) \in Row
           /\ \A p \in Providers : claimSlot(r, p) \in Row
           /\ setRunningPid(r) \in Row
           /\ requeueTaskAfterAttemptedStart(r) \in Row
           /\ incrementRetry(r) \in Row
           /\ scheduleRetry(r) \in Row
           /\ resumeRetry(r) \in Row
           /\ safeguardRequeue(r) \in Row
           /\ \A n, m \in Nat : laneRetry(r, n, m) \in Row
           /\ laneRequeue(r) \in Row
           /\ approveProviderSwitch(r) \in Row
           /\ requeueKeepingPid(r) \in Row
           /\ stallRequeue(r) \in Row
<1>1. \A x \in Row, s \in Statuses : updateTaskStatus(x, s) \in Row
  BY DEF updateTaskStatus, Row, Statuses, Startable, Terminal
<1>2. \A x \in Row : incrementRetry(x) \in Row
  BY DEF incrementRetry, Row
<1>3. {"running", "queued", "retry_scheduled"} \subseteq Statuses
  BY DEF Statuses, Startable
<1>4. \A x \in Row : [x EXCEPT !.pid = FALSE] \in Row /\ [x EXCEPT !.pid = TRUE] \in Row
  BY DEF Row
<1>5. \A p \in Providers : claimSlot(r, p) \in Row
  BY <1>3 DEF claimSlot, Row
<1>6. ASSUME NEW x \in Row, NEW n \in Nat, NEW m \in Nat
      PROVE  /\ [x EXCEPT !.retries = n, !.lane = m] \in Row
             /\ [x EXCEPT !.pid = FALSE, !.stalls = n] \in Row
  BY DEF Row
<1>7. \A x \in Row : x.stalls + 1 \in Nat
  BY DEF Row
<1>8. \A n, m \in Nat : laneRetry(r, n, m) \in Row
  <2> TAKE n, m \in Nat
  <2>1. /\ updateTaskStatus(r, "retry_scheduled") \in Row
        /\ (IF n > m + 1 THEN n ELSE m + 1) \in Nat /\ m + 1 \in Nat
    BY <1>1, <1>3
  <2> QED
    BY <2>1, <1>6 DEF laneRetry
<1>9. stallRequeue(r) \in Row
  <2>1. updateTaskStatus(r, "queued") \in Row
    BY <1>1, <1>3
  <2> QED
    BY <2>1, <1>6, <1>7 DEF stallRequeue
<1> QED
  BY <1>1, <1>2, <1>3, <1>4, <1>5, <1>8, <1>9
     DEF softUpdateTaskStatus, setRunningPid, requeueTaskAfterAttemptedStart,
         scheduleRetry, resumeRetry, safeguardRequeue, laneRequeue,
         approveProviderSwitch, requeueKeepingPid

\* The statuses that the writes leave.
LEMMA WrittenStatus ==
    ASSUME NEW r \in Row
    PROVE  /\ \A s \in Statuses : updateTaskStatus(r, s).status = s
           /\ \A s \in Statuses : softUpdateTaskStatus(r, s).status \in {r.status, s}
           /\ \A p \in Providers : claimSlot(r, p).status = "running"
           /\ setRunningPid(r).status = "running"
           /\ requeueTaskAfterAttemptedStart(r).status = "queued"
           /\ incrementRetry(r).status = r.status
           /\ scheduleRetry(r).status = "retry_scheduled"
           /\ resumeRetry(r).status = "queued"
           /\ safeguardRequeue(r).status = "queued"
           /\ \A n, m \in Nat : laneRetry(r, n, m).status = "retry_scheduled"
           /\ laneRequeue(r).status = "queued"
           /\ approveProviderSwitch(r).status = "queued"
           /\ requeueKeepingPid(r).status = "queued"
           /\ stallRequeue(r).status = "queued"
BY DEF Row, updateTaskStatus, softUpdateTaskStatus, claimSlot, setRunningPid,
       requeueTaskAfterAttemptedStart, incrementRetry, scheduleRetry, resumeRetry,
       safeguardRequeue, laneRetry, laneRequeue, approveProviderSwitch,
       requeueKeepingPid, stallRequeue

-----------------------------------------------------------------------------
(* Type correctness. *)

LEMMA TypeInit == Init => TypeOK
<1> SUFFICES ASSUME Init PROVE TypeOK
  OBVIOUS
<1>1. createTask \in Row
  BY DEF createTask, Row, Statuses, Startable
<1> QED
  BY <1>1, LifecycleAssumption DEF Init, TypeOK, AttemptState, Attempts

\* The types of a startTask call (execution/task-startup.js).
LEMMA startTaskType ==
    ASSUME TypeOK, NEW t \in Tasks, NEW r \in Row, startTask(t, r)
    PROVE  row' \in [Tasks -> Row] /\ att' \in [Tasks -> [Attempts -> AttemptState]]
<1>1. \A s \in {"queued", "completed", "failed"} : updateTaskStatus(r, s) \in Row
  BY RowWrites DEF Statuses, Startable, Terminal
<1>2. \A p \in Providers : claimSlot(r, p) \in Row
  BY RowWrites
<1>3. "starting" \in AttemptState
  BY DEF AttemptState
<1>4. ASSUME NEW p \in Providers, NEW i \in Attempts,
             SetRow(t, claimSlot(r, p)), SetAttempt(t, i, "starting")
      PROVE  row' \in [Tasks -> Row] /\ att' \in [Tasks -> [Attempts -> AttemptState]]
  BY <1>2, <1>3, <1>4 DEF TypeOK, SetRow, SetAttempt
<1>5. ASSUME NEW s \in {"queued", "completed", "failed"},
             SetRow(t, updateTaskStatus(r, s)), UNCHANGED att
      PROVE  row' \in [Tasks -> Row] /\ att' \in [Tasks -> [Attempts -> AttemptState]]
  BY <1>1, <1>5 DEF TypeOK, SetRow
<1> QED
  BY <1>4, <1>5 DEF startTask

\* A cancellation keeps every type (execution/task-cancellation.js).
LEMMA cancelTaskType ==
    ASSUME TypeOK, NEW t \in Tasks, NEW s \in {"cancelled", "failed"}, NEW kill,
           cancelTask(t, s, kill)
    PROVE  TypeOK'
<1>1. softUpdateTaskStatus(row[t], s) \in Row
  BY RowWrites DEF TypeOK, Statuses, Terminal
<1>2. row' \in [Tasks -> Row]
  BY <1>1 DEF TypeOK, cancelTask, SetRow
<1>3. att' \in [Tasks -> [Attempts -> AttemptState]]
  <2>1. [i \in Attempts |-> IF i \in kill THEN "done" ELSE att[t][i]]
           \in [Attempts -> AttemptState]
    BY DEF TypeOK, AttemptState
  <2> QED
    BY <2>1 DEF TypeOK, cancelTask, EndAttempts
<1>4. tracked' \in [Tasks -> 0..MaxAttempts]
  BY LifecycleAssumption DEF TypeOK, cancelTask
<1> QED
  BY <1>2, <1>3, <1>4 DEF TypeOK, cancelTask, finVars

\* The types of handleRetryLogic's writes (execution/retry-framework.js).
LEMMA handleRetryLogicType ==
    ASSUME TypeOK, NEW t \in Tasks, NEW r \in Row, handleRetryLogic(t, r)
    PROVE  /\ row' \in [Tasks -> Row]
           /\ guard' \in [Tasks -> BOOLEAN]
           /\ retryTimer' \in [Tasks -> BOOLEAN]
           /\ looseTimers' \in [Tasks -> Nat]
           /\ laneTimers' \in [Tasks -> Nat]
<1>1. scheduleRetry(r) \in Row
  BY RowWrites
<1>2. looseTimers[t] + 1 \in Nat
  BY DEF TypeOK
<1> QED
  BY <1>1, <1>2 DEF TypeOK, handleRetryLogic, SetRow, SetGuard

\* The types of finalizeTask's first part (execution/task-finalizer.js).
LEMMA finalizeTaskType ==
    ASSUME TypeOK, NEW t \in Tasks, NEW g \in BOOLEAN, finalizeTask(t, g)
    PROVE  /\ row' \in [Tasks -> Row]
           /\ guard' \in [Tasks -> BOOLEAN]
           /\ fin' \in [Tasks -> Context \cup {Idle}]
           /\ retryTimer' \in [Tasks -> BOOLEAN]
           /\ looseTimers' \in [Tasks -> Nat]
           /\ laneTimers' \in [Tasks -> Nat]
<1>1. row[t] \in Row
  BY DEF TypeOK
<1>2. incrementRetry(row[t]) \in Row /\ safeguardRequeue(row[t]) \in Row
  BY <1>1, RowWrites
<1>3. ASSUME NEW out \in {"completed", "failed"}, NEW raw \in BOOLEAN,
             EnterStages(t, out, raw)
      PROVE  fin' \in [Tasks -> Context \cup {Idle}]
  <2>1. [out |-> out, raw |-> raw, err |-> FALSE,
         tries |-> row[t].retries, lane |-> row[t].lane] \in Context
    BY <1>1 DEF Context, Row
  <2> QED
    BY <1>3, <2>1 DEF TypeOK, EnterStages
<1>4. CASE handleRetryLogic(t, incrementRetry(row[t])) /\ UNCHANGED fin
  BY <1>2, <1>4, handleRetryLogicType DEF TypeOK
<1>5. CASE /\ \/ row' = row
              \/ SetRow(t, incrementRetry(row[t]))
              \/ SetRow(t, safeguardRequeue(row[t]))
           /\ \/ UNCHANGED fin
              \/ \E out \in {"completed", "failed"}, raw \in BOOLEAN :
                    EnterStages(t, out, raw)
           /\ SetGuard(t, g) \/ SetGuard(t, FALSE)
           /\ UNCHANGED timerVars
  <2>1. fin' \in [Tasks -> Context \cup {Idle}]
    BY <1>3, <1>5 DEF TypeOK
  <2>2. row' \in [Tasks -> Row]
    BY <1>2, <1>5 DEF TypeOK, SetRow
  <2> QED
    BY <1>5, <2>1, <2>2 DEF TypeOK, SetGuard, timerVars
<1> QED
  BY <1>4, <1>5 DEF finalizeTask

\* The types of the close listener's writes (execution/process-lifecycle.js).
LEMMA handleCloseType ==
    ASSUME TypeOK, NEW t \in Tasks, NEW i \in Attempts, handleClose(t, i)
    PROVE  /\ row' \in [Tasks -> Row]
           /\ tracked' \in [Tasks -> 0..MaxAttempts]
           /\ guard' \in [Tasks -> BOOLEAN]
           /\ fin' \in [Tasks -> Context \cup {Idle}]
           /\ waiting' \in [Tasks -> SUBSET Attempts]
           /\ retryTimer' \in [Tasks -> BOOLEAN]
           /\ looseTimers' \in [Tasks -> Nat]
           /\ laneTimers' \in [Tasks -> Nat]
<1>1. tracked' \in [Tasks -> 0..MaxAttempts]
  BY LifecycleAssumption DEF TypeOK, handleClose
<1>2. CASE finalizeTask(t, TRUE) /\ UNCHANGED waiting
  BY <1>1, <1>2, finalizeTaskType DEF TypeOK
<1>3. CASE /\ SetGuard(t, TRUE)
           /\ waiting' = waiting \/ waiting' = [waiting EXCEPT ![t] = @ \cup {i}]
           /\ UNCHANGED <<row, fin, timerVars>>
  BY <1>1, <1>3 DEF TypeOK, SetGuard, timerVars
<1> QED
  BY <1>2, <1>3 DEF handleClose, finVars

\* The steps of an attempt and its finalization keep every type.
LEMMA AttemptType ==
    ASSUME TypeOK, NEW t \in Tasks, NEW i \in Attempts, Attempt(t, i)
    PROVE  TypeOK'
<1>0. /\ i \in 0..MaxAttempts
      /\ {"live", "deaf", "exited", "dropped", "done"} \subseteq AttemptState
      /\ row[t] \in Row
  BY LifecycleAssumption DEF Attempts, AttemptState, TypeOK
<1>a. ASSUME NEW s \in AttemptState, SetAttempt(t, i, s)
      PROVE  att' \in [Tasks -> [Attempts -> AttemptState]]
  BY <1>a DEF TypeOK, SetAttempt
<1>1. CASE spawnAndTrackProcess(t, i)
  <2>1. att' \in [Tasks -> [Attempts -> AttemptState]]
    BY <1>0, <1>1, <1>a DEF spawnAndTrackProcess
  <2>2. setRunningPid(row[t]) \in Row
    BY <1>0, RowWrites
  <2>3. row' \in [Tasks -> Row]
    BY <1>1, <2>2 DEF TypeOK, spawnAndTrackProcess, SetRow
  <2> QED
    BY <1>0, <1>1, <2>1, <2>3 DEF TypeOK, spawnAndTrackProcess, finVars, timerVars
<1>2. CASE FileLockConflict(t, i)
  <2>1. requeueTaskAfterAttemptedStart(row[t]) \in Row
    BY <1>0, RowWrites
  <2>2. att' \in [Tasks -> [Attempts -> AttemptState]]
    BY <1>0, <1>2, <1>a DEF FileLockConflict
  <2> QED
    BY <1>2, <2>1, <2>2 DEF TypeOK, FileLockConflict, SetRow, finVars, timerVars
<1>3. CASE PolicyBlocked(t, i)
  BY <1>3, cancelTaskType DEF PolicyBlocked
<1>4. CASE StartThrows(t, i)
  <2>1. /\ updateTaskStatus(row[t], "failed") \in Row
        /\ softUpdateTaskStatus(row[t], "failed") \in Row
    BY <1>0, RowWrites DEF Statuses, Terminal
  <2>2. [softUpdateTaskStatus(row[t], "failed") EXCEPT !.pid = FALSE] \in Row
    BY <2>1 DEF Row
  <2>3. att' \in [Tasks -> [Attempts -> AttemptState]]
    BY <1>0, <1>4, <1>a DEF StartThrows
  <2> QED
    BY <1>4, <2>1, <2>2, <2>3 DEF TypeOK, StartThrows, SetRow, finVars, timerVars
<1>5. CASE ProcessExit(t, i)
  <2>1. att' \in [Tasks -> [Attempts -> AttemptState]]
    BY <1>0, <1>5, <1>a DEF ProcessExit
  <2> QED
    BY <1>5, <2>1 DEF TypeOK, ProcessExit, finVars, timerVars
<1>6. CASE Close(t, i)
  <2>1. att' \in [Tasks -> [Attempts -> AttemptState]]
    BY <1>0, <1>6, <1>a DEF Close
  <2>2. CASE handleClose(t, i)
    BY <2>1, <2>2, handleCloseType DEF TypeOK
  <2>3. CASE UNCHANGED <<row, tracked, guard, finVars, timerVars>>
    BY <2>1, <2>3 DEF TypeOK, finVars, timerVars
  <2> QED
    BY <1>6, <2>2, <2>3 DEF Close
<1>7. CASE ZombieClose(t, i)
  <2>1. att' \in [Tasks -> [Attempts -> AttemptState]]
    BY <1>0, <1>7, <1>a DEF ZombieClose
  <2> QED
    BY <1>7, <2>1, handleCloseType DEF TypeOK, ZombieClose
<1>8. CASE SyntheticClose(t, i)
  BY <1>8, handleCloseType DEF TypeOK, SyntheticClose
<1>9. CASE LockGranted(t, i)
  <2>1. guard[t] \in BOOLEAN
    BY DEF TypeOK
  <2>2. waiting' \in [Tasks -> SUBSET Attempts]
    BY <1>9 DEF TypeOK, LockGranted
  <2> QED
    BY <1>9, <2>1, <2>2, finalizeTaskType DEF TypeOK, LockGranted
<1> QED
  BY <1>1, <1>2, <1>3, <1>4, <1>5, <1>6, <1>7, <1>8, <1>9 DEF Attempt

\* So do the stages and the end of finalizeTask.
LEMMA FinalizeType ==
    ASSUME TypeOK, NEW t \in Tasks, Finalize(t)
    PROVE  TypeOK'
<1>0. /\ row[t] \in Row
      /\ fin[t] \in Context
      /\ fin[t].out \in {"completed", "failed"} /\ fin[t].err \in BOOLEAN
      /\ fin[t].tries \in Nat /\ fin[t].lane \in Nat
  BY DEF TypeOK, Finalize, StageFails, LateRetry, VerifyRetry, LaneRetry,
         ProviderSwitch, FinalWrite, FinalizeFatal, Context
<1>1. /\ updateTaskStatus(row[t], "failed") \in Row
      /\ softUpdateTaskStatus(row[t], fin[t].out) \in Row
      /\ incrementRetry(row[t]) \in Row
      /\ approveProviderSwitch(row[t]) \in Row
      /\ laneRetry(row[t], fin[t].tries, fin[t].lane) \in Row
  BY <1>0, RowWrites DEF Statuses, Terminal
<1>2. ASSUME Release(t) PROVE fin' \in [Tasks -> Context \cup {Idle}]
  BY <1>2 DEF TypeOK, Release
<1>3. CASE StageFails(t)
  <2>1. PICK err \in BOOLEAN :
           fin' = [fin EXCEPT ![t].out = "failed", ![t].err = @ \/ err]
    BY <1>3 DEF StageFails
  <2>2. fin' = [fin EXCEPT ![t] =
                   [fin[t] EXCEPT !.out = "failed", !.err = fin[t].err \/ err]]
    BY <2>1 DEF TypeOK
  <2>3. [fin[t] EXCEPT !.out = "failed", !.err = fin[t].err \/ err] \in Context
    BY <1>0 DEF Context
  <2>4. fin' \in [Tasks -> Context \cup {Idle}]
    BY <2>2, <2>3 DEF TypeOK
  <2> QED
    BY <1>3, <2>4 DEF TypeOK, StageFails, procVars, timerVars
<1>4. CASE LateRetry(t)
  <2> DEFINE r == incrementRetry(row[t])
  <2>1. CASE handleRetryLogic(t, r) /\ Release(t)
    BY <1>1, <1>2, <1>4, <2>1, handleRetryLogicType DEF TypeOK, LateRetry
  <2>2. CASE /\ SetRow(t, r) /\ SetGuard(t, FALSE)
             /\ fin' = [fin EXCEPT ![t].out = "failed", ![t].err = TRUE]
             /\ UNCHANGED timerVars
    <3>1. [fin[t] EXCEPT !.out = "failed", !.err = TRUE] \in Context
      BY <1>0 DEF Context
    <3>2. fin' = [fin EXCEPT ![t] = [fin[t] EXCEPT !.out = "failed", !.err = TRUE]]
      BY <2>2 DEF TypeOK
    <3>3. fin' \in [Tasks -> Context \cup {Idle}]
      BY <3>1, <3>2 DEF TypeOK
    <3> QED
      BY <1>1, <1>4, <2>2, <3>3 DEF TypeOK, LateRetry, SetRow, SetGuard, timerVars
  <2>3. CASE /\ SetRow(t, r)
             /\ fin' = [fin EXCEPT ![t].out = "failed"]
             /\ UNCHANGED <<guard, timerVars>>
    <3>1. [fin[t] EXCEPT !.out = "failed"] \in Context
      BY <1>0 DEF Context
    <3>2. fin' \in [Tasks -> Context \cup {Idle}]
      BY <2>3, <3>1 DEF TypeOK
    <3> QED
      BY <1>1, <1>4, <2>3, <3>2 DEF TypeOK, LateRetry, SetRow, timerVars
  <2> QED
    BY <1>4, <2>1, <2>2, <2>3 DEF LateRetry
<1>5. CASE VerifyRetry(t)
  BY <1>1, <1>2, <1>5 DEF TypeOK, VerifyRetry, SetRow, SetGuard, timerVars
<1>6. CASE LaneRetry(t)
  BY <1>1, <1>2, <1>6 DEF TypeOK, LaneRetry, SetRow, SetGuard
<1>7. CASE ProviderSwitch(t)
  BY <1>1, <1>2, <1>7 DEF TypeOK, ProviderSwitch, SetRow, SetGuard, timerVars
<1>8. CASE FinalWrite(t)
  BY <1>1, <1>2, <1>8 DEF TypeOK, FinalWrite, SetRow, procVars, timerVars
<1>9. CASE FinalizeFatal(t)
  BY <1>0, <1>1, <1>2, <1>9 DEF TypeOK, FinalizeFatal, SetRow, procVars, timerVars
<1> QED
  BY <1>3, <1>4, <1>5, <1>6, <1>7, <1>8, <1>9 DEF Finalize

\* Every step of a task keeps every type.
LEMMA TaskStepType ==
    ASSUME TypeOK, NEW t \in Tasks, TaskStep(t)
    PROVE  TypeOK'
<1>0. row[t] \in Row
  BY DEF TypeOK
<1>1. /\ resumeRetry(row[t]) \in Row
      /\ laneRequeue(row[t]) \in Row
      /\ requeueKeepingPid(row[t]) \in Row
      /\ stallRequeue(row[t]) \in Row
      /\ updateTaskStatus(row[t], "failed") \in Row
  BY <1>0, RowWrites DEF Statuses, Terminal
<1>2. CASE StartTask(t)
  BY <1>0, <1>2, startTaskType DEF TypeOK, StartTask, finVars, timerVars
<1>3. CASE \E s \in {"cancelled", "failed"} : Cancel(t, s)
  BY <1>3, cancelTaskType DEF Cancel
<1>4. CASE Abandon(t)
  BY <1>4, cancelTaskType DEF Abandon
<1>5. CASE RetryTimerFires(t)
  <2>1. looseTimers' \in [Tasks -> Nat]
    BY <1>5 DEF TypeOK, RetryTimerFires
  <2>2. row' \in [Tasks -> Row] /\ att' \in [Tasks -> [Attempts -> AttemptState]]
    BY <1>1, <1>5, startTaskType DEF TypeOK, RetryTimerFires
  <2> QED
    BY <1>5, <2>1, <2>2 DEF TypeOK, RetryTimerFires, finVars
<1>6. CASE LaneTimerFires(t)
  <2>1. row' \in [Tasks -> Row]
    BY <1>0, <1>1, <1>6 DEF TypeOK, LaneTimerFires, SetRow
  <2>2. laneTimers' \in [Tasks -> Nat]
    BY <1>6 DEF TypeOK, LaneTimerFires
  <2> QED
    BY <1>6, <2>1, <2>2 DEF TypeOK, LaneTimerFires, procVars, finVars
<1>7. CASE OperatorRetry(t)
  BY <1>1, <1>7 DEF TypeOK, OperatorRetry, SetRow, procVars, finVars, timerVars
<1>8. CASE GuardExpires(t)
  BY <1>8 DEF TypeOK, GuardExpires, SetGuard, finVars, timerVars
<1>9. CASE SweepRetryTimer(t)
  BY <1>9 DEF TypeOK, SweepRetryTimer, procVars, finVars
<1>10. CASE StaleCheck(t)
  BY <1>1, <1>10 DEF TypeOK, StaleCheck, SetRow, procVars, finVars, timerVars
<1>11. CASE TimeoutCheck(t)
  BY <1>11, cancelTaskType DEF TimeoutCheck
<1>12. CASE StallRecovery(t)
  <2>1. CASE cancelTask(t, "failed", {tracked[t]})
    BY <2>1, cancelTaskType
  <2>2. CASE /\ \/ SetRow(t, stallRequeue(row[t]))
                \/ SetRow(t, updateTaskStatus(stallRequeue(row[t]), "failed"))
             /\ EndAttempts(t, {tracked[t]})
             /\ tracked' = [tracked EXCEPT ![t] = 0]
             /\ SetGuard(t, FALSE)
             /\ UNCHANGED <<finVars, timerVars>>
    <3>1. updateTaskStatus(stallRequeue(row[t]), "failed") \in Row
      BY <1>1, RowWrites DEF Statuses, Terminal
    <3>2. row' \in [Tasks -> Row]
      BY <1>1, <2>2, <3>1 DEF TypeOK, SetRow
    <3>3. [i \in Attempts |-> IF i \in {tracked[t]} THEN "done" ELSE att[t][i]]
             \in [Attempts -> AttemptState]
      BY DEF TypeOK, AttemptState
    <3>4. att' \in [Tasks -> [Attempts -> AttemptState]]
      BY <2>2, <3>3 DEF TypeOK, EndAttempts
    <3>5. tracked' \in [Tasks -> 0..MaxAttempts]
      BY <2>2, LifecycleAssumption DEF TypeOK
    <3> QED
      BY <2>2, <3>2, <3>4, <3>5 DEF TypeOK, SetGuard, finVars, timerVars
  <2> QED
    BY <1>12, <2>1, <2>2 DEF StallRecovery
<1> QED
  BY <1>2, <1>3, <1>4, <1>5, <1>6, <1>7, <1>8, <1>9, <1>10, <1>11, <1>12,
     AttemptType, FinalizeType DEF TaskStep, Sweep

LEMMA TypeNext == TypeOK /\ [Next]_vars => TypeOK'
<1> SUFFICES ASSUME TypeOK, [Next]_vars PROVE TypeOK'
  OBVIOUS
<1>1. CASE Next
  BY <1>1, TaskStepType DEF Next
<1>2. CASE UNCHANGED vars
  BY <1>2 DEF TypeOK, vars
<1> QED
  BY <1>1, <1>2

\* In every reachable state the rows, the tracker, the guard, the
\* finalization lock and the timers have their types: no counter falls below
\* zero and no handler writes a status outside the table's.
THEOREM TaskTypeCorrect == Spec => []TypeOK
BY TypeInit, TypeNext, PTL DEF Spec

-----------------------------------------------------------------------------
(* What a step of one task leaves alone. *)

\* Everything that is kept for task u is as before.
Same(u) ==
    /\ row'[u] = row[u] /\ att'[u] = att[u] /\ tracked'[u] = tracked[u]
    /\ guard'[u] = guard[u] /\ fin'[u] = fin[u] /\ waiting'[u] = waiting[u]
    /\ retryTimer'[u] = retryTimer[u] /\ looseTimers'[u] = looseTimers[u]
    /\ laneTimers'[u] = laneTimers[u]

\* A step of one task touches no other task: every handler writes under its
\* own task's id only.
LEMMA Frame ==
    ASSUME TypeOK, NEW t \in Tasks, NEW u \in Tasks \ {t}, TaskStep(t)
    PROVE  Same(u)
<1> USE DEF Same, SetRow, SetAttempt, SetGuard, procVars, finVars, timerVars
<1>a. ASSUME NEW r, startTask(t, r) PROVE row'[u] = row[u] /\ att'[u] = att[u]
  BY <1>a DEF TypeOK, startTask
<1>b. ASSUME NEW s, NEW kill, cancelTask(t, s, kill) PROVE Same(u)
  BY <1>b DEF TypeOK, cancelTask, EndAttempts
<1>c. ASSUME NEW g, finalizeTask(t, g)
      PROVE  /\ row'[u] = row[u] /\ guard'[u] = guard[u] /\ fin'[u] = fin[u]
             /\ retryTimer'[u] = retryTimer[u] /\ looseTimers'[u] = looseTimers[u]
             /\ laneTimers'[u] = laneTimers[u]
  BY <1>c DEF TypeOK, finalizeTask, handleRetryLogic, EnterStages
<1>d. ASSUME NEW i, handleClose(t, i)
      PROVE  /\ row'[u] = row[u] /\ guard'[u] = guard[u] /\ fin'[u] = fin[u]
             /\ retryTimer'[u] = retryTimer[u] /\ looseTimers'[u] = looseTimers[u]
             /\ laneTimers'[u] = laneTimers[u] /\ tracked'[u] = tracked[u]
             /\ waiting'[u] = waiting[u]
  <2>1. tracked'[u] = tracked[u]
    BY <1>d DEF TypeOK, handleClose
  <2>2. CASE finalizeTask(t, TRUE) /\ UNCHANGED waiting
    BY <1>c, <2>1, <2>2
  <2>3. CASE ~finalizeTask(t, TRUE) \/ ~UNCHANGED waiting
    BY <1>d, <2>1, <2>3 DEF TypeOK, handleClose
  <2> QED
    BY <2>2, <2>3
<1>1. CASE StartTask(t)
  BY <1>1, <1>a DEF StartTask
<1>2. ASSUME NEW i \in Attempts, Attempt(t, i) PROVE Same(u)
  <2>1. CASE spawnAndTrackProcess(t, i) \/ FileLockConflict(t, i) \/ ProcessExit(t, i)
    BY <2>1 DEF TypeOK, spawnAndTrackProcess, FileLockConflict, ProcessExit
  <2>2. CASE StartThrows(t, i)
    BY <2>2 DEF TypeOK, StartThrows
  <2>3. CASE PolicyBlocked(t, i)
    BY <2>3, <1>b DEF PolicyBlocked
  <2>4. CASE Close(t, i)
    BY <2>4, <1>d DEF TypeOK, Close
  <2>5. CASE ZombieClose(t, i) \/ SyntheticClose(t, i)
    BY <2>5, <1>d DEF TypeOK, ZombieClose, SyntheticClose
  <2>6. CASE LockGranted(t, i)
    BY <2>6, <1>c DEF TypeOK, LockGranted
  <2> QED
    BY <1>2, <2>1, <2>2, <2>3, <2>4, <2>5, <2>6 DEF Attempt
<1>3. CASE Finalize(t)
  <2>1. CASE LateRetry(t)
    BY <2>1 DEF TypeOK, LateRetry, handleRetryLogic, Release
  <2>2. CASE StageFails(t) \/ VerifyRetry(t) \/ LaneRetry(t)
    BY <2>2 DEF TypeOK, StageFails, VerifyRetry, LaneRetry, Release
  <2>3. CASE ProviderSwitch(t) \/ FinalWrite(t) \/ FinalizeFatal(t)
    BY <2>3 DEF TypeOK, ProviderSwitch, FinalWrite, FinalizeFatal, Release
  <2> QED
    BY <1>3, <2>1, <2>2, <2>3 DEF Finalize
<1>4. CASE (\E s \in {"cancelled", "failed"} : Cancel(t, s)) \/ Abandon(t)
  BY <1>4, <1>b DEF Cancel, Abandon
<1>5. CASE RetryTimerFires(t)
  BY <1>5, <1>a DEF TypeOK, RetryTimerFires
<1>6. CASE LaneTimerFires(t) \/ OperatorRetry(t)
  BY <1>6 DEF TypeOK, LaneTimerFires, OperatorRetry
<1>7. CASE Sweep(t)
  <2>1. CASE GuardExpires(t) \/ SweepRetryTimer(t) \/ StaleCheck(t)
    BY <2>1 DEF TypeOK, GuardExpires, SweepRetryTimer, StaleCheck
  <2>2. CASE TimeoutCheck(t)
    BY <2>2, <1>b DEF TimeoutCheck
  <2>3. CASE StallRecovery(t)
    BY <2>3, <1>b DEF TypeOK, StallRecovery, EndAttempts
  <2> QED
    BY <1>7, <2>1, <2>2, <2>3 DEF Sweep
<1> QED
  BY <1>1, <1>2, <1>3, <1>4, <1>5, <1>6, <1>7 DEF TaskStep

-----------------------------------------------------------------------------
(* A parked row keeps a timer. *)

ParkedAt(t) ==
    Status(t) = "retry_scheduled" =>
        retryTimer[t] \/ looseTimers[t] > 0 \/ laneTimers[t] > 0

\* A step of a task keeps its timer as long as its row is parked: only
\* handleRetryLogic and scheduleSameProviderRetry park it, each with a timer
\* of its own, and whatever removes a timer moves the row on as well.
LEMMA ParkedStep ==
    ASSUME TypeOK, NEW t \in Tasks, ParkedAt(t), TaskStep(t)
    PROVE  ParkedAt(t)'
<1> USE DEF ParkedAt, Status
<1>0. row[t] \in Row /\ laneTimers[t] \in Nat /\ looseTimers[t] \in Nat
  BY DEF TypeOK
<1>s. {"queued", "completed", "failed", "cancelled", "running"} \subseteq Statuses
  BY DEF Statuses, Startable, Terminal
<1>r. ASSUME NEW r, SetRow(t, r) PROVE row'[t] = r
  BY <1>r DEF TypeOK, SetRow
<1>a. ASSUME NEW r \in Row, startTask(t, r) PROVE row'[t].status # "retry_scheduled"
  <2>1. \A p \in Providers : claimSlot(r, p).status # "retry_scheduled"
    BY WrittenStatus
  <2>2. \A x \in {"queued", "completed", "failed"} :
            updateTaskStatus(r, x).status # "retry_scheduled"
    BY <1>s, WrittenStatus
  <2> QED
    BY <1>a, <1>r, <2>1, <2>2 DEF startTask
<1>b. ASSUME NEW s \in {"cancelled", "failed"}, NEW kill, cancelTask(t, s, kill)
      PROVE  ParkedAt(t)'
  <2>1. softUpdateTaskStatus(row[t], s).status # "retry_scheduled"
    BY <1>0 DEF softUpdateTaskStatus, updateTaskStatus, Accepts, Terminal, Row
  <2> QED
    BY <1>b, <1>r, <2>1 DEF cancelTask
<1>h. ASSUME NEW r, handleRetryLogic(t, r) PROVE retryTimer'[t]
  BY <1>h DEF TypeOK, handleRetryLogic
<1>c. ASSUME NEW g, finalizeTask(t, g) PROVE ParkedAt(t)'
  <2>1. CASE handleRetryLogic(t, incrementRetry(row[t]))
    BY <2>1, <1>h
  <2>2. CASE ~handleRetryLogic(t, incrementRetry(row[t]))
    <3>1. \/ row'[t] \in {row[t], incrementRetry(row[t])}
          \/ row'[t] = safeguardRequeue(row[t])
      BY <1>c, <1>r, <2>2 DEF finalizeTask
    <3>2. UNCHANGED <<retryTimer, looseTimers, laneTimers>>
      BY <1>c, <2>2 DEF finalizeTask, timerVars
    <3> QED
      BY <1>0, <3>1, <3>2, WrittenStatus
  <2> QED
    BY <2>1, <2>2
<1>d. ASSUME NEW i, handleClose(t, i) PROVE ParkedAt(t)'
  BY <1>c, <1>d DEF handleClose, finVars, timerVars
<1>1. CASE StartTask(t)
  BY <1>0, <1>1, <1>a DEF StartTask
<1>2. ASSUME NEW i \in Attempts, Attempt(t, i) PROVE ParkedAt(t)'
  <2>1. CASE spawnAndTrackProcess(t, i)
    <3>1. row'[t] = row[t] \/ row'[t].status = "running"
      BY <1>0, <1>r, <2>1, WrittenStatus DEF spawnAndTrackProcess
    <3> QED
      BY <2>1, <3>1 DEF spawnAndTrackProcess, timerVars
  <2>2. CASE FileLockConflict(t, i)
    BY <1>0, <1>r, <2>2, WrittenStatus DEF FileLockConflict
  <2>3. CASE PolicyBlocked(t, i)
    BY <1>b, <2>3 DEF PolicyBlocked
  <2>4. CASE StartThrows(t, i)
    <3>1. \/ row'[t] = row[t]
          \/ row'[t] = updateTaskStatus(row[t], "failed")
          \/ row'[t] = [softUpdateTaskStatus(row[t], "failed") EXCEPT !.pid = FALSE]
      BY <1>r, <2>4 DEF StartThrows
    <3>2. row'[t].status \in {row[t].status, "failed"}
      BY <1>0, <3>1 DEF softUpdateTaskStatus, updateTaskStatus, Row
    <3> QED
      BY <2>4, <3>2 DEF StartThrows, timerVars
  <2>5. CASE ProcessExit(t, i)
    BY <2>5 DEF ProcessExit, timerVars
  <2>6. CASE Close(t, i)
    BY <1>d, <2>6 DEF Close, timerVars
  <2>7. CASE ZombieClose(t, i) \/ SyntheticClose(t, i)
    BY <1>d, <2>7 DEF ZombieClose, SyntheticClose
  <2>8. CASE LockGranted(t, i)
    BY <1>c, <2>8 DEF LockGranted
  <2> QED
    BY <1>2, <2>1, <2>2, <2>3, <2>4, <2>5, <2>6, <2>7, <2>8 DEF Attempt
<1>3. CASE Finalize(t)
  <2>1. CASE StageFails(t)
    BY <2>1 DEF StageFails, timerVars
  <2>2. CASE LateRetry(t)
    <3>1. CASE handleRetryLogic(t, incrementRetry(row[t]))
      BY <3>1, <1>h
    <3>2. CASE SetRow(t, incrementRetry(row[t])) /\ UNCHANGED timerVars
      BY <1>0, <1>r, <3>2, WrittenStatus DEF timerVars
    <3> QED
      BY <2>2, <3>1, <3>2 DEF LateRetry
  <2>3. CASE VerifyRetry(t)
    BY <1>0, <1>r, <1>s, <2>3, WrittenStatus DEF VerifyRetry
  <2>4. CASE LaneRetry(t)
    <3>1. laneTimers'[t] = laneTimers[t] + 1
      BY <2>4 DEF TypeOK, LaneRetry
    <3> QED
      BY <1>0, <3>1
  <2>5. CASE ProviderSwitch(t)
    BY <1>0, <1>r, <2>5, WrittenStatus DEF ProviderSwitch
  <2>6. CASE FinalWrite(t)
    <3>1. fin[t].out \in {"completed", "failed"}
      BY <2>6 DEF TypeOK, FinalWrite, Context
    <3>2. row'[t].status \in {row[t].status, fin[t].out}
      BY <1>0, <1>r, <1>s, <2>6, <3>1, WrittenStatus DEF FinalWrite
    <3> QED
      BY <2>6, <3>1, <3>2 DEF FinalWrite, timerVars
  <2>7. CASE FinalizeFatal(t)
    <3>1. row'[t] = row[t] \/ row'[t].status = "failed"
      BY <1>0, <1>r, <1>s, <2>7, WrittenStatus DEF FinalizeFatal
    <3> QED
      BY <2>7, <3>1 DEF FinalizeFatal, timerVars
  <2> QED
    BY <1>3, <2>1, <2>2, <2>3, <2>4, <2>5, <2>6, <2>7 DEF Finalize
<1>4. CASE (\E s \in {"cancelled", "failed"} : Cancel(t, s)) \/ Abandon(t)
  BY <1>4, <1>b DEF Cancel, Abandon
<1>5. CASE RetryTimerFires(t)
  <2>1. CASE Status(t) = "retry_scheduled"
    <3>1. resumeRetry(row[t]) \in Row /\ startTask(t, resumeRetry(row[t]))
      BY <1>0, <1>5, <2>1, RowWrites DEF RetryTimerFires
    <3> QED
      BY <3>1, <1>a
  <2>2. CASE Status(t) # "retry_scheduled"
    BY <1>5, <2>2 DEF RetryTimerFires
  <2> QED
    BY <2>1, <2>2
<1>6. CASE LaneTimerFires(t)
  BY <1>0, <1>r, <1>6, WrittenStatus DEF LaneTimerFires
<1>7. CASE OperatorRetry(t)
  BY <1>0, <1>r, <1>7, WrittenStatus DEF OperatorRetry
<1>8. CASE GuardExpires(t)
  BY <1>8 DEF GuardExpires, timerVars
<1>9. CASE SweepRetryTimer(t)
  BY <1>9 DEF SweepRetryTimer
<1>10. CASE StaleCheck(t)
  BY <1>0, <1>r, <1>s, <1>10, WrittenStatus DEF StaleCheck
<1>11. CASE TimeoutCheck(t)
  BY <1>b, <1>11 DEF TimeoutCheck
<1>12. CASE StallRecovery(t)
  <2>1. stallRequeue(row[t]) \in Row
    BY <1>0, RowWrites
  <2>2. /\ stallRequeue(row[t]).status = "queued"
        /\ updateTaskStatus(stallRequeue(row[t]), "failed").status = "failed"
    BY <1>0, <1>s, <2>1, WrittenStatus
  <2> QED
    BY <1>b, <1>r, <1>12, <2>2 DEF StallRecovery
<1> QED
  BY <1>1, <1>2, <1>3, <1>4, <1>5, <1>6, <1>7, <1>8, <1>9, <1>10, <1>11, <1>12
     DEF TaskStep, Sweep

\* A row parked as retry_scheduled always has a timer that will requeue it,
\* for any number of overlapping attempts, cancels, sweeps and late
\* finalizers.
THEOREM TaskParkedHasTimer == Spec => []ParkedHasTimer
<1>1. Init => ParkedHasTimer
  BY DEF Init, ParkedHasTimer, Status, createTask
<1>2. TypeOK /\ ParkedHasTimer /\ [Next]_vars => ParkedHasTimer'
  <2> SUFFICES ASSUME TypeOK, ParkedHasTimer, [Next]_vars PROVE ParkedHasTimer'
    OBVIOUS
  <2>1. ASSUME NEW t \in Tasks, TaskStep(t), NEW u \in Tasks PROVE ParkedAt(u)'
    <3>1. ParkedAt(u)
      BY DEF ParkedHasTimer, ParkedAt
    <3>2. CASE u = t
      BY <2>1, <3>1, <3>2, ParkedStep
    <3>3. CASE u # t
      BY <2>1, <3>1, <3>3, Frame DEF Same, ParkedAt, Status
    <3> QED
      BY <3>2, <3>3
  <2>2. CASE Next
    BY <2>1, <2>2 DEF Next, ParkedHasTimer, ParkedAt, Status
  <2>3. CASE UNCHANGED vars
    BY <2>3 DEF vars, ParkedHasTimer, Status
  <2> QED
    BY <2>2, <2>3
<1> QED
  BY <1>1, <1>2, TaskTypeCorrect, PTL DEF Spec

-----------------------------------------------------------------------------
(* One owner at a time. *)

Calm(t) == \A i \in Attempts : att[t][i] \notin InProgress
Restful == Startable \cup {"retry_scheduled", "completed"}

OwnerAt(t) ==
    /\ \A i, j \in Attempts :
          att[t][i] \in InProgress /\ att[t][j] \in InProgress => i = j
    /\ fin[t] # Idle => Calm(t)
    /\ waiting[t] = {}
    /\ Status(t) \in Restful => Calm(t) /\ fin[t] = Idle

\* A task at rest may have any status.
LEMMA RestfulOwner ==
    ASSUME NEW t, Calm(t), fin[t] = Idle, waiting[t] = {}
    PROVE  OwnerAt(t)
BY DEF OwnerAt, Calm

\* startTask takes a task at rest to one attempt in progress, or leaves it
\* at rest (execution/task-startup.js).
LEMMA startTaskOwner ==
    ASSUME TypeOK, NEW t \in Tasks, NEW r \in Row, Calm(t), fin[t] = Idle,
           waiting[t] = {}, startTask(t, r), UNCHANGED finVars
    PROVE  OwnerAt(t)'
<1>0. fin'[t] = Idle /\ waiting'[t] = {}
  BY DEF finVars
<1>1. CASE UNCHANGED att
  BY <1>0, <1>1 DEF OwnerAt, Calm
<1>2. ASSUME NEW p \in Providers, NEW i \in Attempts,
             SetRow(t, claimSlot(r, p)), SetAttempt(t, i, "starting")
      PROVE  OwnerAt(t)'
  <2>1. Status(t)' = "running"
    BY <1>2, WrittenStatus DEF TypeOK, Status, SetRow
  <2>2. \A j \in Attempts : att'[t][j] \in InProgress => j = i
    BY <1>2 DEF TypeOK, SetAttempt, Calm
  <2>3. Status(t)' \notin Restful
    BY <2>1 DEF Restful, Startable
  <2> QED
    BY <1>0, <2>2, <2>3 DEF OwnerAt
<1> QED
  BY <1>1, <1>2 DEF startTask

\* A cancellation keeps the single owner (execution/task-cancellation.js).
LEMMA cancelTaskOwner ==
    ASSUME TypeOK, NEW t \in Tasks, NEW s \in {"cancelled", "failed"}, NEW kill,
           cancelTask(t, s, kill), OwnerAt(t)
    PROVE  OwnerAt(t)'
<1>1. \A i \in Attempts : att'[t][i] \in InProgress => att[t][i] \in InProgress
  <2>1. att'[t] = [i \in Attempts |-> IF i \in kill THEN "done" ELSE att[t][i]]
    BY DEF TypeOK, cancelTask, EndAttempts
  <2> QED
    BY <2>1 DEF InProgress
<1>2. Status(t)' \in Restful => Status(t)' = Status(t)
  <2>1. row'[t] = softUpdateTaskStatus(row[t], s)
    BY DEF TypeOK, cancelTask, SetRow
  <2>2. row'[t].status \in {row[t].status, s}
    BY <2>1, WrittenStatus DEF TypeOK, Statuses, Terminal
  <2> QED
    BY <2>2 DEF Restful, Startable, Status
<1>3. fin'[t] = fin[t] /\ waiting'[t] = waiting[t]
  BY DEF cancelTask, finVars
<1> QED
  BY <1>1, <1>2, <1>3 DEF OwnerAt, Calm

\* A finalization that starts on a task with no attempt in progress is its
\* only owner (execution/task-finalizer.js).
LEMMA finalizeTaskOwner ==
    ASSUME TypeOK, NEW t \in Tasks, NEW g, finalizeTask(t, g), fin[t] = Idle,
           Calm(t)', waiting'[t] = {}
    PROVE  OwnerAt(t)'
<1>1. CASE UNCHANGED fin
  BY <1>1, fin'[t] = Idle DEF OwnerAt, Calm
<1>2. CASE ~UNCHANGED fin
  <2>1. Status(t) = "running"
    BY <1>2 DEF finalizeTask
  <2>2. row'[t] \in {row[t], incrementRetry(row[t])}
    BY <1>2 DEF TypeOK, finalizeTask, SetRow, handleRetryLogic
  <2>3. Status(t)' = "running"
    BY <2>1, <2>2, WrittenStatus DEF TypeOK, Status
  <2> QED
    BY <2>3 DEF OwnerAt, Calm, Restful, Startable
<1> QED
  BY <1>1, <1>2

\* The close event of the one attempt in progress ends it and hands the task
\* to a finalization (execution/process-lifecycle.js).
LEMMA handleCloseOwner ==
    ASSUME TypeOK, NEW t \in Tasks, NEW i \in Attempts, OwnerAt(t),
           att[t][i] \in InProgress, handleClose(t, i), SetAttempt(t, i, "done")
    PROVE  OwnerAt(t)'
<1>1. fin[t] = Idle /\ waiting[t] = {}
  BY DEF OwnerAt, Calm
<1>2. Calm(t)'
  BY DEF TypeOK, OwnerAt, Calm, SetAttempt, InProgress
<1>3. CASE finalizeTask(t, TRUE) /\ UNCHANGED waiting
  BY <1>1, <1>2, <1>3, finalizeTaskOwner
<1>4. CASE UNCHANGED finVars
  BY <1>1, <1>2, <1>4 DEF OwnerAt, Calm, finVars
<1> QED
  BY <1>1, <1>3, <1>4 DEF handleClose

\* When sweeps and operators leave a task in progress alone, every step
\* keeps its single owner.
LEMMA OwnerStep ==
    ASSUME TypeOK, NEW t \in Tasks, ~Overlap, OwnerAt(t), TaskStep(t)
    PROVE  OwnerAt(t)'
<1>0. row[t] \in Row
  BY DEF TypeOK
<1>q. ASSUME Quiet(t) PROVE Calm(t) /\ fin[t] = Idle /\ waiting[t] = {}
  BY <1>q DEF Quiet, QuietBut, Calm
<1>r. ASSUME NEW r, SetRow(t, r) PROVE row'[t] = r
  BY <1>r DEF TypeOK, SetRow
<1>d. ASSUME NEW i \in Attempts, att[t][i] \in InProgress, SetAttempt(t, i, "done"),
             UNCHANGED finVars
      PROVE  OwnerAt(t)'
  <2>1. Calm(t)'
    BY <1>d DEF TypeOK, OwnerAt, Calm, SetAttempt, InProgress
  <2> QED
    BY <1>d, <2>1 DEF OwnerAt, Calm, finVars
<1>k. ASSUME NEW i \in Attempts, att[t][i] \in InProgress,
             NEW s \in InProgress, SetAttempt(t, i, s),
             UNCHANGED finVars, Status(t)' \notin Restful
      PROVE  OwnerAt(t)'
  <2>1. \A j \in Attempts : att'[t][j] \in InProgress => j = i
    BY <1>k DEF TypeOK, OwnerAt, SetAttempt
  <2>2. fin'[t] = Idle /\ waiting'[t] = {}
    BY <1>k DEF OwnerAt, Calm, finVars
  <2> QED
    BY <1>k, <2>1, <2>2 DEF OwnerAt
<1>1. CASE StartTask(t)
  BY <1>0, <1>1, startTaskOwner DEF StartTask, OwnerAt, Restful
<1>2. ASSUME NEW i \in Attempts, Attempt(t, i) PROVE OwnerAt(t)'
  <2>0. {"starting", "live", "deaf", "exited", "dropped"} \subseteq InProgress
    BY DEF InProgress
  <2>a. ASSUME att[t][i] \in InProgress PROVE Status(t) \notin Restful
    BY <2>a DEF OwnerAt, Calm
  <2>1. CASE spawnAndTrackProcess(t, i)
    <3>1. att[t][i] \in InProgress /\ Status(t) \notin Restful /\ UNCHANGED finVars
      BY <2>0, <2>1, <2>a DEF spawnAndTrackProcess, finVars
    <3>2. row' = row \/ Status(t)' = "running"
      BY <1>0, <1>r, <2>1, WrittenStatus DEF spawnAndTrackProcess, Status
    <3>3. Status(t)' \notin Restful
      BY <3>1, <3>2 DEF Restful, Startable, Status
    <3>4. \/ SetAttempt(t, i, "done") \/ SetAttempt(t, i, "deaf")
          \/ SetAttempt(t, i, "live")
      BY <2>1 DEF spawnAndTrackProcess
    <3> QED
      BY <1>d, <1>k, <2>0, <3>1, <3>3, <3>4
  <2>2. CASE FileLockConflict(t, i)
    BY <1>d, <2>0, <2>2 DEF FileLockConflict, finVars
  <2>3. CASE PolicyBlocked(t, i)
    BY <2>3, cancelTaskOwner DEF PolicyBlocked
  <2>4. CASE StartThrows(t, i)
    BY <1>d, <2>0, <2>4 DEF StartThrows, finVars
  <2>5. CASE ProcessExit(t, i)
    <3>1. att[t][i] \in InProgress /\ UNCHANGED finVars /\ UNCHANGED row
      BY <2>0, <2>5 DEF ProcessExit, finVars
    <3>2. Status(t)' \notin Restful
      BY <2>a, <3>1 DEF Status
    <3> QED
      BY <1>d, <1>k, <2>0, <2>5, <3>1, <3>2 DEF ProcessExit
  <2>6. CASE Close(t, i)
    <3>1. att[t][i] \in InProgress
      BY <2>0, <2>6 DEF Close
    <3>2. CASE handleClose(t, i) /\ SetAttempt(t, i, "done")
      BY <3>1, <3>2, handleCloseOwner
    <3>3. CASE SetAttempt(t, i, "dropped") /\ UNCHANGED <<row, finVars>>
      BY <1>k, <2>0, <2>a, <3>1, <3>3 DEF Status, finVars
    <3> QED
      BY <2>6, <3>2, <3>3 DEF Close
  <2>7. CASE ZombieClose(t, i)
    BY <2>0, <2>7, handleCloseOwner DEF ZombieClose
  <2>8. CASE SyntheticClose(t, i) \/ LockGranted(t, i)
    BY <2>8 DEF SyntheticClose, LockGranted, OwnerAt
  <2> QED
    BY <1>2, <2>1, <2>2, <2>3, <2>4, <2>5, <2>6, <2>7, <2>8 DEF Attempt
<1>3. CASE Finalize(t)
  <2>1. /\ fin[t] # Idle /\ Calm(t) /\ Status(t) \notin Restful
        /\ UNCHANGED <<att, waiting>>
    BY <1>3 DEF Finalize, StageFails, LateRetry, VerifyRetry, LaneRetry,
                ProviderSwitch, FinalWrite, FinalizeFatal, procVars, OwnerAt
  <2>2. Calm(t)' /\ waiting'[t] = {}
    BY <2>1 DEF Calm, OwnerAt
  <2>3. CASE Release(t)
    <3>1. fin'[t] = Idle
      BY <2>3 DEF TypeOK, Release
    <3> QED
      BY <2>2, <3>1 DEF OwnerAt, Calm
  <2>4. CASE ~Release(t)
    <3>1. row'[t] \in {row[t], incrementRetry(row[t])}
      BY <1>3, <1>r, <2>4 DEF Finalize, StageFails, LateRetry, VerifyRetry,
                LaneRetry, ProviderSwitch, FinalWrite, FinalizeFatal
    <3>2. Status(t)' \notin Restful
      BY <1>0, <2>1, <3>1, WrittenStatus DEF Status
    <3> QED
      BY <2>2, <3>2 DEF OwnerAt, Calm
  <2> QED
    BY <2>3, <2>4
<1>4. CASE (\E s \in {"cancelled", "failed"} : Cancel(t, s)) \/ Abandon(t)
  BY <1>4, cancelTaskOwner DEF Cancel, Abandon
<1>5. CASE RetryTimerFires(t)
  <2>1. CASE Status(t) = "retry_scheduled"
    <3>1. Calm(t) /\ fin[t] = Idle /\ waiting[t] = {} /\ UNCHANGED finVars
      BY <1>5, <2>1 DEF OwnerAt, Restful, RetryTimerFires, finVars
    <3>2. resumeRetry(row[t]) \in Row /\ startTask(t, resumeRetry(row[t]))
      BY <1>0, <1>5, <2>1, RowWrites DEF RetryTimerFires
    <3> QED
      BY <3>1, <3>2, startTaskOwner
  <2>2. CASE Status(t) # "retry_scheduled"
    BY <1>5, <2>2 DEF RetryTimerFires, OwnerAt, Calm, Status, finVars
  <2> QED
    BY <2>1, <2>2
<1>6. CASE LaneTimerFires(t)
  <2>1. CASE Status(t) = "retry_scheduled"
    BY <1>6, <2>1 DEF OwnerAt, Restful, LaneTimerFires, Calm, procVars, finVars
  <2>2. CASE Status(t) # "retry_scheduled"
    BY <1>r, <1>6, <2>2 DEF LaneTimerFires, OwnerAt, Calm, Status, procVars, finVars
  <2> QED
    BY <2>1, <2>2
<1>7. CASE OperatorRetry(t) \/ StaleCheck(t)
  BY <1>q, <1>7 DEF OperatorRetry, StaleCheck, OwnerAt, Calm, procVars, finVars
<1>8. CASE GuardExpires(t) \/ SweepRetryTimer(t)
  BY <1>8 DEF GuardExpires, SweepRetryTimer, OwnerAt, Calm, Status, procVars, finVars
<1>9. CASE TimeoutCheck(t)
  BY <1>9, cancelTaskOwner DEF TimeoutCheck
<1>10. CASE StallRecovery(t)
  <2>1. CASE cancelTask(t, "failed", {tracked[t]})
    BY <2>1, cancelTaskOwner
  <2>2. CASE EndAttempts(t, {tracked[t]}) /\ UNCHANGED <<finVars, timerVars>>
    <3>1. QuietBut(t, {tracked[t]})
      BY <1>10 DEF StallRecovery
    <3>2. att'[t] = [i \in Attempts |-> IF i \in {tracked[t]} THEN "done" ELSE att[t][i]]
      BY <2>2 DEF TypeOK, EndAttempts
    <3>3. Calm(t)'
      BY <3>1, <3>2 DEF QuietBut, Calm, InProgress
    <3> QED
      BY <2>2, <3>1, <3>3 DEF QuietBut, OwnerAt, Calm, finVars
  <2> QED
    BY <1>10, <2>1, <2>2 DEF StallRecovery
<1> QED
  BY <1>1, <1>2, <1>3, <1>4, <1>5, <1>6, <1>7, <1>8, <1>9, <1>10
     DEF TaskStep, Sweep

OwnerInv == ~Overlap => \A t \in Tasks : OwnerAt(t)

LEMMA OwnerNext == TypeOK /\ OwnerInv /\ [Next]_vars => OwnerInv'
<1> SUFFICES ASSUME TypeOK, OwnerInv, [Next]_vars, ~Overlap, NEW u \in Tasks
             PROVE  OwnerAt(u)'
  BY DEF OwnerInv
<1>0. OwnerAt(u)
  BY DEF OwnerInv
<1>1. ASSUME NEW t \in Tasks, TaskStep(t) PROVE OwnerAt(u)'
  <2>1. CASE u = t
    BY <1>0, <1>1, <2>1, OwnerStep
  <2>2. CASE u # t
    BY <1>0, <1>1, <2>2, Frame DEF Same, OwnerAt, Calm, Status
  <2> QED
    BY <2>1, <2>2
<1>2. CASE UNCHANGED vars
  BY <1>0, <1>2 DEF vars, OwnerAt, Calm, Status
<1> QED
  BY <1>1, <1>2 DEF Next

LEMMA OwnerInit == Init => OwnerInv
BY DEF Init, OwnerInv, OwnerAt, Calm, InProgress

\* When no sweep or operator acts on a task that is still in progress, a task
\* has one owner at a time: one attempt or one finalization, and neither
\* while its row invites startTask or a timer to act.
THEOREM TaskOneOwner == Spec => []OneOwner
<1>1. OwnerInv => OneOwner
  BY DEF OwnerInv, OwnerAt, OneOwner, Quiet, QuietBut, Calm, Restful
<1> QED
  BY <1>1, OwnerInit, OwnerNext, TaskTypeCorrect, PTL DEF Spec

-----------------------------------------------------------------------------
(* Capacity. *)

\* Writes that keep the provider of a row as it is.
LEMMA KeptProvider ==
    ASSUME NEW r \in Row
    PROVE  /\ incrementRetry(r).provider = r.provider
           /\ setRunningPid(r).provider = r.provider
           /\ \A p \in Providers : claimSlot(r, p).provider = p
           /\ \A s \in Statuses :
                 \/ softUpdateTaskStatus(r, s) = r
                 \/ softUpdateTaskStatus(r, s).status = s
BY DEF Row, incrementRetry, setRunningPid, updateTaskStatus, claimSlot, softUpdateTaskStatus

\* How a row comes to be running: it was, on the same provider, or
\* tryClaimTaskSlot has just found the provider's slot free.
GoesOn(t) ==
    /\ row[t].status = "running"
    /\ row'[t].provider = row[t].provider
Claims(t) ==
    /\ row[t].status # "running"
    /\ row'[t].provider \in Providers
    /\ SlotFree(row'[t].provider)

LEMMA RunningStep ==
    ASSUME TypeOK, NEW t \in Tasks, ~Overlap, OwnerAt(t), TaskStep(t),
           row'[t].status = "running"
    PROVE  GoesOn(t) \/ Claims(t)
<1>0. row[t] \in Row
  BY DEF TypeOK
<1>s. {"queued", "completed", "failed", "cancelled"} \subseteq Statuses
  BY DEF Statuses, Startable, Terminal
<1>r. ASSUME NEW r, SetRow(t, r) PROVE row'[t] = r
  BY <1>r DEF TypeOK, SetRow
<1>u. ASSUME row'[t] \in {row[t], incrementRetry(row[t])} PROVE GoesOn(t)
  BY <1>0, <1>u, KeptProvider, WrittenStatus DEF GoesOn
<1>a. ASSUME NEW r \in Row, startTask(t, r), row[t].status # "running"
      PROVE  Claims(t)
  <2>1. \A x \in {"queued", "completed", "failed"} : updateTaskStatus(r, x).status # "running"
    BY <1>s, WrittenStatus
  <2>2. PICK p \in Providers : SlotFree(p) /\ SetRow(t, claimSlot(r, p))
    BY <1>a, <1>r, <2>1 DEF startTask
  <2>3. row'[t].provider = p
    BY <1>r, <2>2, KeptProvider
  <2> QED
    BY <1>a, <2>2, <2>3 DEF Claims
<1>b. ASSUME NEW s \in {"cancelled", "failed"}, NEW kill, cancelTask(t, s, kill)
      PROVE  GoesOn(t)
  <2>1. row'[t] = softUpdateTaskStatus(row[t], s)
    BY <1>b, <1>r DEF cancelTask
  <2>2. row'[t] = row[t]
    BY <1>0, <1>s, <2>1, KeptProvider
  <2> QED
    BY <1>u, <2>2
<1>c. ASSUME NEW g, finalizeTask(t, g) PROVE GoesOn(t)
  <2>1. \/ row'[t] \in {row[t], incrementRetry(row[t])}
        \/ row'[t] = safeguardRequeue(row[t])
        \/ row'[t] = scheduleRetry(incrementRetry(row[t]))
    BY <1>c, <1>r DEF finalizeTask, handleRetryLogic
  <2>2. incrementRetry(row[t]) \in Row
    BY <1>0, RowWrites
  <2> QED
    BY <1>0, <1>u, <2>1, <2>2, WrittenStatus
<1>d. ASSUME NEW i, handleClose(t, i) PROVE GoesOn(t)
  BY <1>c, <1>d, <1>u DEF handleClose
<1>1. CASE StartTask(t)
  BY <1>0, <1>1, <1>a DEF StartTask, Status, Startable
<1>2. ASSUME NEW i \in Attempts, Attempt(t, i) PROVE GoesOn(t)
  <2>1. CASE spawnAndTrackProcess(t, i)
    <3>1. CASE row' = row
      BY <1>u, <3>1
    <3>2. CASE Accepts(row[t], "running") /\ SetRow(t, setRunningPid(row[t]))
      <4>1. att[t][i] \in InProgress
        BY <2>1 DEF spawnAndTrackProcess, InProgress
      <4>2. Status(t) \notin Restful
        BY <4>1 DEF OwnerAt, Calm
      <4>3. row[t].status = "running"
        BY <1>0, <3>2, <4>2 DEF Accepts, Restful, Row, Statuses, Startable, Terminal, Status
      <4> QED
        BY <1>0, <1>r, <3>2, <4>3, KeptProvider DEF GoesOn
    <3> QED
      BY <2>1, <3>1, <3>2 DEF spawnAndTrackProcess
  <2>2. CASE FileLockConflict(t, i)
    BY <1>0, <1>r, <2>2, WrittenStatus DEF FileLockConflict
  <2>3. CASE PolicyBlocked(t, i)
    BY <1>b, <2>3 DEF PolicyBlocked
  <2>4. CASE StartThrows(t, i)
    <3>1. \/ row'[t] = row[t]
          \/ row'[t] = updateTaskStatus(row[t], "failed")
          \/ row'[t] = [softUpdateTaskStatus(row[t], "failed") EXCEPT !.pid = FALSE]
      BY <1>r, <2>4 DEF StartThrows
    <3>2. softUpdateTaskStatus(row[t], "failed") \in Row
      BY <1>0, <1>s, RowWrites
    <3>3. \A x \in Row : /\ [x EXCEPT !.pid = FALSE].status = x.status
                        /\ [x EXCEPT !.pid = FALSE].provider = x.provider
      BY DEF Row
    <3>4. updateTaskStatus(row[t], "failed").status = "failed"
      BY <1>0, <1>s, WrittenStatus
    <3>5. \/ softUpdateTaskStatus(row[t], "failed") = row[t]
          \/ softUpdateTaskStatus(row[t], "failed").status = "failed"
      BY <1>0, <1>s, KeptProvider
    <3> QED
      BY <1>0, <3>1, <3>2, <3>3, <3>4, <3>5 DEF GoesOn
  <2>5. CASE ProcessExit(t, i)
    BY <1>u, <2>5 DEF ProcessExit
  <2>6. CASE Close(t, i)
    BY <1>d, <1>u, <2>6 DEF Close
  <2>7. CASE ZombieClose(t, i) \/ SyntheticClose(t, i)
    BY <1>d, <2>7 DEF ZombieClose, SyntheticClose
  <2>8. CASE LockGranted(t, i)
    BY <1>c, <2>8 DEF LockGranted
  <2> QED
    BY <1>2, <2>1, <2>2, <2>3, <2>4, <2>5, <2>6, <2>7, <2>8 DEF Attempt
<1>3. CASE Finalize(t)
  <2>0. fin[t] \in Context
    BY <1>3 DEF TypeOK, Finalize, StageFails, LateRetry, VerifyRetry, LaneRetry,
                ProviderSwitch, FinalWrite, FinalizeFatal
  <2>1. fin[t].out \in {"completed", "failed"} /\ fin[t].tries \in Nat /\ fin[t].lane \in Nat
    BY <2>0 DEF Context
  <2>2. incrementRetry(row[t]) \in Row
    BY <1>0, RowWrites
  <2>3. CASE StageFails(t)
    BY <1>u, <2>3 DEF StageFails
  <2>4. CASE LateRetry(t)
    <3>1. \/ row'[t] = scheduleRetry(incrementRetry(row[t]))
          \/ row'[t] = incrementRetry(row[t])
      BY <1>r, <2>4 DEF LateRetry, handleRetryLogic
    <3> QED
      BY <1>u, <2>2, <3>1, WrittenStatus
  <2>5. CASE VerifyRetry(t) \/ LaneRetry(t) \/ ProviderSwitch(t)
    <3>1. \/ row'[t] = updateTaskStatus(row[t], "failed")
          \/ row'[t] = laneRetry(row[t], fin[t].tries, fin[t].lane)
          \/ row'[t] = approveProviderSwitch(row[t])
      BY <1>r, <2>5 DEF VerifyRetry, LaneRetry, ProviderSwitch
    <3> QED
      BY <1>0, <1>s, <2>1, <3>1, WrittenStatus
  <2>6. CASE FinalWrite(t)
    BY <1>0, <1>r, <1>s, <1>u, <2>1, <2>6, KeptProvider DEF FinalWrite
  <2>7. CASE FinalizeFatal(t)
    BY <1>0, <1>r, <1>s, <1>u, <2>7, WrittenStatus DEF FinalizeFatal
  <2> QED
    BY <1>3, <2>3, <2>4, <2>5, <2>6, <2>7 DEF Finalize
<1>4. CASE (\E s \in {"cancelled", "failed"} : Cancel(t, s)) \/ Abandon(t)
  BY <1>4, <1>b DEF Cancel, Abandon
<1>5. CASE RetryTimerFires(t)
  <2>1. CASE Status(t) = "retry_scheduled"
    <3>1. resumeRetry(row[t]) \in Row /\ startTask(t, resumeRetry(row[t]))
      BY <1>0, <1>5, <2>1, RowWrites DEF RetryTimerFires
    <3> QED
      BY <2>1, <3>1, <1>a DEF Status
  <2>2. CASE Status(t) # "retry_scheduled"
    BY <1>5, <1>u, <2>2 DEF RetryTimerFires
  <2> QED
    BY <2>1, <2>2
<1>6. CASE LaneTimerFires(t)
  BY <1>0, <1>r, <1>u, <1>6, WrittenStatus DEF LaneTimerFires
<1>7. CASE OperatorRetry(t) \/ StaleCheck(t)
  BY <1>0, <1>r, <1>s, <1>7, WrittenStatus DEF OperatorRetry, StaleCheck
<1>8. CASE GuardExpires(t) \/ SweepRetryTimer(t)
  BY <1>8, <1>u DEF GuardExpires, SweepRetryTimer
<1>9. CASE TimeoutCheck(t)
  BY <1>9, <1>b DEF TimeoutCheck
<1>10. CASE StallRecovery(t)
  <2>1. stallRequeue(row[t]) \in Row
    BY <1>0, RowWrites
  <2>2. /\ stallRequeue(row[t]).status = "queued"
        /\ updateTaskStatus(stallRequeue(row[t]), "failed").status = "failed"
    BY <1>0, <1>s, <2>1, WrittenStatus
  <2> QED
    BY <1>b, <1>r, <1>10, <2>2 DEF StallRecovery
<1> QED
  BY <1>1, <1>2, <1>3, <1>4, <1>5, <1>6, <1>7, <1>8, <1>9, <1>10
     DEF TaskStep, Sweep

\* A set that gains at most the element t, and gains it only below the
\* limit, stays within the limit.
LEMMA GrowByOne ==
    ASSUME NEW A, NEW B, NEW n \in Nat, NEW t, IsFiniteSet(A),
           B \subseteq A \cup {t}, t \in B /\ t \notin A => Cardinality(A) < n,
           Cardinality(A) <= n
    PROVE  Cardinality(B) <= n
<1>0. Cardinality(A) \in Nat
  BY FS_CardinalityType
<1>1. CASE B \subseteq A
  <2>1. Cardinality(B) <= Cardinality(A) /\ Cardinality(B) \in Nat
    BY <1>1, FS_Subset, FS_CardinalityType
  <2> QED
    BY <1>0, <2>1
<1>2. CASE ~(B \subseteq A)
  <2>1. t \in B /\ t \notin A
    BY <1>2
  <2>2. IsFiniteSet(A \cup {t}) /\ Cardinality(A \cup {t}) = Cardinality(A) + 1
    BY <2>1, FS_AddElement
  <2>3. Cardinality(B) <= Cardinality(A \cup {t}) /\ Cardinality(B) \in Nat
    BY <2>2, FS_Subset, FS_CardinalityType
  <2> QED
    BY <1>0, <2>1, <2>2, <2>3
<1> QED
  BY <1>1, <1>2

LEMMA CapacityNext ==
    TypeOK /\ OwnerInv /\ CapacityRespected /\ [Next]_vars => CapacityRespected'
<1> SUFFICES ASSUME TypeOK, OwnerInv, CapacityRespected, [Next]_vars, ~Overlap
             PROVE  /\ Cardinality(Running') <= MaxConcurrent
                    /\ \A p \in Providers : Cardinality(RunningOn(p)') <= ProviderLimit[p]
  BY DEF CapacityRespected
<1>1. ASSUME NEW t \in Tasks, TaskStep(t)
      PROVE  /\ Cardinality(Running') <= MaxConcurrent
             /\ \A p \in Providers : Cardinality(RunningOn(p)') <= ProviderLimit[p]
  <2>0. IsFiniteSet(Running) /\ \A p \in Providers : IsFiniteSet(RunningOn(p))
    BY LifecycleAssumption, FS_Subset DEF Running, RunningOn
  <2>1. \A u \in Tasks \ {t} : row'[u] = row[u]
    BY <1>1, Frame DEF Same
  <2>2. row'[t].status = "running" => GoesOn(t) \/ Claims(t)
    BY <1>1, RunningStep DEF OwnerInv
  <2>3. /\ Running' \subseteq Running \cup {t}
        /\ t \in Running' /\ t \notin Running => Cardinality(Running) < MaxConcurrent
    BY <2>1, <2>2 DEF Running, Status, GoesOn, Claims, SlotFree
  <2>4. Cardinality(Running') <= MaxConcurrent
    BY <2>0, <2>3, GrowByOne, LifecycleAssumption DEF CapacityRespected
  <2>5. ASSUME NEW p \in Providers PROVE Cardinality(RunningOn(p)') <= ProviderLimit[p]
    <3>1. /\ RunningOn(p)' \subseteq RunningOn(p) \cup {t}
          /\ t \in RunningOn(p)' /\ t \notin RunningOn(p)
                => Cardinality(RunningOn(p)) < ProviderLimit[p]
      BY <2>1, <2>2 DEF Running, RunningOn, Status, GoesOn, Claims, SlotFree
    <3>2. ProviderLimit[p] \in Nat /\ Cardinality(RunningOn(p)) <= ProviderLimit[p]
      BY LifecycleAssumption DEF CapacityRespected
    <3> QED
      BY <2>0, <3>1, <3>2, GrowByOne
  <2> QED
    BY <2>4, <2>5
<1>2. CASE UNCHANGED vars
  <2>1. Running' = Running /\ \A p \in Providers : RunningOn(p)' = RunningOn(p)
    BY <1>2 DEF vars, Running, RunningOn, Status
  <2> QED
    BY <2>1 DEF CapacityRespected
<1> QED
  BY <1>1, <1>2 DEF Next

\* Under the same assumption the running rows never exceed max_concurrent,
\* nor any provider its own limit.  The limits are compared at the claim
\* only; that no other handler makes a row running is what TaskOneOwner
\* gives: the spawn's own write of 'running' finds the row running already.
THEOREM TaskCapacityRespected == Spec => []CapacityRespected
<1>1. Init => CapacityRespected
  <2> SUFFICES ASSUME Init PROVE CapacityRespected
    OBVIOUS
  <2>1. Running = {} /\ \A p \in Providers : RunningOn(p) = {}
    BY DEF Init, Running, RunningOn, Status, createTask
  <2>2. Cardinality({}) = 0
    BY FS_EmptySet
  <2> QED
    BY <2>1, <2>2, LifecycleAssumption DEF CapacityRespected
<1> QED
  BY <1>1, CapacityNext, OwnerInit, OwnerNext, TaskTypeCorrect, PTL DEF Spec

-----------------------------------------------------------------------------
(* Settled rows. *)

LEMMA SettledStep ==
    ASSUME TypeOK, NEW t \in Tasks, TaskStep(t),
           Status(t) \in {"cancelled", "completed"}, tracked[t] = 0,
           \A i \in Attempts : att[t][i] # "starting"
    PROVE  row'[t].status = row[t].status
<1>0. row[t] \in Row
  BY DEF TypeOK
<1>s. {"completed", "failed", "cancelled"} \subseteq Statuses
  BY DEF Statuses, Terminal
<1>r. ASSUME NEW r, SetRow(t, r) PROVE row'[t] = r
  BY <1>r DEF TypeOK, SetRow
<1>t. \A x \in {"running", "retry_scheduled", "failed", "completed", "cancelled",
               "pending_provider_switch"} : ~Accepts(row[t], x)
  BY DEF Accepts, Terminal, Startable, Status
<1>f. \A x \in {"completed", "failed", "cancelled"} : softUpdateTaskStatus(row[t], x) = row[t]
  BY <1>t DEF softUpdateTaskStatus
<1>i. /\ incrementRetry(row[t]).status = row[t].status
      /\ ~Accepts(incrementRetry(row[t]), "retry_scheduled")
  BY <1>0, <1>t, WrittenStatus DEF Accepts
<1>b. ASSUME NEW s \in {"cancelled", "failed"}, NEW kill, cancelTask(t, s, kill)
      PROVE  row'[t] = row[t]
  BY <1>b, <1>f, <1>r DEF cancelTask
<1>d. ASSUME NEW i, handleClose(t, i) PROVE row'[t] = row[t]
  BY <1>d DEF handleClose, finalizeTask, Status
<1>1. CASE StartTask(t) \/ OperatorRetry(t) \/ StaleCheck(t) \/ TimeoutCheck(t)
           \/ StallRecovery(t) \/ Abandon(t)
  BY <1>1 DEF StartTask, OperatorRetry, StaleCheck, TimeoutCheck, StallRecovery,
              Abandon, Startable
<1>2. ASSUME NEW i \in Attempts, Attempt(t, i) PROVE row'[t] = row[t]
  <2>1. CASE ProcessExit(t, i) \/ Close(t, i) \/ ZombieClose(t, i) \/ SyntheticClose(t, i)
    BY <1>d, <2>1 DEF ProcessExit, Close, ZombieClose, SyntheticClose
  <2>2. CASE LockGranted(t, i)
    BY <2>2 DEF LockGranted, finalizeTask, Status
  <2> QED
    BY <1>2, <2>1, <2>2 DEF Attempt, spawnAndTrackProcess, FileLockConflict,
                            PolicyBlocked, StartThrows
<1>3. CASE Finalize(t)
  <2>1. CASE LateRetry(t)
    BY <1>i, <1>r, <2>1 DEF LateRetry
  <2>2. CASE FinalWrite(t)
    <3>1. fin[t].out \in {"completed", "failed"}
      BY <2>2 DEF TypeOK, FinalWrite, Context
    <3> QED
      BY <1>f, <1>r, <2>2, <3>1 DEF FinalWrite
  <2>3. CASE FinalizeFatal(t)
    BY <1>r, <2>3 DEF FinalizeFatal, Status
  <2> QED
    BY <1>3, <1>t, <2>1, <2>2, <2>3 DEF Finalize, StageFails, VerifyRetry,
                LaneRetry, ProviderSwitch
<1>4. CASE \E s \in {"cancelled", "failed"} : Cancel(t, s)
  BY <1>4, <1>b DEF Cancel
<1>5. CASE RetryTimerFires(t) \/ LaneTimerFires(t)
  BY <1>5, <1>r DEF RetryTimerFires, LaneTimerFires, Status
<1>6. CASE GuardExpires(t) \/ SweepRetryTimer(t)
  BY <1>6 DEF GuardExpires, SweepRetryTimer
<1> QED
  BY <1>1, <1>2, <1>3, <1>4, <1>5, <1>6 DEF TaskStep, Sweep

\* A cancelled or completed row that no startTask is suspended on and that
\* has no tracker entry keeps its status, for any overlap of attempts.
THEOREM TaskSettledStays == Spec => SettledStays
<1> DEFINE Settled(t) ==
             /\ Status(t) \in {"cancelled", "completed"}
             /\ tracked[t] = 0
             /\ \A i \in Attempts : att[t][i] # "starting"
<1>1. TypeOK /\ [Next]_vars => [\A t \in Tasks : Settled(t) => Status(t)' = Status(t)]_vars
  <2> SUFFICES ASSUME TypeOK, Next, NEW t \in Tasks, Settled(t)
               PROVE  row'[t].status = row[t].status
    BY DEF Status
  <2>1. PICK u \in Tasks : TaskStep(u)
    BY DEF Next
  <2>2. CASE u = t
    BY <2>1, <2>2, SettledStep
  <2>3. CASE u # t
    BY <2>1, <2>3, Frame DEF Same
  <2> QED
    BY <2>2, <2>3
<1> QED
  BY <1>1, TaskTypeCorrect, PTL DEF Spec, SettledStays
=============================================================================
