--------------------------- MODULE WorkflowRuntime ---------------------------
(***************************************************************************)
(* One workflow of the TORQUE server: its tasks start, end and are retried *)
(* while operators run, pause, cancel, extend, retry and reopen it         *)
(* (handlers/workflow/index.js, handlers/workflow/advanced.js), the        *)
(* dashboard lists it and the server restarts under it (index.js,          *)
(* startup-task-reconciler.js).  What the end of a task does to the graph  *)
(* is WorkflowDag; here every handler is one action.                       *)
(***************************************************************************)
EXTENDS WorkflowDag

CONSTANTS
    Order,      \* the tasks in created_at order
    Workflows,  \* the workflow definitions that are explored
    Operations, \* the operator actions that may happen
    MaxLate     \* bound: completion pipelines that are in flight at a time

ASSUME RuntimeAssumption ==
    /\ Order \in Seq(Tasks) /\ ToSet(Order) = Tasks /\ Len(Order) = Cardinality(Tasks)
    /\ Workflows \subseteq Workflow
    /\ MaxLate \in Nat

VARIABLES
    task,     \* status of each task
    wf,       \* status of the workflow
    dag,      \* the workflow as defined
    started,  \* started_at of the workflow is set
    late      \* tasks whose completion pipeline awaits the governance hooks
              \* and has its own handleWorkflowTermination call still to make

vars == <<task, wf, dag, started, late>>

TypeOK ==
    /\ task \in [Tasks -> TaskStatus]
    /\ wf \in WorkflowStatus
    /\ dag \in Workflows
    /\ started \in BOOLEAN
    /\ late \subseteq Tasks

Now == [st |-> task, wf |-> wf, dag |-> dag, guard |-> FALSE, pend |-> <<>>, thrown |-> FALSE]
Commit(S) == task' = S.st /\ wf' = S.wf /\ UNCHANGED dag

\* handleCreateWorkflow: tasks with prerequisites are blocked.
initialStatus(t, d) ==
    IF t \in d.late THEN "absent"
    ELSE IF \E e \in ToSet(d.deps) : e.task = t THEN "blocked" ELSE "pending"

Init ==
    /\ dag \in Workflows
    /\ task = [t \in Tasks |-> initialStatus(t, dag)]
    /\ wf = "pending"
    /\ started = FALSE
    /\ late = {}

\* startTask on every pending task: it runs now or waits in the queue.
startPending(S) ==
    [S EXCEPT !.st = [t \in Tasks |-> IF S.st[t] = "pending" THEN "queued" ELSE S.st[t]]]

-----------------------------------------------------------------------------
(* Tasks. *)

\* The scheduler starts a queued task, whatever the workflow's status.
startTask(t) ==
    /\ task[t] = "queued"
    /\ Commit([Now EXCEPT !.st[t] = "running"])
    /\ UNCHANGED <<started, late>>

\* The finalizer writes the terminal status, then awaits.
finalizeTask(t) ==
    /\ task[t] = "running"
    /\ Cardinality(late) < MaxLate
    /\ \E status \in {"completed", "failed"} : Commit(updateTaskStatus(Top, Now, t, status))
    /\ late' = late \cup {t}
    /\ UNCHANGED started

\* handlePostCompletion after the await.
lateTermination(t) ==
    /\ t \in late
    /\ Commit(handleWorkflowTermination(Top, Now, t))
    /\ late' = late \ {t}
    /\ UNCHANGED started

scheduleRetry(t) ==
    /\ task[t] = "running"
    /\ Commit([Now EXCEPT !.st[t] = "retry_scheduled"])
    /\ UNCHANGED <<started, late>>

retryTimer(t) ==
    /\ task[t] = "retry_scheduled"
    /\ Commit([Now EXCEPT !.st[t] = "queued"])
    /\ UNCHANGED <<started, late>>

-----------------------------------------------------------------------------
(* Operators. *)

Operator(op) == op \in Operations /\ UNCHANGED late

\* getWorkflowRestartGuardError.
mayRestart(S, allowFresh, allowPaused) ==
    \/ NoneRunnable(S)
    \/ allowFresh /\ S.wf = "pending" /\ ~ started
         /\ ~ Some(S, "running") /\ ~ Some(S, "queued")
    \/ allowPaused /\ S.wf = "paused"

\* run_workflow, also the way to resume a paused workflow.
handleRunWorkflow ==
    LET seen == reconcileStaleWorkflows(Now)
    IN  /\ wf # "running"
        /\ mayRestart(seen, TRUE, TRUE)
        /\ Commit(startPending([seen EXCEPT !.wf = "running"]))
        /\ started' = TRUE
        /\ UNCHANGED late

handlePauseWorkflow ==
    /\ Operator("pause")
    /\ wf = "running"
    /\ Commit([Now EXCEPT !.wf = "paused"])
    /\ UNCHANGED started

\* cancel_workflow: retry_scheduled tasks are not in its list.
cancelOne(S, t) ==
    IF S.st[t] = "running" THEN cancelTask(Top, S, t, "cancelled")
    ELSE IF S.st[t] \in {"pending", "blocked", "queued"}
    THEN updateTaskStatus(Top, S, t, "cancelled") ELSE S

handleCancelWorkflow ==
    /\ Operator("cancel_workflow")
    /\ LET cancel == [x \in RuntimeState \X Tasks |-> cancelOne(x[1], x[2])]
       IN  Commit([Fold(cancel, Now, Order) EXCEPT !.wf = "cancelled"])
    /\ UNCHANGED started

handleCancelTask(t) ==
    /\ Operator("cancel_task")
    /\ task[t] \notin Terminal \cup {"absent"}
    /\ Commit(cancelTask(Top, Now, t, "cancelled"))
    /\ UNCHANGED started

handleSkipTask(t) ==
    /\ Operator("skip_task")
    /\ task[t] = "blocked"
    /\ Commit(handleWorkflowTermination(Top,
                updateWorkflowCounts(updateTaskStatus(Top, Now, t, "skipped")), t))
    /\ UNCHANGED started

\* add_workflow_task: reopens a finished workflow.
handleAddWorkflowTask(t) ==
    LET hasDeps == getTaskDependencies(Now, t) # {}
        counted == updateWorkflowCounts(
                     [Now EXCEPT !.st[t] = IF hasDeps THEN "blocked" ELSE "pending",
                                 !.wf = IF @ \in {"completed", "failed", "completed_with_errors"}
                                        THEN "running" ELSE @])
    IN  /\ Operator("add_task")
        /\ task[t] = "absent"
        /\ wf # "cancelled"
        /\ Commit(IF wf \in {"pending", "paused"} THEN counted
                  ELSE IF ~ hasDeps THEN [counted EXCEPT !.st[t] = "queued"]
                  ELSE IF depsTerminal(counted, t) THEN unblockTask(counted, t)
                  ELSE counted)
        /\ UNCHANGED started

\* The tasks downstream of a task, breadth first: visiting the i-th task found
\* appends its dependents that are not found yet.
downstream(t) ==
    LET addDependent(i, acc, found, e) ==
          IF e \in getTaskDependents(Now, found[i]) /\ e.task \notin ToSet(acc)
          THEN Append(acc, e.task) ELSE acc
        visit(found, i) ==
          Fold([x \in Seq(Tasks) \X Edge |-> addDependent(i, x[1], found, x[2])], found, dag.deps)
    IN  Fold([x \in Seq(Tasks) \X Nat |-> IF x[2] > Len(x[1]) THEN x[1] ELSE visit(x[1], x[2])],
             <<t>>, [i \in 1..Len(Order) |-> i])

\* retry_workflow_from.  An exception leaves what was written before it.
resetTask(S, u) ==
    IF S.st[u] = "running" THEN S
    ELSE updateTaskStatus(Top, S, u,
           IF getTaskDependencies(S, u) # {} THEN "blocked" ELSE "pending")

handleRetryWorkflowFrom(t) ==
    LET seen == reconcileStaleWorkflows(Now)
        reset == [x \in RuntimeState \X Tasks |-> resetTask(x[1], x[2])]
        done == Fold(reset, seen, downstream(t))
    IN  /\ Operator("retry_from")
        /\ task[t] # "absent"
        /\ mayRestart(seen, FALSE, FALSE)
        /\ Commit(IF done.thrown THEN done ELSE startPending([done EXCEPT !.wf = "running"]))
        /\ UNCHANGED started

\* One task of reopen_workflow, when its status is one of statuses: pending
\* when all its prerequisites are planned to stay completed, blocked otherwise.
ReopenState == [S : RuntimeState, planned : [Tasks -> TaskStatus]]

reopenTask(statuses, R, t) ==
    LET to == IF \E e \in getTaskDependencies(R.S, t) : R.planned[e.on] # "completed"
              THEN "blocked" ELSE "pending"
    IN  IF R.S.thrown \/ task[t] \notin statuses THEN R
        ELSE [S |-> IF task[t] = to THEN R.S ELSE updateTaskStatus(Top, R.S, t, to),
              planned |-> [R.planned EXCEPT ![t] = to]]

\* reopen_workflow: the failed, cancelled and skipped tasks first, then the
\* tasks that still wait.
EndedBadly == {"failed", "cancelled", "skipped"}
Waiting == {"pending", "queued", "blocked", "retry_scheduled"}

handleReopenWorkflow ==
    LET reopen(statuses) == [x \in ReopenState \X Tasks |-> reopenTask(statuses, x[1], x[2])]
        ended == Fold(reopen(EndedBadly), [S |-> Now, planned |-> task], Order)
        done == Fold(reopen(Waiting), ended, Order).S
    IN  /\ Operator("reopen")
        /\ wf \in {"failed", "cancelled", "completed_with_errors"}
        /\ \E t \in Tasks : task[t] \in EndedBadly \cup Waiting
        /\ Commit(IF done.thrown THEN done
                  ELSE startPending(updateWorkflowCounts([done EXCEPT !.wf = "running"])))
        /\ UNCHANGED started

\* resume_workflow: only the verdict's own rules here.
resumeTask(S, t) ==
    IF S.st[t] # "blocked" THEN S
    ELSE IF isTaskUnblockable(S, t) THEN [S EXCEPT !.st[t] = "queued"]
    ELSE skipTaskBecauseAllConditionsFailed(S, t)

\* Mutant of handleResumeWorkflow: a status of its own when no task completed.
handleResumeWithSkipped ==
    LET done == Fold([x \in RuntimeState \X Tasks |-> resumeTask(x[1], x[2])], Now, Order)
    IN  /\ Operator("resume")
        /\ wf \notin Closed \cup {"completed_with_errors"}
        /\ Commit(IF AllTerminal(done) /\ ~ Some(done, "completed")
                  THEN [done EXCEPT !.wf = "skipped"] ELSE done)
        /\ UNCHANGED started

handleResumeWorkflow ==
    LET done == Fold([x \in RuntimeState \X Tasks |-> resumeTask(x[1], x[2])], Now, Order)
    IN  /\ Operator("resume")
        /\ wf \notin Closed \cup {"completed_with_errors"}
        /\ Commit(IF AllTerminal(done)
                  THEN [done EXCEPT !.wf = IF Some(done, "failed") THEN "failed" ELSE "completed"]
                  ELSE done)
        /\ UNCHANGED started

\* list_workflows, workflow_status and the dashboard.
listWorkflows ==
    /\ Commit(reconcileStaleWorkflows(Now))
    /\ UNCHANGED <<started, late>>

-----------------------------------------------------------------------------
(* Restart of the server. *)

\* The orphan cleanup of index.js: running tasks of a workflow that is not
\* running are requeued or failed.
cleanupOrphan(S, t, fate) ==
    IF S.st[t] # "running" \/ S.wf = "running" THEN S
    ELSE IF fate = "exhausted" THEN cancelTask(Top, S, t, "failed")
    ELSE updateTaskStatus(Top, S, t, "queued")

\* reconcileOrphanedTasksOnStartup.  A clone takes the place of its original
\* in the graph, so the node keeps its name here.
reconcileOrphan(S, t, fate) ==
    IF S.st[t] = "retry_scheduled"
    THEN updateTaskStatus(Top, S, t, IF fate = "exhausted" THEN "failed" ELSE "queued")
    ELSE IF S.st[t] # "running" \/ fate = "adopted" THEN S
    ELSE IF fate = "finished" THEN updateTaskStatus(Top, S, t, "completed")
    ELSE IF S.wf # "running" THEN S
    ELSE IF fate = "exhausted" THEN [S EXCEPT !.st[t] = "cancelled"]
    ELSE [S EXCEPT !.st[t] = "queued"]

\* The task was over when the reconciliation began in state S.
replayTermination(S, Q, t) ==
    IF S.st[t] \in Terminal THEN handleWorkflowTermination(Top, Q, t) ELSE Q

rereadyTask(Q, t) ==
    IF Q.st[t] # "blocked" THEN Q
    ELSE IF areTaskDependenciesSatisfied(Q, t) THEN unblockTask(Q, t)
    ELSE skipTaskBecauseAllConditionsFailed(Q, t)

\* Mutant of reconcileWorkflowsOnStartup: blocked tasks are not looked at.
reconcileWithoutReady(S) ==
    LET replay == [x \in RuntimeState \X Tasks |-> replayTermination(S, x[1], x[2])]
    IN  IF S.wf \notin {"running", "paused"} THEN S
        ELSE checkWorkflowCompletion(Fold(replay, S, Order))

reconcileWorkflowsOnStartup(S) ==
    LET reready == [x \in RuntimeState \X Tasks |-> rereadyTask(x[1], x[2])]
        replay == [x \in RuntimeState \X Tasks |-> replayTermination(S, x[1], x[2])]
    IN  IF S.wf \notin {"running", "paused"} THEN S
        ELSE checkWorkflowCompletion(Fold(replay, Fold(reready, S, Order), Order))

restartServer ==
    /\ "restart" \in Operations
    /\ \E fate \in [{t \in Tasks : task[t] \in {"running", "retry_scheduled"}} ->
                    {"adopted", "finished", "cloned", "exhausted"}] :
         /\ \A t \in DOMAIN fate :
              task[t] = "retry_scheduled" => fate[t] \in {"adopted", "exhausted"}
         /\ LET cleanup == [x \in RuntimeState \X Tasks |-> cleanupOrphan(x[1], x[2], fate[x[2]])]
                orphan == [x \in RuntimeState \X Tasks |-> reconcileOrphan(x[1], x[2], fate[x[2]])]
            IN  Commit(reconcileWorkflowsOnStartup(
                         Fold(orphan, Fold(cleanup, Now, Order), Reverse(Order))))
    /\ late' = {}
    /\ UNCHANGED started

Next ==
    \/ \E t \in Tasks :
         \/ startTask(t) \/ finalizeTask(t) \/ lateTermination(t)
         \/ scheduleRetry(t) \/ retryTimer(t)
         \/ handleCancelTask(t) \/ handleSkipTask(t) \/ handleAddWorkflowTask(t)
         \/ handleRetryWorkflowFrom(t)
    \/ handleRunWorkflow \/ handlePauseWorkflow \/ handleCancelWorkflow
    \/ handleReopenWorkflow \/ handleResumeWorkflow \/ listWorkflows
    \/ restartServer

Spec == Init /\ [][Next]_vars

\* Clients read the workflow list again and again.
FairSpec == Spec /\ WF_vars(listWorkflows)

-----------------------------------------------------------------------------
(* Properties. *)

Prerequisites(t) == {e.on : e \in getTaskDependencies(Now, t)}
Alternates == {e.alt : e \in ToSet(dag.deps)}

\* A blocked task starts only when all its prerequisites are over, except a
\* first_success merge, an alternate, and a task with an on_fail 'continue'
\* edge, which starts early when no prerequisite stays queued or running.
StartsAfterPrerequisites ==
    [][\A t \in Tasks :
         (/\ task[t] = "blocked" /\ task'[t] \in {"queued", "running"}
          /\ dag.join[t] # "first_success" /\ t \notin Alternates)
         => \A p \in Prerequisites(t) :
              \/ task'[p] \in Terminal
              \/ /\ \E e \in getTaskDependencies(Now, t) : e.onFail = "continue"
                 /\ ~ {task[p], task'[p]} \subseteq {"queued", "running"}]_vars

\* How a task ended is never rewritten, not by a cascade or a termination that
\* comes late nor by a cancellation or a restart: it is retried or it stays.
ResultStands ==
    [][\A t \in Tasks : task[t] \in Terminal /\ task'[t] \in Terminal => task'[t] = task[t]]_vars

\* 'completed' is never the verdict on a workflow with a failed task.
CompletedHasNoFailure ==
    [][(wf # "completed" /\ wf' = "completed") =>
         \A t \in Tasks : task'[t] # "failed"]_vars

\* A verdict is taken back only by reopening the workflow or by cancelling it.
FinalVerdictStands ==
    [][(wf \in Closed /\ wf' # wf) => wf' \in {"running", "cancelled"}]_vars

\* A workflow whose tasks are all over gets its verdict.
VerdictReached ==
    (AllTerminal(Now) /\ wf \in {"pending", "running", "paused"}) ~>
        (~ AllTerminal(Now) \/ wf \notin {"pending", "running", "paused"})

\* A running workflow forgot a task: it is blocked though every prerequisite
\* of it is over.
Forgotten ==
    wf = "running" /\ \E t \in Tasks : /\ task[t] = "blocked"
                                      /\ \A p \in Prerequisites(t) : task[p] \in Terminal

\* A restart releases or ends every task whose prerequisites are over, also
\* the ones that ended while the server was down or whose termination was lost.
RestartForgetsNoTask == [][Forgotten' => ~ restartServer]_vars

\* The comment on deadlock detection: a workflow is failed for being stuck
\* only when no task of it is running, queued or pending.
VerdictWhenNothingRuns ==
    [][(wf \notin Closed /\ wf' \in Closed) => NoneRunnable(Now)']_vars
=============================================================================
