----------------------------- MODULE WorkflowDag -----------------------------
(***************************************************************************)
(* What the workflow runtime computes when a task of a workflow ends       *)
(* (server/execution/workflow-runtime.js, server/db/workflow-engine.js).   *)
(*                                                                         *)
(* The runtime is synchronous: it reads and writes the database with no    *)
(* turn of the event loop, and re-enters itself through the listener that  *)
(* updateTaskStatus calls on every terminal write.  Every operator below   *)
(* maps a runtime state S to the runtime state it leaves:                  *)
(*   S.st      status of each task of the workflow                         *)
(*   S.wf      status of the workflow                                      *)
(*   S.dag     the workflow as defined: its edges and node kinds           *)
(*   S.guard   terminalGuards has the workflow                             *)
(*   S.pend    terminalPending: terminations that met the guard, in order  *)
(*   S.thrown  an exception is unwinding the stack                         *)
(***************************************************************************)
EXTENDS SeqFold, FiniteSets, SequencesExt

CONSTANTS
    Tasks,  \* the nodes of the workflow
    NoTask,
    MaxNesting  \* bound: frames of the runtime's recursion on the stack

Terminal == {"completed", "failed", "cancelled", "skipped"}
Succeeded == {"completed", "skipped"}
Runnable == {"running", "queued", "pending"}
TaskStatus == Terminal \cup Runnable \cup {"blocked", "retry_scheduled", "absent"}
Closed == {"completed", "failed", "cancelled"}
WorkflowStatus == Closed \cup {"pending", "running", "paused", "completed_with_errors"}

\* cond is the set of terminal statuses the condition expression accepts,
\* {} when the edge has none.
Edge == [task : Tasks, on : Tasks, cond : SUBSET Terminal,
         onFail : {"cancel", "skip", "continue", "run_alternate"},
         alt : Tasks \cup {NoTask}]

\* deps: the rows of task_dependencies in rowid order.  join: the join_policy
\* of a node of kind 'merge', "none" for other nodes.  fanout: max_parallel of
\* a node of kind 'parallel_fanout', 0 otherwise.  goal: nodes with goal_gate.
\* late: nodes that add_workflow_task may add to the created workflow.
Workflow == [deps : Seq(Edge), join : [Tasks -> {"none", "wait_all", "first_success"}],
             fanout : [Tasks -> Nat], goal : SUBSET Tasks, late : SUBSET Tasks]

ASSUME DagAssumption == IsFiniteSet(Tasks) /\ NoTask \notin Tasks /\ MaxNesting \in Nat

RuntimeState == [st : [Tasks -> TaskStatus], wf : WorkflowStatus, dag : Workflow,
                 guard : BOOLEAN, pend : Seq(Tasks), thrown : BOOLEAN]

\* getWorkflowTasks, getTaskDependents and getTaskDependencies.
getWorkflowTasks(S) == {t \in Tasks : S.st[t] # "absent"}
getTaskDependents(S, t) == {e \in ToSet(S.dag.deps) : e.on = t /\ S.st[e.task] # "absent"}
getTaskDependencies(S, t) == {e \in ToSet(S.dag.deps) : e.task = t}

AllTerminal(S) == \A t \in getWorkflowTasks(S) : S.st[t] \in Terminal
NoneRunnable(S) == \A t \in getWorkflowTasks(S) : S.st[t] \notin Runnable
Some(S, status) == \E t \in getWorkflowTasks(S) : S.st[t] = status

-----------------------------------------------------------------------------
(* Readiness of a blocked task. *)

\* The test of evaluateWorkflowDependencies for one edge.
conditionPassed(e, status) ==
    IF e.cond # {} THEN status \in e.cond ELSE status \in Succeeded

conditionFailed(S, e) == e.cond # {} /\ S.st[e.on] \notin e.cond

\* evaluateTaskDependencyState(dep).satisfied.
satisfied(S, e) ==
    /\ \/ S.st[e.on] \in Succeeded
       \/ S.st[e.on] \in {"failed", "cancelled"} /\ e.onFail = "continue"
    /\ ~ conditionFailed(S, e)

\* evaluateMergeJoin.
evaluateMergeJoin(S, t) ==
    IF S.dag.join[t] = "first_success"
    THEN \E e \in getTaskDependencies(S, t) : S.st[e.on] \in Succeeded
    ELSE \A e \in getTaskDependencies(S, t) : S.st[e.on] \in Terminal

\* Mutant of depsTerminal: one finished prerequisite is enough.
depsTerminalAny(S, t) == \E e \in getTaskDependencies(S, t) : S.st[e.on] \in Terminal

depsTerminal(S, t) == \A e \in getTaskDependencies(S, t) : S.st[e.on] \in Terminal

allConditionsFailed(S, t) ==
    /\ getTaskDependencies(S, t) # {}
    /\ S.dag.join[t] = "none"
    /\ depsTerminal(S, t)
    /\ \A e \in getTaskDependencies(S, t) : conditionFailed(S, e)

isTaskUnblockable(S, t) ==
    \/ getTaskDependencies(S, t) = {}
    \/ S.dag.join[t] # "none" /\ evaluateMergeJoin(S, t)
    \/ S.dag.join[t] = "none" /\ depsTerminal(S, t) /\ ~ allConditionsFailed(S, t)

\* The raw UPDATE isTaskUnblockable makes when every condition failed: the
\* transition listener is not called.
skipTaskBecauseAllConditionsFailed(S, t) ==
    IF allConditionsFailed(S, t) /\ S.st[t] \notin Terminal
    THEN [S EXCEPT !.st[t] = "skipped"]
    ELSE S

\* areTaskDependenciesSatisfied.
areTaskDependenciesSatisfied(S, t) ==
    /\ depsTerminal(S, t)
    /\ (\E e \in getTaskDependencies(S, t) : e.cond # {}) => isTaskUnblockable(S, t)

unblockTask(S, t) ==
    IF ~ S.thrown /\ S.st[t] = "blocked" THEN [S EXCEPT !.st[t] = "queued"] ELSE S

shouldHoldForFanoutLimit(S, parent, t) ==
    /\ S.dag.fanout[parent] > 0
    /\ Cardinality({u \in Tasks \ {t} : /\ S.st[u] \in Runnable
                                       /\ \E e \in ToSet(S.dag.deps) : e.task = u /\ e.on = parent})
         >= S.dag.fanout[parent]

\* detectContinueDeadlock: nothing runs or is queued, and the prerequisites
\* of t that are not terminal are not pending either.
detectContinueDeadlock(S, t) ==
    /\ ~ Some(S, "running") /\ ~ Some(S, "queued")
    /\ ~ depsTerminal(S, t)
    /\ \A e \in getTaskDependencies(S, t) : S.st[e.on] # "pending"

-----------------------------------------------------------------------------
(* Verdicts. *)

\* Mutant of finalStatus: failed tasks are not counted.
finalStatusIgnoringFailures(S) ==
    IF ~ Some(S, "cancelled") THEN "completed"
    ELSE IF Some(S, "completed") THEN "completed_with_errors" ELSE "failed"

\* The status checkWorkflowCompletion gives a workflow whose tasks are all
\* terminal.
finalStatus(S) ==
    IF ~ Some(S, "failed") /\ ~ Some(S, "cancelled") THEN "completed"
    ELSE IF \E t \in S.dag.goal \cap getWorkflowTasks(S) : S.st[t] \notin Succeeded THEN "failed"
    ELSE IF Some(S, "completed") THEN "completed_with_errors"
    ELSE "failed"

\* Writing a final status drops the workflow's guard and queue.
settle(S, status) == [S EXCEPT !.wf = status, !.guard = FALSE, !.pend = <<>>]

checkWorkflowCompletion(S) ==
    IF S.thrown \/ S.wf \in Closed \cup {"completed_with_errors"} THEN S
    ELSE IF AllTerminal(S) THEN settle(S, finalStatus(S))
    ELSE IF NoneRunnable(S) THEN settle(S, "failed")   \* deadlock detection
    ELSE S

\* Mutant of updateWorkflowCounts: a workflow that has its verdict is judged again.
updateWorkflowCountsAlways(S) ==
    IF ~ AllTerminal(S) THEN S
    ELSE [S EXCEPT !.wf = IF Some(S, "failed") THEN "failed" ELSE "completed"]

\* updateWorkflowCounts judges by its own rules.
updateWorkflowCounts(S) ==
    IF S.wf \in Closed \/ ~ AllTerminal(S) THEN S
    ELSE [S EXCEPT !.wf =
            IF Some(S, "failed") THEN "failed"
            ELSE IF \A t \in getWorkflowTasks(S) : S.st[t] = "cancelled" THEN "cancelled"
            ELSE "completed"]

\* Mutant of reconcileStaleWorkflows: paused workflows only.
reconcilePausedOnly(S) ==
    IF S.wf = "paused" THEN updateWorkflowCounts(S) ELSE S

\* reconcileStaleWorkflows: its own verdict, then updateWorkflowCounts.
reconcileStaleWorkflows(S) ==
    IF S.wf \notin {"pending", "running", "paused"} \/ ~ AllTerminal(S) THEN S
    ELSE updateWorkflowCounts(
           [S EXCEPT !.wf = IF ~ Some(S, "failed") /\ ~ Some(S, "cancelled") THEN "completed"
                            ELSE IF Some(S, "completed") THEN "completed_with_errors"
                            ELSE "failed"])

-----------------------------------------------------------------------------
(* Termination of a task, and the cascade it starts.                       *)
(*                                                                         *)
(* The functions of the runtime call each other recursively.  Each of them *)
(* is an operator here that takes the calls it makes into the recursion as *)
(* a record sub of functions: evaluate and cascade map a pair of a state   *)
(* and a task, drain maps a state.  calls closes the recursion.            *)

\* Exceptions end here; the queue of an aborted evaluation is lost.
handleWorkflowTermination(sub, S, t) ==
    IF S.thrown \/ S.wf \in Closed \cup {"paused"} THEN S
    ELSE IF S.guard
    THEN IF t \in ToSet(S.pend) THEN S ELSE [S EXCEPT !.pend = Append(@, t)]
    ELSE [sub.drain[sub.evaluate[<<[S EXCEPT !.guard = TRUE], t>>]]
            EXCEPT !.guard = FALSE, !.pend = <<>>, !.thrown = FALSE]

\* Mutant of updateTaskStatus: a terminal row is overwritten.
updateTaskStatusAlways(sub, S, t, status) ==
    LET written == [S EXCEPT !.st[t] = status]
    IN  IF S.thrown THEN S
        ELSE IF status \in Terminal THEN handleWorkflowTermination(sub, written, t) ELSE written

\* updateTaskStatus and its transition listener.  A terminal row refuses
\* everything but a requeue, by an exception.
updateTaskStatus(sub, S, t, status) ==
    IF S.thrown THEN S
    ELSE IF S.st[t] \in Terminal /\ status \notin {"pending", "queued"}
    THEN [S EXCEPT !.thrown = TRUE]
    ELSE LET written == [S EXCEPT !.st[t] = status]
         IN  IF status \in Terminal THEN handleWorkflowTermination(sub, written, t) ELSE written

\* cancelTask for a row that is not terminal.
cancelTask(sub, S, t, status) ==
    handleWorkflowTermination(sub, updateTaskStatus(sub, S, t, status), t)

drainPending(sub, S) ==
    IF S.thrown \/ S.pend = <<>> THEN S
    ELSE sub.drain[sub.evaluate[<<[S EXCEPT !.pend = Tail(@)], Head(S.pend)>>]]

\* What an evaluation does with a dependent whose condition passed.
promote(Q, t, u) ==
    IF ~ isTaskUnblockable(Q, u) THEN skipTaskBecauseAllConditionsFailed(Q, u)
    ELSE IF shouldHoldForFanoutLimit(Q, t, u) THEN Q ELSE unblockTask(Q, u)

applyFailureAction(sub, S, e) ==
    CASE e.onFail = "cancel" ->
           sub.cascade[<<updateTaskStatus(sub, S, e.task, "failed"), e.task>>]
      [] e.onFail = "skip" ->
           sub.evaluate[<<updateTaskStatus(sub, S, e.task, "skipped"), e.task>>]
      [] e.onFail = "continue" ->
           IF \A f \in getTaskDependencies(S, e.task) : satisfied(S, f)
           THEN unblockTask(S, e.task) ELSE S
      [] e.onFail = "run_alternate" ->
           LET skipped == updateTaskStatus(sub, S, e.task, "skipped")
           IN  sub.evaluate[<<IF e.alt = NoTask THEN skipped ELSE unblockTask(skipped, e.alt),
                             e.task>>]

evaluateDependent(sub, S, t, Q, e) ==
    IF Q.thrown \/ e \notin getTaskDependents(S, t) THEN Q
    ELSE IF conditionPassed(e, S.st[t]) THEN promote(Q, t, e.task)
    ELSE IF e.onFail = "continue" /\ detectContinueDeadlock(Q, e.task)
    THEN unblockTask(updateTaskStatus(sub, Q, e.task, "blocked"), e.task)
    ELSE applyFailureAction(sub, Q, e)

releaseFanoutParent(sub, t, Q, e) ==
    IF e.task = t /\ Q.dag.fanout[e.on] > 0 THEN sub.evaluate[<<Q, e.on>>] ELSE Q

\* One pass over the dependents of t, whatever t's own status is.
evaluateWorkflowDependencies(sub, S, t) ==
    LET onEdge == [x \in RuntimeState \X Edge |-> evaluateDependent(sub, S, t, x[1], x[2])]
        release == [x \in RuntimeState \X Edge |-> releaseFanoutParent(sub, t, x[1], x[2])]
        swept == Fold(onEdge, S, S.dag.deps)
    IN  IF S.thrown \/ S.wf \in Closed \cup {"paused"} THEN S
        ELSE checkWorkflowCompletion(
               IF S.st[t] = "completed" THEN Fold(release, swept, S.dag.deps) ELSE swept)

\* The cascade goes through running, pending, blocked and queued tasks and
\* stops at any other.
cancelDependent(sub, S, t, Q, e) ==
    IF Q.thrown \/ e \notin getTaskDependents(S, t) THEN Q
    ELSE IF Q.st[e.task] = "running"
    THEN sub.cascade[<<cancelTask(sub, Q, e.task, "failed"), e.task>>]
    ELSE IF Q.st[e.task] \in {"pending", "blocked", "queued"}
    THEN sub.cascade[<<updateTaskStatus(sub, Q, e.task, "failed"), e.task>>]
    ELSE Q

cancelDependentTasks(sub, S, t) ==
    Fold([x \in RuntimeState \X Edge |-> cancelDependent(sub, S, t, x[1], x[2])], S, S.dag.deps)

\* A stack overflow is an exception like any other.
overflow ==
    [evaluate |-> [x \in RuntimeState \X Tasks |-> [x[1] EXCEPT !.thrown = TRUE]],
     cascade |-> [x \in RuntimeState \X Tasks |-> [x[1] EXCEPT !.thrown = TRUE]],
     drain |-> [S \in RuntimeState |-> [S EXCEPT !.thrown = TRUE]]]

frame(sub) ==
    [evaluate |-> [x \in RuntimeState \X Tasks |-> evaluateWorkflowDependencies(sub, x[1], x[2])],
     cascade |-> [x \in RuntimeState \X Tasks |-> cancelDependentTasks(sub, x[1], x[2])],
     drain |-> [S \in RuntimeState |-> drainPending(sub, S)]]

\* The recursion with room for n more frames, and the one a handler starts.
calls[n \in 0..MaxNesting] == IF n = 0 THEN overflow ELSE frame(calls[n - 1])
Top == calls[MaxNesting]
=============================================================================
