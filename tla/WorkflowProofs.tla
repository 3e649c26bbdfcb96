---------------------------- MODULE WorkflowProofs ---------------------------
(***************************************************************************)
(* Proofs about the workflow runtime, for any workflow and any number of   *)
(* tasks.  The argument is one relation, Evolves: what the runtime may do  *)
(* to a workflow between two points of its recursion.  It is reflexive and *)
(* transitive, every write of the runtime respects it, and so does a frame *)
(* of the recursion whose calls do; by induction over the nesting, every   *)
(* handler that ends in the runtime respects it as well.                   *)
(***************************************************************************)
EXTENDS WorkflowRuntime, SeqFoldProofs

Going == {"queued", "running"}

\* What becomes of the status of one task: terminal statuses stay, a task that
\* is queued or running goes on or ends, a blocked one is released or ends, and
\* no task appears or disappears.
StatusEvolves(from, to) ==
    /\ from \in Terminal \cup {"absent"} => to = from
    /\ from \in Going => to \in Going \cup Terminal
    /\ from = "blocked" => to \in {"blocked"} \cup Going \cup Terminal
    /\ from # "absent" => to # "absent"

\* Tasks that wait for all their prerequisites, and what that means for one
\* that is released between S and Q.
Strict(S, t) ==
    /\ S.dag.join[t] # "first_success"
    /\ \A e \in ToSet(S.dag.deps) : e.alt # t

MayContinue(S, t) == \E e \in getTaskDependencies(S, t) : e.onFail = "continue"

Released(S, Q, t) ==
    \A e \in getTaskDependencies(S, t) :
       \/ Q.st[e.on] \in Terminal
       \/ MayContinue(S, t) /\ ~ {S.st[e.on], Q.st[e.on]} \subseteq Going

Evolves(S, Q) ==
    /\ Q \in RuntimeState
    /\ Q.dag = S.dag
    /\ \A t \in Tasks : StatusEvolves(S.st[t], Q.st[t])
    /\ \A t \in Tasks : S.st[t] = "blocked" /\ Q.st[t] \in Going /\ Strict(S, t)
                        => Released(S, Q, t)
    /\ S.wf \in Closed => Q.wf = S.wf
    /\ S.wf # "completed" /\ Q.wf = "completed"
         => \A t \in Tasks : Q.st[t] \in {"completed", "cancelled", "skipped", "absent"}

\* An edge of a workflow links two of its tasks.
LEMMA EdgeTasks ==
    ASSUME NEW S \in RuntimeState, NEW e \in ToSet(S.dag.deps)
    PROVE  e \in Edge /\ e.task \in Tasks /\ e.on \in Tasks /\ e.alt \in Tasks \cup {NoTask}
<1>1. S.dag.deps \in Seq(Edge)
  BY DEF RuntimeState, Workflow
<1>2. e \in Edge
  BY <1>1 DEF ToSet
<1> QED
  BY <1>2 DEF Edge

\* Doing nothing respects the relation.
LEMMA EvolvesRefl ==
    ASSUME NEW S \in RuntimeState
    PROVE  Evolves(S, S)
<1>1. \A t \in Tasks : StatusEvolves(S.st[t], S.st[t])
  BY DEF StatusEvolves
<1> QED
  BY <1>1 DEF Evolves, Going

\* So does the change of the fields that no fact of Evolves is about.
LEMMA SameTasks ==
    ASSUME NEW S \in RuntimeState, NEW Q \in RuntimeState,
           Q.dag = S.dag, Q.st = S.st, Q.wf = S.wf
    PROVE  Evolves(S, Q)
<1>1. \A t \in Tasks : StatusEvolves(S.st[t], Q.st[t])
  BY DEF StatusEvolves
<1> QED
  BY <1>1 DEF Evolves, Going

LEMMA StatusTrans ==
    ASSUME NEW a, NEW b, NEW c, StatusEvolves(a, b), StatusEvolves(b, c)
    PROVE  StatusEvolves(a, c)
BY DEF StatusEvolves, Going, Terminal

\* Two steps of the runtime are one.
LEMMA EvolvesTrans ==
    ASSUME NEW S \in RuntimeState, NEW Q, NEW R, Evolves(S, Q), Evolves(Q, R)
    PROVE  Evolves(S, R)
<1>1. Q \in RuntimeState /\ R \in RuntimeState /\ Q.dag = S.dag /\ R.dag = S.dag
  BY DEF Evolves
<1>2. \A t \in Tasks : StatusEvolves(S.st[t], Q.st[t]) /\ StatusEvolves(Q.st[t], R.st[t])
  BY DEF Evolves
<1>3. \A t \in Tasks : StatusEvolves(S.st[t], R.st[t])
  BY <1>2, StatusTrans
<1>4. ASSUME NEW t \in Tasks, S.st[t] = "blocked", R.st[t] \in Going, Strict(S, t)
      PROVE  Released(S, R, t)
  <2>1. Strict(Q, t) /\ getTaskDependencies(Q, t) = getTaskDependencies(S, t)
        /\ (MayContinue(Q, t) <=> MayContinue(S, t))
    BY <1>1, <1>4 DEF Strict, getTaskDependencies, MayContinue
  <2>2. Q.st[t] = "blocked" \/ Q.st[t] \in Going
    BY <1>2, <1>4 DEF StatusEvolves, Going, Terminal
  <2> SUFFICES ASSUME NEW e \in getTaskDependencies(S, t)
               PROVE  \/ R.st[e.on] \in Terminal
                      \/ MayContinue(S, t) /\ ~ {S.st[e.on], R.st[e.on]} \subseteq Going
    BY DEF Released
  <2>3. e.on \in Tasks
    BY EdgeTasks DEF getTaskDependencies
  <2>4. StatusEvolves(S.st[e.on], Q.st[e.on]) /\ StatusEvolves(Q.st[e.on], R.st[e.on])
    BY <1>2, <2>3
  <2>5. CASE Q.st[t] = "blocked"
    <3>1. Released(Q, R, t)
      BY <1>4, <2>1, <2>5 DEF Evolves
    <3>2. \/ R.st[e.on] \in Terminal
          \/ MayContinue(S, t) /\ ~ {Q.st[e.on], R.st[e.on]} \subseteq Going
      BY <2>1, <3>1 DEF Released
    <3> QED
      BY <2>4, <3>2 DEF StatusEvolves, Going, Terminal
  <2>6. CASE Q.st[t] \in Going
    <3>1. Released(S, Q, t)
      BY <1>4, <2>6 DEF Evolves
    <3>2. \/ Q.st[e.on] \in Terminal
          \/ MayContinue(S, t) /\ ~ {S.st[e.on], Q.st[e.on]} \subseteq Going
      BY <3>1 DEF Released
    <3> QED
      BY <2>4, <3>2 DEF StatusEvolves, Going, Terminal
  <2> QED
    BY <2>2, <2>5, <2>6
<1>5. S.wf \in Closed => R.wf = S.wf
  BY DEF Evolves
<1>6. S.wf # "completed" /\ R.wf = "completed"
        => \A t \in Tasks : R.st[t] \in {"completed", "cancelled", "skipped", "absent"}
  <2>1. CASE Q.wf = "completed" /\ S.wf # "completed"
    <3>1. \A t \in Tasks : Q.st[t] \in {"completed", "cancelled", "skipped", "absent"}
      BY <2>1 DEF Evolves
    <3> QED
      BY <1>2, <3>1 DEF StatusEvolves, Terminal
  <2>2. CASE Q.wf # "completed"
    BY <2>2 DEF Evolves
  <2> QED
    BY <2>1, <2>2
<1> QED
  BY <1>1, <1>3, <1>4, <1>5, <1>6 DEF Evolves
-----------------------------------------------------------------------------
(* Single writes of the runtime. *)

\* What a write of one task's status changes.
LEMMA StatusWrite ==
    ASSUME NEW S \in RuntimeState, NEW t \in Tasks, NEW status \in TaskStatus
    PROVE  LET Q == [S EXCEPT !.st[t] = status]
           IN  /\ Q \in RuntimeState
               /\ Q.st = [S.st EXCEPT ![t] = status]
               /\ Q.wf = S.wf /\ Q.dag = S.dag /\ Q.thrown = S.thrown
BY DEF RuntimeState

LEMMA VerdictWrite ==
    ASSUME NEW S \in RuntimeState, NEW status \in WorkflowStatus
    PROVE  /\ LET Q == [S EXCEPT !.wf = status]
              IN  Q \in RuntimeState /\ Q.st = S.st /\ Q.wf = status /\ Q.dag = S.dag
                  /\ Q.thrown = S.thrown
           /\ LET Q == settle(S, status)
              IN  Q \in RuntimeState /\ Q.st = S.st /\ Q.wf = status /\ Q.dag = S.dag
<1>1. LET Q == [S EXCEPT !.wf = status]
      IN  Q \in RuntimeState /\ Q.st = S.st /\ Q.wf = status /\ Q.dag = S.dag
          /\ Q.thrown = S.thrown
  BY DEF RuntimeState
<1>2. LET Q == settle(S, status)
      IN  Q \in RuntimeState /\ Q.st = S.st /\ Q.wf = status /\ Q.dag = S.dag
  <2>1. <<>> \in Seq(Tasks) /\ FALSE \in BOOLEAN
    OBVIOUS
  <2> QED
    BY <2>1 DEF RuntimeState, settle
<1> QED
  BY <1>1, <1>2

LEMMA FlagWrites ==
    ASSUME NEW S \in RuntimeState
    PROVE  /\ Evolves(S, [S EXCEPT !.thrown = TRUE])
           /\ Evolves(S, [S EXCEPT !.guard = TRUE])
           /\ \A p \in Seq(Tasks) : Evolves(S, [S EXCEPT !.pend = p])
           /\ Evolves(S, [S EXCEPT !.guard = FALSE, !.pend = <<>>, !.thrown = FALSE])
<1>1. ASSUME NEW g \in BOOLEAN, NEW p \in Seq(Tasks), NEW x \in BOOLEAN
      PROVE  Evolves(S, [S EXCEPT !.guard = g, !.pend = p, !.thrown = x])
  <2> DEFINE Q == [S EXCEPT !.guard = g, !.pend = p, !.thrown = x]
  <2>1. Q \in RuntimeState /\ Q.st = S.st /\ Q.wf = S.wf /\ Q.dag = S.dag
    BY DEF RuntimeState
  <2> HIDE DEF Q
  <2>2. Evolves(S, Q)
    BY <2>1, SameTasks
  <2> QED
    BY <2>2 DEF Q
<1>2. S.guard \in BOOLEAN /\ S.pend \in Seq(Tasks) /\ S.thrown \in BOOLEAN
  BY DEF RuntimeState
<1>3. [S EXCEPT !.thrown = TRUE] = [S EXCEPT !.guard = S.guard, !.pend = S.pend, !.thrown = TRUE]
  BY DEF RuntimeState
<1>4. [S EXCEPT !.guard = TRUE] = [S EXCEPT !.guard = TRUE, !.pend = S.pend, !.thrown = S.thrown]
  BY DEF RuntimeState
<1>5. \A p \in Seq(Tasks) :
        [S EXCEPT !.pend = p] = [S EXCEPT !.guard = S.guard, !.pend = p, !.thrown = S.thrown]
  BY DEF RuntimeState
<1>6. <<>> \in Seq(Tasks)
  OBVIOUS
<1>7. Evolves(S, [S EXCEPT !.thrown = TRUE])
  BY <1>1, <1>2, <1>3
<1>8. Evolves(S, [S EXCEPT !.guard = TRUE])
  BY <1>1, <1>2, <1>4
<1>9. ASSUME NEW p \in Seq(Tasks) PROVE Evolves(S, [S EXCEPT !.pend = p])
  BY <1>1, <1>2, <1>5
<1>10. Evolves(S, [S EXCEPT !.guard = FALSE, !.pend = <<>>, !.thrown = FALSE])
  BY <1>1, <1>6
<1> QED
  BY <1>7, <1>8, <1>9, <1>10

\* A write of one status respects the relation when the status may evolve so
\* and a blocked task is not released before its time.
LEMMA WriteEvolves ==
    ASSUME NEW S \in RuntimeState, NEW t \in Tasks, NEW status \in TaskStatus,
           StatusEvolves(S.st[t], status),
           S.st[t] = "blocked" /\ status \in Going /\ Strict(S, t) => Released(S, S, t)
    PROVE  Evolves(S, [S EXCEPT !.st[t] = status])
<1> DEFINE Q == [S EXCEPT !.st[t] = status]
<1>1. Q \in RuntimeState /\ Q.st = [S.st EXCEPT ![t] = status] /\ Q.wf = S.wf /\ Q.dag = S.dag
  BY StatusWrite
<1> HIDE DEF Q
<1>2. S.st \in [Tasks -> TaskStatus]
  BY DEF RuntimeState
<1>3. \A u \in Tasks : Q.st[u] = IF u = t THEN status ELSE S.st[u]
  BY <1>1, <1>2
<1>4. ASSUME NEW u \in Tasks PROVE StatusEvolves(S.st[u], Q.st[u])
  <2>1. StatusEvolves(S.st[u], S.st[u])
    BY DEF StatusEvolves
  <2> QED
    BY <1>3, <2>1
<1>5. ASSUME NEW u \in Tasks, S.st[u] = "blocked", Q.st[u] \in Going, Strict(S, u)
      PROVE  Released(S, Q, u)
  <2>1. u = t
    BY <1>3, <1>5 DEF Going
  <2>2. Released(S, S, t)
    BY <1>3, <1>5, <2>1
  <2> SUFFICES ASSUME NEW e \in getTaskDependencies(S, t)
               PROVE  \/ Q.st[e.on] \in Terminal
                      \/ MayContinue(S, t) /\ ~ {S.st[e.on], Q.st[e.on]} \subseteq Going
    BY <2>1 DEF Released
  <2>3. e.on \in Tasks
    BY EdgeTasks DEF getTaskDependencies
  <2>4. \/ S.st[e.on] \in Terminal
        \/ MayContinue(S, t) /\ ~ {S.st[e.on], S.st[e.on]} \subseteq Going
    BY <2>2 DEF Released
  <2> QED
    BY <1>3, <1>5, <2>1, <2>3, <2>4 DEF Terminal, Going
<1>6. Evolves(S, Q)
  BY <1>1, <1>4, <1>5 DEF Evolves
<1> QED
  BY <1>6 DEF Q

\* A verdict respects the relation when the workflow had none and 'completed'
\* is said of tasks that are over and did not fail.
LEMMA VerdictEvolves ==
    ASSUME NEW S \in RuntimeState, NEW Q \in RuntimeState, Q.dag = S.dag, Q.st = S.st,
           S.wf \notin Closed \/ Q.wf = S.wf,
           Q.wf = "completed" /\ S.wf # "completed" => AllTerminal(S) /\ ~ Some(S, "failed")
    PROVE  Evolves(S, Q)
<1>1. \A t \in Tasks : StatusEvolves(S.st[t], Q.st[t])
  BY DEF StatusEvolves
<1>2. Q.wf = "completed" /\ S.wf # "completed"
        => \A t \in Tasks : Q.st[t] \in {"completed", "cancelled", "skipped", "absent"}
  BY DEF AllTerminal, Some, getWorkflowTasks, Terminal
<1> QED
  BY <1>1, <1>2 DEF Evolves, Going

\* The three functions that judge a workflow.
LEMMA CompletionEvolves ==
    ASSUME NEW S \in RuntimeState
    PROVE  Evolves(S, checkWorkflowCompletion(S))
<1>1. CASE S.thrown \/ S.wf \in Closed \cup {"completed_with_errors"}
  BY <1>1, EvolvesRefl DEF checkWorkflowCompletion
<1>2. CASE ~ S.thrown /\ S.wf \notin Closed \cup {"completed_with_errors"} /\ AllTerminal(S)
  <2>1. checkWorkflowCompletion(S) = settle(S, finalStatus(S))
    BY <1>2 DEF checkWorkflowCompletion
  <2>2. finalStatus(S) \in WorkflowStatus
        /\ (finalStatus(S) = "completed" => ~ Some(S, "failed"))
    BY DEF finalStatus, WorkflowStatus, Closed
  <2> DEFINE Q == settle(S, finalStatus(S))
  <2>3. Q \in RuntimeState /\ Q.st = S.st /\ Q.dag = S.dag /\ Q.wf = finalStatus(S)
    BY <2>2, VerdictWrite
  <2> HIDE DEF Q
  <2>4. Evolves(S, Q)
    BY <1>2, <2>2, <2>3, VerdictEvolves
  <2> QED
    BY <2>1, <2>4 DEF Q
<1>3. CASE ~ S.thrown /\ S.wf \notin Closed \cup {"completed_with_errors"} /\ ~ AllTerminal(S)
           /\ NoneRunnable(S)
  <2>1. checkWorkflowCompletion(S) = settle(S, "failed")
    BY <1>3 DEF checkWorkflowCompletion
  <2>2. "failed" \in WorkflowStatus
    BY DEF WorkflowStatus, Closed
  <2> DEFINE Q == settle(S, "failed")
  <2>3. Q \in RuntimeState /\ Q.st = S.st /\ Q.dag = S.dag /\ Q.wf = "failed"
    BY <2>2, VerdictWrite
  <2> HIDE DEF Q
  <2>4. Evolves(S, Q)
    BY <1>3, <2>3, VerdictEvolves
  <2> QED
    BY <2>1, <2>4 DEF Q
<1>4. CASE ~ S.thrown /\ S.wf \notin Closed \cup {"completed_with_errors"} /\ ~ AllTerminal(S)
           /\ ~ NoneRunnable(S)
  BY <1>4, EvolvesRefl DEF checkWorkflowCompletion
<1> QED
  BY <1>1, <1>2, <1>3, <1>4

LEMMA CountsEvolve ==
    ASSUME NEW S \in RuntimeState
    PROVE  /\ Evolves(S, updateWorkflowCounts(S))
           /\ updateWorkflowCounts(S).st = S.st
           /\ updateWorkflowCounts(S).thrown = S.thrown
           /\ ~ AllTerminal(S) => updateWorkflowCounts(S) = S
<1>1. CASE S.wf \in Closed \/ ~ AllTerminal(S)
  BY <1>1, EvolvesRefl DEF updateWorkflowCounts
<1>2. CASE S.wf \notin Closed /\ AllTerminal(S)
  <2> DEFINE status == IF Some(S, "failed") THEN "failed"
                       ELSE IF \A t \in getWorkflowTasks(S) : S.st[t] = "cancelled"
                       THEN "cancelled" ELSE "completed"
  <2>1. updateWorkflowCounts(S) = [S EXCEPT !.wf = status]
    BY <1>2 DEF updateWorkflowCounts
  <2>2. status \in WorkflowStatus /\ (status = "completed" => ~ Some(S, "failed"))
    BY DEF WorkflowStatus, Closed
  <2> HIDE DEF status
  <2> DEFINE Q == [S EXCEPT !.wf = status]
  <2>3. Q \in RuntimeState /\ Q.st = S.st /\ Q.dag = S.dag /\ Q.wf = status /\ Q.thrown = S.thrown
    BY <2>2, VerdictWrite
  <2> HIDE DEF Q
  <2>4. Evolves(S, Q)
    BY <1>2, <2>2, <2>3, VerdictEvolves
  <2>5. updateWorkflowCounts(S) = Q
    BY <2>1 DEF Q
  <2> QED
    BY <1>2, <2>3, <2>4, <2>5
<1> QED
  BY <1>1, <1>2

LEMMA StaleEvolves ==
    ASSUME NEW S \in RuntimeState
    PROVE  /\ Evolves(S, reconcileStaleWorkflows(S))
           /\ reconcileStaleWorkflows(S).st = S.st
           /\ reconcileStaleWorkflows(S).thrown = S.thrown
<1>1. CASE S.wf \notin {"pending", "running", "paused"} \/ ~ AllTerminal(S)
  BY <1>1, EvolvesRefl DEF reconcileStaleWorkflows
<1>2. CASE S.wf \in {"pending", "running", "paused"} /\ AllTerminal(S)
  <2> DEFINE status == IF ~ Some(S, "failed") /\ ~ Some(S, "cancelled") THEN "completed"
                       ELSE IF Some(S, "completed") THEN "completed_with_errors" ELSE "failed"
             Q == [S EXCEPT !.wf = status]
  <2>1. reconcileStaleWorkflows(S) = updateWorkflowCounts(Q)
    BY <1>2 DEF reconcileStaleWorkflows
  <2>2. status \in WorkflowStatus /\ (status = "completed" => ~ Some(S, "failed"))
    BY DEF WorkflowStatus, Closed
  <2>3. S.wf \notin Closed
    BY <1>2 DEF Closed
  <2> HIDE DEF status
  <2>4. Q \in RuntimeState /\ Q.st = S.st /\ Q.dag = S.dag /\ Q.wf = status /\ Q.thrown = S.thrown
    BY <2>2, VerdictWrite
  <2> HIDE DEF Q
  <2>5. Evolves(S, Q)
    BY <1>2, <2>2, <2>3, <2>4, VerdictEvolves
  <2>6. /\ Evolves(Q, updateWorkflowCounts(Q))
        /\ updateWorkflowCounts(Q).st = Q.st /\ updateWorkflowCounts(Q).thrown = Q.thrown
    BY <2>4, CountsEvolve
  <2> QED
    BY <2>1, <2>4, <2>5, <2>6, EvolvesTrans
<1> QED
  BY <1>1, <1>2

\* Readiness rules: none of them releases a task that waits for all its
\* prerequisites while one of them is not over.
LEMMA ReadyTasks ==
    ASSUME NEW S \in RuntimeState, NEW t \in Tasks,
           \/ isTaskUnblockable(S, t)
           \/ depsTerminal(S, t)
           \/ \A e \in getTaskDependencies(S, t) : satisfied(S, e)
    PROVE  Strict(S, t) => Released(S, S, t)
<1> SUFFICES ASSUME Strict(S, t), NEW e \in getTaskDependencies(S, t)
             PROVE  S.st[e.on] \in Terminal
  BY DEF Released
<1>1. CASE \A f \in getTaskDependencies(S, t) : satisfied(S, f)
  BY <1>1 DEF satisfied, Succeeded, Terminal
<1>2. CASE depsTerminal(S, t)
  BY <1>2 DEF depsTerminal
<1>3. CASE S.dag.join[t] # "none" /\ evaluateMergeJoin(S, t)
  BY <1>3 DEF evaluateMergeJoin, Strict
<1> QED
  BY <1>1, <1>2, <1>3 DEF isTaskUnblockable

LEMMA UnblockEvolves ==
    ASSUME NEW S \in RuntimeState, NEW t \in Tasks, Strict(S, t) => Released(S, S, t)
    PROVE  Evolves(S, unblockTask(S, t))
<1>1. CASE ~ S.thrown /\ S.st[t] = "blocked"
  <2>1. "queued" \in TaskStatus /\ StatusEvolves(S.st[t], "queued")
    BY <1>1 DEF TaskStatus, Runnable, StatusEvolves, Going, Terminal
  <2> QED
    BY <1>1, <2>1, WriteEvolves DEF unblockTask
<1>2. CASE ~ (~ S.thrown /\ S.st[t] = "blocked")
  BY <1>2, EvolvesRefl DEF unblockTask
<1> QED
  BY <1>1, <1>2

\* Ending a task is always allowed, if it is one of the workflow and not over.
LEMMA EndEvolves ==
    ASSUME NEW S \in RuntimeState, NEW t \in Tasks, NEW status \in Terminal,
           S.st[t] \notin Terminal \cup {"absent"}
    PROVE  Evolves(S, [S EXCEPT !.st[t] = status])
<1>1. status \in TaskStatus /\ StatusEvolves(S.st[t], status) /\ status \notin Going
  BY DEF TaskStatus, StatusEvolves, Going, Terminal
<1> QED
  BY <1>1, WriteEvolves

LEMMA SkipEvolves ==
    ASSUME NEW S \in RuntimeState, NEW t \in Tasks, S.st[t] # "absent"
    PROVE  Evolves(S, skipTaskBecauseAllConditionsFailed(S, t))
<1>1. "skipped" \in Terminal
  BY DEF Terminal
<1> QED
  BY <1>1, EndEvolves, EvolvesRefl DEF skipTaskBecauseAllConditionsFailed
-----------------------------------------------------------------------------
(* The recursion. *)

\* The calls of a frame respect the relation.
Sound(sub) ==
    /\ \A S \in RuntimeState, t \in Tasks : /\ Evolves(S, sub.evaluate[<<S, t>>])
                                            /\ Evolves(S, sub.cascade[<<S, t>>])
    /\ \A S \in RuntimeState : Evolves(S, sub.drain[S])

LEMMA EvolvesState ==
    ASSUME NEW S, NEW Q, Evolves(S, Q)
    PROVE  Q \in RuntimeState /\ Q.dag = S.dag
BY DEF Evolves

\* A task of the workflow stays one.
LEMMA EvolvesPresent ==
    ASSUME NEW S, NEW Q, Evolves(S, Q), NEW t \in Tasks
    PROVE  S.st[t] # "absent" <=> Q.st[t] # "absent"
BY DEF Evolves, StatusEvolves

\* A loop whose steps respect the relation respects it.
LEMMA FoldEvolves ==
    ASSUME NEW S \in RuntimeState, NEW Q0, Evolves(S, Q0), NEW E, NEW s \in Seq(E), NEW step,
           \A Q \in RuntimeState, i \in DOMAIN s :
              Evolves(S, Q) => Evolves(Q, step[<<Q, s[i]>>])
    PROVE  Evolves(S, Fold(step, Q0, s))
<1> DEFINE X == {Q \in RuntimeState : Evolves(S, Q)}
<1>1. Q0 \in X
  BY EvolvesState
<1>2. ASSUME NEW Q \in X, NEW i \in DOMAIN s PROVE step[<<Q, s[i]>>] \in X
  <2>1. Evolves(S, Q) /\ Evolves(Q, step[<<Q, s[i]>>])
    OBVIOUS
  <2>2. Evolves(S, step[<<Q, s[i]>>])
    BY <2>1, EvolvesTrans
  <2> QED
    BY <2>2, EvolvesState
<1> HIDE DEF X
<1>3. Fold(step, Q0, s) \in X
  BY <1>1, <1>2, FoldIn
<1> QED
  BY <1>3 DEF X

LEMMA TerminationEvolves ==
    ASSUME NEW sub, Sound(sub), NEW S \in RuntimeState, NEW t \in Tasks
    PROVE  Evolves(S, handleWorkflowTermination(sub, S, t))
<1>1. CASE S.thrown \/ S.wf \in Closed \cup {"paused"}
  BY <1>1, EvolvesRefl DEF handleWorkflowTermination
<1>2. CASE ~ (S.thrown \/ S.wf \in Closed \cup {"paused"}) /\ S.guard
  <2>1. CASE t \in ToSet(S.pend)
    BY <1>2, <2>1, EvolvesRefl DEF handleWorkflowTermination
  <2>2. CASE t \notin ToSet(S.pend)
    <3> DEFINE p == Append(S.pend, t)
    <3>1. p \in Seq(Tasks)
      BY DEF RuntimeState
    <3>2. handleWorkflowTermination(sub, S, t) = [S EXCEPT !.pend = p]
      BY <1>2, <2>2 DEF handleWorkflowTermination
    <3> HIDE DEF p
    <3> QED
      BY <3>1, <3>2, FlagWrites
  <2> QED
    BY <2>1, <2>2
<1>3. CASE ~ (S.thrown \/ S.wf \in Closed \cup {"paused"}) /\ ~ S.guard
  <2> DEFINE G == [S EXCEPT !.guard = TRUE]
             Q == sub.evaluate[<<G, t>>]
             R == sub.drain[Q]
             Z == [R EXCEPT !.guard = FALSE, !.pend = <<>>, !.thrown = FALSE]
  <2>1. handleWorkflowTermination(sub, S, t) = Z
    BY <1>3 DEF handleWorkflowTermination
  <2>2. Evolves(S, G)
    BY FlagWrites
  <2> HIDE DEF G
  <2>3. Evolves(G, Q)
    BY <2>2, EvolvesState DEF Sound
  <2> HIDE DEF Q
  <2>4. Evolves(Q, R)
    BY <2>3, EvolvesState DEF Sound
  <2> HIDE DEF R
  <2>5. Evolves(R, Z)
    BY <2>4, EvolvesState, FlagWrites
  <2> HIDE DEF Z
  <2>6. Evolves(S, Q)
    BY <2>2, <2>3, EvolvesTrans
  <2>7. Evolves(S, R)
    BY <2>4, <2>6, EvolvesTrans
  <2>8. Evolves(S, Z)
    BY <2>5, <2>7, EvolvesTrans
  <2> QED
    BY <2>1, <2>8
<1> QED
  BY <1>1, <1>2, <1>3

\* updateTaskStatus with a status that is not terminal calls no listener.
LEMMA UpdateLive ==
    ASSUME NEW sub, NEW S, NEW t, NEW status \in {"pending", "queued", "blocked"}, ~ S.thrown,
           S.st[t] \notin Terminal \/ status # "blocked"
    PROVE  updateTaskStatus(sub, S, t, status) = [S EXCEPT !.st[t] = status]
BY DEF updateTaskStatus, Terminal

LEMMA UpdateEvolves ==
    ASSUME NEW sub, Sound(sub), NEW S \in RuntimeState, NEW t \in Tasks, NEW status \in Terminal,
           S.st[t] # "absent"
    PROVE  Evolves(S, updateTaskStatus(sub, S, t, status))
<1>0. status \notin {"pending", "queued"}
  BY DEF Terminal
<1>1. CASE S.thrown
  BY <1>1, EvolvesRefl DEF updateTaskStatus
<1>2. CASE ~ S.thrown /\ S.st[t] \in Terminal
  BY <1>0, <1>2, FlagWrites DEF updateTaskStatus
<1>3. CASE ~ S.thrown /\ S.st[t] \notin Terminal
  <2> DEFINE W == [S EXCEPT !.st[t] = status]
             R == handleWorkflowTermination(sub, W, t)
  <2>1. updateTaskStatus(sub, S, t, status) = R
    BY <1>0, <1>3 DEF updateTaskStatus
  <2>2. Evolves(S, W)
    BY <1>3, EndEvolves
  <2> HIDE DEF W
  <2>3. Evolves(W, R)
    BY <2>2, EvolvesState, TerminationEvolves
  <2> HIDE DEF R
  <2> QED
    BY <2>1, <2>2, <2>3, EvolvesTrans
<1> QED
  BY <1>1, <1>2, <1>3

LEMMA CancelEvolves ==
    ASSUME NEW sub, Sound(sub), NEW S \in RuntimeState, NEW t \in Tasks, NEW status \in Terminal,
           S.st[t] # "absent"
    PROVE  Evolves(S, cancelTask(sub, S, t, status))
<1> DEFINE Q == updateTaskStatus(sub, S, t, status)
           R == handleWorkflowTermination(sub, Q, t)
<1>1. Evolves(S, Q)
  BY UpdateEvolves
<1> HIDE DEF Q
<1>2. Evolves(Q, R)
  BY <1>1, EvolvesState, TerminationEvolves
<1>3. cancelTask(sub, S, t, status) = R
  BY DEF cancelTask, Q
<1> HIDE DEF R
<1> QED
  BY <1>1, <1>2, <1>3, EvolvesTrans

LEMMA DrainEvolves ==
    ASSUME NEW sub, Sound(sub), NEW S \in RuntimeState
    PROVE  Evolves(S, drainPending(sub, S))
<1>1. CASE S.thrown \/ S.pend = <<>>
  BY <1>1, EvolvesRefl DEF drainPending
<1>2. CASE ~ S.thrown /\ S.pend # <<>>
  <2> DEFINE p == Tail(S.pend)
             P == [S EXCEPT !.pend = p]
             t == Head(S.pend)
             Q == sub.evaluate[<<P, t>>]
             R == sub.drain[Q]
  <2>1. drainPending(sub, S) = R
    BY <1>2 DEF drainPending
  <2>2. p \in Seq(Tasks) /\ t \in Tasks
    BY <1>2 DEF RuntimeState
  <2> HIDE DEF p, t
  <2>3. Evolves(S, P)
    BY <2>2, FlagWrites
  <2> HIDE DEF P
  <2>4. Evolves(P, Q)
    BY <2>2, <2>3, EvolvesState DEF Sound
  <2> HIDE DEF Q
  <2>5. Evolves(Q, R)
    BY <2>4, EvolvesState DEF Sound
  <2> HIDE DEF R
  <2>6. Evolves(S, Q)
    BY <2>3, <2>4, EvolvesTrans
  <2> QED
    BY <2>1, <2>5, <2>6, EvolvesTrans
<1> QED
  BY <1>1, <1>2

LEMMA PromoteEvolves ==
    ASSUME NEW Q \in RuntimeState, NEW t \in Tasks, NEW u \in Tasks, Q.st[u] # "absent"
    PROVE  Evolves(Q, promote(Q, t, u))
<1>1. CASE ~ isTaskUnblockable(Q, u)
  BY <1>1, SkipEvolves DEF promote
<1>2. CASE isTaskUnblockable(Q, u) /\ shouldHoldForFanoutLimit(Q, t, u)
  BY <1>2, EvolvesRefl DEF promote
<1>3. CASE isTaskUnblockable(Q, u) /\ ~ shouldHoldForFanoutLimit(Q, t, u)
  BY <1>3, ReadyTasks, UnblockEvolves DEF promote
<1> QED
  BY <1>1, <1>2, <1>3

LEMMA FailureActionEvolves ==
    ASSUME NEW sub, Sound(sub), NEW Q \in RuntimeState, NEW e \in ToSet(Q.dag.deps),
           Q.st[e.task] # "absent"
    PROVE  Evolves(Q, applyFailureAction(sub, Q, e))
<1>0. e \in Edge /\ e.task \in Tasks /\ e.on \in Tasks /\ e.alt \in Tasks \cup {NoTask}
  BY EdgeTasks
<1>1. "failed" \in Terminal /\ "skipped" \in Terminal
  BY DEF Terminal
<1> DEFINE F == updateTaskStatus(sub, Q, e.task, "failed")
           K == updateTaskStatus(sub, Q, e.task, "skipped")
<1>2. Evolves(Q, F) /\ Evolves(Q, K)
  BY <1>0, <1>1, UpdateEvolves
<1> HIDE DEF F, K
<1>3. F \in RuntimeState /\ K \in RuntimeState
  BY <1>2, EvolvesState
<1>4. CASE e.onFail = "cancel"
  <2>1. applyFailureAction(sub, Q, e) = sub.cascade[<<F, e.task>>]
    BY <1>4 DEF applyFailureAction, F
  <2>2. Evolves(F, sub.cascade[<<F, e.task>>])
    BY <1>0, <1>3 DEF Sound
  <2> QED
    BY <1>2, <2>1, <2>2, EvolvesTrans
<1>5. CASE e.onFail = "skip"
  <2>1. applyFailureAction(sub, Q, e) = sub.evaluate[<<K, e.task>>]
    BY <1>5 DEF applyFailureAction, K
  <2>2. Evolves(K, sub.evaluate[<<K, e.task>>])
    BY <1>0, <1>3 DEF Sound
  <2> QED
    BY <1>2, <2>1, <2>2, EvolvesTrans
<1>6. CASE e.onFail = "continue"
  <2>1. CASE \A f \in getTaskDependencies(Q, e.task) : satisfied(Q, f)
    <3>1. applyFailureAction(sub, Q, e) = unblockTask(Q, e.task)
      BY <1>6, <2>1 DEF applyFailureAction
    <3> QED
      BY <1>0, <2>1, <3>1, ReadyTasks, UnblockEvolves
  <2>2. CASE ~ \A f \in getTaskDependencies(Q, e.task) : satisfied(Q, f)
    BY <1>6, <2>2, EvolvesRefl DEF applyFailureAction
  <2> QED
    BY <2>1, <2>2
<1>7. CASE e.onFail = "run_alternate"
  <2> DEFINE U == IF e.alt = NoTask THEN K ELSE unblockTask(K, e.alt)
             V == sub.evaluate[<<U, e.task>>]
  <2>1. applyFailureAction(sub, Q, e) = V
    BY <1>7 DEF applyFailureAction, K
  <2>2. Evolves(K, U)
    <3>1. CASE e.alt = NoTask
      BY <1>3, <3>1, EvolvesRefl
    <3>2. CASE e.alt # NoTask
      <4>1. e.alt \in Tasks /\ K.dag = Q.dag
        BY <1>0, <1>2, <3>2, EvolvesState
      <4>2. ~ Strict(K, e.alt)
        BY <4>1 DEF Strict
      <4> QED
        BY <1>3, <3>2, <4>1, <4>2, UnblockEvolves
    <3> QED
      BY <3>1, <3>2
  <2> HIDE DEF U
  <2>3. Evolves(U, V)
    BY <1>0, <2>2, EvolvesState DEF Sound
  <2> HIDE DEF V
  <2>4. Evolves(Q, U)
    BY <1>2, <2>2, EvolvesTrans
  <2> QED
    BY <2>1, <2>3, <2>4, EvolvesTrans
<1> QED
  BY <1>0, <1>4, <1>5, <1>6, <1>7 DEF Edge
\* A task whose failed prerequisite is no obstacle is released when nothing
\* runs or is queued (detectContinueDeadlock), whatever its status was.
LEMMA DeadlockReleaseEvolves ==
    ASSUME NEW sub, NEW Q \in RuntimeState, ~ Q.thrown, NEW e \in ToSet(Q.dag.deps),
           Q.st[e.task] # "absent", e.onFail = "continue", detectContinueDeadlock(Q, e.task)
    PROVE  Evolves(Q, unblockTask(updateTaskStatus(sub, Q, e.task, "blocked"), e.task))
<1> DEFINE u == e.task
<1>0. u \in Tasks
  BY EdgeTasks
<1>1. \A t \in Tasks : Q.st[t] \notin Going
  BY DEF detectContinueDeadlock, Some, getWorkflowTasks, Going
<1>2. MayContinue(Q, u)
  BY DEF MayContinue, getTaskDependencies
<1> HIDE DEF u
<1>3. CASE Q.st[u] \in Terminal
  <2> DEFINE X == [Q EXCEPT !.thrown = TRUE]
  <2>1. updateTaskStatus(sub, Q, u, "blocked") = X
    BY <1>3 DEF updateTaskStatus
  <2>2. X.thrown
    BY DEF RuntimeState
  <2>3. unblockTask(X, u) = X
    BY <2>2 DEF unblockTask
  <2>4. Evolves(Q, X)
    BY FlagWrites
  <2> HIDE DEF X
  <2> QED
    BY <2>1, <2>3, <2>4 DEF u
<1>4. CASE Q.st[u] \notin Terminal
  <2> DEFINE W == [Q EXCEPT !.st[u] = "blocked"]
  <2>1. updateTaskStatus(sub, Q, u, "blocked") = W
    BY <1>4, UpdateLive
  <2>2. "blocked" \in TaskStatus /\ "blocked" \notin Going
    BY DEF TaskStatus, Going
  <2>3. StatusEvolves(Q.st[u], "blocked")
    BY <1>0, <1>1, <1>4 DEF StatusEvolves, u
  <2>4. Evolves(Q, W)
    BY <1>0, <2>2, <2>3, WriteEvolves
  <2>5. W \in RuntimeState /\ W.st = [Q.st EXCEPT ![u] = "blocked"] /\ W.dag = Q.dag
    BY <1>0, <2>2, StatusWrite
  <2> HIDE DEF W
  <2>6. \A t \in Tasks : W.st[t] \notin Going
    BY <1>1, <2>2, <2>5 DEF RuntimeState
  <2>7. MayContinue(W, u)
    BY <1>2, <2>5 DEF MayContinue, getTaskDependencies
  <2>8. Released(W, W, u)
    <3> SUFFICES ASSUME NEW f \in getTaskDependencies(W, u)
                 PROVE  W.st[f.on] \notin Going
      BY <2>7 DEF Released
    <3>1. f.on \in Tasks
      BY <2>5, EdgeTasks DEF getTaskDependencies
    <3> QED
      BY <2>6, <3>1
  <2>9. Evolves(W, unblockTask(W, u))
    BY <1>0, <2>5, <2>8, UnblockEvolves
  <2> QED
    BY <2>1, <2>4, <2>9, EvolvesTrans DEF u
<1> QED
  BY <1>3, <1>4

LEMMA DependentEvolves ==
    ASSUME NEW sub, Sound(sub), NEW S \in RuntimeState, NEW t \in Tasks, NEW Q, Evolves(S, Q),
           NEW e \in ToSet(S.dag.deps)
    PROVE  Evolves(Q, evaluateDependent(sub, S, t, Q, e))
<1>1. Q \in RuntimeState /\ Q.dag = S.dag
  BY EvolvesState
<1>2. e \in Edge /\ e.task \in Tasks /\ e.on \in Tasks /\ e \in ToSet(Q.dag.deps)
  BY <1>1, EdgeTasks
<1>3. CASE Q.thrown \/ e \notin getTaskDependents(S, t)
  BY <1>1, <1>3, EvolvesRefl DEF evaluateDependent
<1>4. CASE ~ Q.thrown /\ e \in getTaskDependents(S, t)
  <2>1. Q.st[e.task] # "absent"
    BY <1>2, <1>4, EvolvesPresent DEF getTaskDependents
  <2>2. CASE conditionPassed(e, S.st[t])
    BY <1>1, <1>2, <1>4, <2>1, <2>2, PromoteEvolves DEF evaluateDependent
  <2>3. CASE ~ conditionPassed(e, S.st[t]) /\ e.onFail = "continue"
             /\ detectContinueDeadlock(Q, e.task)
    <3>1. evaluateDependent(sub, S, t, Q, e)
            = unblockTask(updateTaskStatus(sub, Q, e.task, "blocked"), e.task)
      BY <1>4, <2>3 DEF evaluateDependent
    <3> QED
      BY <1>1, <1>2, <1>4, <2>1, <2>3, <3>1, DeadlockReleaseEvolves
  <2>4. CASE ~ conditionPassed(e, S.st[t])
             /\ ~ (e.onFail = "continue" /\ detectContinueDeadlock(Q, e.task))
    <3>1. evaluateDependent(sub, S, t, Q, e) = applyFailureAction(sub, Q, e)
      BY <1>4, <2>4 DEF evaluateDependent
    <3> QED
      BY <1>1, <1>2, <2>1, <3>1, FailureActionEvolves
  <2> QED
    BY <2>2, <2>3, <2>4
<1> QED
  BY <1>3, <1>4

\* The edges of a workflow, as the sequence the loops go through.
LEMMA Edges ==
    ASSUME NEW S \in RuntimeState
    PROVE  /\ S.dag.deps \in Seq(Edge)
           /\ \A i \in DOMAIN S.dag.deps : /\ S.dag.deps[i] \in Edge
                                           /\ S.dag.deps[i] \in ToSet(S.dag.deps)
<1>1. S.dag.deps \in Seq(Edge)
  BY DEF RuntimeState, Workflow
<1> QED
  BY <1>1 DEF ToSet

LEMMA EvaluationEvolves ==
    ASSUME NEW sub, Sound(sub), NEW S \in RuntimeState, NEW t \in Tasks
    PROVE  Evolves(S, evaluateWorkflowDependencies(sub, S, t))
<1> DEFINE onEdge == [x \in RuntimeState \X Edge |-> evaluateDependent(sub, S, t, x[1], x[2])]
           release == [x \in RuntimeState \X Edge |-> releaseFanoutParent(sub, t, x[1], x[2])]
           swept == Fold(onEdge, S, S.dag.deps)
           released == Fold(release, swept, S.dag.deps)
           last == IF S.st[t] = "completed" THEN released ELSE swept
<1>1. evaluateWorkflowDependencies(sub, S, t)
        = IF S.thrown \/ S.wf \in Closed \cup {"paused"} THEN S ELSE checkWorkflowCompletion(last)
  BY DEF evaluateWorkflowDependencies
<1>2. Evolves(S, swept)
  <2>1. ASSUME NEW Q \in RuntimeState, NEW i \in DOMAIN S.dag.deps, Evolves(S, Q)
        PROVE  Evolves(Q, onEdge[<<Q, S.dag.deps[i]>>])
    <3>1. onEdge[<<Q, S.dag.deps[i]>>] = evaluateDependent(sub, S, t, Q, S.dag.deps[i])
      BY Edges
    <3> HIDE DEF onEdge
    <3> QED
      BY <2>1, <3>1, Edges, DependentEvolves
  <2> HIDE DEF onEdge
  <2> QED
    BY <2>1, Edges, EvolvesRefl, FoldEvolves
<1> HIDE DEF swept
<1>3. Evolves(S, released)
  <2>1. ASSUME NEW Q \in RuntimeState, NEW i \in DOMAIN S.dag.deps, Evolves(S, Q)
        PROVE  Evolves(Q, release[<<Q, S.dag.deps[i]>>])
    <3> DEFINE e == S.dag.deps[i]
    <3>1. release[<<Q, e>>] = IF e.task = t /\ Q.dag.fanout[e.on] > 0
                              THEN sub.evaluate[<<Q, e.on>>] ELSE Q
      BY Edges DEF releaseFanoutParent
    <3>2. e.on \in Tasks
      BY Edges, EdgeTasks
    <3> HIDE DEF e, release
    <3>3. Evolves(Q, release[<<Q, e>>])
      BY <3>1, <3>2, EvolvesRefl DEF Sound
    <3> QED
      BY <3>3 DEF e
  <2> HIDE DEF release
  <2> QED
    BY <1>2, <2>1, Edges, FoldEvolves
<1> HIDE DEF released
<1>4. Evolves(S, last)
  BY <1>2, <1>3
<1> HIDE DEF last
<1>5. Evolves(S, checkWorkflowCompletion(last))
  BY <1>4, EvolvesState, CompletionEvolves, EvolvesTrans
<1> QED
  BY <1>1, <1>5, EvolvesRefl

LEMMA CascadeEvolves ==
    ASSUME NEW sub, Sound(sub), NEW S \in RuntimeState, NEW t \in Tasks
    PROVE  Evolves(S, cancelDependentTasks(sub, S, t))
<1> DEFINE step == [x \in RuntimeState \X Edge |-> cancelDependent(sub, S, t, x[1], x[2])]
<1>1. ASSUME NEW Q \in RuntimeState, NEW i \in DOMAIN S.dag.deps, Evolves(S, Q)
      PROVE  Evolves(Q, step[<<Q, S.dag.deps[i]>>])
  <2> DEFINE e == S.dag.deps[i]
             C == cancelTask(sub, Q, e.task, "failed")
             F == updateTaskStatus(sub, Q, e.task, "failed")
  <2>0. "failed" \in Terminal
    BY DEF Terminal
  <2>1. step[<<Q, e>>] = cancelDependent(sub, S, t, Q, e)
    BY Edges
  <2>2. e \in ToSet(S.dag.deps) /\ e.task \in Tasks
    BY Edges, EdgeTasks
  <2> HIDE DEF e, step
  <2>3. CASE Q.thrown \/ e \notin getTaskDependents(S, t)
             \/ Q.st[e.task] \notin {"running", "pending", "blocked", "queued"}
    BY <2>1, <2>3, EvolvesRefl DEF cancelDependent, e
  <2>4. CASE ~ (Q.thrown \/ e \notin getTaskDependents(S, t)) /\ Q.st[e.task] = "running"
    <3>1. step[<<Q, e>>] = sub.cascade[<<C, e.task>>]
      BY <2>1, <2>4 DEF cancelDependent
    <3>2. Evolves(Q, C)
      BY <2>0, <2>2, <2>4, CancelEvolves
    <3> HIDE DEF C
    <3>3. Evolves(C, sub.cascade[<<C, e.task>>])
      BY <2>2, <3>2, EvolvesState DEF Sound
    <3> QED
      BY <3>1, <3>2, <3>3, EvolvesTrans DEF e
  <2>5. CASE ~ (Q.thrown \/ e \notin getTaskDependents(S, t))
             /\ Q.st[e.task] \in {"pending", "blocked", "queued"}
    <3>1. step[<<Q, e>>] = sub.cascade[<<F, e.task>>]
      BY <2>1, <2>5 DEF cancelDependent
    <3>2. Evolves(Q, F)
      BY <2>0, <2>2, <2>5, UpdateEvolves
    <3> HIDE DEF F
    <3>3. Evolves(F, sub.cascade[<<F, e.task>>])
      BY <2>2, <3>2, EvolvesState DEF Sound
    <3> QED
      BY <3>1, <3>2, <3>3, EvolvesTrans DEF e
  <2> QED
    BY <2>3, <2>4, <2>5
<1>2. cancelDependentTasks(sub, S, t) = Fold(step, S, S.dag.deps)
  BY DEF cancelDependentTasks
<1> HIDE DEF step
<1> QED
  BY <1>1, <1>2, Edges, EvolvesRefl, FoldEvolves

\* A frame whose calls respect the relation respects it.
LEMMA FrameSound ==
    ASSUME NEW sub, Sound(sub)
    PROVE  Sound(frame(sub))
<1>1. ASSUME NEW S \in RuntimeState, NEW t \in Tasks
      PROVE  /\ frame(sub).evaluate[<<S, t>>] = evaluateWorkflowDependencies(sub, S, t)
             /\ frame(sub).cascade[<<S, t>>] = cancelDependentTasks(sub, S, t)
  BY DEF frame
<1>2. ASSUME NEW S \in RuntimeState PROVE frame(sub).drain[S] = drainPending(sub, S)
  BY DEF frame
<1> QED
  BY <1>1, <1>2, EvaluationEvolves, CascadeEvolves, DrainEvolves DEF Sound

LEMMA OverflowSound == Sound(overflow)
<1>1. ASSUME NEW S \in RuntimeState, NEW t \in Tasks
      PROVE  /\ overflow.evaluate[<<S, t>>] = [S EXCEPT !.thrown = TRUE]
             /\ overflow.cascade[<<S, t>>] = [S EXCEPT !.thrown = TRUE]
  BY DEF overflow
<1>2. ASSUME NEW S \in RuntimeState PROVE overflow.drain[S] = [S EXCEPT !.thrown = TRUE]
  BY DEF overflow
<1> QED
  BY <1>1, <1>2, FlagWrites DEF Sound

\* The recursion that closes the frames is a function.
LEMMA CallsDef ==
    calls = [n \in 0..MaxNesting |-> IF n = 0 THEN overflow ELSE frame(calls[n - 1])]
<1> DEFINE upto(f, n) == f = [k \in 0..n |-> IF k = 0 THEN overflow ELSE frame(f[k - 1])]
           T == {n \in Nat : \E f : upto(f, n)}
<1>1. 0 \in T
  <2> DEFINE f == [k \in 0..0 |-> overflow]
  <2>1. upto(f, 0)
    OBVIOUS
  <2> QED
    BY <2>1
<1>2. ASSUME NEW n \in T PROVE n + 1 \in T
  <2>1. PICK f : upto(f, n)
    OBVIOUS
  <2> DEFINE g == [k \in 0..(n + 1) |-> IF k = n + 1 THEN frame(f[n]) ELSE f[k]]
  <2>2. \A k \in 0..(n + 1) : g[k] = IF k = 0 THEN overflow ELSE frame(g[k - 1])
    <3> TAKE k \in 0..(n + 1)
    <3>1. CASE k = 0
      BY <2>1, <3>1
    <3>2. CASE k = n + 1
      <4>1. k - 1 = n /\ k # 0 /\ n \in 0..(n + 1) /\ n # n + 1
        BY <3>2
      <4>2. g[k] = frame(f[n]) /\ g[n] = f[n]
        BY <3>2, <4>1
      <4> QED
        BY <4>1, <4>2
    <3>3. CASE k \in 1..n
      <4>1. k - 1 \in 0..n /\ k # n + 1 /\ k - 1 # n + 1 /\ k - 1 \in 0..(n + 1) /\ k \in 0..n
        BY <3>3
      <4>2. g[k] = f[k] /\ g[k - 1] = f[k - 1]
        BY <4>1
      <4>3. f[k] = frame(f[k - 1])
        BY <2>1, <3>3, <4>1
      <4>4. k # 0
        BY <3>3
      <4> HIDE DEF g
      <4> QED
        BY <4>2, <4>3, <4>4
    <3> QED
      BY <3>1, <3>2, <3>3
  <2>3. upto(g, n + 1)
    <3> DEFINE h == [k \in 0..(n + 1) |-> IF k = 0 THEN overflow ELSE frame(g[k - 1])]
    <3>1. DOMAIN g = DOMAIN h /\ \A k \in DOMAIN g : g[k] = h[k]
      BY <2>2
    <3>2. g = h
      BY <3>1
    <3> QED
      BY <3>2
  <2>4. n + 1 \in Nat
    OBVIOUS
  <2>5. \E h : upto(h, n + 1)
    <3> HIDE DEF upto, g
    <3> QED
      BY <2>3, Zenon
  <2> QED
    BY <2>4, <2>5
<1>3. T = Nat
  <2> HIDE DEF T
  <2>1. T \in SUBSET Nat
    BY DEF T
  <2> QED
    BY <1>1, <1>2, <2>1, NatInd
<1>4. MaxNesting \in Nat
  BY DagAssumption
<1>5. \E f : upto(f, MaxNesting)
  BY <1>3, <1>4
<1> QED
  BY <1>5 DEF calls

\* Every handler that enters the recursion, with whatever stack is left,
\* respects the relation.
LEMMA TopSound == Sound(Top)
<1> DEFINE T == {n \in Nat : n <= MaxNesting => Sound(calls[n])}
<1>0. MaxNesting \in Nat
  BY DagAssumption
<1>1. 0 \in T
  <2>1. calls[0] = overflow
    BY <1>0, CallsDef
  <2> QED
    BY <2>1, OverflowSound
<1>2. ASSUME NEW n \in T PROVE n + 1 \in T
  <2> SUFFICES ASSUME n + 1 <= MaxNesting PROVE Sound(calls[n + 1])
    OBVIOUS
  <2>1. n + 1 \in 0..MaxNesting /\ n + 1 # 0 /\ (n + 1) - 1 = n /\ n <= MaxNesting
    BY <1>0
  <2>2. calls[n + 1] = frame(calls[n])
    BY <2>1, CallsDef
  <2>3. Sound(calls[n])
    BY <2>1
  <2> QED
    BY <2>2, <2>3, FrameSound
<1>3. T = Nat
  <2> HIDE DEF T
  <2>1. T \in SUBSET Nat
    BY DEF T
  <2> QED
    BY <1>1, <1>2, <2>1, NatInd
<1>4. MaxNesting \in T
  BY <1>0, <1>3
<1> QED
  BY <1>0, <1>4 DEF Top
-----------------------------------------------------------------------------
(* The handlers. *)

\* What every step may do to the workflow: the facts of Evolves that also the
\* operators' requests respect.
Allowed(S, Q) ==
    /\ Q \in RuntimeState
    /\ Q.dag = S.dag
    /\ \A t \in Tasks : S.st[t] = "blocked" /\ Q.st[t] \in Going /\ Strict(S, t)
                        => Released(S, Q, t)
    /\ \A t \in Tasks : S.st[t] \in Terminal /\ Q.st[t] \in Terminal => Q.st[t] = S.st[t]
    /\ S.wf # "completed" /\ Q.wf = "completed" => \A t \in Tasks : Q.st[t] # "failed"
    /\ S.wf \in Closed /\ Q.wf # S.wf => Q.wf \in {"running", "cancelled"}

LEMMA EvolvesAllowed ==
    ASSUME NEW S, NEW Q, Evolves(S, Q)
    PROVE  Allowed(S, Q)
BY DEF Evolves, Allowed, StatusEvolves

LEMMA NowState ==
    ASSUME TypeOK
    PROVE  /\ Now \in RuntimeState
           /\ Now.st = task /\ Now.wf = wf /\ Now.dag = dag /\ ~ Now.thrown
<1>1. dag \in Workflow /\ <<>> \in Seq(Tasks)
  BY RuntimeAssumption DEF TypeOK
<1>2. Now.st = task /\ Now.wf = wf /\ Now.dag = dag /\ ~ Now.thrown
  BY DEF Now
<1>3. task \in [Tasks -> TaskStatus] /\ wf \in WorkflowStatus
  BY DEF TypeOK
<1>4. Now \in RuntimeState
  BY <1>1, <1>3 DEF RuntimeState, Now
<1> QED
  BY <1>2, <1>4

LEMMA OrderSeq == Order \in Seq(Tasks) /\ Reverse(Order) \in Seq(Tasks)
<1>1. Order \in Seq(Tasks)
  BY RuntimeAssumption
<1>2. Reverse(Order) \in Seq(Tasks)
  <2> DEFINE R == [i \in 1..Len(Order) |-> Order[(Len(Order) - i) + 1]]
  <2>1. Len(Order) \in Nat /\ \A i \in 1..Len(Order) : (Len(Order) - i) + 1 \in 1..Len(Order)
    BY <1>1
  <2>2. R \in [1..Len(Order) -> Tasks]
    BY <1>1, <2>1
  <2> QED
    BY <2>1, <2>2 DEF Reverse
<1> QED
  BY <1>1, <1>2

\* A loop over the tasks of the workflow.
LEMMA TaskLoopEvolves ==
    ASSUME NEW S \in RuntimeState, NEW Q0, Evolves(S, Q0), NEW s \in Seq(Tasks), NEW step,
           \A Q \in RuntimeState, t \in Tasks : Evolves(S, Q) => Evolves(Q, step[<<Q, t>>])
    PROVE  Evolves(S, Fold(step, Q0, s))
<1>1. \A i \in DOMAIN s : s[i] \in Tasks
  OBVIOUS
<1> QED
  BY <1>1, FoldEvolves

\* A running task, or one that waits for its retry, is queued again.
LEMMA RequeueEvolves ==
    ASSUME NEW sub, NEW S \in RuntimeState, NEW t \in Tasks,
           S.st[t] \in {"queued", "running", "retry_scheduled"}
    PROVE  /\ Evolves(S, [S EXCEPT !.st[t] = "queued"])
           /\ Evolves(S, updateTaskStatus(sub, S, t, "queued"))
<1>1. "queued" \in TaskStatus /\ StatusEvolves(S.st[t], "queued") /\ S.st[t] # "blocked"
  BY DEF TaskStatus, Runnable, StatusEvolves, Going, Terminal
<1>2. Evolves(S, [S EXCEPT !.st[t] = "queued"])
  BY <1>1, WriteEvolves
<1>3. CASE S.thrown
  BY <1>2, <1>3, EvolvesRefl DEF updateTaskStatus
<1>4. CASE ~ S.thrown
  BY <1>2, <1>4, UpdateLive
<1> QED
  BY <1>2, <1>3, <1>4

LEMMA ReconcileTasksEvolve ==
    ASSUME NEW S \in RuntimeState, NEW t \in Tasks, NEW fate
    PROVE  Evolves(S, cleanupOrphan(S, t, fate)) /\ Evolves(S, reconcileOrphan(S, t, fate))
<1>0. {"failed", "completed", "cancelled"} \subseteq Terminal
  BY DEF Terminal
<1>1. Evolves(S, cleanupOrphan(S, t, fate))
  <2>1. CASE S.st[t] # "running" \/ S.wf = "running"
    BY <2>1, EvolvesRefl DEF cleanupOrphan
  <2>2. CASE ~ (S.st[t] # "running" \/ S.wf = "running") /\ fate = "exhausted"
    BY <1>0, <2>2, CancelEvolves, TopSound DEF cleanupOrphan
  <2>3. CASE ~ (S.st[t] # "running" \/ S.wf = "running") /\ fate # "exhausted"
    BY <2>3, RequeueEvolves DEF cleanupOrphan
  <2> QED
    BY <2>1, <2>2, <2>3
<1>2. Evolves(S, reconcileOrphan(S, t, fate))
  <2>1. CASE S.st[t] = "retry_scheduled" /\ fate = "exhausted"
    BY <1>0, <2>1, UpdateEvolves, TopSound DEF reconcileOrphan
  <2>2. CASE S.st[t] = "retry_scheduled" /\ fate # "exhausted"
    BY <2>2, RequeueEvolves DEF reconcileOrphan
  <2>3. CASE \/ S.st[t] \notin {"retry_scheduled", "running"}
             \/ S.st[t] = "running" /\ fate = "adopted"
    BY <2>3, EvolvesRefl DEF reconcileOrphan
  <2>4. CASE S.st[t] = "running" /\ fate = "finished"
    BY <1>0, <2>4, UpdateEvolves, TopSound DEF reconcileOrphan
  <2>5. CASE S.st[t] = "running" /\ fate \notin {"adopted", "finished"} /\ S.wf # "running"
    BY <2>5, EvolvesRefl DEF reconcileOrphan
  <2>6. CASE S.st[t] = "running" /\ fate = "exhausted" /\ S.wf = "running"
    BY <1>0, <2>6, EndEvolves DEF reconcileOrphan, Terminal
  <2>7. CASE S.st[t] = "running" /\ fate \notin {"adopted", "finished", "exhausted"}
             /\ S.wf = "running"
    BY <2>7, RequeueEvolves DEF reconcileOrphan
  <2> QED
    BY <2>1, <2>2, <2>3, <2>4, <2>5, <2>6, <2>7
<1> QED
  BY <1>1, <1>2

LEMMA ReconcileWorkflowEvolves ==
    ASSUME NEW S \in RuntimeState
    PROVE  Evolves(S, reconcileWorkflowsOnStartup(S))
<1> DEFINE reready == [x \in RuntimeState \X Tasks |-> rereadyTask(x[1], x[2])]
           replay == [x \in RuntimeState \X Tasks |-> replayTermination(S, x[1], x[2])]
           ready == Fold(reready, S, Order)
           replayed == Fold(replay, ready, Order)
<1>1. reconcileWorkflowsOnStartup(S)
        = IF S.wf \notin {"running", "paused"} THEN S ELSE checkWorkflowCompletion(replayed)
  BY DEF reconcileWorkflowsOnStartup
<1>2. Evolves(S, ready)
  <2>1. ASSUME NEW Q \in RuntimeState, NEW t \in Tasks PROVE Evolves(Q, reready[<<Q, t>>])
    <3>1. reready[<<Q, t>>] = rereadyTask(Q, t)
      OBVIOUS
    <3>2. CASE Q.st[t] # "blocked"
      BY <3>1, <3>2, EvolvesRefl DEF rereadyTask
    <3>3. CASE Q.st[t] = "blocked" /\ areTaskDependenciesSatisfied(Q, t)
      <4>1. depsTerminal(Q, t)
        BY <3>3 DEF areTaskDependenciesSatisfied
      <4> QED
        BY <3>1, <3>3, <4>1, ReadyTasks, UnblockEvolves DEF rereadyTask
    <3>4. CASE Q.st[t] = "blocked" /\ ~ areTaskDependenciesSatisfied(Q, t)
      BY <3>1, <3>4, SkipEvolves DEF rereadyTask
    <3> QED
      BY <3>2, <3>3, <3>4
  <2> HIDE DEF reready
  <2> QED
    BY <2>1, EvolvesRefl, OrderSeq, TaskLoopEvolves
<1> HIDE DEF ready
<1>3. Evolves(S, replayed)
  <2>1. ASSUME NEW Q \in RuntimeState, NEW t \in Tasks PROVE Evolves(Q, replay[<<Q, t>>])
    <3>1. replay[<<Q, t>>] = replayTermination(S, Q, t)
      OBVIOUS
    <3> QED
      BY <3>1, EvolvesRefl, TerminationEvolves, TopSound DEF replayTermination
  <2> HIDE DEF replay
  <2> QED
    BY <1>2, <2>1, OrderSeq, TaskLoopEvolves
<1> HIDE DEF replayed
<1>4. Evolves(S, checkWorkflowCompletion(replayed))
  BY <1>3, EvolvesState, CompletionEvolves, EvolvesTrans
<1> QED
  BY <1>1, <1>4, EvolvesRefl

\* The restart of the server as a whole.
LEMMA RestartEvolves ==
    ASSUME TypeOK, restartServer
    PROVE  \E Q : Evolves(Now, Q) /\ Commit(Q)
<1> PICK fate :
      LET cleanup == [x \in RuntimeState \X Tasks |-> cleanupOrphan(x[1], x[2], fate[x[2]])]
          orphan == [x \in RuntimeState \X Tasks |-> reconcileOrphan(x[1], x[2], fate[x[2]])]
      IN  Commit(reconcileWorkflowsOnStartup(
                   Fold(orphan, Fold(cleanup, Now, Order), Reverse(Order))))
  BY DEF restartServer
<1> DEFINE cleanup == [x \in RuntimeState \X Tasks |-> cleanupOrphan(x[1], x[2], fate[x[2]])]
           orphan == [x \in RuntimeState \X Tasks |-> reconcileOrphan(x[1], x[2], fate[x[2]])]
           cleaned == Fold(cleanup, Now, Order)
           reconciled == Fold(orphan, cleaned, Reverse(Order))
           Q == reconcileWorkflowsOnStartup(reconciled)
<1>1. Commit(Q)
  OBVIOUS
<1>2. Now \in RuntimeState
  BY NowState
<1>3. Evolves(Now, cleaned)
  <2>1. ASSUME NEW R \in RuntimeState, NEW t \in Tasks PROVE Evolves(R, cleanup[<<R, t>>])
    <3>1. cleanup[<<R, t>>] = cleanupOrphan(R, t, fate[t])
      OBVIOUS
    <3> QED
      BY <3>1, ReconcileTasksEvolve
  <2> HIDE DEF cleanup
  <2> QED
    BY <1>2, <2>1, EvolvesRefl, OrderSeq, TaskLoopEvolves
<1> HIDE DEF cleaned
<1>4. Evolves(Now, reconciled)
  <2>1. ASSUME NEW R \in RuntimeState, NEW t \in Tasks PROVE Evolves(R, orphan[<<R, t>>])
    <3>1. orphan[<<R, t>>] = reconcileOrphan(R, t, fate[t])
      OBVIOUS
    <3> QED
      BY <3>1, ReconcileTasksEvolve
  <2> HIDE DEF orphan
  <2> QED
    BY <1>2, <1>3, <2>1, OrderSeq, TaskLoopEvolves
<1> HIDE DEF reconciled
<1>5. Evolves(Now, Q)
  BY <1>2, <1>4, EvolvesState, ReconcileWorkflowEvolves, EvolvesTrans
<1> HIDE DEF Q
<1> QED
  BY <1>1, <1>5
\* The handlers whose whole effect is the runtime's.
LEMMA TaskHandlersEvolve ==
    ASSUME TypeOK, NEW t \in Tasks,
           \/ startTask(t) \/ finalizeTask(t) \/ lateTermination(t) \/ retryTimer(t)
           \/ handleCancelTask(t) \/ handleSkipTask(t)
    PROVE  \E Q : Evolves(Now, Q) /\ Commit(Q)
<1>0. /\ Now \in RuntimeState /\ Now.st = task /\ Sound(Top)
      /\ {"completed", "failed", "cancelled", "skipped"} \subseteq Terminal
  BY NowState, TopSound DEF Terminal
<1>1. CASE startTask(t)
  <2>1. Now.st[t] = "queued" /\ Commit([Now EXCEPT !.st[t] = "running"])
    BY <1>0, <1>1 DEF startTask
  <2>2. "running" \in TaskStatus /\ StatusEvolves("queued", "running")
    BY DEF TaskStatus, Runnable, StatusEvolves, Going, Terminal
  <2>3. Evolves(Now, [Now EXCEPT !.st[t] = "running"])
    BY <1>0, <2>1, <2>2, WriteEvolves
  <2> QED
    BY <2>1, <2>3
<1>2. CASE finalizeTask(t)
  <2>1. PICK status \in {"completed", "failed"} : Commit(updateTaskStatus(Top, Now, t, status))
    BY <1>2 DEF finalizeTask
  <2>2. Now.st[t] # "absent" /\ status \in Terminal
    BY <1>0, <1>2 DEF finalizeTask
  <2>3. Evolves(Now, updateTaskStatus(Top, Now, t, status))
    BY <1>0, <2>2, UpdateEvolves
  <2> QED
    BY <2>1, <2>3
<1>3. CASE lateTermination(t)
  <2>1. Evolves(Now, handleWorkflowTermination(Top, Now, t))
    BY <1>0, TerminationEvolves
  <2> QED
    BY <1>3, <2>1 DEF lateTermination
<1>4. CASE retryTimer(t)
  <2>1. Now.st[t] = "retry_scheduled" /\ Commit([Now EXCEPT !.st[t] = "queued"])
    BY <1>0, <1>4 DEF retryTimer
  <2>2. Evolves(Now, [Now EXCEPT !.st[t] = "queued"])
    BY <1>0, <2>1, RequeueEvolves
  <2> QED
    BY <2>1, <2>2
<1>5. CASE handleCancelTask(t)
  <2>1. Now.st[t] # "absent" /\ Commit(cancelTask(Top, Now, t, "cancelled"))
    BY <1>0, <1>5 DEF handleCancelTask
  <2>2. Evolves(Now, cancelTask(Top, Now, t, "cancelled"))
    BY <1>0, <2>1, CancelEvolves
  <2> QED
    BY <2>1, <2>2
<1>6. CASE handleSkipTask(t)
  <2> DEFINE K == updateTaskStatus(Top, Now, t, "skipped")
             C == updateWorkflowCounts(K)
             Q == handleWorkflowTermination(Top, C, t)
  <2>1. Now.st[t] # "absent" /\ Commit(Q)
    BY <1>0, <1>6 DEF handleSkipTask
  <2>2. Evolves(Now, K)
    BY <1>0, <2>1, UpdateEvolves
  <2> HIDE DEF K
  <2>3. Evolves(K, C)
    BY <2>2, EvolvesState, CountsEvolve
  <2> HIDE DEF C
  <2>4. Evolves(C, Q)
    BY <1>0, <2>3, EvolvesState, TerminationEvolves
  <2> HIDE DEF Q
  <2>5. Evolves(Now, C)
    BY <1>0, <2>2, <2>3, EvolvesTrans
  <2>6. Evolves(Now, Q)
    BY <1>0, <2>4, <2>5, EvolvesTrans
  <2> QED
    BY <2>1, <2>6
<1> QED
  BY <1>1, <1>2, <1>3, <1>4, <1>5, <1>6

LEMMA ResumeEvolves ==
    ASSUME TypeOK, handleResumeWorkflow
    PROVE  \E Q : Evolves(Now, Q) /\ Commit(Q)
<1> DEFINE resume == [x \in RuntimeState \X Tasks |-> resumeTask(x[1], x[2])]
           done == Fold(resume, Now, Order)
           status == IF Some(done, "failed") THEN "failed" ELSE "completed"
           Q == IF AllTerminal(done) THEN [done EXCEPT !.wf = status] ELSE done
<1>0. Now \in RuntimeState /\ Now.wf = wf
  BY NowState
<1>1. Commit(Q) /\ wf \notin Closed
  BY DEF handleResumeWorkflow
<1>2. Evolves(Now, done)
  <2>1. ASSUME NEW S \in RuntimeState, NEW t \in Tasks PROVE Evolves(S, resume[<<S, t>>])
    <3>1. resume[<<S, t>>] = resumeTask(S, t)
      OBVIOUS
    <3>2. CASE S.st[t] # "blocked"
      BY <3>1, <3>2, EvolvesRefl DEF resumeTask
    <3>3. CASE S.st[t] = "blocked" /\ isTaskUnblockable(S, t)
      <4>1. "queued" \in TaskStatus /\ StatusEvolves("blocked", "queued")
        BY DEF TaskStatus, Runnable, StatusEvolves, Going, Terminal
      <4>2. Evolves(S, [S EXCEPT !.st[t] = "queued"])
        BY <3>3, <4>1, ReadyTasks, WriteEvolves
      <4> QED
        BY <3>1, <3>3, <4>2 DEF resumeTask
    <3>4. CASE S.st[t] = "blocked" /\ ~ isTaskUnblockable(S, t)
      BY <3>1, <3>4, SkipEvolves DEF resumeTask
    <3> QED
      BY <3>2, <3>3, <3>4
  <2> HIDE DEF resume
  <2> QED
    BY <1>0, <2>1, EvolvesRefl, OrderSeq, TaskLoopEvolves
<1>3. done.wf = wf
  <2> DEFINE X == {S \in RuntimeState : S.wf = wf}
  <2>1. ASSUME NEW S \in X, NEW i \in DOMAIN Order PROVE resume[<<S, Order[i]>>] \in X
    <3>1. Order[i] \in Tasks /\ {"queued", "skipped"} \subseteq TaskStatus
      BY OrderSeq DEF TaskStatus, Runnable, Terminal
    <3>2. resume[<<S, Order[i]>>] = resumeTask(S, Order[i])
      BY <3>1
    <3> DEFINE t == Order[i]
    <3>3. \/ resumeTask(S, t) = S
          \/ resumeTask(S, t) = [S EXCEPT !.st[t] = "queued"]
          \/ resumeTask(S, t) = [S EXCEPT !.st[t] = "skipped"]
      BY DEF resumeTask, skipTaskBecauseAllConditionsFailed
    <3> HIDE DEF t, resume
    <3>4. \A x \in {"queued", "skipped"} : [S EXCEPT !.st[t] = x] \in X
      BY <3>1, StatusWrite DEF t
    <3> QED
      BY <3>2, <3>3, <3>4 DEF t
  <2>2. Now \in X
    BY <1>0
  <2> HIDE DEF X, resume
  <2>3. done \in X
    BY <2>1, <2>2, OrderSeq, FoldIn
  <2> QED
    BY <2>3 DEF X
<1> HIDE DEF done
<1>4. done \in RuntimeState
  BY <1>2, EvolvesState
<1>5. Evolves(done, Q)
  <2>1. CASE AllTerminal(done)
    <3>1. status \in WorkflowStatus /\ (status = "completed" => ~ Some(done, "failed"))
      BY DEF WorkflowStatus, Closed
    <3> HIDE DEF status
    <3> DEFINE V == [done EXCEPT !.wf = status]
    <3>2. V \in RuntimeState /\ V.st = done.st /\ V.dag = done.dag /\ V.wf = status
      BY <1>4, <3>1, VerdictWrite
    <3>3. Q = V
      BY <2>1
    <3> HIDE DEF V, Q
    <3> QED
      BY <1>1, <1>3, <1>4, <2>1, <3>1, <3>2, <3>3, VerdictEvolves
  <2>2. CASE ~ AllTerminal(done)
    BY <1>4, <2>2, EvolvesRefl
  <2> QED
    BY <2>1, <2>2
<1>6. Evolves(Now, Q)
  <2> HIDE DEF Q
  <2> QED
    BY <1>0, <1>2, <1>5, EvolvesTrans
<1> HIDE DEF Q
<1> QED
  BY <1>1, <1>6

LEMMA ListEvolves ==
    ASSUME TypeOK, listWorkflows
    PROVE  \E Q : Evolves(Now, Q) /\ Commit(Q)
BY NowState, StaleEvolves DEF listWorkflows

-----------------------------------------------------------------------------
(* Requests that write more than the runtime does. *)

LEMMA StartPendingState ==
    ASSUME NEW S \in RuntimeState
    PROVE  LET Q == startPending(S)
           IN  /\ Q \in RuntimeState /\ Q.dag = S.dag /\ Q.wf = S.wf
               /\ \A t \in Tasks : Q.st[t] = IF S.st[t] = "pending" THEN "queued" ELSE S.st[t]
<1>1. "queued" \in TaskStatus
  BY DEF TaskStatus, Runnable
<1>2. S.st \in [Tasks -> TaskStatus]
  BY DEF RuntimeState
<1> DEFINE new == [t \in Tasks |-> IF S.st[t] = "pending" THEN "queued" ELSE S.st[t]]
<1>3. new \in [Tasks -> TaskStatus]
  BY <1>1, <1>2
<1>4. \A t \in Tasks : new[t] = IF S.st[t] = "pending" THEN "queued" ELSE S.st[t]
  OBVIOUS
<1>5. startPending(S) = [S EXCEPT !.st = new]
  BY DEF startPending
<1> HIDE DEF new
<1>6. /\ [S EXCEPT !.st = new] \in RuntimeState /\ [S EXCEPT !.st = new].st = new
      /\ [S EXCEPT !.st = new].dag = S.dag /\ [S EXCEPT !.st = new].wf = S.wf
  BY <1>3 DEF RuntimeState
<1> QED
  BY <1>4, <1>5, <1>6

LEMMA SimpleRequestsAllowed ==
    ASSUME TypeOK, (\E t \in Tasks : scheduleRetry(t)) \/ handleRunWorkflow \/ handlePauseWorkflow
    PROVE  \E Q : Allowed(Now, Q) /\ Commit(Q)
<1>0. Now \in RuntimeState /\ Now.st = task /\ Now.wf = wf
  BY NowState
<1>1. {"running", "paused"} \subseteq WorkflowStatus /\ "retry_scheduled" \in TaskStatus
  BY DEF WorkflowStatus, TaskStatus
<1>2. ASSUME NEW t \in Tasks, scheduleRetry(t) PROVE \E Q : Allowed(Now, Q) /\ Commit(Q)
  <2> DEFINE Q == [Now EXCEPT !.st[t] = "retry_scheduled"]
  <2>1. Commit(Q)
    BY <1>2 DEF scheduleRetry
  <2>2. /\ Q \in RuntimeState /\ Q.dag = Now.dag /\ Q.wf = Now.wf
        /\ Q.st = [Now.st EXCEPT ![t] = "retry_scheduled"]
    BY <1>0, <1>1, StatusWrite
  <2> HIDE DEF Q
  <2>3. \A u \in Tasks : Q.st[u] = Now.st[u] \/ Q.st[u] = "retry_scheduled"
    BY <1>0, <2>2 DEF RuntimeState
  <2>4. Allowed(Now, Q)
    BY <2>2, <2>3 DEF Allowed, Going, Terminal
  <2> QED
    BY <2>1, <2>4
<1>3. CASE handleRunWorkflow
  <2> DEFINE S == reconcileStaleWorkflows(Now)
             R == [S EXCEPT !.wf = "running"]
             Q == startPending(R)
  <2>1. Commit(Q)
    BY <1>3 DEF handleRunWorkflow
  <2>2. S \in RuntimeState /\ S.dag = Now.dag /\ S.st = Now.st
    BY <1>0, StaleEvolves, EvolvesState
  <2> HIDE DEF S
  <2>3. R \in RuntimeState /\ R.dag = Now.dag /\ R.st = Now.st /\ R.wf = "running"
    BY <1>1, <2>2, VerdictWrite
  <2> HIDE DEF R
  <2>4. /\ Q \in RuntimeState /\ Q.dag = Now.dag /\ Q.wf = "running"
        /\ \A u \in Tasks : Q.st[u] = IF Now.st[u] = "pending" THEN "queued" ELSE Now.st[u]
    BY <2>3, StartPendingState
  <2> HIDE DEF Q
  <2>5. Allowed(Now, Q)
    BY <2>4 DEF Allowed, Going, Terminal
  <2> QED
    BY <2>1, <2>5
<1>4. CASE handlePauseWorkflow
  <2> DEFINE Q == [Now EXCEPT !.wf = "paused"]
  <2>1. Commit(Q) /\ Now.wf = "running"
    BY <1>0, <1>4 DEF handlePauseWorkflow
  <2>2. Q \in RuntimeState /\ Q.dag = Now.dag /\ Q.st = Now.st /\ Q.wf = "paused"
    BY <1>0, <1>1, VerdictWrite
  <2> HIDE DEF Q
  <2>3. Allowed(Now, Q)
    BY <2>1, <2>2 DEF Allowed, Going, Closed
  <2> QED
    BY <2>1, <2>3
<1> QED
  BY <1>2, <1>3, <1>4

LEMMA CancelWorkflowAllowed ==
    ASSUME TypeOK, handleCancelWorkflow
    PROVE  \E Q : Allowed(Now, Q) /\ Commit(Q)
<1> DEFINE cancel == [x \in RuntimeState \X Tasks |-> cancelOne(x[1], x[2])]
           done == Fold(cancel, Now, Order)
           Q == [done EXCEPT !.wf = "cancelled"]
<1>0. Now \in RuntimeState /\ "cancelled" \in WorkflowStatus /\ "cancelled" \in Terminal
  BY NowState DEF WorkflowStatus, Closed, Terminal
<1>1. Commit(Q)
  BY DEF handleCancelWorkflow
<1>2. Evolves(Now, done)
  <2>1. ASSUME NEW S \in RuntimeState, NEW t \in Tasks PROVE Evolves(S, cancel[<<S, t>>])
    <3>1. cancel[<<S, t>>] = cancelOne(S, t)
      OBVIOUS
    <3>2. CASE S.st[t] = "running"
      BY <1>0, <3>1, <3>2, CancelEvolves, TopSound DEF cancelOne
    <3>3. CASE S.st[t] \in {"pending", "blocked", "queued"}
      BY <1>0, <3>1, <3>3, UpdateEvolves, TopSound DEF cancelOne
    <3>4. CASE S.st[t] \notin {"running", "pending", "blocked", "queued"}
      BY <3>1, <3>4, EvolvesRefl DEF cancelOne
    <3> QED
      BY <3>2, <3>3, <3>4
  <2> HIDE DEF cancel
  <2> QED
    BY <1>0, <2>1, EvolvesRefl, OrderSeq, TaskLoopEvolves
<1> HIDE DEF done
<1>3. Q \in RuntimeState /\ Q.dag = done.dag /\ Q.st = done.st /\ Q.wf = "cancelled"
  BY <1>0, <1>2, EvolvesState, VerdictWrite
<1> HIDE DEF Q
<1>4. Allowed(Now, Q)
  BY <1>2, <1>3 DEF Evolves, Allowed, Released, StatusEvolves
<1> QED
  BY <1>1, <1>4

\* A task that is added starts only when its prerequisites are over, and it
\* keeps the reopened workflow from being judged at once.
LEMMA AddTaskAllowed ==
    ASSUME TypeOK, NEW t \in Tasks, handleAddWorkflowTask(t)
    PROVE  \E Q : Allowed(Now, Q) /\ Commit(Q)
<1> DEFINE hasDeps == getTaskDependencies(Now, t) # {}
           first == IF hasDeps THEN "blocked" ELSE "pending"
           verdict == IF wf \in {"completed", "failed", "completed_with_errors"}
                      THEN "running" ELSE wf
           A == [Now EXCEPT !.st[t] = first, !.wf = verdict]
           counted == updateWorkflowCounts(A)
           Q == IF wf \in {"pending", "paused"} THEN counted
                ELSE IF ~ hasDeps THEN [counted EXCEPT !.st[t] = "queued"]
                ELSE IF depsTerminal(counted, t) THEN unblockTask(counted, t)
                ELSE counted
<1>0. Now \in RuntimeState /\ Now.st = task /\ Now.wf = wf /\ Now.dag = dag
  BY NowState
<1>1. Commit(Q) /\ Now.st[t] = "absent" /\ wf # "cancelled"
  BY <1>0 DEF handleAddWorkflowTask
<1>2. first \in TaskStatus /\ first \notin Terminal \cup {"absent"} /\ verdict \in WorkflowStatus
  BY DEF TypeOK, TaskStatus, WorkflowStatus, Closed, Terminal, Runnable
<1>3. /\ A \in RuntimeState /\ A.dag = Now.dag /\ A.wf = verdict
      /\ A.st = [Now.st EXCEPT ![t] = first]
  <2> HIDE DEF first, verdict
  <2>1. A = [[Now EXCEPT !.st[t] = first] EXCEPT !.wf = verdict]
    BY <1>0, <1>2 DEF RuntimeState, Now
  <2> DEFINE B == [Now EXCEPT !.st[t] = first]
  <2>2. B \in RuntimeState /\ B.dag = Now.dag /\ B.st = [Now.st EXCEPT ![t] = first]
    BY <1>0, <1>2, StatusWrite
  <2>3. A = [B EXCEPT !.wf = verdict]
    BY <2>1
  <2> HIDE DEF A, B
  <2> QED
    BY <1>2, <2>2, <2>3, VerdictWrite
<1> HIDE DEF A
<1>4. \A u \in Tasks : A.st[u] = IF u = t THEN first ELSE Now.st[u]
  BY <1>0, <1>3 DEF RuntimeState
<1>5. counted = A
  <2>1. ~ AllTerminal(A)
    BY <1>2, <1>4 DEF AllTerminal, getWorkflowTasks
  <2> QED
    BY <1>3, <2>1, CountsEvolve
<1>6. Evolves(A, Q) /\ Q.wf = A.wf
  <2>1. CASE wf \in {"pending", "paused"} \/ (hasDeps /\ ~ depsTerminal(A, t))
    BY <1>3, <1>5, <2>1, EvolvesRefl
  <2>2. CASE wf \notin {"pending", "paused"} /\ ~ hasDeps
    <3>1. Q = [A EXCEPT !.st[t] = "queued"]
      BY <1>5, <2>2
    <3>2. A.st[t] = "pending" /\ "queued" \in TaskStatus /\ StatusEvolves("pending", "queued")
      BY <1>4, <2>2 DEF TaskStatus, Runnable, StatusEvolves, Going, Terminal
    <3> HIDE DEF Q
    <3>3. Evolves(A, Q)
      BY <1>3, <3>1, <3>2, WriteEvolves
    <3>4. Q.wf = A.wf
      BY <1>3, <3>1, <3>2, StatusWrite
    <3> QED
      BY <3>3, <3>4
  <2>3. CASE wf \notin {"pending", "paused"} /\ hasDeps /\ depsTerminal(A, t)
    <3>1. Q = unblockTask(A, t)
      BY <1>5, <2>3
    <3>2. "queued" \in TaskStatus
      BY DEF TaskStatus, Runnable
    <3> HIDE DEF Q
    <3>3. Evolves(A, Q)
      BY <1>3, <2>3, <3>1, ReadyTasks, UnblockEvolves
    <3>4. Q.wf = A.wf
      BY <1>3, <3>1, <3>2, StatusWrite DEF unblockTask
    <3> QED
      BY <3>3, <3>4
  <2> QED
    BY <2>1, <2>2, <2>3
<1> HIDE DEF Q, first
<1>7. Q \in RuntimeState /\ Q.dag = Now.dag
  BY <1>3, <1>6, EvolvesState
<1>8. ASSUME NEW u \in Tasks, Now.st[u] = "blocked", Q.st[u] \in Going, Strict(Now, u)
      PROVE  Released(Now, Q, u)
  <2>1. A.st[u] = "blocked" /\ Strict(A, u)
    BY <1>1, <1>3, <1>4, <1>8 DEF Strict
  <2>2. Released(A, Q, u)
    BY <1>6, <1>8, <2>1 DEF Evolves
  <2>3. /\ getTaskDependencies(A, u) = getTaskDependencies(Now, u)
        /\ MayContinue(A, u) <=> MayContinue(Now, u)
    BY <1>3 DEF getTaskDependencies, MayContinue
  <2> SUFFICES ASSUME NEW e \in getTaskDependencies(Now, u)
               PROVE  \/ Q.st[e.on] \in Terminal
                      \/ MayContinue(Now, u) /\ ~ {Now.st[e.on], Q.st[e.on]} \subseteq Going
    BY DEF Released
  <2>4. e.on \in Tasks
    BY <1>0, EdgeTasks DEF getTaskDependencies
  <2>5. \/ Q.st[e.on] \in Terminal
        \/ MayContinue(Now, u) /\ ~ {A.st[e.on], Q.st[e.on]} \subseteq Going
    BY <2>2, <2>3 DEF Released
  <2> QED
    BY <1>1, <1>4, <2>4, <2>5 DEF Going
<1>9. Now.wf # "completed" /\ Q.wf = "completed" => \A u \in Tasks : Q.st[u] # "failed"
  BY <1>0, <1>3, <1>6
<1>10. Now.wf \in Closed /\ Q.wf # Now.wf => Q.wf \in {"running", "cancelled"}
  BY <1>0, <1>1, <1>3, <1>6 DEF Closed
<1>11. ASSUME NEW u \in Tasks, Now.st[u] \in Terminal PROVE Q.st[u] = Now.st[u]
  <2>1. A.st[u] = Now.st[u]
    BY <1>1, <1>4, <1>11 DEF Terminal
  <2>2. StatusEvolves(A.st[u], Q.st[u])
    BY <1>6 DEF Evolves
  <2> QED
    BY <1>11, <2>1, <2>2 DEF StatusEvolves
<1>12. Allowed(Now, Q)
  BY <1>7, <1>8, <1>9, <1>10, <1>11 DEF Allowed
<1> QED
  BY <1>1, <1>12
\* The breadth-first search of retry_workflow_from finds tasks.
LEMMA DownstreamSeq ==
    ASSUME TypeOK, NEW t \in Tasks
    PROVE  downstream(t) \in Seq(Tasks)
<1> DEFINE add(found, i, acc, e) ==
             IF e \in getTaskDependents(Now, found[i]) /\ e.task \notin ToSet(acc)
             THEN Append(acc, e.task) ELSE acc
           adding(found, i) == [x \in Seq(Tasks) \X Edge |-> add(found, i, x[1], x[2])]
           visit(found, i) == Fold(adding(found, i), found, dag.deps)
           visiting == [x \in Seq(Tasks) \X Nat |->
                          IF x[2] > Len(x[1]) THEN x[1] ELSE visit(x[1], x[2])]
           count == [i \in 1..Len(Order) |-> i]
<1>0. Now \in RuntimeState /\ Now.dag = dag
  BY NowState
<1>1. downstream(t) = Fold(visiting, <<t>>, count)
  BY DEF downstream
<1>2. ASSUME NEW found \in Seq(Tasks), NEW i PROVE visit(found, i) \in Seq(Tasks)
  <2>1. dag.deps \in Seq(Edge)
    BY <1>0, Edges
  <2>2. ASSUME NEW acc \in Seq(Tasks), NEW k \in DOMAIN dag.deps
        PROVE  adding(found, i)[<<acc, dag.deps[k]>>] \in Seq(Tasks)
    <3>0. dag.deps[k] \in Edge
      BY <2>1
    <3>1. dag.deps[k].task \in Tasks
      BY <3>0 DEF Edge
    <3>2. adding(found, i)[<<acc, dag.deps[k]>>] = add(found, i, acc, dag.deps[k])
      BY <3>0
    <3>3. Append(acc, dag.deps[k].task) \in Seq(Tasks)
      BY <3>1
    <3> HIDE DEF adding
    <3> QED
      BY <3>2, <3>3
  <2> HIDE DEF adding
  <2> QED
    BY <2>1, <2>2, FoldIn
<1>3. Len(Order) \in Nat /\ count \in Seq(Nat) /\ \A k \in DOMAIN count : count[k] \in Nat
  BY OrderSeq
<1> HIDE DEF visit
<1>4. ASSUME NEW found \in Seq(Tasks), NEW k \in DOMAIN count
      PROVE  visiting[<<found, count[k]>>] \in Seq(Tasks)
  <2>1. count[k] \in Nat
    BY <1>3
  <2> HIDE DEF count
  <2>2. visiting[<<found, count[k]>>]
          = IF count[k] > Len(found) THEN found ELSE visit(found, count[k])
    BY <2>1
  <2> QED
    BY <1>2, <2>2
<1>5. <<t>> \in Seq(Tasks)
  OBVIOUS
<1> HIDE DEF visiting, count
<1> DEFINE X == Seq(Tasks)
<1>6. \A found \in X, k \in DOMAIN count : visiting[<<found, count[k]>>] \in X
  BY <1>4
<1>7. <<t>> \in X
  BY <1>5
<1> HIDE DEF X
<1>8. Fold(visiting, <<t>>, count) \in X
  BY <1>3, <1>6, <1>7, FoldIn
<1> QED
  BY <1>1, <1>8 DEF X

\* A request's write of a status that is not terminal: it is made, or an
\* exception is unwinding the stack and nothing is written.
LEMMA RequestWrite ==
    ASSUME NEW sub, NEW S \in RuntimeState, NEW t \in Tasks, NEW to \in {"blocked", "pending"}
    PROVE  LET Q == updateTaskStatus(sub, S, t, to)
           IN  /\ Q \in RuntimeState /\ Q.dag = S.dag /\ Q.wf = S.wf
               /\ \/ Q.st = [S.st EXCEPT ![t] = to]
                  \/ Q.st = S.st /\ Q.thrown
<1>1. CASE S.thrown
  <2>1. updateTaskStatus(sub, S, t, to) = S
    BY <1>1 DEF updateTaskStatus
  <2> QED
    BY <1>1, <2>1
<1>2. CASE ~ S.thrown /\ S.st[t] \in Terminal /\ to = "blocked"
  <2> DEFINE Q == [S EXCEPT !.thrown = TRUE]
  <2>1. updateTaskStatus(sub, S, t, to) = Q
    BY <1>2 DEF updateTaskStatus
  <2>2. Q \in RuntimeState /\ Q.dag = S.dag /\ Q.wf = S.wf /\ Q.st = S.st /\ Q.thrown
    BY DEF RuntimeState
  <2> HIDE DEF Q
  <2> QED
    BY <2>1, <2>2
<1>3. CASE ~ S.thrown /\ ~ (S.st[t] \in Terminal /\ to = "blocked")
  <2>1. to \in TaskStatus
    BY DEF TaskStatus, Runnable
  <2>2. updateTaskStatus(sub, S, t, to) = [S EXCEPT !.st[t] = to]
    BY <1>3, UpdateLive
  <2> QED
    BY <2>1, <2>2, StatusWrite
<1> QED
  BY <1>1, <1>2, <1>3

\* A task reset to pending by a retry has no prerequisites.
LEMMA RetryAllowed ==
    ASSUME TypeOK, NEW t \in Tasks, handleRetryWorkflowFrom(t)
    PROVE  \E Q : Allowed(Now, Q) /\ Commit(Q)
<1> DEFINE seen == reconcileStaleWorkflows(Now)
           reset == [x \in RuntimeState \X Tasks |-> resetTask(x[1], x[2])]
           done == Fold(reset, seen, downstream(t))
           A == [done EXCEPT !.wf = "running"]
           Q == IF done.thrown THEN done ELSE startPending(A)
           may(u, status) == \/ status = Now.st[u]
                             \/ status = "blocked"
                             \/ status = "pending" /\ getTaskDependencies(Now, u) = {}
           X == {S \in RuntimeState : /\ S.dag = Now.dag /\ S.wf = seen.wf
                                      /\ \A u \in Tasks : may(u, S.st[u])}
<1>0. Now \in RuntimeState
  BY NowState
<1>1. Commit(Q)
  BY DEF handleRetryWorkflowFrom
<1>2. Evolves(Now, seen) /\ seen.st = Now.st
  BY <1>0, StaleEvolves
<1>3. seen \in X
  BY <1>2, EvolvesState
<1> HIDE DEF seen
<1>4. ASSUME NEW S \in X, NEW u \in Tasks PROVE reset[<<S, u>>] \in X
  <2> DEFINE to == IF getTaskDependencies(S, u) # {} THEN "blocked" ELSE "pending"
             W == updateTaskStatus(Top, S, u, to)
  <2>1. S \in RuntimeState /\ S.dag = Now.dag /\ S.wf = seen.wf
        /\ \A v \in Tasks : may(v, S.st[v])
    OBVIOUS
  <2>2. reset[<<S, u>>] = IF S.st[u] = "running" THEN S ELSE W
    BY <2>1 DEF resetTask
  <2>3. getTaskDependencies(S, u) = getTaskDependencies(Now, u)
    BY <2>1 DEF getTaskDependencies
  <2>4. may(u, to) /\ to \in {"blocked", "pending"}
    BY <2>3
  <2> HIDE DEF to, may, X, reset
  <2>5. /\ W \in RuntimeState /\ W.dag = S.dag /\ W.wf = S.wf
        /\ \/ W.st = [S.st EXCEPT ![u] = to]
           \/ W.st = S.st
    <3>1. S \in RuntimeState /\ u \in Tasks /\ to \in {"blocked", "pending"}
      BY <2>1, <2>4
    <3>2. /\ W \in RuntimeState /\ W.dag = S.dag /\ W.wf = S.wf
          /\ \/ W.st = [S.st EXCEPT ![u] = to]
             \/ W.st = S.st /\ W.thrown
      BY ONLY <3>1, RequestWrite DEF W
    <3> HIDE DEF W
    <3> QED
      BY <3>2
  <2> HIDE DEF W
  <2>6. \A v \in Tasks : may(v, W.st[v])
    BY <2>1, <2>4, <2>5 DEF RuntimeState
  <2>7. W \in X
    BY <2>1, <2>5, <2>6 DEF X
  <2> QED
    BY <2>2, <2>7
<1>5. done \in X
  <2> DEFINE s == downstream(t)
  <2>1. s \in Seq(Tasks)
    BY DownstreamSeq
  <2> HIDE DEF X, reset, s
  <2>2. \A i \in DOMAIN s : s[i] \in Tasks
    BY <2>1
  <2>3. Fold(reset, seen, s) \in X
    BY <1>3, <1>4, <2>1, <2>2, FoldIn
  <2> QED
    BY <2>3 DEF s
<1> HIDE DEF done
<1>6. done \in RuntimeState /\ done.dag = Now.dag /\ done.wf = seen.wf
      /\ \A u \in Tasks : may(u, done.st[u])
  BY <1>5
<1>7. CASE done.thrown
  <2>1. Q = done
    BY <1>7
  <2>2. done.wf = "completed" /\ Now.wf # "completed" => \A u \in Tasks : done.st[u] # "failed"
    BY <1>2, <1>6 DEF Evolves
  <2>3. Now.wf \in Closed => done.wf = Now.wf
    BY <1>2, <1>6 DEF Evolves
  <2>4. Allowed(Now, done)
    BY <1>6, <2>2, <2>3 DEF Allowed, Going, Terminal
  <2> QED
    BY <1>1, <2>1, <2>4
<1>8. CASE ~ done.thrown
  <2>0. "running" \in WorkflowStatus
    BY DEF WorkflowStatus
  <2>1. A \in RuntimeState /\ A.dag = Now.dag /\ A.st = done.st /\ A.wf = "running"
    BY <1>6, <2>0, VerdictWrite
  <2> HIDE DEF A
  <2>2. Q = startPending(A)
    BY <1>8
  <2>3. /\ Q \in RuntimeState /\ Q.dag = Now.dag /\ Q.wf = "running"
        /\ \A u \in Tasks : Q.st[u] = IF done.st[u] = "pending" THEN "queued" ELSE done.st[u]
    BY <2>1, <2>2, StartPendingState
  <2> HIDE DEF Q
  <2>4. ASSUME NEW u \in Tasks, Now.st[u] = "blocked", Q.st[u] \in Going
        PROVE  Released(Now, Q, u)
    <3>1. getTaskDependencies(Now, u) = {}
      BY <1>6, <2>3, <2>4 DEF Going
    <3> QED
      BY <3>1 DEF Released
  <2>5. Allowed(Now, Q)
    BY <1>6, <2>3, <2>4 DEF Allowed, Terminal
  <2> QED
    BY <1>1, <2>5
<1> QED
  BY <1>7, <1>8
\* What the loops of reopen_workflow keep: tasks that are completed stay so,
\* and a task becomes pending only when its prerequisites are completed.
ReopenFact(S, u) ==
    /\ task[u] = "completed" => S.st[u] = "completed"
    /\ \/ S.st[u] = task[u]
       \/ S.st[u] = "blocked"
       \/ S.st[u] = "pending"
          /\ \/ task[u] = "pending"
             \/ \A e \in getTaskDependencies(Now, u) : task[e.on] = "completed"

Reopening ==
    {R \in ReopenState : /\ R.S.dag = Now.dag /\ R.S.wf = wf
                         /\ \A u \in Tasks : /\ ReopenFact(R.S, u)
                                             /\ R.planned[u] = "completed" => task[u] = "completed"}

\* The loops so far have met the task v, or were aborted.
Reopened(v) == {R \in Reopening : R.S.thrown \/ R.S.st[v] \in {"blocked", "pending"}}

LEMMA ReopenStep ==
    ASSUME TypeOK, NEW statuses \in SUBSET (EndedBadly \cup Waiting), NEW R \in Reopening,
           NEW u \in Tasks
    PROVE  LET P == reopenTask(statuses, R, u)
           IN  /\ P \in Reopening
               /\ \A v \in Tasks : R \in Reopened(v) => P \in Reopened(v)
               /\ task[u] \in statuses => P \in Reopened(u)
<1> DEFINE to == IF \E e \in getTaskDependencies(R.S, u) : R.planned[e.on] # "completed"
                 THEN "blocked" ELSE "pending"
           W == updateTaskStatus(Top, R.S, u, to)
           T == IF task[u] = to THEN R.S ELSE W
           plan == [R.planned EXCEPT ![u] = to]
<1>1. /\ R.S \in RuntimeState /\ R.planned \in [Tasks -> TaskStatus] /\ R.S.dag = Now.dag
      /\ R.S.wf = wf
      /\ \A x \in Tasks : ReopenFact(R.S, x) /\ (R.planned[x] = "completed" => task[x] = "completed")
  BY DEF Reopening, ReopenState
<1>2. getTaskDependencies(R.S, u) = getTaskDependencies(Now, u)
  BY <1>1 DEF getTaskDependencies
<1>3. to \in {"blocked", "pending"} /\ to \in TaskStatus
  BY DEF TaskStatus, Runnable
<1>4. to = "pending" => \A e \in getTaskDependencies(Now, u) : task[e.on] = "completed"
  <2> SUFFICES ASSUME to = "pending", NEW e \in getTaskDependencies(Now, u)
               PROVE  task[e.on] = "completed"
    OBVIOUS
  <2>1. e.on \in Tasks
    BY NowState, EdgeTasks DEF getTaskDependencies
  <2>2. R.planned[e.on] = "completed"
    BY <1>2
  <2> QED
    BY <1>1, <2>1, <2>2
<1>5. CASE R.S.thrown \/ task[u] \notin statuses
  <2>1. reopenTask(statuses, R, u) = R
    BY <1>5 DEF reopenTask
  <2> QED
    BY <1>5, <2>1 DEF Reopened
<1>6. CASE ~ R.S.thrown /\ task[u] \in statuses
  <2> DEFINE P == [S |-> T, planned |-> plan]
  <2>1. reopenTask(statuses, R, u) = P
    BY <1>6 DEF reopenTask
  <2>2. task[u] # "completed"
    BY <1>6 DEF EndedBadly, Waiting
  <2> HIDE DEF to
  <2>3. /\ W \in RuntimeState /\ W.dag = R.S.dag /\ W.wf = R.S.wf
        /\ \/ W.st = [R.S.st EXCEPT ![u] = to]
           \/ W.st = R.S.st /\ W.thrown
    <3>1. R.S \in RuntimeState /\ u \in Tasks /\ to \in {"blocked", "pending"}
      BY <1>1, <1>3
    <3> QED
      BY ONLY <3>1, RequestWrite DEF W
  <2> HIDE DEF W
  <2>4. R.S.st \in [Tasks -> TaskStatus]
    BY <1>1 DEF RuntimeState
  <2>5. /\ T \in RuntimeState /\ T.dag = Now.dag /\ T.wf = wf
        /\ \A x \in Tasks : T.st[x] = R.S.st[x] \/ (x = u /\ T.st[x] = to)
        /\ T.thrown \/ T.st[u] \in {"blocked", "pending"}
    <3>1. CASE task[u] = to
      <4>1. T = R.S /\ ReopenFact(R.S, u)
        BY <1>1, <3>1
      <4>2. R.S.st[u] \in {"blocked", "pending"}
        BY <1>3, <3>1, <4>1 DEF ReopenFact
      <4> QED
        BY <1>1, <4>1, <4>2
    <3>2. CASE task[u] # to /\ W.st = [R.S.st EXCEPT ![u] = to]
      BY <1>1, <1>3, <2>3, <2>4, <3>2
    <3>3. CASE task[u] # to /\ W.st = R.S.st /\ W.thrown
      BY <1>1, <2>3, <3>3
    <3> QED
      BY <2>3, <3>1, <3>2, <3>3
  <2> HIDE DEF T
  <2>6. ASSUME NEW x \in Tasks PROVE ReopenFact(T, x)
    <3>1. ReopenFact(R.S, x)
      BY <1>1
    <3>2. CASE T.st[x] = R.S.st[x]
      BY <3>1, <3>2 DEF ReopenFact
    <3>3. CASE x = u /\ T.st[x] = to
      BY <1>3, <1>4, <2>2, <3>3 DEF ReopenFact
    <3> QED
      BY <2>5, <3>2, <3>3
  <2>7. plan \in [Tasks -> TaskStatus]
        /\ \A x \in Tasks : plan[x] = "completed" => task[x] = "completed"
    BY <1>1, <1>3
  <2> HIDE DEF plan
  <2>8. P.S = T /\ P.planned = plan /\ P \in ReopenState
    BY <2>5, <2>7 DEF ReopenState
  <2> HIDE DEF P
  <2>9. P \in Reopening
    BY <2>5, <2>6, <2>7, <2>8 DEF Reopening
  <2>10. P \in Reopened(u)
    BY <2>5, <2>8, <2>9 DEF Reopened
  <2>11. ASSUME NEW v \in Tasks, R \in Reopened(v) PROVE P \in Reopened(v)
    <3>1. R.S.st[v] \in {"blocked", "pending"}
      BY <1>6, <2>11 DEF Reopened
    <3>2. T.st[v] \in {"blocked", "pending"}
      BY <1>3, <2>5, <3>1
    <3> QED
      BY <2>8, <2>9, <3>2 DEF Reopened
  <2> QED
    BY <2>1, <2>9, <2>10, <2>11
<1> QED
  BY <1>5, <1>6

LEMMA ReopenAllowed ==
    ASSUME TypeOK, handleReopenWorkflow
    PROVE  \E Q : Allowed(Now, Q) /\ Commit(Q)
<1> DEFINE reopen(statuses) == [x \in ReopenState \X Tasks |-> reopenTask(statuses, x[1], x[2])]
           start == [S |-> Now, planned |-> task]
           ended == Fold(reopen(EndedBadly), start, Order)
           last == Fold(reopen(Waiting), ended, Order)
           done == last.S
           A == [done EXCEPT !.wf = "running"]
           Q == IF done.thrown THEN done ELSE startPending(updateWorkflowCounts(A))
<1>0. Now \in RuntimeState /\ Now.st = task /\ Now.wf = wf /\ Order \in Seq(Tasks)
  BY NowState, OrderSeq
<1>1. Commit(Q) /\ wf \in {"failed", "cancelled", "completed_with_errors"}
  BY DEF handleReopenWorkflow
<1>2. PICK v \in Tasks : task[v] \in EndedBadly \cup Waiting
  BY DEF handleReopenWorkflow
<1>3. start \in Reopening
  <2>1. start \in ReopenState
    BY <1>0 DEF ReopenState, TypeOK
  <2>2. start.S = Now /\ start.planned = task
    OBVIOUS
  <2> HIDE DEF start
  <2> QED
    BY <1>0, <2>1, <2>2 DEF Reopening, ReopenFact
<1> HIDE DEF start
<1>4. PICK j \in DOMAIN Order : Order[j] = v
  <2>1. ToSet(Order) = Tasks
    BY RuntimeAssumption
  <2> QED
    BY <2>1 DEF ToSet
<1>5. ASSUME NEW statuses \in SUBSET (EndedBadly \cup Waiting), NEW R \in Reopening,
             NEW i \in DOMAIN Order
      PROVE  /\ reopen(statuses)[<<R, Order[i]>>] \in Reopening
             /\ R \in Reopened(v) => reopen(statuses)[<<R, Order[i]>>] \in Reopened(v)
             /\ task[v] \in statuses /\ i = j
                  => reopen(statuses)[<<R, Order[i]>>] \in Reopened(v)
  <2>1. Order[i] \in Tasks /\ R \in ReopenState
    BY <1>0 DEF Reopening
  <2>2. reopen(statuses)[<<R, Order[i]>>] = reopenTask(statuses, R, Order[i])
    BY <2>1
  <2> HIDE DEF reopen
  <2> QED
    BY <1>4, <2>1, <2>2, ReopenStep
<1>6. Reopened(v) \subseteq Reopening
  BY DEF Reopened
<1> HIDE DEF reopen
<1>7. ended \in Reopening
  BY <1>0, <1>3, <1>5, FoldIn
<1>8. task[v] \in EndedBadly => ended \in Reopened(v)
  BY <1>0, <1>3, <1>5, <1>6, FoldReaches
<1> HIDE DEF ended
<1>9. last \in Reopened(v)
  <2>1. CASE task[v] \in EndedBadly
    <3>1. ended \in Reopened(v)
      BY <1>8, <2>1
    <3> QED
      BY <1>0, <1>5, <1>6, <3>1, FoldIn
  <2>2. CASE task[v] \in Waiting
    BY <1>0, <1>5, <1>6, <1>7, <2>2, FoldReaches
  <2> QED
    BY <1>2, <2>1, <2>2
<1> HIDE DEF last
<1>10. /\ done \in RuntimeState /\ done.dag = Now.dag /\ done.wf = wf
       /\ \A u \in Tasks : ReopenFact(done, u)
       /\ done.thrown \/ done.st[v] \in {"blocked", "pending"}
  BY <1>9 DEF Reopened, Reopening, ReopenState
<1> HIDE DEF done
<1>11. CASE done.thrown
  <2>1. Q = done
    BY <1>11
  <2>2. \A u \in Tasks : Now.st[u] = "blocked" => done.st[u] \notin Going
    BY <1>0, <1>10 DEF ReopenFact, Going
  <2>3. Allowed(Now, done)
    BY <1>0, <1>10, <2>2 DEF Allowed, ReopenFact, Terminal
  <2> QED
    BY <1>1, <2>1, <2>3
<1>12. CASE ~ done.thrown
  <2>0. "running" \in WorkflowStatus
    BY DEF WorkflowStatus
  <2>1. A \in RuntimeState /\ A.dag = Now.dag /\ A.st = done.st /\ A.wf = "running"
    BY <1>10, <2>0, VerdictWrite
  <2> HIDE DEF A
  <2>2. updateWorkflowCounts(A) = A
    <3>1. ~ AllTerminal(A)
      BY <1>10, <1>12, <2>1 DEF AllTerminal, getWorkflowTasks, Terminal
    <3> QED
      BY <2>1, <3>1, CountsEvolve
  <2>3. Q = startPending(A)
    BY <1>12, <2>2
  <2>4. /\ Q \in RuntimeState /\ Q.dag = Now.dag /\ Q.wf = "running"
        /\ \A u \in Tasks : Q.st[u] = IF done.st[u] = "pending" THEN "queued" ELSE done.st[u]
    BY <2>1, <2>3, StartPendingState
  <2> HIDE DEF Q
  <2>5. ASSUME NEW u \in Tasks, Now.st[u] = "blocked", Q.st[u] \in Going
        PROVE  Released(Now, Q, u)
    <3> SUFFICES ASSUME NEW e \in getTaskDependencies(Now, u)
                 PROVE  Q.st[e.on] \in Terminal
      BY DEF Released
    <3>1. task[e.on] = "completed"
      BY <1>0, <1>10, <2>4, <2>5 DEF ReopenFact, Going
    <3>2. e.on \in Tasks
      BY <1>0, EdgeTasks DEF getTaskDependencies
    <3> QED
      BY <1>10, <2>4, <3>1, <3>2 DEF ReopenFact, Terminal
  <2>6. Allowed(Now, Q)
    BY <1>0, <1>10, <2>4, <2>5 DEF Allowed, ReopenFact, Terminal
  <2> QED
    BY <1>1, <2>6
<1> QED
  BY <1>11, <1>12

-----------------------------------------------------------------------------
(* The theorems. *)

\* Every step of the system is one of the allowed ones.
LEMMA StepAllowed ==
    ASSUME TypeOK, Next
    PROVE  \E Q : Allowed(Now, Q) /\ Commit(Q)
<1>1. CASE \E t \in Tasks : \/ startTask(t) \/ finalizeTask(t) \/ lateTermination(t)
                            \/ retryTimer(t) \/ handleCancelTask(t) \/ handleSkipTask(t)
  BY <1>1, TaskHandlersEvolve, EvolvesAllowed
<1>2. CASE \E t \in Tasks : scheduleRetry(t)
  BY <1>2, SimpleRequestsAllowed
<1>3. CASE \E t \in Tasks : handleAddWorkflowTask(t)
  BY <1>3, AddTaskAllowed
<1>4. CASE \E t \in Tasks : handleRetryWorkflowFrom(t)
  BY <1>4, RetryAllowed
<1>5. CASE handleRunWorkflow \/ handlePauseWorkflow
  BY <1>5, SimpleRequestsAllowed
<1>6. CASE handleCancelWorkflow
  BY <1>6, CancelWorkflowAllowed
<1>7. CASE handleReopenWorkflow
  BY <1>7, ReopenAllowed
<1>8. CASE handleResumeWorkflow
  BY <1>8, ResumeEvolves, EvolvesAllowed
<1>9. CASE listWorkflows
  BY <1>9, ListEvolves, EvolvesAllowed
<1>10. CASE restartServer
  BY <1>10, RestartEvolves, EvolvesAllowed
<1> QED
  BY <1>1, <1>2, <1>3, <1>4, <1>5, <1>6, <1>7, <1>8, <1>9, <1>10 DEF Next

\* TypeOK with its frame.
LEMMA TypeStep ==
    ASSUME TypeOK, [Next]_vars
    PROVE  TypeOK'
<1>1. CASE UNCHANGED vars
  BY <1>1 DEF TypeOK, vars
<1>2. CASE Next
  <2>1. PICK Q : Allowed(Now, Q) /\ Commit(Q)
    BY <1>2, StepAllowed
  <2>2. task' \in [Tasks -> TaskStatus] /\ wf' \in WorkflowStatus /\ dag' = dag
    BY <2>1 DEF Allowed, Commit, RuntimeState
  <2>3. started' \in BOOLEAN /\ late' \subseteq Tasks
    BY <1>2 DEF TypeOK, Next, startTask, finalizeTask, lateTermination, scheduleRetry, retryTimer,
       handleCancelTask, handleSkipTask, handleAddWorkflowTask, handleRetryWorkflowFrom,
       handleRunWorkflow, handlePauseWorkflow, handleCancelWorkflow, handleReopenWorkflow,
       handleResumeWorkflow, listWorkflows, restartServer, Operator
  <2> QED
    BY <2>2, <2>3 DEF TypeOK
<1> QED
  BY <1>1, <1>2

\* The rows of a workflow and of its tasks hold statuses the schema has, and
\* the edges of a workflow do not change, whatever the runtime's recursion,
\* the operators and a restart do to them.
THEOREM WorkflowTypeCorrect == Spec => []TypeOK
<1>1. Init => TypeOK
  BY DEF Init, TypeOK, initialStatus, TaskStatus, WorkflowStatus, Runnable
<1>2. TypeOK /\ [Next]_vars => TypeOK'
  BY TypeStep
<1> QED
  BY <1>1, <1>2, PTL DEF Spec

\* evaluateWorkflowDependencies, its nested passes, the alternates, the fan-out
\* release, the restart reconciliation and every operator request release a
\* blocked task only when its prerequisites are over, or by the rule for
\* on_fail 'continue' when none of them stays queued or running.
THEOREM WorkflowStartsAfterPrerequisites == Spec => StartsAfterPrerequisites
<1>1. ASSUME TypeOK, [Next]_vars, NEW t \in Tasks,
             task[t] = "blocked", task'[t] \in {"queued", "running"},
             dag.join[t] # "first_success", t \notin Alternates,
             NEW p \in Prerequisites(t)
      PROVE  \/ task'[p] \in Terminal
             \/ /\ \E e \in getTaskDependencies(Now, t) : e.onFail = "continue"
                /\ ~ {task[p], task'[p]} \subseteq {"queued", "running"}
  <2>1. Next
    BY <1>1 DEF vars
  <2>2. PICK Q : Allowed(Now, Q) /\ Commit(Q)
    BY <1>1, <2>1, StepAllowed
  <2>3. Now.st = task /\ Now.dag = dag /\ Q.st = task'
    BY <1>1, <2>2, NowState DEF Commit
  <2>4. Strict(Now, t)
    BY <1>1, <2>3 DEF Strict, Alternates
  <2>5. Released(Now, Q, t)
    BY <1>1, <2>2, <2>3, <2>4 DEF Allowed, Going
  <2>6. PICK e \in getTaskDependencies(Now, t) : e.on = p
    BY <1>1 DEF Prerequisites
  <2> QED
    BY <2>3, <2>5, <2>6 DEF Released, MayContinue, Going
<1>2. TypeOK /\ [Next]_vars =>
        [\A t \in Tasks :
           (/\ task[t] = "blocked" /\ task'[t] \in {"queued", "running"}
            /\ dag.join[t] # "first_success" /\ t \notin Alternates)
           => \A p \in Prerequisites(t) :
                \/ task'[p] \in Terminal
                \/ /\ \E e \in getTaskDependencies(Now, t) : e.onFail = "continue"
                   /\ ~ {task[p], task'[p]} \subseteq {"queued", "running"}]_vars
  BY <1>1
<1> QED
  BY <1>2, WorkflowTypeCorrect, PTL DEF Spec, StartsAfterPrerequisites

\* updateTaskStatus refuses to leave a terminal status but for a requeue, and
\* the writes that go around it look at the row first: a dependent that ended
\* meanwhile keeps its result in every pass, nested or late.
THEOREM WorkflowResultStands == Spec => ResultStands
<1>1. ASSUME TypeOK, [Next]_vars, NEW t \in Tasks, task[t] \in Terminal, task'[t] \in Terminal
      PROVE  task'[t] = task[t]
  <2>1. CASE Next
    <3>1. PICK Q : Allowed(Now, Q) /\ Commit(Q)
      BY <1>1, <2>1, StepAllowed
    <3>2. Now.st = task /\ Q.st = task'
      BY <1>1, <3>1, NowState DEF Commit
    <3> QED
      BY <1>1, <3>1, <3>2 DEF Allowed
  <2>2. CASE UNCHANGED vars
    BY <2>2 DEF vars
  <2> QED
    BY <1>1, <2>1, <2>2
<1>2. TypeOK /\ [Next]_vars =>
        [\A t \in Tasks : task[t] \in Terminal /\ task'[t] \in Terminal => task'[t] = task[t]]_vars
  BY <1>1
<1> QED
  BY <1>2, WorkflowTypeCorrect, PTL DEF Spec, ResultStands

\* None of the three functions that judge a workflow, and no request, turns a
\* workflow 'completed' while a task of it is failed.
THEOREM WorkflowCompletedHasNoFailure == Spec => CompletedHasNoFailure
<1>1. ASSUME TypeOK, [Next]_vars, wf # "completed", wf' = "completed"
      PROVE  \A t \in Tasks : task'[t] # "failed"
  <2>1. Next
    BY <1>1 DEF vars
  <2>2. PICK Q : Allowed(Now, Q) /\ Commit(Q)
    BY <1>1, <2>1, StepAllowed
  <2>3. Now.wf = wf /\ Q.wf = wf' /\ Q.st = task'
    BY <1>1, <2>2, NowState DEF Commit
  <2> QED
    BY <1>1, <2>2, <2>3 DEF Allowed
<1>2. TypeOK /\ [Next]_vars =>
        [(wf # "completed" /\ wf' = "completed") => \A t \in Tasks : task'[t] # "failed"]_vars
  BY <1>1
<1> QED
  BY <1>2, WorkflowTypeCorrect, PTL DEF Spec, CompletedHasNoFailure

\* A workflow that was judged is judged again only after it was reopened:
\* late terminations, readers and restarts leave the verdict alone.
THEOREM WorkflowFinalVerdictStands == Spec => FinalVerdictStands
<1>1. ASSUME TypeOK, [Next]_vars, wf \in Closed, wf' # wf
      PROVE  wf' \in {"running", "cancelled"}
  <2>1. Next
    BY <1>1 DEF vars
  <2>2. PICK Q : Allowed(Now, Q) /\ Commit(Q)
    BY <1>1, <2>1, StepAllowed
  <2>3. Now.wf = wf /\ Q.wf = wf'
    BY <1>1, <2>2, NowState DEF Commit
  <2> QED
    BY <1>1, <2>2, <2>3 DEF Allowed
<1>2. TypeOK /\ [Next]_vars =>
        [(wf \in Closed /\ wf' # wf) => wf' \in {"running", "cancelled"}]_vars
  BY <1>1
<1> QED
  BY <1>2, WorkflowTypeCorrect, PTL DEF Spec, FinalVerdictStands
=============================================================================
