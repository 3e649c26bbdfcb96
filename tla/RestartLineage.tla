--------------------------- MODULE RestartLineage ---------------------------
(***************************************************************************)
(* One task and the clones that restarts of the server make of it.         *)
(*                                                                         *)
(* A task that a restart interrupts is cancelled with reason               *)
(* 'server_restart'.  The next start of the server (index.js and           *)
(* execution/startup-task-reconciler.js) adopts its surviving subprocess,  *)
(* completes it from its log, or clones it; await_task and await_workflow  *)
(* (handlers/workflow/await.js) clone it too.  The rows are linked by      *)
(* metadata.resubmitted_from and metadata.resubmitted_as.  The server may  *)
(* crash between any two writes of the reconciler.  Rows are numbered in   *)
(* created_at order.                                                       *)
(***************************************************************************)
EXTENDS Integers, FiniteSets

CONSTANTS
    MaxRows,    \* bound: rows of the lineage
    MaxEpoch,   \* bound: starts of the server
    Cap,        \* RESTART_RESUBMIT_CAP
    AwaitCap,   \* the limit of 3 in await.js
    MaxRetries  \* max_retries of the rows

ASSUME LineageAssumption ==
    /\ MaxRows \in Nat \ {0}
    /\ MaxEpoch \in Nat \ {0}
    /\ Cap \in Nat \ {0}
    /\ AwaitCap \in Nat
    /\ MaxRetries \in Nat

Ids == 1..MaxRows
None == 0

VARIABLES
    row,       \* the rows of the tasks table
    n,         \* number of rows
    eligible,  \* isEligibleForClone: tags and metadata, copied to every clone
    detached,  \* the provider detaches its subprocess from the server
    closed,    \* the factory work item of the task is not resumable
    epoch,     \* server_epoch
    server,    \* "up", "stopping", "down" or "starting"
    tracked,   \* runningProcesses of this server
    alive,     \* tasks with a live subprocess
    logged,    \* tasks whose log, or row, shows that the process exited with 0
    todo,      \* candidates the reconciler has still to look at
    clone      \* the row being cloned and how far the clone is

vars == <<row, n, eligible, detached, closed, epoch, server, tracked, alive, logged, todo, clone>>
fixed == <<eligible, detached>>
procs == <<tracked, alive, logged>>
startup == <<todo, clone>>

Terminal == {"completed", "failed", "cancelled"}
Live == {"pending", "queued", "running", "retry_scheduled"}
Reasons == {"none", "user", "server_restart", "orphan_cleanup"}

Row == [status : Live \cup Terminal \cup {"absent"}, reason : Reasons,
        from : Ids \cup {None}, as : Ids \cup {None},
        count : Nat, epoch : Nat, retries : Nat, by : {"user", "startup", "await"}]

Absent == [status |-> "absent", reason |-> "none", from |-> None, as |-> None,
           count |-> 0, epoch |-> 0, retries |-> 0, by |-> "user"]

NoClone == [of |-> None, new |-> None]

TypeOK ==
    /\ row \in [Ids -> Row]
    /\ n \in Ids
    /\ eligible \in BOOLEAN /\ detached \in BOOLEAN /\ closed \in BOOLEAN
    /\ epoch \in 1..MaxEpoch
    /\ server \in {"up", "stopping", "down", "starting"}
    /\ tracked \subseteq Ids /\ alive \subseteq Ids /\ logged \subseteq Ids
    /\ todo \subseteq Ids
    /\ clone \in [of : Ids \cup {None}, new : Ids \cup {None}]

Init ==
    /\ row = [t \in Ids |-> IF t = 1 THEN [Absent EXCEPT !.status = "queued", !.epoch = 1]
                            ELSE Absent]
    /\ n = 1
    /\ eligible \in BOOLEAN /\ detached \in BOOLEAN
    /\ closed = FALSE
    /\ epoch = 1
    /\ server = "up"
    /\ tracked = {} /\ alive = {} /\ logged = {}
    /\ todo = {}
    /\ clone = NoClone

Rows == 1..n
Status(t) == row[t].status
SetStatus(t, s) == row' = [row EXCEPT ![t].status = s]
Cancel(t, why) == row' = [row EXCEPT ![t].status = "cancelled", ![t].reason = why]

\* createTask of a clone: the metadata of the original with a new counter and
\* origin.  The partial unique index on resubmitted_from refuses a second
\* clone while the first is not cancelled.
indexAllows(t) == \A c \in Rows : row[c].from = t => Status(c) = "cancelled"

insertClone(t, s, who) ==
    [row EXCEPT ![n + 1] = [Absent EXCEPT !.status = s, !.from = t, !.by = who,
                                          !.count = row[t].count + 1, !.epoch = epoch]]

-----------------------------------------------------------------------------
(* Execution of the rows. *)

\* startTask looks at the row only.
startTask(t) ==
    /\ server = "up"
    /\ Status(t) = "queued"
    /\ SetStatus(t, "running")
    /\ tracked' = tracked \cup {t}
    /\ alive' = alive \cup {t}
    /\ logged' = logged \ {t}
    /\ UNCHANGED <<n, fixed, closed, epoch, server, startup>>

\* The subprocess ends under the server and is finalized: only a running row
\* is written.
finalizeTask(t) ==
    /\ server = "up"
    /\ t \in tracked
    /\ tracked' = tracked \ {t}
    /\ alive' = alive \ {t}
    /\ \/ /\ Status(t) = "running"
          /\ \E s \in {"completed", "failed"} : SetStatus(t, s)
       \/ /\ Status(t) = "running"
          /\ row[t].retries < MaxRetries
          /\ row' = [row EXCEPT ![t].status = "retry_scheduled", ![t].retries = @ + 1]
       \/ Status(t) # "running" /\ UNCHANGED row
    /\ UNCHANGED <<n, fixed, closed, epoch, server, logged, startup>>

retryTimer(t) ==
    /\ server = "up"
    /\ Status(t) = "retry_scheduled"
    /\ SetStatus(t, "queued")
    /\ UNCHANGED <<n, fixed, closed, epoch, server, procs, startup>>

\* promotePendingRestartResubmissions, on each pass of the schedulers.
promotePending(t) ==
    /\ server = "up"
    /\ Status(t) = "pending"
    /\ SetStatus(t, "queued")
    /\ UNCHANGED <<n, fixed, closed, epoch, server, procs, startup>>

\* cancel_task: a tracked subprocess is killed; a terminal row stays as it is.
cancelTask(t) ==
    /\ server = "up"
    /\ Status(t) \in Live \/ t \in tracked
    /\ IF Status(t) \in Live THEN Cancel(t, "user") ELSE UNCHANGED row
    /\ alive' = IF t \in tracked THEN alive \ {t} ELSE alive
    /\ tracked' = tracked \ {t}
    /\ UNCHANGED <<n, fixed, closed, epoch, server, logged, startup>>

\* A detached subprocess ends with nobody watching and leaves its exit marker.
exitUnseen(t) ==
    /\ t \in alive \ tracked
    /\ alive' = alive \ {t}
    /\ logged' = logged \cup {t}
    /\ UNCHANGED <<row, n, fixed, closed, epoch, server, tracked, startup>>

\* cleanupTerminalTaskSubprocesses, past the grace period.
reapSubprocess(t) ==
    /\ server = "up"
    /\ t \in alive \ tracked
    /\ Status(t) \in Terminal
    /\ alive' = alive \ {t}
    /\ UNCHANGED <<row, n, fixed, closed, epoch, server, tracked, logged, startup>>

\* The factory closes and reopens its work item.
workItemChanges ==
    /\ eligible
    /\ server = "up"
    /\ closed' = ~ closed
    /\ UNCHANGED <<row, n, fixed, epoch, server, procs, startup>>

-----------------------------------------------------------------------------
(* await_task and await_workflow. *)

MayAwait == server \in {"up", "stopping"}

\* A running row of an earlier epoch is taken for an orphan.
isStaleEpoch(t) == Status(t) = "running" /\ row[t].epoch < epoch

awaitRequeue(t) ==
    /\ MayAwait
    /\ isStaleEpoch(t)
    /\ row[t].retries < MaxRetries
    /\ row' = [row EXCEPT ![t].status = "queued", ![t].retries = @ + 1]
    /\ UNCHANGED <<n, fixed, closed, epoch, server, procs, startup>>

awaitCancelOrphan(t) ==
    /\ MayAwait
    /\ isStaleEpoch(t)
    /\ row[t].retries >= MaxRetries
    /\ Cancel(t, "orphan_cleanup")
    /\ UNCHANGED <<n, fixed, closed, epoch, server, procs, startup>>

\* auto_resubmit_on_restart: await_task queues the clone, await_workflow
\* leaves it pending.
awaitResubmit(t) ==
    /\ MayAwait
    /\ n < MaxRows
    /\ Status(t) = "cancelled"
    /\ row[t].reason \in {"server_restart", "orphan_cleanup"}
    /\ row[t].as = None
    /\ row[t].count < AwaitCap
    /\ indexAllows(t)
    /\ \E s \in {"queued", "pending"} :
         row' = [insertClone(t, s, "await") EXCEPT ![t].as = n + 1]
    /\ n' = n + 1
    /\ UNCHANGED <<fixed, closed, epoch, server, procs, startup>>

-----------------------------------------------------------------------------
(* Shutdown, crash and start of the server. *)

\* Pipe-mode subprocesses die with the server, detached ones survive it.
Survivors == IF detached THEN alive ELSE {}

\* shutdown({cancelTasks: true}).
shutdown ==
    /\ server = "up"
    /\ server' = "stopping"
    /\ row' = [t \in Ids |-> IF t \in tracked /\ Status(t) \in Live
                             THEN [row[t] EXCEPT !.status = "cancelled", !.reason = "server_restart"]
                             ELSE row[t]]
    /\ tracked' = {}
    /\ alive' = Survivors
    /\ UNCHANGED <<n, fixed, closed, epoch, logged, startup>>

\* The process ends, after a shutdown or at any other moment.
crash ==
    /\ server # "down"
    /\ server' = "down"
    /\ tracked' = {}
    /\ alive' = Survivors
    /\ todo' = {}
    /\ clone' = NoClone
    /\ UNCHANGED <<row, n, fixed, closed, epoch, logged>>

\* Mutant of cleanupOrphan: the interrupted attempt is given back.
cleanupRefunding(r) ==
    IF r.status # "running" \/ eligible THEN r
    ELSE IF r.retries < MaxRetries
    THEN [r EXCEPT !.status = "queued", !.retries = @ - 1]
    ELSE [r EXCEPT !.status = "failed"]

\* index.js: running rows that will not be cloned are requeued or failed.
cleanupOrphan(r) ==
    IF r.status # "running" \/ eligible THEN r
    ELSE IF r.retries < MaxRetries
    THEN [r EXCEPT !.status = "queued", !.retries = @ + 1]
    ELSE [r EXCEPT !.status = "failed"]

\* Mutant of isCandidate: rows an earlier start cancelled are not looked at.
isCandidateRunning(r) == r.status \in {"running", "retry_scheduled"}

isCandidate(r) ==
    \/ r.status \in {"running", "retry_scheduled"}
    \/ r.status = "cancelled" /\ r.reason = "server_restart"

\* The epoch is raised, the cleanup of index.js runs, and
\* reconcileOrphanedTasksOnStartup selects its candidates.
boot ==
    /\ server = "down"
    /\ epoch < MaxEpoch
    /\ server' = "starting"
    /\ epoch' = epoch + 1
    /\ row' = [t \in Ids |-> cleanupOrphan(row[t])]
    /\ todo' = {t \in Rows : isCandidate(cleanupOrphan(row[t]))}
    /\ UNCHANGED <<n, fixed, closed, procs, clone>>

\* Mutant of resubmissions: only the pointer of the original is followed.
resubmissionsByPointer(t) == {row[t].as} \ {None}

\* The rows one step of findNonCancelledResubmissionDescendant leads to.
resubmissions(t) == {c \in Rows : row[c].from = t} \cup ({row[t].as} \ {None})

\* The search goes on through cancelled rows and stops at any other.  It
\* finds none when a set of cancelled rows holds everything it can reach.
hasNonCancelledDescendant(t) ==
    ~ \E seen \in SUBSET Rows :
        /\ t \in seen
        /\ \A s \in seen : resubmissions(s) \subseteq seen
        /\ \A s \in seen \ {t} : Status(s) = "cancelled"

\* The candidates are taken newest first.
IsNext(t) ==
    /\ server = "starting"
    /\ clone = NoClone
    /\ t \in todo
    /\ \A u \in todo : u <= t

Done(t) == todo' = todo \ {t} /\ UNCHANGED <<n, fixed, closed, epoch, server, clone>>

reconcileRetry(t) ==
    /\ IsNext(t)
    /\ Status(t) = "retry_scheduled"
    /\ SetStatus(t, IF row[t].retries > MaxRetries THEN "failed" ELSE "queued")
    /\ Done(t)
    /\ UNCHANGED procs

\* The conditions that come before any write.
PassedOver(t) ==
    \/ hasNonCancelledDescendant(t)
    \/ Status(t) = "cancelled" /\ row[t].count >= Cap

skipCandidate(t) ==
    /\ IsNext(t)
    /\ Status(t) # "retry_scheduled"
    /\ PassedOver(t)
    /\ Done(t)
    /\ UNCHANGED <<row, procs>>

\* getFactoryWorkItemRestartBlock.
blockedByWorkItem(t) ==
    /\ IsNext(t)
    /\ Status(t) # "retry_scheduled"
    /\ ~ PassedOver(t)
    /\ closed
    /\ Cancel(t, "server_restart")
    /\ Done(t)
    /\ UNCHANGED procs

Considered(t) == IsNext(t) /\ Status(t) # "retry_scheduled" /\ ~ PassedOver(t) /\ ~ closed

\* tryReAdoptDetachedSubprocess: the row is not written.
reAdopt(t) ==
    /\ Considered(t)
    /\ detached /\ t \in alive
    /\ tracked' = tracked \cup {t}
    /\ Done(t)
    /\ UNCHANGED <<row, alive, logged>>

\* A dead subprocess whose log ends with exit code 0, or whose row already holds
\* the final output: logged stands for either evidence of success. A log that
\* ends with another code is none.
completeFinishedOrphan(t) ==
    /\ Considered(t)
    /\ Status(t) = "running" /\ t \notin alive /\ t \in logged
    /\ SetStatus(t, "completed")
    /\ Done(t)
    /\ UNCHANGED procs

\* Neither adopted (a live subprocess whose log is stale is not) nor
\* finished.
Interrupted(t) == Considered(t) /\ ~ (Status(t) = "running" /\ t \notin alive /\ t \in logged)

notEligible(t) ==
    /\ Interrupted(t)
    /\ ~ eligible
    /\ Done(t)
    /\ UNCHANGED <<row, procs>>

failMissingWorkingDirectory(t) ==
    /\ Interrupted(t)
    /\ eligible
    /\ row' = [row EXCEPT ![t].status = "failed",
                          ![t].reason = IF Status(t) = "cancelled" THEN "none" ELSE @]
    /\ Done(t)
    /\ UNCHANGED procs

\* The UPDATE to cancelled, and the cap.
cancelInterrupted(t) ==
    /\ Interrupted(t)
    /\ eligible
    /\ Cancel(t, "server_restart")
    /\ todo' = todo \ {t}
    /\ clone' = IF row[t].count >= Cap THEN NoClone ELSE [of |-> t, new |-> None]
    /\ UNCHANGED <<n, fixed, closed, epoch, server, procs>>

createClone ==
    /\ server = "starting"
    /\ clone.of # None /\ clone.new = None
    /\ IF indexAllows(clone.of)
       THEN /\ n < MaxRows
            /\ row' = insertClone(clone.of, "queued", "startup")
            /\ n' = n + 1
            /\ clone' = [clone EXCEPT !.new = n + 1]
       ELSE clone' = NoClone /\ UNCHANGED <<row, n>>
    /\ UNCHANGED <<fixed, closed, epoch, server, procs, todo>>

patchOriginalMetadata ==
    /\ server = "starting"
    /\ clone.new # None
    /\ row' = [row EXCEPT ![clone.of].as = clone.new]
    /\ clone' = NoClone
    /\ UNCHANGED <<n, fixed, closed, epoch, server, procs, todo>>

startupDone ==
    /\ server = "starting"
    /\ todo = {} /\ clone = NoClone
    /\ server' = "up"
    /\ UNCHANGED <<row, n, fixed, closed, epoch, procs, startup>>

-----------------------------------------------------------------------------

Execute(t) ==
    \/ startTask(t) \/ finalizeTask(t) \/ retryTimer(t) \/ promotePending(t)
    \/ cancelTask(t) \/ exitUnseen(t) \/ reapSubprocess(t)

Await(t) == awaitRequeue(t) \/ awaitCancelOrphan(t) \/ awaitResubmit(t)

Reconcile(t) ==
    \/ reconcileRetry(t) \/ skipCandidate(t) \/ blockedByWorkItem(t) \/ reAdopt(t)
    \/ completeFinishedOrphan(t) \/ notEligible(t) \/ failMissingWorkingDirectory(t)
    \/ cancelInterrupted(t)

Next ==
    \/ \E t \in Rows : Execute(t) \/ Await(t) \/ Reconcile(t)
    \/ workItemChanges \/ shutdown \/ crash \/ boot
    \/ createClone \/ patchOriginalMetadata \/ startupDone

Spec == Init /\ [][Next]_vars

-----------------------------------------------------------------------------
(* Properties. *)

\* Only restarts cancelled rows, and only the reconciler cloned them.
OnlyRestarts ==
    \A t \in Rows : /\ Status(t) = "cancelled" => row[t].reason = "server_restart"
                    /\ row[t].by # "await"

\* The reconciler never resumes a task twice, whichever writes of earlier
\* starts a crash cut off: at most one row of the lineage is live.
OneLiveRow ==
    (OnlyRestarts /\ ~ detached) =>
        \A t, u \in Rows : (Status(t) \in Live /\ Status(u) \in Live) => t = u

\* A start leaves no interrupted task behind: when an eligible row below the
\* cap was cancelled by a restart, it is adopted or its lineage has a row that
\* is not cancelled.
StartupRecovers ==
    [][(server = "starting" /\ server' = "up" /\ eligible /\ ~ closed) =>
         \A t \in Rows :
            (Status(t) = "cancelled" /\ row[t].reason = "server_restart" /\ row[t].count < Cap)
            => t \in tracked \/ \E u \in Rows : Status(u) # "cancelled"]_vars
=============================================================================
