# A TLA+ development of TORQUE

TORQUE is a task orchestrator: a Node.js server that queues tasks for AI
providers (command line tools and HTTP APIs), runs them as child processes,
judges and retries their results, and drives workflows and an autonomous
"factory" on top of that. Beside the server runs a small coordination daemon
that serializes remote test runs.

This directory holds TLA+ models of the parts of the code where order, failure
and timing decide whether it is right, the TLC configurations that check them
on small instances, and TLAPS proofs of the main safety properties for
instances of any size. File and line references are to the repository;
`PROJECT.json` maps every definition to the lines it models.

To repeat the results, in this directory:

    tlc -config CoordSafety.cfg MCCoord      # one run; see the table below
    tlapm TaskProofs.tla                     # check the proofs of one module

## 1. Inventory

### Modelled

| Part | State | Operations | What is hard | What makes it right |
|---|---|---|---|---|
| Coord daemon (`server/coord/`) | Maps `locks`, `byProject`, wait subscribers, result files | acquire, heartbeat, release, wait, reap, restore, result lookup | reaper against a live holder; waiters against releases; crash with locks held | one lock per project, semaphore bound, every waiter woken, results only from lock holders |
| Coord clients (`bin/torque-coord-client`, `bin/torque-remote`) | position in `coord_begin`, held lock id | begin, wait, release on exit | each HTTP round trip is its own step; answers get lost, wrappers get killed | every invocation ends; orphaned locks are freed |
| Task row (`server/db/task-core.js`) | status, provider, pid, retry counters | `updateTaskStatus`, `tryClaimTaskSlot`, `incrementRetry`, provider switch | a dozen writers, few of which check the status they overwrite | limits, settled rows stay settled |
| Task startup, process, finalizer, cancel, sweeps (`server/execution/`, `server/validation/close-phases.js`, `server/maintenance/orphan-cleanup.js`) | tracker Map, cleanup guard, finalization locks, retry timers | startTask, spawn, exit/close, finalize, retry, cancel, stale/zombie/timeout/stall checks | handlers suspended in an `await` while others change the row; timers that outlive their retry; close events lost or doubled | one owner per task, parked rows have a timer, running rows end |
| Circuit breaker (`server/execution/circuit-breaker.js`) and its observers (`routing/failover-activator.js`, `factory/canary-scheduler.js`, `factory/park-resume-handler.js`, `factory/stages/prioritize.js`) | breaker entry, its row, active routing template, canary timer, parked items | success/failure reports, lazy recovery, operator trip/untrip, canary, park/resume, restart | state spread over five owners tied only by two events; a restart reloads OPEN without any event | nothing parked behind a closed breaker; row, template and canary follow the breaker |
| Workflow runtime (`server/execution/workflow-runtime.js`, `server/db/workflow-engine.js`, `server/handlers/workflow/`) | task and workflow statuses, termination guard and its queue, calls of completion pipelines still to come | evaluate dependencies, apply failure actions, run/pause/cancel/extend/retry/reopen, list, restart | evaluation is recursive and re-entrant; three functions give verdicts by different rules; terminations come twice or get lost | tasks start after their prerequisites, results stand, verdicts are right, stand and come, a restart forgets no task |
| Server restart (`server/index.js`, `server/execution/startup-task-reconciler.js`, `server/handlers/workflow/await.js`) | rows of a task and its clones, links between them, server epoch, tracked and surviving children, reconciler position | shutdown, crash, orphan cleanup, adopt, complete from log, clone, await handlers' recovery | crash between any two writes of the reconciler; two places that clone; caps counted per row | at most one live row of a task, no interrupted task left behind |
| Factory loop controller (`server/factory/loop-controller.js`, `plan-execute.js`, `stages/`, `factory-tick.js`) | loop instances (stage, pause, item), item status and claims, decision log, suspended advances, jobs | start, advance, approve, reject, cancel, retry, pause, terminate, tick repairs, restart | an advance is suspended for minutes and goes on with what it remembers while operators, ticks and a watchdog change its row | one instance per stage, one advance per instance, gates hold, terminated instances stay out |

How they interact: the wrappers talk to the daemon by HTTP and a server-sent
event stream. Inside the server everything shares one SQLite database and one
event loop: startTask claims a row and spawns a child; the child's `close`
event calls the finalizer, which writes the row or starts a retry timer;
sweeps on intervals and operator requests write the same rows. Finished tasks
report to the circuit breaker, whose `circuit:tripped` and `circuit:recovered`
events reach the three observers synchronously.

A workflow releases its tasks to the same queue and is told of their ends by
the finalizer; a restart cancels or requeues their rows and then asks the
workflow runtime to make up for what it missed. The factory loop submits its
plans as tasks and workflows, and its PRIORITIZE stage asks the breaker whether
to park an item. The models cut these ties at the row: in `WorkflowRuntime` and
`FactoryLoop` a task's outcome is a nondeterministic choice, and
`RestartLineage` keeps of the lifecycle only what a restart can meet.

### Not modelled

`PROJECT.json` lists every part with its reason. In short:

* Planned: slot-pull scheduler and host slot counters; task-claim leases and
  the shared factory store.
* Subsumed: the queue scheduler only chooses an order, and `TaskLifecycle` lets
  any startable row be started at any time; validation and review stages are
  a nondeterministic verdict; provider routing is a nondeterministic choice;
  the restart barrier and its handoff file only delay a shutdown or a crash,
  either of which `RestartLineage` allows at any time.
* Data, I/O or user interface: provider adapters, MCP/REST transports,
  dashboard, CLI, peek, remote agent, migrations, policy engine, schedules,
  approvals, plugins, event streaming, workflow specs, coordinator status
  poller. They are most of the repository's lines: prompts, formats, SQL text,
  React views and provider protocols have no state machine of their own.
* Plan generation, plan quality rules, worktrees and auto-recovery of the
  factory: their verdicts are nondeterministic choices of `FactoryLoop`.

## 2. The modules

```
CoordDaemon <- CoordClients <- MCCoord            TaskRow <- TaskLifecycle <- MCTask
   RunLease <..             <- CoordProofs                                 <- TaskProofs
CodexBreaker <- MCBreaker                         RestartLineage <- RestartProofs
             <- BreakerProofs                     FactoryLoop <- FactoryProofs <- StageLineProofs
                                                    StageLine <..
SeqFold <- WorkflowDag <- WorkflowRuntime <- MCWorkflow
        <- SeqFoldProofs                  <- WorkflowProofs   (which also extends SeqFoldProofs)
```

(`<-`: extended by; `<..`: implemented by, through `INSTANCE ... WITH`.)

### CoordDaemon, CoordClients

`CoordDaemon` is the lock table: `locks` and `byProject` are the two Maps of
`state.js`, `subscribers` and `ended` the open `/wait` streams and the ones
whose last event has been sent, `issued` the lock ids ever handed out, `results`
the result store, `up` whether the daemon runs. A lock's heartbeat is an `age`
in ticks, counted up to one past the stale threshold. Each HTTP handler is
synchronous and therefore one step.

`CoordClients` adds the wrappers. A wrapper's `pc` is `begin` (looking up a
stored result), `acquire`, `queued` (got 202, has not opened `/wait`),
`waiting`, `running`, `done` or `killed`. Every round trip is one action, so
the reaper, other clients and crashes come between them. The constant `Faults`
selects `daemon_crash`, `timeout` (the answer is lost although the daemon
acted) and `kill`. `Heartbeat` is a subcommand of the client program that the
wrapper never calls; in the model it may happen at any time and is never
forced.

A crash keeps neither locks nor streams. `restoreFromFile` counts the locks
of the previous process that it finds in `active.json` and drops them; only
the result files survive.

### TaskRow, TaskLifecycle

`TaskRow` has the row of a task and one operator per status write, including
the one guard `updateTaskStatus` has (`Accepts`: a terminal row accepts only
`pending` or `queued`).

`TaskLifecycle` models CLI tasks in the server. The server is one Node process,
so an action is the code between two turns of the event loop: from the claim to
the first `await` of startTask, from there to the spawn (or to one of its exits:
file-lock conflict, policy block, exception), a child's exit, its `close`
handler up to the finalizer's stages, each outcome of the stages, a timer
callback, a sweep's treatment of one task, one request.

| Variable | Code |
|---|---|
| `row` | `tasks` table |
| `att` | per attempt: `unused`, `starting` (startTask suspended), `live` (child runs, listener attached), `deaf` (child runs, the spawn step threw before the listeners were attached), `exited`, `dropped` (close discarded by the guard), `done` |
| `tracked` | the entry of `runningProcesses` |
| `guard` | `cleanupGuard`, which discards a second close |
| `fin`, `waiting` | the finalization that holds the task's lock, and close handlers waiting for it |
| `retryTimer`, `looseTimers`, `laneTimers` | pending timers: registered, overwritten in the registry but still pending, and those of `scheduleSameProviderRetry` that are registered nowhere |

The constant `Overlap` says whether a sweep or an operator may act on a task
while an earlier attempt of it is still in progress. The code does nothing to
exclude it. With `Overlap = FALSE` the model is the server whose timings are
all well inside the sweeps' thresholds; that is the assumption under which
capacity and ownership hold, and `CapacityRespected` and `OneOwner` state it as
their premise. All the other properties are checked with `Overlap = TRUE`.

### CodexBreaker

One provider's breaker with everything that listens to it. The event bus calls
its listeners in place, so a breaker call with all that its events trigger is one
action. The operators in lower case (`recordFailure`, `allowRequest`, ...) take
the state as a record and return the state after the call, which is how a call
that emits an event in the middle is composed; an action moves the variables to
the result with `Goto`. `Restart` follows the boot order of `server/index.js`:
park-resume handler, failover activator, canary scheduler, the latter two
calling `allowRequest` before they subscribe. Two history
variables say what an operator or the order of events decided about the template:
`override`, one was activated by hand since the last trip or restart, and
`noWayBack`, the failover template went up with no explicit template under it, or
a restart found it up, and no operator has chosen one since.

Time is abstracted to `elapsed`, whether the recovery timeout has passed since
the last trip or since the last failure that renewed it; failures are counted
up to the threshold.

### RunLease

What the coordinator promises, with no lock ids, Maps, streams or clocks: a run
holds the lease of its project, gives it back and may publish its result in the
same step, or loses it with nothing published; only a published result of the same
project and key is replayed. `CoordClients` implements it under the mapping

| `RunLease` | `CoordClients` |
|---|---|
| `holding` | the holders of the daemon's live locks, whatever the clients think: reaper and crash take a lease away without its holder knowing |
| `published` | the owners of the stored results |
| `replayed` | the clients that ended with a stored result |

so a grant whose answer was lost is a lease nobody will give back, a reap or a
crash is `Revoke`, and an expired or overwritten result leaves `published`.
Definitions of `RunLease` stand for no code and are not in the map.

### WorkflowDag, WorkflowRuntime

`WorkflowDag` is the graph code as functions from a state record to a state
record: readiness of a task, conditions on edges, `applyFailureAction`, merges,
fan-out limits, `handleWorkflowTermination` with its guard and queue, and the
three verdicts (`checkWorkflowCompletion`, `updateWorkflowCounts`,
`reconcileStaleWorkflows`). The code calls itself through several functions;
the operators keep that order of calls, since what a nested call sees is what
goes wrong.

The recursion is written so that it can be reasoned about. An operator that
stands for one of those functions takes the calls it makes into the recursion as
a record `sub` of functions (`evaluate`, `cascade`, `drain`); `frame(sub)` is the
record of what the functions do with these calls, and the recursive function
`calls` stacks `MaxNesting` frames on `overflow`, where every call throws, as a
JavaScript stack that is used up does. Handlers enter at `Top`, with the whole
stack free. Loops over edges and tasks are folds (`SeqFold`), whose steps are
functions as well.

`WorkflowRuntime` has one action per handler: a task starts, ends, is retried;
the completion pipeline's second, late call of `handleWorkflowTermination`
(`late`); run, pause, cancel, add a task, skip, retry from a task, reopen,
resume; listing, which reconciles stale workflows; and a restart of the server.
`MCWorkflow` gives five workflows of four tasks: conditional fork, join,
alternate, first-success race, fan-out of one.

### RestartLineage

One task and its clones over several lives of the server. `row` holds the rows
in creation order with their status, cancel reason, `resubmitted_from`,
`resubmitted_as`, resubmission count and epoch; `server` is up, stopping, down
or starting; `tracked`, `alive` and `logged` are the children this server
follows, the ones that live, and the ones whose log has the exit marker;
`todo` and `clone` are the reconciler's position. The reconciler's work on one
candidate is several actions (cancel, create the clone, write the pointer), with
a possible crash between them. `eligible`, `detached` and `closed` stand for
metadata, provider and work item of the task.

### FactoryLoop

One project's loop instances. A suspended advance is a record in `runs` with
what it remembers (instance, item, candidates, the stage it last saw); an action
is the code between two awaits. What planners, tasks, remote verify and merges
decide is nondeterministic; every row the controller writes before and after is
modelled.

| Variable | Code |
|---|---|
| `inst` | rows of `factory_loop_instances`: stage, `paused_at_stage`, work item |
| `status`, `claim` | `factory_work_items`; every open status is `open`, `needs_replan` within its cooldown is `cooling` |
| `logged`, `verified`, `rerun` | what the decision log can be asked: items ever selected, batches verified, whether the last VERIFY decision approves a rerun |
| `job` | `activeLoopAdvanceJobs` |
| `project`, `trust` | project status (with the operator's intent) and trust level |
| `forced`, `approved`, `broke` | history: a blocking call or a cancelled job may have put a second advance beside a running one; PLAN was approved in this pass; a PLAN stage threw or died |

The tick, the auto-advance timers and the startup reconciler start advances by
the same call as an operator, at times the operator may choose too, so
`AdvanceAsync` stands for all.

`StageLine` is what the controller promises of the stages: a stage holds one
instance, instances go from stage to stage along `Route`, and one that is over
does not come back. Its two variables are the instances' stages and `forced`,
the instances that the operator took off the route. `FactoryLoop` implements it
(`ImplementsStageLine`); items, pauses, gates, claims, jobs and suspended advances
are hidden, and most steps of the controller are stuttering steps of the line.

## 3. Runs

Passing runs:

| Run | Instance | States | Shows |
|---|---|---|---|
| `coord_safety` | 4 invocations (two of one project, same result key, different hashes), 3 projects, 2 slots, all faults, lock ids symmetric | 872,858 | `TypeOK`, `OneLockPerProject`, `SemaphoreBound`, `NoStrandedWaiter`, `HolderOwnsLock`, `LockLossJustified`, `ResultsOnlyFromHolders`, `ImplementsLease` (refinement of `RunLease`) |
| `coord_liveness` | 3 invocations, 1 slot, 2 acquire attempts, all faults, fair | 175,254 | `EveryInvocationFinishes`, `OrphanFreed` |
| `task_safety` | 2 tasks, 2 attempts each, 1 slot, 2 providers (limits 2 and 0), no overlap, tasks symmetric | 227,843 | `TypeOK`, `CapacityRespected`, `OneOwner` |
| `task_overlap` | 1 task, 2 attempts, 3 retries, overlap, fair | 175,595 | `ParkedHasTimer`, `SettledStays`, `RunningEnds`, `ParkedLeaves` |
| `breaker_safety` | 2 items, 2 templates, 2 failure categories, threshold 3, 1 canary at a time, fair | 54,392 | `TypeOK`, `ParkedMeansOpen`, `RowRemembersTrip`, `FailoverWhileOpen`, `FailoverTakenBack`, `ClosedDisarmsCanary`, `ParkedResumes` |
| `workflow_safety` | 5 workflows of 4 tasks, all operator requests, 1 late termination call, restarts, fair | 237,229 | `TypeOK`, `StartsAfterPrerequisites`, `ResultStands`, `CompletedHasNoFailure`, `FinalVerdictStands`, `VerdictReached`, `RestartForgetsNoTask` |
| `restart_safety` | 4 rows, 4 starts, cap 2, await cap 1, 1 retry | 1,242,052 | `TypeOK`, `OneLiveRow`, `StartupRecovers` |
| `factory_safety` | 2 instances, 1 item, 2 suspended advances, trust levels supervised and dark, one instance meddled with | 1,264,287 | `TypeOK`, `OneRunPerInstance`, `PlanGateHeld`, `StageExclusive`, `TerminatedStaysOut`, `ImplementsStageLine` (refinement of `StageLine`) |

Runs that show a disagreement between the code and what the repository says of
it. Each checks one property and TLC finds a counterexample; `findings` in
`PROJECT.json` quotes the statement.

| Run | Property | What happens |
|---|---|---|
| `coord_one_run_per_project` | `OneRunPerProject` | No fault needed: the wrapper sends no heartbeat, so a command longer than the stale threshold is reaped and the next invocation of the project is granted beside it |
| `task_cancelled_stays` | `CancelledStays` | A file-lock conflict found after startTask's `await` requeues a task that was cancelled meanwhile |
| `workflow_early_verdict` | `VerdictWhenNothingRuns` | Skipping one dependent evaluates the workflow in the middle of the pass over its siblings; the workflow is failed as stuck, then a sibling is queued |
| `factory_claimed_item` | `ClaimedItemsSkipped` | A second loop instance takes its selection from the project's decision log: the item the first instance has claimed |

`CHECK_DEADLOCK FALSE` is set for the coordinator and the tasks, because both
systems legitimately stop: all invocations have ended, or every task is settled
and the followed attempts are used up. It is set for the restart model because
its bounds on rows and starts stop it. The others check deadlock.

### Bounds and why they are enough

* `StaleThreshold = 1` tick: a lock is fresh, at the threshold or past it,
  which is all the reaper tells apart. Three or four clients on two of the same
  project give every pair of roles (holder and waiter of one project, holder of
  another, refused by the semaphore); four clients on two slots are the first
  instance where the semaphore refuses while a project is also contended.
* `MaxAttempts = 2` attempts of a task: an old attempt and the next one, the
  pair that every overlap hazard is about. `RetryBound` and `MaxRetries` are
  chosen so that the double charge of a retry still leaves a second retry.
* Two tasks, one slot: the first instance in which a claim must be refused; the
  provider limit of 0 is the boundary of the other comparison.
* `Threshold = 3` failures, so that there is a count that is neither zero nor
  one short of the limit; two failure categories, because a failure of another category
  than the last restarts the count; two items, so that a resume of only one would show.
* Workflows of four tasks: a prerequisite, two dependents and one behind them is
  the smallest graph in which a nested evaluation runs in the middle of an outer
  one. One late termination call at a time: two of different tasks commute.
  `MaxNesting = 12` frames of recursion: with it and with a recursion that is
  not bounded TLC finds the same 237,229 states, so no run of these graphs comes
  to the bottom of the stack. The theorems hold for every depth, also where it
  does.
* Four rows and four starts of one task with `Cap = 2`: an original, the clones
  of two restarts and a clone beyond the cap, with every crash in between.
  `AwaitCap = 1` (3 in the code) so that the await handlers reach it too.
* Two loop instances, because every conflict over a stage or an item is between
  two; two suspended advances, because a third adds no new pair; one item makes
  every selection a conflict, and `factory_claimed_item` has two so that a free
  one could have been taken. `Meddled` bounds blocking calls (`advanceLoop`, which
  the operator uses, and by `advanceLoopForProject` auto-recovery too) and
  job cancellations to once, for one of the instances. `supervised` has every gate
  of `guided` and `autonomous`, and only `dark` runs unattended. What the two levels
  left out do differently (`supervised` asks for VERIFY before LEARN, so a parked
  instance enters LEARN without a pause) is covered by the theorems, which are
  about all four levels.

### Fairness

* Coordinator: client processes keep running, commands terminate, the tick and
  reaper timers fire, the service manager restarts a dead daemon. Faults, kills
  and heartbeats are never forced.
* Tasks: startTask's awaits end, children exit (or are killed by their
  timeout), Node delivers their `close`, the finalizer's stages time out, timers
  and the standing sweeps run. Nothing is assumed of the queue, of operators or
  of the opt-in stall check, so the liveness properties do not rest on them.
* Breaker: a pause of the recovery timeout without new failures comes (failures
  while OPEN renew it, and routing sends no new work), and somebody keeps asking
  for the state. Nothing is assumed of canaries. `ParkedResumes` has the premise
  that operators do not trip the breaker for ever.
* Workflows: only that somebody keeps listing them (the dashboard and the status
  tools poll, and listing calls `reconcileStaleWorkflows`). Nothing is assumed of
  tasks or operators, so `VerdictReached` is about workflows whose tasks are over.
* Restart and factory: no fairness, safety only.

## 4. Proofs

All theorems are of the form `Spec => []P` or `Spec => [][A]_vars`, but for the
refinements `CoordImplementsLease` and `FactoryImplementsStageLine`, and hold for
every value of the constants that satisfies the named assumptions
(`CoordAssumption`, `ClientAssumption`, `RowAssumption`, `LifecycleAssumption`,
`BreakerAssumption`, `DagAssumption`, `RuntimeAssumption`, `LineageAssumption`,
`FactoryAssumption`), which TLC evaluates in every run. They say no more than
that the parameters have their types, that sets counted by a limit are finite
and that distinguished values are distinct.

| Module | Theorems |
|---|---|
| `CoordProofs` | `CoordTypeCorrect`, `CoordOneLockPerProject`, `CoordSemaphoreBound`, `CoordNoStrandedWaiter`, `CoordHolderOwnsLock`, `CoordLockLossJustified`, `CoordResultsOnlyFromHolders`, `CoordImplementsLease` |
| `TaskProofs` | `TaskTypeCorrect`, `TaskParkedHasTimer`, `TaskOneOwner`, `TaskCapacityRespected`, `TaskSettledStays` |
| `BreakerProofs` | `BreakerTypeCorrect`, `BreakerParkedMeansOpen`, `BreakerRowRemembersTrip`, `BreakerFailoverWhileOpen`, `BreakerFailoverTakenBack`, `BreakerClosedDisarmsCanary` |
| `SeqFoldProofs` | no theorem: lemmas about folds (`FoldIn`, `FoldReaches`) and induction over the naturals (`NatInd`) |
| `WorkflowProofs` | `WorkflowTypeCorrect`, `WorkflowStartsAfterPrerequisites`, `WorkflowResultStands`, `WorkflowCompletedHasNoFailure`, `WorkflowFinalVerdictStands` |
| `RestartProofs` | `RestartTypeCorrect`, `RestartOneLiveRow`, `RestartStartupRecovers` |
| `FactoryProofs` | `FactoryTypeCorrect`, `FactoryStageExclusive`, `FactoryTerminatedStaysOut`, `FactoryOneRun`, `FactoryPlanGateHeld` |
| `StageLineProofs` | `FactoryImplementsStageLine` |

The arguments:

* **Coordinator.** `TypeInv` is `TypeOK` with the shape of a client's state: a
  `queued` or `waiting` client, and one that runs with a granted lock, has a
  lock id, and whoever may still retry is within the attempt limit. `TableInv` adds to
  `OneLockPerProject` that every live lock was issued: without it a grant could
  overwrite a live lock with a fresh id. The semaphore bound follows because
  only an acquire adds a lock, and it adds one, below the limit; every other step
  leaves a subset of the live locks. A waiter is stranded only if its lock
  disappears without it: every step that frees a lock either moves all its
  subscribers to `ended` or ends the daemon and all streams with it (`WaiterInv`).
* **Tasks.** `RowWrites` says once, for all actions, which statuses each write
  can produce and from which row; `Frame` says what an action leaves alone.
  `ParkedHasTimer` is then inductive with the observation that an action either
  parks the row and sets a timer, or removes a timer and moves the row.
  `OneOwner` is proved per task as `OwnerAt`; its last two conjuncts (nobody
  waits for the finalization lock, and a row at rest has neither an attempt nor
  a finalization) are what makes it inductive, since startTask, timers and
  requeues act on rows at rest. `CapacityRespected` rests on
  two lemmas: the claim is the only step to `running` (`RunningStep`), and it
  adds one row (`GrowByOne`). `SettledStays` goes through the writes of
  `RowWrites` that can leave a settled row; each needs a suspended startTask or
  a tracker entry.
* **Breaker.** `Good(w, o)` is the invariant as a predicate of a state record,
  and one lemma per call shows that the call preserves it (`SuccessGood`,
  `FailureGood`, `TripGood`, `UntripGood`, `AllowGood`, `BootGood`), each built from what the
  two events do (`RecoveredFacts`, `TrippedFacts`). An action only composes
  these lemmas. The other theorems are parts of this one invariant because they
  hold each other up: `ParkedMeansOpen` survives a restart only because
  `RowRemembersTrip` makes the reload OPEN, and `FailoverWhileOpen` because the
  startup reconcile runs on the reloaded state. `FailoverTakenBack` has an
  invariant of its own, `Homeward`: the remembered template is never the failover
  one, and while the failover template is active there is one to go back to, or
  `noWayBack`, and the breaker is OPEN, or `noWayBack`. Its lemmas go call by call
  like those of `Good`; the middle state of a recovery or a trip is only `Backed`,
  which leaves out the breaker's state.
* **Lease.** `HolderInv` adds to `HolderOwnsLock` that a live lock is under the
  project and key of its holder and that a client has no outcome before it runs.
  Ids are issued once, so a lost lock does not come back under another holder. `LeaseInv` adds the
  semaphore bound, which is the guard of the abstract `Grant`, and that a
  stored result is under the project and key of the run it came from. Every
  step then maps to one abstract step or to none; the release is one step of the
  daemon, which is why lease and result can change hands together.
  `LossStep` and `ResultStep` classify the steps that free a lock or write a
  result: only the passing exit does the latter, and since a live lock is its
  holder's own, an exit after a reap finds nothing of a successor to free or to
  publish under.
* **Workflows.** `Evolves(S, Q)` is what the runtime may do to a workflow between
  two points of one evaluation: a terminal row stays as it is, a queued or
  running task goes on or ends, a blocked one that waits for all its
  prerequisites (`Strict`) is released only with them over or by the rule for
  `continue` (`Released`), a verdict stays, and `completed` is said only of tasks
  that are over and did not fail. The relation is reflexive and transitive
  (`EvolvesRefl`, `EvolvesTrans`), and transitive only because it says all of this
  together: that a prerequisite which is over at the release is still over at the
  end is the first conjunct. Every single write respects it (`WriteEvolves`,
  `VerdictEvolves` and the lemmas after them), so does a loop of steps that do
  (`FoldEvolves`), and so does a frame of the recursion if the calls it makes do
  (`FrameSound`). Induction over the stack gives `TopSound`: whatever a nested
  pass, a cascade or a queued termination does in the middle of an outer pass, the
  outer pass finds a state that evolved from the one it left, which is what its own
  writes need. The interesting leaf is `DeadlockReleaseEvolves`: a forced
  release for `continue` happens when nothing runs or is queued, so an
  unfinished prerequisite was not going before either. The
  operators' requests do more than the runtime (they reset, requeue, reopen
  and cancel), so a step of the system is shown to be `Allowed`, a weaker
  relation between the states before and after (`StepAllowed`, one lemma per kind of
  request), from which the four action properties are read off.
  `AddTaskAllowed` and `ReopenAllowed` have the two cases that are not obvious: a
  reopened workflow is not judged at once, since the added or
  reset task is not over, and what is queued has no unfinished prerequisite.
  No lemma is about a particular graph: workflows may have cycles and edges of
  every kind.
* **Restart.** `TypeOK` is inductive as it stands; `RowWrite` and `RowFields`
  reduce every action to the fields it writes, and the new rows of the three
  cloning paths are shown to be below the bound.
  `RestartStartupRecovers` needs `StartInv`: a clone is younger than its
  original whichever of the two links tells (`Links`), the rows the start has
  passed are younger than those it has not (`Sweep`), and a passed row is
  adopted, being cloned, or has an uncancelled row that is not older than it
  (`Recovered`). "Not older" matters: the next candidate the reconciler cancels is
  older, so it is nobody's evidence. The search for descendants is treated in
  one lemma per answer: `SearchFinds` (if it succeeds, a younger row is
  uncancelled) and `SearchMisses` (if it fails, all younger rows are cancelled,
  for rows below the cap while only restarts acted).
  `RestartOneLiveRow` adds `LineInv`, under the premise of the property: rows
  follow one another up to the cap and are then all clones of the same row
  (`Chain`), the search meets every younger row (`Reach`, which stands for the
  induction along the chain), no row with a clone below the cap is uncancelled
  (`OneOpen`), and a clone is made of the last row when all are cancelled
  (`CloneReady`). `RestartsBefore` shows that the premise, once false, stays
  false, so a step may assume it before and after. The decisive lemma is
  `CandidateIsLast`: by `Recovered` and `Reach` the reconciler gets to cancel a
  candidate only when it is all that is left.
* **Factory.** `TypeInv` is `TypeOK` with what resumed advances rely on: a
  waiting advance belongs to a started instance, and from PLAN to VERIFY it has an
  item. `InstStep` says of every action that stages stay but for terminations
  (`Calm`) or one live instance enters a stage that nobody else is in
  (`Enters`); `FactoryStageExclusive` and `FactoryTerminatedStaysOut` are read off
  it. In the same way `RunStep` says that a step starts at most one advance, of an instance
  without a job, or moves one on; with `JobInv` (an advance of an instance nobody
  meddled with is that instance's job) this gives `FactoryOneRun`.
  `PlanGateHeld` is not inductive, since whether an instance may enter EXECUTE
  is decided by its pause and by the advance that waits for its plan. `GateInv`
  adds that a suspended advance waits in the stage its instance is in, where an
  instance parked for a stage stands, and that a gated, unapproved instance in PLAN is
  paused there or has its PLAN stage still running. It holds for instances that
  nobody meddled with and rests on `JobInv`: a second advance would be the one
  that slips past the gate.
* **Stage line.** `RouteInv` adds to `GateInv` that a parked instance waits for a
  stage that follows the one it is in (`Routed`): an advance of a parked instance
  believes the pause, not a fresh look at the stage. An advance that comes back
  goes to the stage that follows the one it remembers, and `RunsInStage` says
  that this is where its instance still is. `OnRoute` is what a step may then do to
  one instance, one lemma per kind of step; with `InstStep`, which says that at
  most one instance enters a stage, every step is one of the line or a
  stutter (`LineStep`).

Only model-checked: all liveness (fairness and `ENABLED` are outside what the
prover can do) and, of the safety properties, `RestartForgetsNoTask`. It says that
a restart gets to a certain state, where the others say what no step does, and so
it needs the loops to reach every task: an evaluation that is cut off by an
exception, or a `first_success` merge with condition expressions whose
prerequisites all failed, can leave a task behind, and that neither happens
during a restart of these five graphs is a fact about them. The induction over the stack is proved from the
well-foundedness of `<` (`NatInd`) because the library's induction theorems take
an operator as a parameter, which the provers cannot instantiate; the recursive
function `calls` is shown to exist in the same way (`CallsDef`, `AfterDef`).

## 5. What the models leave out

* Coordinator: read-only routes, path validation, the wrapper's sync, lane
  locks and ssh transport.
* Tasks: the child's `error` event, the 2 s instant-exit watchdog, detached
  children (`process-lifecycle.js:711`, `subprocess-detachment.js:36`: the default
  for CLI providers, so `RunningEnds` is about piped children only), slot-pull
  eligibility, provider locks, `combined_max_attempts`, the
  local-first fallback chain, direct API providers, host slots, interventions,
  a crash of the server.
* Breaker: the values of the exponential backoff, a failed or interrupted write
  of the row (`_persist` swallows errors), deletion of a template, an operator
  who activates the failover template by hand.
* Workflows: the status `waiting`, `pending_provider_switch`, injected review
  tasks, validation of working directories, deduplication of plan generation,
  forking and merging of workflows.
* Restart: the evidence by which an orphan counts as finished (a log that ends with
  exit code 0, or final output in its row) is one flag; rewiring of workflow edges
  to a clone, deduplication of plan
  generation, project pauses, several server instances.
* Factory: `STARVED`, `EXECUTE_DEFERRED`, parking for Codex (see `CodexBreaker`),
  ages and cooldown times, and the order of the decision log: any logged
  selection that is not finished may be found. The trust level does not change
  in a behaviour, although `handleSetFactoryTrustLevel`
  (`factory-handlers.js:2209`) can change it while loops run. A quality gate that
  throws lets a written plan through (`plan-execute.js:713`) and counts as a pass.
  The blocking call of auto-recovery (`container.js:562`, run from
  `factory-tick.js:1480`) picks only paused projects that run unattended; the
  model does not assume this, and lets a blocking call come at any time, as the
  operator's may, with its instance recorded in `forced`.

Behaviour seen while modelling that the runs do not turn into a property:

* A full semaphore does not make a wrapper wait: it runs uncoordinated. This is
  what the code intends, and it means `SemaphoreBound` bounds granted runs, not
  all runs.
* A cancel during startTask's `await` can leave a tracker entry behind; the
  opt-in stall sweep then requeues the cancelled task. `SettledStays` therefore
  has "nothing tracked" in its premise.
* The dashboard's retry leaves the cleanup guard set, so the next attempt's
  close is discarded until the zombie check makes up for it. Parts of
  `docs/cancellation-cleanup.md` (lines 41, 107) still give the guard a lifetime
  of 60 s; the code, and line 169 of the same document, say 15 min.
* A template that an operator chooses during an outage is replaced by the prior
  one at recovery.
* The single HALF_OPEN probe can be spent on a caller that only asks, or on a
  task that is cancelled; nothing gives it back.
* A process killed between the write of CLOSED and the `circuit:recovered` event
  comes back with items parked and no one to resume them.
* The wrapper's release sends a malformed hash map that is stored as empty, and
  an empty map matches every checkout, so a cached pass may be replayed for other
  code (`bin/torque-remote:2694`).
* The stale check requeues a row whose startTask is suspended, and the child is
  then started for a queued row (`orphan-cleanup.js:697`). One retry is counted
  when it is scheduled and again when its timer fires (`retry-framework.js:270`).
* With no explicit template set, or after a restart that finds the failover
  template in place, it is not taken back at recovery (`failover-activator.js:51`);
  `FailoverTakenBack` excepts these two cases, by `noWayBack`, and no other. A canary
  whose submission resolves as an error result, or whose task fails, is the last
  of the outage (`canary-scheduler.js:44`).
* Workflows: an exception on a dependent that is already terminal loses the rest
  of a cascade; a workflow waiting for a `retry_scheduled` task is failed as
  stuck; reopen and retry-from can throw in the middle of their reset; a pause
  loses terminations; a fan-out slot is given back only on completion; an
  alternate ignores its own prerequisites.
* Restart: a task queued before a restart and started after it keeps the epoch
  of its creation, so the await handlers take it for an orphan and requeue it
  while its subprocess runs (`await.js:1863`). The resubmission cap is per row
  and does not bound the number of clones. A shutdown cancels the row of a detached child that is adopted
  later; the row stays cancelled and an ancestor can be cloned beside it. A clone
  that the user cancelled can be resurrected. A crash between clone and pointer in the
  await handlers leaves two live rows (`OneLiveRow` is about restarts alone and
  providers that do not detach).
* Factory: a pre-written plan rejected by the quality gate asks for PRIORITIZE
  but stays in PLAN, and where PLAN is not gated the next advance executes it. A
  PLAN stage that throws, or is cut off by a restart, leaves PLAN unpaused and so
  skips the gate; `PlanGateHeld` excepts such instances. No code asks for
  approval at VERIFY and LEARN, which the gates of the trust levels list. A `verified_batch` decision of an earlier pass lets a
  later pass skip VERIFY, because a batch is named after its item. The watchdog
  hardly fires, since each retry of a parked instance renews its time stamp, so
  two parked instances can wait for each other. Cancelling a job parks the
  instance while the promise runs on and undoes it. An instance terminated during a
  stale probe still takes the claim of an item. The tick's VERIFY repair approves
  the gate of the project's oldest instance, whichever was paused. A stray run
  writes `verifying` over a shipped item. `startLoop` lifts a pause that is not
  the operator's.

The hazards in `PROJECT.json` without a property say which of these gaps they
fall into.

## 6. Plan

Done: the coordinator with its abstract lease, the task lifecycle, the breaker
and its observers, the workflow runtime, the restart lineage and the factory
loop, with a theorem for every safety property of the passing runs but
`RestartForgetsNoTask`. Next:

1. A theorem that says under which conditions on the graph a restart forgets no
   task, from a lemma that a fold reaches every element of its sequence.
2. **Task-claim leases** (`db/coordination.js`), where `releaseTaskClaim` does not
   look at the holder, and the shared factory store.
3. The `error` event and the watchdog as actions of `TaskLifecycle`; then the
   slot-pull scheduler and host slot counters, which `cancelTask` and the close
   handler both decrement.
4. An abstract task lifecycle with five statuses, implemented by `TaskLifecycle`.
