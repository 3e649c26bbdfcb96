------------------------------ MODULE FactoryLoop ------------------------------
(***************************************************************************)
(* The factory's loop controller for one project: loop instances that go   *)
(* through SENSE, PRIORITIZE, PLAN, EXECUTE, VERIFY and LEARN, at most one *)
(* of them in each stage, each working on one work item.                   *)
(*                                                                         *)
(* An advance of an instance is an async function: it changes rows, awaits *)
(* something slow (a probe, a planner, tasks, a remote verify, a merge) and *)
(* goes on with what it remembers. A suspended advance is a record in      *)
(* runs. What a slow step decides is nondeterministic; everything the      *)
(* controller does before and after it is modelled. Between two awaits     *)
(* JavaScript runs to completion, so each action is one such stretch.      *)
(*                                                                         *)
(* An advance that need not be awaited is started by the tick, by the      *)
(* auto-advance timers, by the startup reconciler and by the operator, all *)
(* through advanceLoopAsync; since the operator may call it at any time,   *)
(* AdvanceAsync stands for all four. Time is not modelled: any cooldown    *)
(* may be over, any instance may be old enough for the watchdog.           *)
(*                                                                         *)
(* Left out: STARVED projects, deferred plan generation (EXECUTE_DEFERRED) *)
(* and parking for an unavailable Codex.                                   *)
(***************************************************************************)
EXTENDS Integers, FiniteSets, FiniteSetsExt

CONSTANTS
    MaxInst,   \* bound: instances created in a behaviour
    Items,     \* the project's work items
    MaxRuns,   \* bound: advances suspended at the same time
    Levels,    \* the trust levels the project may have
    Meddled    \* bound: instances that the operator or auto-recovery advances by
               \* the blocking call, or whose job the operator cancels

ASSUME FactoryAssumption ==
    /\ MaxInst \in Nat \ {0}
    /\ MaxRuns \in Nat \ {0}
    /\ 0 \notin Items
    /\ Levels \subseteq {"supervised", "guided", "autonomous", "dark"}
    /\ Meddled \subseteq 1..MaxInst

Insts  == 1..MaxInst
Frames == 1..MaxRuns
None   == 0          \* no work item, no instance, no run
NoStage == "null"    \* paused_at_stage is null

Stages == {"SENSE", "PRIORITIZE", "PLAN", "EXECUTE", "VERIFY", "LEARN"}

FORWARD_TRANSITIONS ==
    [SENSE |-> "PRIORITIZE", PRIORITIZE |-> "PLAN", PLAN |-> "EXECUTE",
     EXECUTE |-> "VERIFY", VERIFY |-> "LEARN", LEARN |-> "IDLE"]

APPROVAL_GATES ==
    [supervised |-> {"PRIORITIZE", "PLAN", "VERIFY", "LEARN"},
     guided |-> {"PLAN", "LEARN"}, autonomous |-> {"LEARN"}, dark |-> {}]

EXIT_GATED_STATES ==
    [supervised |-> {"VERIFY"}, guided |-> {}, autonomous |-> {}, dark |-> {}]

\* toReadyForStage: the pause of an instance that waits for an occupied stage.
ReadyFor ==
    [SENSE |-> "READY_FOR_SENSE", PRIORITIZE |-> "READY_FOR_PRIORITIZE",
     PLAN |-> "READY_FOR_PLAN", EXECUTE |-> "READY_FOR_EXECUTE",
     VERIFY |-> "READY_FOR_VERIFY", LEARN |-> "READY_FOR_LEARN"]

\* The pauses approveGate and rejectGate accept (assertValidGateStage).
GatePauses == Stages \cup {"PLAN_REVIEW"}

Pauses == GatePauses \cup {ReadyFor[s] : s \in Stages} \cup {"VERIFY_FAIL", NoStage}

VARIABLES
    trust,     \* the project's trust level
    project,   \* the project: "running", "paused", or paused by the "operator"
    inst,      \* the rows of factory_loop_instances
    status,    \* the work items' status
    claim,     \* claimed_by_instance_id of each work item
    logged,    \* items that a decision of the log has selected
    verified,  \* items whose batch has a verified_batch decision
    rerun,     \* the latest VERIFY decision approves a rerun
    runs,      \* the suspended advances
    job,       \* activeLoopAdvanceJobs: the run of an instance's job
    forced,    \* history: a blocking call, or a cancelled job, may have put a
               \* second run beside a first
    approved,  \* history: PLAN approved, or skipped for a written plan
    broke      \* history: a PLAN stage failed, or died with the server

rows == <<status, claim, logged, verified, rerun>>
vars == <<trust, project, inst, rows, runs, job, forced, approved, broke>>

NoRun == [i |-> None, at |-> "none", item |-> None, cands |-> {}, seen |-> NoStage]

Init ==
    /\ trust \in Levels
    /\ project = "running"
    /\ inst = [i \in Insts |-> [state |-> "NONE", paused |-> NoStage, item |-> None]]
    /\ status = [w \in Items |-> "open"]
    /\ claim = [w \in Items |-> None]
    /\ logged = {}
    /\ verified = {}
    /\ rerun = FALSE
    /\ runs = [f \in Frames |-> NoRun]
    /\ job = [i \in Insts |-> None]
    /\ forced = {}
    /\ approved = {}
    /\ broke = {}

-----------------------------------------------------------------------------
(* The rows *)

Live(i) == inst[i].state \in Stages
LiveInsts == {i \in Insts : Live(i)}
Terminated(i) == inst[i].state = "IDLE"
Held == project # "running"

\* shouldRunUnattendedFactoryWork: only a ready project is driven by ticks and
\* continues by itself, and that is a dark one.
Unattended == trust = "dark"

\* "open" is every status of an unfinished item, but for needs_replan inside
\* its cooldown, which is "cooling".
Unfinished(w) == status[w] \in {"open", "cooling"}

\* getSelectedWorkItem: a selection whose item is closed is dropped.
Selected(i) == IF inst[i].item # None /\ Unfinished(inst[i].item)
               THEN inst[i].item ELSE None

\* An instance without a selection in its row takes one from the decision log,
\* whoever that decision was for: the item it remembers from its last pass, or
\* the latest unfinished one. Which of the logged items that is, is left open.
SelectedAnew(i) ==
    LET found == {w \in logged : Unfinished(w)} IN
    IF inst[i].item = None /\ found # {} THEN found ELSE {Selected(i)}

\* getLoopWorkItem: an unfinished item that nobody claimed.
FallBack == {w \in Items : Unfinished(w) /\ claim[w] = None}

\* getPendingGateStage
PendingGate(s) ==
    IF s \in EXIT_GATED_STATES[trust] THEN s
    ELSE IF FORWARD_TRANSITIONS[s] \in APPROVAL_GATES[trust] \ EXIT_GATED_STATES[trust]
         THEN FORWARD_TRANSITIONS[s] ELSE NoStage

GateAt(from, stage) == IF PendingGate(from) = stage THEN stage ELSE NoStage

\* Mutant of Occupied: a parked instance does not count for its stage.
OccupiedUnparked(i, s) ==
    \E j \in Insts \ {i} : inst[j].state = s /\ inst[j].paused = NoStage

\* The unique index on (project, loop_state) of the rows that are not over.
Occupied(i, s) == \E j \in Insts \ {i} : inst[j].state = s

\* updateInstance. What is written to a terminated row is not kept: nothing
\* that matters reads it.
Write(i, p, w) ==
    IF Terminated(i) THEN inst ELSE [inst EXCEPT ![i].paused = p, ![i].item = w]

SetPause(i, p) == Write(i, p, inst[i].item)

\* claimStageForInstance throws for a terminated row and for a taken stage. An
\* advance that last saw the row in stage s does not call it at all.
Blocked(i, seen, s) == seen # s /\ (Terminated(i) \/ Occupied(i, s))

\* Mutant of Moved: claimStageForInstance does not look for a terminated row.
MovedAlways(i, seen, s, p, w) ==
    IF seen = s THEN Write(i, p, w)
    ELSE IF Occupied(i, s) THEN SetPause(i, ReadyFor[s])
    ELSE [inst EXCEPT ![i] = [state |-> s, paused |-> p, item |-> w]]

\* tryMoveInstanceToStage: move, park for an occupied stage, or throw.
Moved(i, seen, s, p, w) ==
    IF seen = s THEN Write(i, p, w)
    ELSE IF Terminated(i) THEN inst
    ELSE IF Occupied(i, s) THEN SetPause(i, ReadyFor[s])
    ELSE [inst EXCEPT ![i] = [state |-> s, paused |-> p, item |-> w]]

TryMove(i, s, p, w) == Moved(i, inst[i].state, s, p, w)

\* terminateInstanceAndSync, for the instances of S: claims go with them.
Ended(S) ==
    [i \in Insts |-> IF i \in S
                     THEN [state |-> "IDLE", paused |-> NoStage, item |-> None]
                     ELSE inst[i]]

Released(S) == [w \in Items |-> IF claim[w] \in S THEN None ELSE claim[w]]

\* History variables, kept as long as the pass or the stage they are about.
PlanGate == PendingGate("PRIORITIZE") = "PLAN"
InPass(i) == inst[i].state \in Stages \ {"SENSE", "PRIORITIZE"}

Remember(granted, failed) ==
    /\ approved' = {i \in approved \cup granted : PlanGate /\ InPass(i)'}
    /\ broke' = {i \in broke \cup failed : PlanGate /\ InPass(i)'}

RememberNothing == Remember({}, {})

-----------------------------------------------------------------------------
(* How an advance waits and ends *)

\* An advance waits for the first time. As a job it is the instance's only one.
Suspend(i, async, at, w, cands) ==
    \E f \in Frames :
      /\ runs[f] = NoRun
      /\ \A g \in Frames : g < f => runs[g] # NoRun
      /\ runs' = [runs EXCEPT ![f] = [i |-> i, at |-> at, item |-> w,
                                      cands |-> cands, seen |-> NoStage]]
      /\ job' = IF async THEN [job EXCEPT ![i] = f] ELSE job

\* A run waits again, for something else.
Wait(f, at, w, seen, cands) ==
    /\ runs' = [runs EXCEPT ![f].at = at, ![f].item = w, ![f].seen = seen,
                            ![f].cands = cands]
    /\ UNCHANGED job

\* Mutant of Finish: the entry of the job is left behind.
FinishKeepsJob(f) ==
    /\ runs' = [runs EXCEPT ![f] = NoRun]
    /\ UNCHANGED job

\* A run has come to its end; its job, if it still is that, is over.
Finish(f) ==
    /\ runs' = [runs EXCEPT ![f] = NoRun]
    /\ job' = [i \in Insts |-> IF job[i] = f THEN None ELSE job[i]]

-----------------------------------------------------------------------------
(* runAdvanceLoop, up to its first await *)

\* A parked instance tries again. The watchdog may first terminate the stage's
\* occupant; one with live batch tasks is spared.
AdvReady(i) ==
    \E s \in Stages, S \in SUBSET (LiveInsts \ {i}) :
      /\ inst[i].paused = ReadyFor[s]
      /\ \A j \in S : inst[j].state = s
      /\ LET free == inst[i].state = s \/ \A j \in Insts \ {i} : inst[j].state = s => j \in S IN
         inst' = [Ended(S) EXCEPT ![i] =
             IF free THEN [@ EXCEPT !.state = s, !.paused = GateAt(inst[i].state, s)]
             ELSE @]
      /\ claim' = Released(S)
      /\ UNCHANGED <<status, logged, verified, rerun, runs, job>>
      /\ RememberNothing

AdvSense(i) ==
    /\ inst[i].state = "SENSE"
    /\ inst' = TryMove(i, "PRIORITIZE", GateAt("SENSE", "PRIORITIZE"), inst[i].item)
    /\ UNCHANGED <<rows, runs, job>>
    /\ RememberNothing

\* claimNextWorkItemForInstance, up to its first probe: items found to have
\* been merged are closed, whoever claims them; the others are candidates.
ReadCandidates(i, async, merged, st, cl) ==
    /\ status' = [w \in Items |-> IF w \in merged /\ Unfinished(w) THEN "shipped" ELSE st[w]]
    /\ claim' = cl
    /\ Suspend(i, async, "claim", None,
               {w \in Items : status'[w] = "open" /\ cl[w] \in {None, i}})

\* executePrioritizeStage when it has to claim an item: it has no selection, or
\* drops one that is cooling, or closes one that it finds shipped or stuck.
AdvPrioritizeClaim(i, async) ==
    /\ inst[i].state = "PRIORITIZE"
    /\ \E w \in SelectedAnew(i), merged \in SUBSET Items :
         \/ /\ w = None
            /\ ReadCandidates(i, async, merged, status, claim)
            /\ UNCHANGED inst
         \/ /\ w # None /\ status[w] = "cooling"
            /\ ReadCandidates(i, async, merged, status, Released({i}))
            /\ inst' = [inst EXCEPT ![i].item = None]
         \/ /\ w # None /\ status[w] = "open"
            /\ \/ ReadCandidates(i, async, merged, [status EXCEPT ![w] = "shipped"], Released({i}))
               \/ ReadCandidates(i, async, merged, [status EXCEPT ![w] = "closed"], claim)
            /\ UNCHANGED inst
    /\ UNCHANGED <<logged, verified, rerun>>
    /\ RememberNothing

\* The row takes the item, then PLAN is entered or waited for.
Planning(i, w) == IF Terminated(i) THEN inst
                  ELSE [TryMove(i, "PLAN", NoStage, w) EXCEPT ![i].item = w]

\* executePrioritizeStage with a selection: the claim is not looked at.
AdvPrioritizeKept(i, async) ==
    /\ inst[i].state = "PRIORITIZE"
    /\ \E w \in SelectedAnew(i) \ {None} :
         /\ status[w] = "open"
         /\ logged' = logged \cup {w}
         /\ inst' = Planning(i, w)
         /\ IF Blocked(i, "PRIORITIZE", "PLAN") THEN UNCHANGED <<runs, job>>
            ELSE Suspend(i, async, "plan", w, {})
    /\ UNCHANGED <<status, claim, verified, rerun>>
    /\ RememberNothing

\* handlePlanExecuteTransition: enter EXECUTE, find the item, start on it.
\* Without a selection EXECUTE takes an item that nobody claimed, unclaimed.
AdvExecute(i, async) ==
    /\ inst[i].state \in {"PLAN", "EXECUTE"}
    /\ \/ /\ Blocked(i, inst[i].state, "EXECUTE")
          /\ inst' = TryMove(i, "EXECUTE", NoStage, inst[i].item)
          /\ UNCHANGED <<claim, runs, job>>
       \/ /\ ~Blocked(i, inst[i].state, "EXECUTE")
          /\ Selected(i) = None /\ FallBack = {}
          /\ inst' = Ended({i})
          /\ claim' = Released({i})
          /\ UNCHANGED <<runs, job>>
       \/ /\ ~Blocked(i, inst[i].state, "EXECUTE")
          /\ \E w \in (IF Selected(i) # None THEN {Selected(i)} ELSE FallBack) :
               /\ inst' = TryMove(i, "EXECUTE", NoStage, w)
               /\ Suspend(i, async, "execute", w, {})
          /\ UNCHANGED claim
    /\ UNCHANGED <<status, logged, verified, rerun>>
    /\ RememberNothing

\* runVerifyStage: a batch that has a verified_batch decision is not verified
\* again, unless the latest VERIFY decision approves a rerun. A batch is named
\* after its work item, so the decision may be from an earlier pass.
AdvVerify(i, async) ==
    /\ inst[i].state = "VERIFY"
    /\ IF inst[i].item \in verified /\ ~rerun
       THEN /\ inst' = TryMove(i, "LEARN", NoStage, inst[i].item)
            /\ UNCHANGED <<runs, job>>
       ELSE /\ Suspend(i, async, "verify", inst[i].item, {})
            /\ UNCHANGED inst
    /\ UNCHANGED rows
    /\ RememberNothing

AdvLearn(i, async) ==
    /\ inst[i].state = "LEARN"
    /\ Suspend(i, async, "learn", Selected(i), {})
    /\ UNCHANGED <<inst, rows>>
    /\ RememberNothing

\* runAdvanceLoop. A paused project's advance ends at once, but for an EXECUTE
\* that has a plan file; a gate pause makes it throw.
Advance(i, async) ==
    /\ Held => inst[i].state = "EXECUTE" /\ (Selected(i) # None \/ FallBack # {})
    /\ \/ AdvReady(i)
       \/ /\ inst[i].paused = NoStage
          /\ \/ AdvSense(i)
             \/ AdvPrioritizeClaim(i, async)
             \/ AdvPrioritizeKept(i, async)
             \/ AdvExecute(i, async)
             \/ AdvVerify(i, async)
             \/ AdvLearn(i, async)
    /\ UNCHANGED <<trust, project>>

Parked(i) == \E s \in Stages : inst[i].paused = ReadyFor[s]

\* Mutant of CanAdvanceAsync: a job that is running is not looked for.
CanAdvanceAnyway(i) == Live(i) /\ (inst[i].paused = NoStage \/ Parked(i))

\* advanceLoopAsync refuses a gate pause and returns a job that is running.
CanAdvanceAsync(i) == /\ Live(i)
                      /\ job[i] = None
                      /\ inst[i].paused = NoStage \/ Parked(i)

AdvanceAsync(i) == CanAdvanceAsync(i) /\ Advance(i, TRUE) /\ UNCHANGED forced

\* advanceLoop: the blocking call of the operator, and of auto-recovery's retry
\* and reject-and-advance strategies by way of advanceLoopForProject, looks at no
\* job. (Auto-recovery picks paused, unattended projects, which is not assumed.)
AdvanceSync(i) ==
    /\ i \in Meddled \ forced
    /\ Live(i)
    /\ Advance(i, FALSE)
    /\ forced' = forced \cup {i}

-----------------------------------------------------------------------------
(* runAdvanceLoop, after an await: f is the run that goes on *)

\* The stale probe closes a candidate.
ProbeStale(f) ==
    /\ runs[f].at = "claim"
    /\ \E w \in runs[f].cands :
         /\ status' = [status EXCEPT ![w] = "shipped"]
         /\ Wait(f, "claim", None, NoStage, runs[f].cands \ {w})
    /\ UNCHANGED <<trust, project, inst, claim, logged, verified, rerun, forced>>
    /\ RememberNothing

\* claimWorkItem's conditional UPDATE looks at the claim, not at the status.
Claimable(i, w) == claim[w] \in {None, i}

\* The row of a terminated instance takes the claim, then the advance throws.
ClaimItem(f) ==
    LET i == runs[f].i IN
    /\ runs[f].at = "claim"
    /\ \E w \in runs[f].cands :
         /\ Claimable(i, w)
         /\ claim' = [claim EXCEPT ![w] = i]
         /\ logged' = logged \cup {w}
         /\ inst' = Planning(i, w)
         /\ IF Blocked(i, inst[i].state, "PLAN") THEN Finish(f)
            ELSE Wait(f, "plan", w, NoStage, {})
    /\ UNCHANGED <<trust, project, status, verified, rerun, forced>>
    /\ RememberNothing

\* The item just claimed has shipped, or is stuck: PRIORITIZE starts over.
ClaimClosed(f) ==
    LET i == runs[f].i IN
    /\ runs[f].at = "claim"
    /\ \E w \in runs[f].cands :
         /\ Claimable(i, w)
         /\ logged' = logged \cup {w}
         /\ \/ /\ status' = [status EXCEPT ![w] = "shipped"]
               /\ claim' = Released({i})
            \/ /\ status' = [status EXCEPT ![w] = "closed"]
               /\ claim' = [claim EXCEPT ![w] = i]
         /\ Wait(f, "claim", None, NoStage,
                 {v \in Items : status'[v] = "open" /\ claim'[v] \in {None, i}})
    /\ UNCHANGED <<trust, project, inst, verified, rerun, forced>>
    /\ RememberNothing

ClaimNothing(f) ==
    LET i == runs[f].i IN
    /\ runs[f].at = "claim"
    /\ \A w \in runs[f].cands : ~Claimable(i, w)
    /\ inst' = Ended({i})
    /\ claim' = Released({i})
    /\ Finish(f)
    /\ UNCHANGED <<trust, project, status, logged, verified, rerun, forced>>
    /\ RememberNothing

\* Mutant of GatedPlan: the gate is forgotten.
GatedPlanDropped(i, w) == Write(i, inst[i].paused, w)

\* handlePrioritizeTransition pauses at a PLAN gate whatever the row is by now.
GatedPlan(i, w) ==
    Write(i, IF PlanGate THEN "PLAN" ELSE inst[i].paused, w)

\* A written plan passes the quality gate: no approval is asked for it.
PlanWritten(f) ==
    LET i == runs[f].i  w == runs[f].item IN
    /\ runs[f].at = "plan"
    /\ status' = [status EXCEPT ![w] = "open"]
    /\ inst' = TryMove(i, "EXECUTE", NoStage, w)
    /\ Finish(f)
    /\ UNCHANGED <<trust, project, claim, logged, verified, rerun, forced>>
    /\ Remember({i}, {})

\* A written plan fails the quality gate. The stage asks for PRIORITIZE, but
\* its caller does not look at that: the instance stays in PLAN.
PlanRejected(f) ==
    LET i == runs[f].i  w == runs[f].item IN
    /\ runs[f].at = "plan"
    /\ \E st \in {"cooling", "closed"} : status' = [status EXCEPT ![w] = st]
    /\ inst' = GatedPlan(i, inst[i].item)
    /\ Finish(f)
    /\ UNCHANGED <<trust, project, claim, logged, verified, rerun, forced>>
    /\ RememberNothing

\* The architect ran; the selection is resolved again, and may have closed.
PlanDrawn(f) ==
    LET i == runs[f].i
        w == IF inst[i].item # None THEN inst[i].item ELSE runs[f].item IN
    /\ runs[f].at = "plan"
    /\ \/ \E v \in (IF Unfinished(w) THEN {w} ELSE FallBack) :
            /\ status' = [status EXCEPT ![v] = "open"]
            /\ inst' = GatedPlan(i, v)
       \/ /\ ~Unfinished(w) /\ FallBack = {}
          /\ inst' = GatedPlan(i, inst[i].item)
          /\ UNCHANGED status
    /\ Finish(f)
    /\ UNCHANGED <<trust, project, claim, logged, verified, rerun, forced>>
    /\ RememberNothing

\* The PLAN stage throws: the instance stays in PLAN and is not paused.
PlanThrows(f) ==
    /\ runs[f].at = "plan"
    /\ Finish(f)
    /\ UNCHANGED <<trust, project, inst, rows, forced>>
    /\ Remember({}, {runs[f].i})

\* EXECUTE gives up: the item is rejected, to be planned again, or as it was.
ExecuteIdle(f) ==
    LET i == runs[f].i  w == runs[f].item IN
    /\ runs[f].at = "execute"
    /\ \E st \in {"closed", "cooling", status[w]} : status' = [status EXCEPT ![w] = st]
    /\ inst' = Ended({i})
    /\ claim' = Released({i})
    /\ Finish(f)
    /\ UNCHANGED <<trust, project, logged, verified, rerun, forced>>
    /\ RememberNothing

\* EXECUTE sends the instance back for another item, or for a new plan.
ExecuteBack(f) ==
    LET i == runs[f].i  w == runs[f].item IN
    /\ runs[f].at = "execute"
    /\ \E st \in {"closed", "cooling"} : status' = [status EXCEPT ![w] = st]
    /\ inst' = TryMove(i, "PRIORITIZE", NoStage, w)
    /\ Finish(f)
    /\ UNCHANGED <<trust, project, claim, logged, verified, rerun, forced>>
    /\ RememberNothing

\* EXECUTE stays, pauses, or throws (the pause is as it was).
ExecuteStops(f) ==
    LET i == runs[f].i  w == runs[f].item IN
    /\ runs[f].at = "execute"
    /\ \E st \in {"open", status[w]} : status' = [status EXCEPT ![w] = st]
    /\ \E p \in {NoStage, "EXECUTE", "PLAN_REVIEW", inst[i].paused} :
         inst' = SetPause(i, p)
    /\ Finish(f)
    /\ UNCHANGED <<trust, project, claim, logged, verified, rerun, forced>>
    /\ RememberNothing

\* All tasks are done; the item is written 'verifying', whatever it was.
ExecuteDone(f) ==
    LET i == runs[f].i  w == runs[f].item IN
    /\ runs[f].at = "execute"
    /\ status' = [status EXCEPT ![w] = "open"]
    /\ Wait(f, "ship", w, inst[i].state, {})
    /\ UNCHANGED <<trust, project, inst, claim, logged, verified, rerun, forced>>
    /\ RememberNothing

\* maybeShipNoop found nothing to verify: LEARN follows EXECUTE.
ShipNoop(f) ==
    LET i == runs[f].i  w == runs[f].item IN
    /\ runs[f].at = "ship"
    /\ status' = [status EXCEPT ![w] = "shipped"]
    /\ claim' = Released({i})
    /\ inst' = Moved(i, runs[f].seen, "LEARN", NoStage, w)
    /\ Finish(f)
    /\ UNCHANGED <<trust, project, logged, verified, rerun, forced>>
    /\ RememberNothing

ShipPauses(f) ==
    /\ runs[f].at = "ship"
    /\ inst' = SetPause(runs[f].i, "EXECUTE")
    /\ Finish(f)
    /\ UNCHANGED <<trust, project, rows, forced>>
    /\ RememberNothing

EnterVerify(f) ==
    LET i == runs[f].i  w == runs[f].item IN
    /\ runs[f].at = "ship"
    /\ inst' = Moved(i, runs[f].seen, "VERIFY", NoStage, w)
    /\ IF Blocked(i, runs[f].seen, "VERIFY") THEN Finish(f)
       ELSE Wait(f, "xverify", w, NoStage, {})
    /\ UNCHANGED <<trust, project, rows, forced>>
    /\ RememberNothing

\* executeVerifyStage ran to its end, after EXECUTE ("xverify": the instance
\* stays in VERIFY) or in an advance of its own ("verify": it goes on).
\* Without guardrail results no verified_batch decision is written.
VerifyDone(f) ==
    LET i == runs[f].i  w == runs[f].item IN
    /\ runs[f].at \in {"verify", "xverify"}
    /\ verified' \in {verified, verified \cup ({w} \cap Items)}
    /\ rerun' = FALSE
    /\ inst' = IF runs[f].at = "verify" THEN Moved(i, "VERIFY", "LEARN", NoStage, w)
               ELSE inst
    /\ Finish(f)
    /\ UNCHANGED <<trust, project, status, claim, logged, forced>>
    /\ RememberNothing

VerifyPauses(f) ==
    /\ runs[f].at \in {"verify", "xverify"}
    /\ \E p \in {"VERIFY", "VERIFY_FAIL"} :
         inst' = SetPause(runs[f].i, p)
    /\ rerun' = FALSE
    /\ Finish(f)
    /\ UNCHANGED <<trust, project, status, claim, logged, verified, forced>>
    /\ RememberNothing

\* executeVerifyStage throws, before or after its first decision: the instance
\* stays in VERIFY and is not paused.
VerifyThrows(f) ==
    /\ runs[f].at \in {"verify", "xverify"}
    /\ rerun' \in {rerun, FALSE}
    /\ Finish(f)
    /\ UNCHANGED <<trust, project, inst, status, claim, logged, verified, forced>>
    /\ RememberNothing

\* finalizeTerminalVerifyOutcome
VerifyEnds(f) ==
    LET i == runs[f].i  w == runs[f].item IN
    /\ runs[f].at \in {"verify", "xverify"}
    /\ \E st \in {"closed", "cooling", "shipped"} :
         status' = [v \in Items |-> IF v = w THEN st ELSE status[v]]
    /\ inst' = Ended({i})
    /\ claim' = Released({i})
    /\ rerun' = FALSE
    /\ Finish(f)
    /\ UNCHANGED <<trust, project, logged, verified, forced>>
    /\ RememberNothing

\* maybeShipWorkItemAfterLearn, by what becomes of the item and whether the
\* instance's claims are released: merged, an empty branch that is already on
\* main or has to be planned again, rejected, or left as it was.
Shipments(w) ==
    IF w = None THEN {<<status, FALSE>>}
    ELSE {<<[status EXCEPT ![w] = "shipped"], TRUE>>,
          <<[status EXCEPT ![w] = "cooling"], TRUE>>,
          <<[status EXCEPT ![w] = "closed"], TRUE>>,
          <<[status EXCEPT ![w] = "closed"], FALSE>>,
          <<status, FALSE>>}

\* runLearnStage: with auto_continue a dark project starts the next pass;
\* anything else ends the instance.
LearnDone(f) ==
    LET i == runs[f].i IN
    /\ runs[f].at = "learn"
    /\ \E x \in Shipments(runs[f].item) :
         /\ status' = x[1]
         /\ \/ /\ ~Held /\ Unattended
               /\ inst' = Moved(i, "LEARN", "SENSE", NoStage, None)
               /\ claim' = IF x[2] THEN Released({i}) ELSE claim
            \/ /\ inst' = Ended({i})
               /\ claim' = Released({i})
    /\ Finish(f)
    /\ UNCHANGED <<trust, project, logged, verified, rerun, forced>>
    /\ RememberNothing

\* The merge target is dirty or mid-merge: the project is paused.
LearnBlocked(f) ==
    /\ runs[f].at = "learn" /\ runs[f].item # None
    /\ project' = IF project = "operator" THEN "operator" ELSE "paused"
    /\ inst' = SetPause(runs[f].i, "LEARN")
    /\ Finish(f)
    /\ UNCHANGED <<trust, rows, forced>>
    /\ RememberNothing

Resume(f) ==
    \/ ProbeStale(f) \/ ClaimItem(f) \/ ClaimClosed(f) \/ ClaimNothing(f)
    \/ PlanWritten(f) \/ PlanRejected(f) \/ PlanDrawn(f) \/ PlanThrows(f)
    \/ ExecuteIdle(f) \/ ExecuteBack(f) \/ ExecuteStops(f) \/ ExecuteDone(f)
    \/ ShipNoop(f) \/ ShipPauses(f) \/ EnterVerify(f)
    \/ VerifyDone(f) \/ VerifyPauses(f) \/ VerifyThrows(f) \/ VerifyEnds(f)
    \/ LearnDone(f) \/ LearnBlocked(f)

-----------------------------------------------------------------------------
(* The operator, the tick and the server *)

\* startLoop: a pause that is not the operator's does not survive it. A SENSE
\* that throws ends the new instance.
StartLoop(i) ==
    /\ inst[i].state = "NONE"
    /\ \A j \in Insts : j < i => inst[j].state # "NONE"
    /\ project # "operator"
    /\ \A j \in Insts : inst[j].state # "SENSE"
    /\ project' = "running"
    /\ \E s \in {"SENSE", "IDLE"} : inst' = [inst EXCEPT ![i].state = s]
    /\ UNCHANGED <<trust, rows, runs, job, forced>>
    /\ RememberNothing

\* cancelLoopAdvanceJob: the promise is left to complete on its own.
CancelJob(i) ==
    /\ job[i] # None
    /\ job' = [job EXCEPT ![i] = None]
    /\ i \in Meddled \ forced
    /\ inst' = IF inst[i].paused = NoStage THEN SetPause(i, inst[i].state) ELSE inst
    /\ forced' = forced \cup {i}
    /\ UNCHANGED <<trust, project, rows, runs>>
    /\ RememberNothing

GateApproved(i) ==
    /\ inst' = [inst EXCEPT ![i].paused = NoStage]
    /\ rerun' = (rerun \/ inst[i].paused = "VERIFY")
    /\ UNCHANGED <<trust, status, claim, logged, verified, runs, job, forced>>
    /\ Remember(IF inst[i].paused = "PLAN" THEN {i} ELSE {}, {})

ApproveGate(i) ==
    /\ inst[i].paused \in GatePauses
    /\ ~Held
    /\ GateApproved(i)
    /\ UNCHANGED project

\* terminateInstanceAndSync for each of S.
Terminate(S) ==
    /\ inst' = Ended(S)
    /\ claim' = Released(S)
    /\ UNCHANGED <<trust, status, logged, verified, rerun, runs, job, forced>>
    /\ RememberNothing

RejectGate(i) == inst[i].paused \in GatePauses /\ Terminate({i}) /\ UNCHANGED project

TerminateLoop(i) == Live(i) /\ Terminate({i}) /\ UNCHANGED project

RetryVerify(i) ==
    /\ \/ inst[i].paused \in {"VERIFY", "VERIFY_FAIL"}
       \/ inst[i].paused = NoStage /\ inst[i].state = "VERIFY"
    /\ inst' = [inst EXCEPT ![i].paused = NoStage]
    /\ rerun' = TRUE
    /\ UNCHANGED <<trust, project, status, claim, logged, verified, runs, job, forced>>
    /\ RememberNothing

PauseProject == project # "operator" /\ project' = "operator" /\ Terminate(LiveInsts)

ResumeProject ==
    /\ Held
    /\ project' = "running"
    /\ UNCHANGED <<trust, inst, rows, runs, job, forced>>
    /\ RememberNothing

\* The needs_replan cooldown of an item is over.
CoolDown(w) ==
    /\ status[w] = "cooling"
    /\ status' = [status EXCEPT ![w] = "open"]
    /\ UNCHANGED <<trust, project, inst, claim, logged, verified, rerun, runs, job, forced>>
    /\ RememberNothing

\* tickProject, for an instance paused at VERIFY whose batch tasks are over:
\* it approves the gate of the project's oldest instance.
TickHealVerify ==
    /\ Unattended /\ project # "operator"
    /\ \E i \in LiveInsts : inst[i].paused = "VERIFY"
    /\ inst[Min(LiveInsts)].paused = "VERIFY"
    /\ project' = "running"
    /\ GateApproved(Min(LiveInsts))

\* tickProject, for an instance paused at EXECUTE whose batch has no tasks.
TickEndPausedExecute(i) ==
    /\ Unattended /\ ~Held
    /\ Live(i) /\ inst[i].paused = "EXECUTE"
    /\ Terminate({i})
    /\ UNCHANGED project

\* The server restarts: promises and jobs are gone. The startup reconciler ends
\* instances paused at EXECUTE without tasks, and those of a project the
\* operator paused.
Restart ==
    /\ runs' = [f \in Frames |-> NoRun]
    /\ job' = [i \in Insts |-> None]
    /\ \E S \in SUBSET LiveInsts :
         /\ IF project = "operator" THEN S = LiveInsts
            ELSE S \subseteq {i \in LiveInsts : inst[i].paused = "EXECUTE" /\ ~Held}
         /\ inst' = Ended(S)
         /\ claim' = Released(S)
    /\ UNCHANGED <<trust, project, status, logged, verified, rerun, forced>>
    /\ Remember({}, {runs[f].i : f \in {g \in Frames : runs[g].at = "plan"}})

Operator ==
    \/ \E i \in Insts : \/ StartLoop(i) \/ AdvanceAsync(i) \/ AdvanceSync(i)
                        \/ CancelJob(i) \/ ApproveGate(i) \/ RejectGate(i)
                        \/ RetryVerify(i) \/ TerminateLoop(i)
    \/ PauseProject \/ ResumeProject

Server ==
    \/ \E w \in Items : CoolDown(w)
    \/ \E i \in Insts : TickEndPausedExecute(i)
    \/ TickHealVerify
    \/ Restart

Next == Operator \/ Server \/ \E f \in Frames : Resume(f)

Spec == Init /\ [][Next]_vars

-----------------------------------------------------------------------------
(* Properties *)

\* Every row, item and suspended advance stays within its domain, and the job
\* of an instance is an advance of that instance which has not ended, so that
\* advanceLoopAsync never answers with a job that is over.
TypeOK ==
    /\ trust \in Levels
    /\ project \in {"running", "paused", "operator"}
    /\ inst \in [Insts -> [state : Stages \cup {"NONE", "IDLE"},
                           paused : Pauses,
                           item : Items \cup {None}]]
    /\ status \in [Items -> {"open", "cooling", "shipped", "closed"}]
    /\ claim \in [Items -> Insts \cup {None}]
    /\ logged \subseteq Items
    /\ verified \subseteq Items
    /\ rerun \in BOOLEAN
    /\ runs \in [Frames -> [i : Insts \cup {None},
                            at : {"none", "claim", "plan", "execute", "ship",
                                  "xverify", "verify", "learn"},
                            item : Items \cup {None},
                            cands : SUBSET Items,
                            seen : Stages \cup {"IDLE", NoStage}]]
    /\ job \in [Insts -> Frames \cup {None}]
    /\ \A i \in Insts : job[i] # None => runs[job[i]].i = i
    /\ approved \subseteq Insts /\ forced \subseteq Insts /\ broke \subseteq Insts

\* A terminated instance stays terminated. Advances, probes, planners and
\* merges that were under way when the operator, the watchdog, the tick or
\* another advance terminated it come back later and go on with what they
\* remember; none of them may bring the row back into a stage.
TerminatedStaysOut ==
    [][\A i \in Insts : Terminated(i) => inst'[i].state = "IDLE"]_vars

\* Two advances of one instance are never under way together, however ticks,
\* timers, restarts and terminations interleave, unless the operator or auto-
\* recovery used the blocking call, or the operator cancelled a job:
\* cancelLoopAdvanceJob gives the job up while its promise goes on.
OneRunPerInstance ==
    \A f, g \in Frames :
      f # g /\ runs[f].i = runs[g].i => runs[f].i \in forced \cup {None}

\* Where the trust level gates PLAN, an instance is past PLAN only if its plan
\* was approved in this pass or was written beforehand and passed the quality
\* gate. Occupied stages, parking and retries do not open the gate; a PLAN
\* stage that throws, or that a restart cuts off, does, and so may a blocking
\* call or a cancelled job that meddles with a running advance. The trust level
\* is the one the behaviour starts with.
PlanGateHeld ==
    \A i \in Insts \ (forced \cup broke) :
      PlanGate /\ inst[i].state \in {"EXECUTE", "VERIFY", "LEARN"}
        => i \in approved

\* No two live instances are in the same stage: the database's unique index is
\* kept however moves, parked instances, the watchdog and suspended advances
\* with an old picture of the row interleave.
StageExclusive ==
    \A i, j \in LiveInsts : i # j => inst[i].state # inst[j].state

\* Stages are passed in order, one instance each, and for good. An advance
\* moves its instance to the stage that follows the one it remembers, after
\* minutes in which the row was parked, approved, retried, restarted or ended:
\* no instance skips a stage or falls back unless a blocking call or a cancelled
\* job meddled with its advance.
SL == INSTANCE StageLine WITH
        Line <- Insts, place <- [i \in Insts |-> inst[i].state], loose <- forced
ImplementsStageLine == SL!LineSpec

\* PRIORITIZE gives an instance no item that another live instance has claimed:
\* a test of the loop says that it skips claimed items. The code looks at claims
\* only when there is no selection, and takes the selection of a new instance
\* from the project's decision log.
ClaimedItemsSkipped ==
    [][\A i \in Insts : inst[i].state = "PRIORITIZE" /\ inst'[i].item \notin {None, inst[i].item}
         => claim[inst'[i].item] \notin LiveInsts \ {i}]_vars
=============================================================================
