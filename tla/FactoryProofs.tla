---------------------------- MODULE FactoryProofs ----------------------------
(***************************************************************************)
(* Proofs about the factory's loop controller, for any number of instances, *)
(* work items and suspended advances, any trust level and any meddling.    *)
(***************************************************************************)
EXTENDS FactoryLoop, TLAPS

Rows == [state : Stages \cup {"NONE", "IDLE"}, paused : Pauses, item : Items \cup {None}]

Waits == {"none", "claim", "plan", "execute", "ship", "xverify", "verify", "learn"}

RunRecs == [i : Insts \cup {None}, at : Waits, item : Items \cup {None},
            cands : SUBSET Items, seen : Stages \cup {"IDLE", NoStage}]

\* The parts of TypeOK, and what it needs to be inductive: an advance that
\* waits belongs to an instance that has been started, and from PLAN to
\* VERIFY it has an item.
RowsOK ==
    /\ trust \in Levels
    /\ project \in {"running", "paused", "operator"}
    /\ status \in [Items -> {"open", "cooling", "shipped", "closed"}]
    /\ claim \in [Items -> Insts \cup {None}]
    /\ logged \subseteq Items
    /\ verified \subseteq Items
    /\ rerun \in BOOLEAN
    /\ approved \subseteq Insts /\ forced \subseteq Insts /\ broke \subseteq Insts

RunOK(r) ==
    /\ r \in RunRecs
    /\ r.i = None <=> r.at = "none"
    /\ r.at \in {"plan", "execute", "ship", "xverify"} => r.item \in Items

RunsOK ==
    /\ runs \in [Frames -> RunRecs]
    /\ \A f \in Frames : RunOK(runs[f])
    /\ job \in [Insts -> Frames \cup {None}]
    /\ \A i \in Insts : job[i] # None => runs[job[i]].i = i

Started == \A f \in Frames : runs[f].i # None => inst[runs[f].i].state # "NONE"

TypeInv == RowsOK /\ inst \in [Insts -> Rows] /\ RunsOK /\ Started

\* The type invariant of the model is a part of it.
LEMMA TypeInvTypeOK == TypeInv => TypeOK
BY DEF TypeInv, TypeOK, RowsOK, RunsOK, Rows, RunRecs, Waits

\* An advance of an instance that nobody meddled with is the instance's job.
JobInv == \A f \in Frames : runs[f].i \notin forced \cup {None} => job[runs[f].i] = f

-----------------------------------------------------------------------------
(* What a step does to the stages of the instances. *)

\* No instance changes its stage, but some are terminated.
Calm(m) == \A j \in Insts : m[j].state \in {inst[j].state, "IDLE"}

\* One instance that was not terminated enters a stage nobody else is in.
Enters(m, i, s) ==
    /\ inst[i].state # "IDLE" /\ m[i].state = s
    /\ \A j \in Insts \ {i} : m[j].state \in {inst[j].state, "IDLE"} \ {s}

InstStep(m) ==
    /\ m \in [Insts -> Rows]
    /\ Calm(m) \/ \E i \in Insts, s \in Stages : Enters(m, i, s)

LEMMA SameStep ==
    ASSUME inst \in [Insts -> Rows]
    PROVE  InstStep(inst) /\ Calm(inst)
BY DEF InstStep, Calm

\* updateInstance leaves every stage as it is.
LEMMA WriteStep ==
    ASSUME inst \in [Insts -> Rows], NEW i \in Insts, NEW p \in Pauses,
           NEW w \in Items \cup {None}
    PROVE  InstStep(Write(i, p, w)) /\ Calm(Write(i, p, w))
<1>1. Write(i, p, w) \in [Insts -> Rows]
  BY DEF Write, Rows
<1>2. Calm(Write(i, p, w))
  BY DEF Write, Rows, Calm
<1> QED
  BY <1>1, <1>2 DEF InstStep

LEMMA SetPauseStep ==
    ASSUME inst \in [Insts -> Rows], NEW i \in Insts, NEW p \in Pauses
    PROVE  InstStep(SetPause(i, p))
<1>1. inst[i].item \in Items \cup {None}
  BY DEF Rows
<1> QED
  BY <1>1, WriteStep DEF SetPause

\* terminateInstanceAndSync
LEMMA EndedStep ==
    ASSUME inst \in [Insts -> Rows], NEW S
    PROVE  InstStep(Ended(S)) /\ Calm(Ended(S))
<1>1. [state |-> "IDLE", paused |-> NoStage, item |-> None] \in Rows
  BY DEF Rows, Pauses
<1>2. Ended(S) \in [Insts -> Rows]
  BY <1>1 DEF Ended
<1>3. Calm(Ended(S))
  BY DEF Ended, Calm
<1> QED
  BY <1>2, <1>3 DEF InstStep

LEMMA PauseTypes ==
    /\ \A s \in Stages : s \in Pauses /\ ReadyFor[s] \in Pauses
    /\ \A s, t \in Stages : GateAt(s, t) \in Pauses
    /\ NoStage \in Pauses /\ "PLAN_REVIEW" \in Pauses /\ "VERIFY_FAIL" \in Pauses
BY DEF Pauses, GatePauses, GateAt

\* tryMoveInstanceToStage enters a stage that is free, or leaves every stage
\* as it is.
LEMMA MovedStep ==
    ASSUME inst \in [Insts -> Rows], NEW i \in Insts, NEW seen, NEW s \in Stages,
           NEW p \in Pauses, NEW w \in Items \cup {None}
    PROVE  InstStep(Moved(i, seen, s, p, w))
<1>1. CASE seen = s
  BY <1>1, WriteStep DEF Moved
<1>2. CASE seen # s /\ Terminated(i)
  BY <1>2, SameStep DEF Moved
<1>3. CASE seen # s /\ ~Terminated(i) /\ Occupied(i, s)
  BY <1>3, SetPauseStep, PauseTypes DEF Moved
<1>4. CASE seen # s /\ ~Terminated(i) /\ ~Occupied(i, s)
  <2> DEFINE r == [state |-> s, paused |-> p, item |-> w]
             m == [inst EXCEPT ![i] = r]
  <2>1. r \in Rows /\ r.state = s
    BY DEF Rows
  <2> HIDE DEF r
  <2>2. Enters(m, i, s)
    BY <1>4, <2>1 DEF Enters, Terminated, Occupied, Rows
  <2>3. InstStep(m)
    BY <2>1, <2>2 DEF InstStep
  <2> QED
    BY <1>4, <2>3 DEF Moved, r
<1> QED
  BY <1>1, <1>2, <1>3, <1>4

LEMMA PlanningStep ==
    ASSUME inst \in [Insts -> Rows], NEW i \in Insts, NEW w \in Items
    PROVE  InstStep(Planning(i, w))
<1>1. CASE Terminated(i)
  BY <1>1, SameStep DEF Planning
<1>2. CASE ~Terminated(i)
  <2> DEFINE m == TryMove(i, "PLAN", NoStage, w)
             n == [m EXCEPT ![i].item = w]
  <2>1. InstStep(m)
    BY MovedStep, PauseTypes DEF TryMove, Stages
  <2> HIDE DEF m
  <2>2. n \in [Insts -> Rows] /\ \A j \in Insts : n[j].state = m[j].state
    BY <2>1 DEF InstStep, Rows
  <2>3. InstStep(n)
    BY <2>1, <2>2 DEF InstStep, Calm, Enters
  <2> QED
    BY <1>2, <2>3 DEF Planning, m
<1> QED
  BY <1>1, <1>2

\* A parked instance enters the stage it waits for once the watchdog has
\* terminated everyone in it.
LEMMA AdvReadyStep ==
    ASSUME inst \in [Insts -> Rows], NEW i \in Insts, Live(i), AdvReady(i)
    PROVE  InstStep(inst')
<1>1. PICK s \in Stages, S \in SUBSET (LiveInsts \ {i}) :
         LET free == inst[i].state = s \/ \A j \in Insts \ {i} : inst[j].state = s => j \in S IN
         inst' = [Ended(S) EXCEPT ![i] =
             IF free THEN [@ EXCEPT !.state = s, !.paused = GateAt(inst[i].state, s)]
             ELSE @]
  BY DEF AdvReady
<1> DEFINE free == inst[i].state = s \/ \A j \in Insts \ {i} : inst[j].state = s => j \in S
           r == [inst[i] EXCEPT !.state = s, !.paused = GateAt(inst[i].state, s)]
<1>2. /\ Ended(S) \in [Insts -> Rows] /\ Calm(Ended(S)) /\ Ended(S)[i] = inst[i]
  <2>1. InstStep(Ended(S)) /\ Calm(Ended(S))
    BY EndedStep
  <2>2. i \in Insts /\ i \notin S
    OBVIOUS
  <2>3. Ended(S)[i] = inst[i]
    BY <2>2 DEF Ended
  <2> QED
    BY <2>1, <2>3 DEF InstStep
<1>3. inst' = [Ended(S) EXCEPT ![i] = IF free THEN r ELSE inst[i]]
  BY <1>1, <1>2
<1>4. r \in Rows /\ r.state = s
  BY PauseTypes DEF Rows, Live
<1> HIDE DEF r
<1>5. inst' \in [Insts -> Rows]
  BY <1>2, <1>3, <1>4
<1>6. CASE free /\ inst[i].state # s
  <2>1. inst'[i].state = s
    BY <1>2, <1>3, <1>4, <1>6
  <2>2. ASSUME NEW j \in Insts \ {i} PROVE inst'[j].state \in {inst[j].state, "IDLE"} \ {s}
    <3>1. inst'[j] = Ended(S)[j] /\ s # "IDLE"
      BY <1>2, <1>3 DEF Stages
    <3> QED
      BY <1>2, <1>6, <3>1 DEF Ended
  <2>3. Enters(inst', i, s)
    BY <2>1, <2>2 DEF Enters, Live, Stages
  <2> QED
    BY <1>5, <2>3 DEF InstStep
<1>7. CASE ~free \/ inst[i].state = s
  <2>1. inst'[i].state = inst[i].state
    BY <1>2, <1>3, <1>4, <1>7
  <2>2. Calm(inst')
    BY <1>2, <1>3, <2>1 DEF Calm
  <2> QED
    BY <1>5, <2>2 DEF InstStep
<1> QED
  BY <1>6, <1>7

LEMMA AdvanceInst ==
    ASSUME TypeInv, NEW i \in Insts, Live(i), NEW async, Advance(i, async)
    PROVE  InstStep(inst')
<1>0. /\ inst \in [Insts -> Rows] /\ inst[i].item \in Items \cup {None}
      /\ logged \subseteq Items
  BY DEF TypeInv, RowsOK, Rows
<1>1. CASE AdvReady(i)
  BY <1>0, <1>1, AdvReadyStep
<1>2. CASE AdvSense(i)
  BY <1>0, <1>2, MovedStep, PauseTypes DEF AdvSense, TryMove, Stages
<1>3. CASE AdvPrioritizeClaim(i, async)
  <2>1. inst' = inst \/ inst' = [inst EXCEPT ![i].item = None]
    BY <1>3 DEF AdvPrioritizeClaim
  <2>2. InstStep([inst EXCEPT ![i].item = None])
    BY <1>0 DEF InstStep, Calm, Rows
  <2> QED
    BY <1>0, <2>1, <2>2, SameStep
<1>4. CASE AdvPrioritizeKept(i, async)
  <2>1. SelectedAnew(i) \subseteq Items \cup {None}
    BY <1>0 DEF SelectedAnew, Selected
  <2> QED
    BY <1>0, <1>4, <2>1, PlanningStep DEF AdvPrioritizeKept
<1>5. CASE AdvExecute(i, async)
  <2>1. \A w \in Items \cup {None} : InstStep(TryMove(i, "EXECUTE", NoStage, w))
    BY <1>0, MovedStep, PauseTypes DEF TryMove, Stages
  <2>2. InstStep(Ended({i}))
    BY <1>0, EndedStep
  <2>3. (IF Selected(i) # None THEN {Selected(i)} ELSE FallBack) \subseteq Items \cup {None}
    BY <1>0 DEF Selected, FallBack
  <2> QED
    BY <1>0, <1>5, <2>1, <2>2, <2>3 DEF AdvExecute
<1>6. CASE AdvVerify(i, async)
  <2>1. InstStep(TryMove(i, "LEARN", NoStage, inst[i].item))
    BY <1>0, MovedStep, PauseTypes DEF TryMove, Stages
  <2> QED
    BY <1>0, <1>6, <2>1, SameStep DEF AdvVerify
<1>7. CASE AdvLearn(i, async)
  BY <1>0, <1>7, SameStep DEF AdvLearn
<1> QED
  BY <1>1, <1>2, <1>3, <1>4, <1>5, <1>6, <1>7 DEF Advance

LEMMA ResumeInst ==
    ASSUME TypeInv, NEW f \in Frames, Resume(f)
    PROVE  InstStep(inst')
<1> DEFINE i == runs[f].i
           w == runs[f].item
<1>0. /\ inst \in [Insts -> Rows] /\ i \in Insts /\ w \in Items \cup {None}
      /\ inst[i].item \in Items \cup {None} /\ inst[i].paused \in Pauses
      /\ runs[f].cands \subseteq Items
  <2>1. runs[f].at # "none"
    BY DEF Resume, ProbeStale, ClaimItem, ClaimClosed, ClaimNothing, PlanWritten, PlanRejected,
       PlanDrawn, PlanThrows, ExecuteIdle, ExecuteBack, ExecuteStops, ExecuteDone, ShipNoop,
       ShipPauses, EnterVerify, VerifyDone, VerifyPauses, VerifyThrows, VerifyEnds, LearnDone,
       LearnBlocked
  <2>2. i \in Insts
    BY <2>1 DEF TypeInv, RunsOK, RunOK, RunRecs
  <2> QED
    BY <2>2 DEF TypeInv, RunsOK, RunOK, RunRecs, Rows
<1> HIDE DEF i, w
<1>a. \A seen : \A s \in Stages, v \in Items \cup {None} : InstStep(Moved(i, seen, s, NoStage, v))
  BY <1>0, MovedStep, PauseTypes
<1>b. \A s \in Stages, v \in Items \cup {None} : InstStep(TryMove(i, s, NoStage, v))
  BY <1>a DEF TryMove
<1>c. \A p \in Pauses : InstStep(SetPause(i, p))
  BY <1>0, SetPauseStep
<1>d. \A v \in Items \cup {None} : InstStep(GatedPlan(i, v))
  BY <1>0, WriteStep, PauseTypes DEF GatedPlan, Stages
<1>e. InstStep(inst) /\ InstStep(Ended({i}))
  BY <1>0, SameStep, EndedStep
<1>1. CASE \/ ProbeStale(f) \/ ClaimClosed(f) \/ PlanThrows(f) \/ ExecuteDone(f)
          \/ VerifyThrows(f)
  BY <1>1, <1>e DEF ProbeStale, ClaimClosed, PlanThrows, ExecuteDone, VerifyThrows
<1>2. CASE ClaimItem(f)
  BY <1>0, <1>2, PlanningStep DEF ClaimItem, i
<1>3. CASE ClaimNothing(f) \/ ExecuteIdle(f) \/ VerifyEnds(f)
  BY <1>3, <1>e DEF ClaimNothing, ExecuteIdle, VerifyEnds, i
<1>4. CASE PlanWritten(f) \/ ExecuteBack(f)
  BY <1>0, <1>4, <1>b DEF PlanWritten, ExecuteBack, i, w, Stages
<1>5. CASE PlanRejected(f) \/ PlanDrawn(f)
  <2>1. FallBack \subseteq Items
    BY DEF FallBack
  <2> QED
    BY <1>0, <1>5, <1>d, <2>1 DEF PlanRejected, PlanDrawn, i, w
<1>6. CASE ExecuteStops(f) \/ ShipPauses(f) \/ VerifyPauses(f) \/ LearnBlocked(f)
  BY <1>0, <1>6, <1>c, PauseTypes DEF ExecuteStops, ShipPauses, VerifyPauses, LearnBlocked, i, Stages
<1>7. CASE ShipNoop(f) \/ EnterVerify(f)
  BY <1>0, <1>7, <1>a DEF ShipNoop, EnterVerify, i, w, Stages
<1>8. CASE VerifyDone(f)
  BY <1>0, <1>8, <1>a, <1>e DEF VerifyDone, i, w, Stages
<1>9. CASE LearnDone(f)
  BY <1>0, <1>9, <1>a, <1>e DEF LearnDone, i, Stages
<1> QED
  BY <1>1, <1>2, <1>3, <1>4, <1>5, <1>6, <1>7, <1>8, <1>9 DEF Resume

\* The steps of the operator, the tick and the server.
LEMMA OutsideInst ==
    ASSUME TypeInv, Operator \/ Server
    PROVE  InstStep(inst')
<1>0. inst \in [Insts -> Rows]
  BY DEF TypeInv
<1>e. InstStep(inst) /\ \A S : InstStep(Ended(S))
  BY <1>0, SameStep, EndedStep
<1>1. ASSUME NEW i \in Insts, StartLoop(i) PROVE InstStep(inst')
  <2>1. PICK s \in {"SENSE", "IDLE"} : inst' = [inst EXCEPT ![i].state = s]
    BY <1>1 DEF StartLoop
  <2>2. inst' \in [Insts -> Rows]
    BY <1>0, <2>1 DEF Rows, Stages
  <2>3. CASE s = "SENSE"
    <3>1. Enters(inst', i, "SENSE")
      BY <1>0, <1>1, <2>1, <2>3 DEF StartLoop, Enters, Rows
    <3> QED
      BY <2>2, <3>1 DEF InstStep, Stages
  <2>4. CASE s = "IDLE"
    <3>1. Calm(inst')
      BY <1>0, <2>1, <2>4 DEF Calm, Rows
    <3> QED
      BY <2>2, <3>1 DEF InstStep
  <2> QED
    BY <2>3, <2>4
<1>2. ASSUME NEW i \in Insts, AdvanceAsync(i) \/ AdvanceSync(i) PROVE InstStep(inst')
  BY <1>2, AdvanceInst DEF AdvanceAsync, AdvanceSync, CanAdvanceAsync
<1>3. ASSUME NEW i \in Insts, CancelJob(i) PROVE InstStep(inst')
  <2>1. CASE Terminated(i)
    BY <1>3, <1>e, <2>1 DEF CancelJob, SetPause, Write
  <2>2. CASE ~Terminated(i)
    <3>1. job[i] \in Frames /\ runs[job[i]].i = i
      BY <1>3 DEF CancelJob, TypeInv, RunsOK
    <3>2. i # None
      BY FactoryAssumption DEF Insts, None
    <3>3. inst[i].state \in Stages
      BY <1>0, <2>2, <3>1, <3>2 DEF TypeInv, Started, Rows, Terminated
    <3> QED
      BY <1>0, <1>3, <1>e, <3>3, SetPauseStep, PauseTypes DEF CancelJob
  <2> QED
    BY <2>1, <2>2
<1>4. ASSUME NEW i, inst' = [inst EXCEPT ![i].paused = NoStage] PROVE InstStep(inst')
  <2>1. NoStage \in Pauses
    BY PauseTypes
  <2>2. inst' \in [Insts -> Rows] /\ \A j \in Insts : inst'[j].state = inst[j].state
    BY <1>0, <1>4, <2>1 DEF Rows
  <2> QED
    BY <2>2 DEF InstStep, Calm
<1>5. ASSUME NEW i \in Insts, ApproveGate(i) \/ RetryVerify(i) PROVE InstStep(inst')
  BY <1>4, <1>5 DEF ApproveGate, GateApproved, RetryVerify
<1>6. ASSUME NEW i \in Insts, RejectGate(i) \/ TerminateLoop(i) \/ TickEndPausedExecute(i)
      PROVE  InstStep(inst')
  BY <1>6, <1>e DEF RejectGate, TerminateLoop, TickEndPausedExecute, Terminate
<1>7. CASE PauseProject \/ Restart
  BY <1>7, <1>e DEF PauseProject, Terminate, Restart
<1>8. CASE ResumeProject
  BY <1>8, <1>e DEF ResumeProject
<1>9. ASSUME NEW w \in Items, CoolDown(w) PROVE InstStep(inst')
  BY <1>9, <1>e DEF CoolDown
<1>10. CASE TickHealVerify
  BY <1>4, <1>10 DEF TickHealVerify, GateApproved
<1> QED
  BY <1>1, <1>2, <1>3, <1>5, <1>6, <1>7, <1>8, <1>9, <1>10 DEF Operator, Server

LEMMA NextInst ==
    ASSUME TypeInv, [Next]_vars
    PROVE  InstStep(inst')
<1>1. CASE UNCHANGED vars
  BY <1>1, SameStep DEF vars, TypeInv
<1> QED
  BY <1>1, OutsideInst, ResumeInst DEF Next

-----------------------------------------------------------------------------
(* What a step does to the suspended advances and the jobs. *)

\* An advance of a live instance waits for the first time: as the instance's
\* job, which it did not have, or beside it in a blocking call.
Begins(i, f, r) ==
    /\ RunOK(r) /\ r.i = i /\ Live(i)
    /\ runs[f] = NoRun /\ runs' = [runs EXCEPT ![f] = r]
    /\ \/ job[i] = None /\ job' = [job EXCEPT ![i] = f]
       \/ i \in forced' /\ job' = job

Continues(f, r) ==
    /\ RunOK(r) /\ r.i = runs[f].i
    /\ runs' = [runs EXCEPT ![f] = r] /\ job' = job

RunStep ==
    /\ forced \subseteq forced'
    /\ \/ runs' = runs /\ job' = job
       \/ \E i \in Insts, f \in Frames, r \in RunRecs : Begins(i, f, r)
       \/ \E f \in Frames, r \in RunRecs : Continues(f, r)
       \/ \E f \in Frames : Finish(f)
       \/ runs' = [f \in Frames |-> NoRun] /\ job' = [i \in Insts |-> None]
       \/ \E i \in Insts : /\ runs' = runs /\ job' = [job EXCEPT ![i] = None]
                           /\ i \in forced'

LEMMA SuspendStep ==
    ASSUME NEW i \in Insts, NEW async, Live(i),
           NEW at \in Waits \ {"none"}, NEW w \in Items \cup {None},
           NEW cands \in SUBSET Items,
           at \in {"plan", "execute", "ship", "xverify"} => w \in Items,
           (async /\ job[i] = None) \/ (~async /\ i \in forced'),
           Suspend(i, async, at, w, cands)
    PROVE  \E f \in Frames, r \in RunRecs : Begins(i, f, r)
<1> DEFINE r == [i |-> i, at |-> at, item |-> w, cands |-> cands, seen |-> NoStage]
<1>1. i # None
  BY FactoryAssumption DEF Insts, None
<1>2. r \in RunRecs /\ RunOK(r)
  BY <1>1 DEF RunRecs, RunOK
<1>3. PICK f \in Frames : /\ runs[f] = NoRun /\ runs' = [runs EXCEPT ![f] = r]
                          /\ job' = IF async THEN [job EXCEPT ![i] = f] ELSE job
  BY DEF Suspend
<1>4. r.i = i
  OBVIOUS
<1> HIDE DEF r
<1> QED
  BY <1>2, <1>3, <1>4 DEF Begins

LEMMA AdvanceRuns ==
    ASSUME TypeInv, NEW i \in Insts, NEW async, Live(i), Advance(i, async),
           (async /\ job[i] = None) \/ (~async /\ i \in forced')
    PROVE  (runs' = runs /\ job' = job) \/ \E f \in Frames, r \in RunRecs : Begins(i, f, r)
<1>0. inst[i].item \in Items \cup {None} /\ logged \subseteq Items
  BY DEF TypeInv, RowsOK, Rows
<1>a. \A w, cands : /\ w \in Items \cup {None} /\ cands \in SUBSET Items
                    /\ \E at \in {"claim", "verify", "learn"} : Suspend(i, async, at, w, cands)
                    => \E f \in Frames, r \in RunRecs : Begins(i, f, r)
  BY SuspendStep DEF Waits
<1>b. \A w \in Items :
         (\E at \in {"plan", "execute"} : Suspend(i, async, at, w, {}))
            => \E f \in Frames, r \in RunRecs : Begins(i, f, r)
  BY SuspendStep DEF Waits
<1>1. CASE AdvReady(i) \/ AdvSense(i)
  BY <1>1 DEF AdvReady, AdvSense
<1>2. CASE AdvPrioritizeClaim(i, async)
  <2>1. PICK merged, st, cl : merged \in SUBSET Items /\ ReadCandidates(i, async, merged, st, cl)
    BY <1>2 DEF AdvPrioritizeClaim
  <2>2. Suspend(i, async, "claim", None, {w \in Items : status'[w] = "open" /\ cl[w] \in {None, i}})
    BY <2>1 DEF ReadCandidates
  <2> QED
    BY <1>a, <2>2
<1>3. CASE AdvPrioritizeKept(i, async)
  <2>1. SelectedAnew(i) \subseteq Items \cup {None}
    BY <1>0 DEF SelectedAnew, Selected
  <2> QED
    BY <1>3, <1>b, <2>1 DEF AdvPrioritizeKept
<1>4. CASE AdvExecute(i, async)
  <2>1. (IF Selected(i) # None THEN {Selected(i)} ELSE FallBack) \subseteq Items
    BY <1>0 DEF Selected, FallBack
  <2> QED
    BY <1>4, <1>b, <2>1 DEF AdvExecute
<1>5. CASE AdvVerify(i, async) \/ AdvLearn(i, async)
  <2>1. Selected(i) \in Items \cup {None}
    BY <1>0 DEF Selected
  <2> QED
    BY <1>0, <1>5, <1>a, <2>1 DEF AdvVerify, AdvLearn
<1> QED
  BY <1>1, <1>2, <1>3, <1>4, <1>5 DEF Advance

LEMMA ResumeRuns ==
    ASSUME TypeInv, NEW f \in Frames, Resume(f)
    PROVE  /\ runs[f].i \in Insts /\ forced' = forced
           /\ Finish(f) \/ \E r \in RunRecs : Continues(f, r)
<1> DEFINE i == runs[f].i
           w == runs[f].item
<1>0. /\ i \in Insts /\ i # None /\ w \in Items \cup {None}
      /\ runs[f] \in RunRecs /\ RunOK(runs[f]) /\ runs \in [Frames -> RunRecs]
      /\ inst[i].state \in Stages \cup {"IDLE"}
  <2>1. runs[f].at # "none"
    BY DEF Resume, ProbeStale, ClaimItem, ClaimClosed, ClaimNothing, PlanWritten, PlanRejected,
       PlanDrawn, PlanThrows, ExecuteIdle, ExecuteBack, ExecuteStops, ExecuteDone, ShipNoop,
       ShipPauses, EnterVerify, VerifyDone, VerifyPauses, VerifyThrows, VerifyEnds, LearnDone,
       LearnBlocked
  <2>2. i \in Insts /\ i # None
    BY <2>1 DEF TypeInv, RunsOK, RunOK, RunRecs
  <2> QED
    BY <2>2 DEF TypeInv, RunsOK, RunOK, RunRecs, Rows, Started
<1>a. \A at \in {"claim", "plan", "ship", "xverify"}, v \in Items \cup {None},
         seen \in Stages \cup {"IDLE", NoStage}, c \in SUBSET Items :
         /\ at # "claim" => v \in Items
         /\ Wait(f, at, v, seen, c)
         => \E r \in RunRecs : Continues(f, r)
  <2> SUFFICES ASSUME NEW at \in {"claim", "plan", "ship", "xverify"}, NEW v \in Items \cup {None},
                      NEW seen \in Stages \cup {"IDLE", NoStage}, NEW c \in SUBSET Items,
                      at # "claim" => v \in Items, Wait(f, at, v, seen, c)
               PROVE  \E r \in RunRecs : Continues(f, r)
    OBVIOUS
  <2> DEFINE r == [runs[f] EXCEPT !.at = at, !.item = v, !.seen = seen, !.cands = c]
  <2>1. r \in RunRecs /\ RunOK(r) /\ r.i = i
    BY <1>0 DEF RunRecs, RunOK, Waits
  <2>2. runs' = [runs EXCEPT ![f] = r] /\ job' = job
    BY <1>0 DEF Wait
  <2> HIDE DEF r
  <2> QED
    BY <2>1, <2>2 DEF Continues
<1>b. runs[f].cands \subseteq Items
  BY <1>0 DEF RunRecs
<1>1. ASSUME ProbeStale(f) PROVE Finish(f) \/ \E r \in RunRecs : Continues(f, r)
  BY <1>1, <1>a, <1>b DEF ProbeStale
<1>2. ASSUME ClaimItem(f) PROVE Finish(f) \/ \E r \in RunRecs : Continues(f, r)
  BY <1>2, <1>a, <1>b DEF ClaimItem
<1>3. ASSUME ClaimClosed(f) PROVE Finish(f) \/ \E r \in RunRecs : Continues(f, r)
  <2>1. {v \in Items : status'[v] = "open" /\ claim'[v] \in {None, i}} \in SUBSET Items
    OBVIOUS
  <2> QED
    BY <1>3, <1>a, <2>1 DEF ClaimClosed
<1>4. ASSUME ExecuteDone(f) \/ EnterVerify(f)
      PROVE Finish(f) \/ \E r \in RunRecs : Continues(f, r)
  BY <1>0, <1>4, <1>a DEF ExecuteDone, EnterVerify, RunOK
<1>5. ASSUME ~(ProbeStale(f) \/ ClaimItem(f) \/ ClaimClosed(f) \/ ExecuteDone(f) \/ EnterVerify(f))
      PROVE  Finish(f)
  BY <1>5 DEF Resume, ClaimNothing, PlanWritten, PlanRejected, PlanDrawn, PlanThrows, ExecuteIdle,
     ExecuteBack, ExecuteStops, ShipNoop, ShipPauses, VerifyDone, VerifyPauses, VerifyThrows,
     VerifyEnds,
     LearnDone, LearnBlocked
<1>6. forced' = forced
  BY DEF Resume, ProbeStale, ClaimItem, ClaimClosed, ClaimNothing, PlanWritten, PlanRejected,
     PlanDrawn, PlanThrows, ExecuteIdle, ExecuteBack, ExecuteStops, ExecuteDone, ShipNoop,
     ShipPauses, EnterVerify, VerifyDone, VerifyPauses, VerifyThrows, VerifyEnds, LearnDone,
     LearnBlocked
<1> QED
  BY <1>0, <1>1, <1>2, <1>3, <1>4, <1>5, <1>6

LEMMA NextRuns ==
    ASSUME TypeInv, [Next]_vars
    PROVE  RunStep
<1>1. CASE UNCHANGED vars
  BY <1>1 DEF vars, RunStep
<1>2. ASSUME NEW f \in Frames, Resume(f) PROVE RunStep
  BY <1>2, ResumeRuns DEF RunStep
<1>3. ASSUME NEW i \in Insts, AdvanceAsync(i) PROVE RunStep
  BY <1>3, AdvanceRuns DEF AdvanceAsync, CanAdvanceAsync, RunStep
<1>4. ASSUME NEW i \in Insts, AdvanceSync(i) PROVE RunStep
  BY <1>4, AdvanceRuns DEF AdvanceSync, RunStep
<1>5. ASSUME NEW i \in Insts, CancelJob(i) PROVE RunStep
  BY <1>5 DEF CancelJob, RunStep
<1>6. CASE Restart
  BY <1>6 DEF Restart, RunStep
<1>7. ASSUME NEW i \in Insts, StartLoop(i) \/ ApproveGate(i) \/ RejectGate(i) \/ RetryVerify(i)
                              \/ TerminateLoop(i) \/ TickEndPausedExecute(i)
      PROVE  RunStep
  BY <1>7 DEF StartLoop, ApproveGate, GateApproved, RejectGate, RetryVerify, TerminateLoop,
     TickEndPausedExecute, Terminate, RunStep
<1>8. CASE PauseProject \/ ResumeProject \/ TickHealVerify
  BY <1>8 DEF PauseProject, Terminate, ResumeProject, TickHealVerify, GateApproved, RunStep
<1>9. ASSUME NEW w \in Items, CoolDown(w) PROVE RunStep
  BY <1>9 DEF CoolDown, RunStep
<1> QED
  BY <1>1, <1>2, <1>3, <1>4, <1>5, <1>6, <1>7, <1>8, <1>9 DEF Next, Operator, Server

LEMMA FrameTypes ==
    /\ NoRun \in RunRecs /\ RunOK(NoRun) /\ NoRun.i = None
    /\ None \notin Insts /\ None \notin Frames
BY FactoryAssumption DEF NoRun, RunRecs, RunOK, Waits, None, Insts, Frames, NoStage

\* The suspended advances stay well-formed, and so does the table of jobs.
LEMMA RunsNext ==
    ASSUME RunsOK, RunStep
    PROVE  RunsOK'
<1>0. /\ runs \in [Frames -> RunRecs] /\ job \in [Insts -> Frames \cup {None}]
      /\ \A f \in Frames : RunOK(runs[f])
      /\ \A j \in Insts : job[j] # None => job[j] \in Frames /\ runs[job[j]].i = j
  BY DEF RunsOK
<1>1. CASE runs' = runs /\ job' = job
  BY <1>0, <1>1 DEF RunsOK
<1>2. ASSUME NEW i \in Insts, NEW f \in Frames, NEW r \in RunRecs, Begins(i, f, r) PROVE RunsOK'
  <2>1. \A j \in Insts : job[j] # f
    BY <1>0, <1>2, FrameTypes DEF Begins
  <2> QED
    BY <1>0, <1>2, <2>1, FrameTypes DEF Begins, RunsOK
<1>3. ASSUME NEW f \in Frames, NEW r \in RunRecs, Continues(f, r) PROVE RunsOK'
  BY <1>0, <1>3 DEF Continues, RunsOK
<1>4. ASSUME NEW f \in Frames, Finish(f) PROVE RunsOK'
  BY <1>0, <1>4, FrameTypes DEF Finish, RunsOK
<1>5. CASE runs' = [f \in Frames |-> NoRun] /\ job' = [i \in Insts |-> None]
  BY <1>5, FrameTypes DEF RunsOK
<1>6. ASSUME NEW i \in Insts, runs' = runs, job' = [job EXCEPT ![i] = None] PROVE RunsOK'
  BY <1>0, <1>6 DEF RunsOK
<1> QED
  BY <1>1, <1>2, <1>3, <1>4, <1>5, <1>6 DEF RunStep

LEMMA StartedNext ==
    ASSUME TypeInv, RunStep, InstStep(inst')
    PROVE  Started'
<1>0. /\ runs \in [Frames -> RunRecs] /\ inst \in [Insts -> Rows]
      /\ \A f \in Frames : runs[f].i \in Insts \cup {None}
      /\ \A f \in Frames : runs[f].i # None => inst[runs[f].i].state # "NONE"
  BY DEF TypeInv, RunsOK, RunRecs, Started
<1>1. \A j \in Insts : inst[j].state # "NONE" => inst'[j].state # "NONE"
  BY DEF InstStep, Calm, Enters, Stages
<1>2. ASSUME NEW f \in Frames, runs'[f].i # None
      PROVE  runs'[f].i \in Insts /\ inst[runs'[f].i].state # "NONE"
  <2>1. CASE runs' = runs
    BY <1>0, <1>2, <2>1
  <2>2. ASSUME NEW i \in Insts, NEW g \in Frames, NEW r \in RunRecs, Begins(i, g, r)
        PROVE  runs'[f].i \in Insts /\ inst[runs'[f].i].state # "NONE"
    BY <1>0, <1>2, <2>2 DEF Begins, Live, Stages
  <2>3. ASSUME NEW g \in Frames, NEW r \in RunRecs, Continues(g, r)
        PROVE  runs'[f].i \in Insts /\ inst[runs'[f].i].state # "NONE"
    BY <1>0, <1>2, <2>3 DEF Continues
  <2>4. ASSUME NEW g \in Frames, Finish(g)
        PROVE  runs'[f].i \in Insts /\ inst[runs'[f].i].state # "NONE"
    BY <1>0, <1>2, <2>4, FrameTypes DEF Finish
  <2>5. CASE runs' = [g \in Frames |-> NoRun]
    BY <1>2, <2>5, FrameTypes
  <2> QED
    BY <2>1, <2>2, <2>3, <2>4, <2>5 DEF RunStep
<1> QED
  BY <1>1, <1>2 DEF Started

\* Only the blocking call and a cancelled job leave an advance without a job,
\* and both are remembered in forced.
LEMMA JobNext ==
    ASSUME RunsOK, JobInv, RunStep
    PROVE  JobInv'
<1>0. /\ runs \in [Frames -> RunRecs] /\ job \in [Insts -> Frames \cup {None}]
      /\ \A f \in Frames : runs[f].i \in Insts \cup {None}
      /\ \A f \in Frames : runs[f].i \notin forced \cup {None} => job[runs[f].i] = f
      /\ forced \subseteq forced'
  BY DEF RunsOK, RunRecs, JobInv, RunStep
<1>1. CASE runs' = runs /\ job' = job
  BY <1>0, <1>1 DEF JobInv
<1>2. ASSUME NEW i \in Insts, NEW f \in Frames, NEW r \in RunRecs, Begins(i, f, r) PROVE JobInv'
  BY <1>0, <1>2, FrameTypes DEF Begins, JobInv
<1>3. ASSUME NEW f \in Frames, NEW r \in RunRecs, Continues(f, r) PROVE JobInv'
  BY <1>0, <1>3 DEF Continues, JobInv
<1>4. ASSUME NEW f \in Frames, Finish(f) PROVE JobInv'
  BY <1>0, <1>4, FrameTypes DEF Finish, JobInv
<1>5. CASE runs' = [f \in Frames |-> NoRun]
  BY <1>5, FrameTypes DEF JobInv
<1>6. ASSUME NEW i \in Insts, runs' = runs, job' = [job EXCEPT ![i] = None], i \in forced'
      PROVE  JobInv'
  BY <1>0, <1>6 DEF JobInv
<1> QED
  BY <1>1, <1>2, <1>3, <1>4, <1>5, <1>6 DEF RunStep

-----------------------------------------------------------------------------
(* The other rows. *)

Statuses == {"open", "cooling", "shipped", "closed"}

\* The rows and history variables, without the project's.
ItemsOK ==
    /\ status \in [Items -> Statuses]
    /\ claim \in [Items -> Insts \cup {None}]
    /\ logged \subseteq Items /\ verified \subseteq Items /\ rerun \in BOOLEAN

HistoryOK == approved \subseteq Insts /\ forced \subseteq Insts /\ broke \subseteq Insts

LEMMA ReleasedType ==
    ASSUME ItemsOK, NEW S
    PROVE  Released(S) \in [Items -> Insts \cup {None}]
BY DEF Released, ItemsOK

LEMMA RememberType ==
    ASSUME HistoryOK, NEW granted \in SUBSET Insts, NEW failed \in SUBSET Insts,
           Remember(granted, failed)
    PROVE  approved' \subseteq Insts /\ broke' \subseteq Insts
BY DEF Remember, HistoryOK

LEMMA AdvanceRows ==
    ASSUME TypeInv, NEW i \in Insts, NEW async, Advance(i, async)
    PROVE  /\ ItemsOK' /\ approved' \subseteq Insts /\ broke' \subseteq Insts
           /\ UNCHANGED <<trust, project>>
<1>0. ItemsOK /\ HistoryOK /\ inst[i].item \in Items \cup {None}
  BY DEF TypeInv, RowsOK, ItemsOK, HistoryOK, Statuses, Rows
<1>1. UNCHANGED <<trust, project>>
  BY DEF Advance
<1>2. RememberNothing
  BY DEF Advance, AdvReady, AdvSense, AdvPrioritizeClaim, AdvPrioritizeKept, AdvExecute,
     AdvVerify, AdvLearn
<1>3. approved' \subseteq Insts /\ broke' \subseteq Insts
  BY <1>0, <1>2, RememberType DEF RememberNothing
<1>4. CASE AdvReady(i) \/ AdvExecute(i, async)
  BY <1>0, <1>1, <1>3, <1>4, ReleasedType DEF AdvReady, AdvExecute, ItemsOK
<1>5. CASE AdvSense(i) \/ AdvVerify(i, async) \/ AdvLearn(i, async)
  BY <1>0, <1>1, <1>3, <1>5 DEF AdvSense, AdvVerify, AdvLearn, rows, ItemsOK
<1>6. CASE AdvPrioritizeClaim(i, async)
  <2>1. PICK w, merged, st, cl :
           /\ w \in SelectedAnew(i) /\ merged \in SUBSET Items
           /\ ReadCandidates(i, async, merged, st, cl)
           /\ st \in {status, [status EXCEPT ![w] = "shipped"], [status EXCEPT ![w] = "closed"]}
           /\ cl \in {claim, Released({i})}
    BY <1>6 DEF AdvPrioritizeClaim
  <2>2. st \in [Items -> Statuses] /\ cl \in [Items -> Insts \cup {None}]
    BY <1>0, <2>1, ReleasedType DEF ItemsOK, Statuses
  <2>3. status' \in [Items -> Statuses] /\ claim' \in [Items -> Insts \cup {None}]
    BY <2>1, <2>2 DEF ReadCandidates, Statuses
  <2> QED
    BY <1>0, <1>1, <1>3, <1>6, <2>3 DEF AdvPrioritizeClaim, ItemsOK
<1>7. CASE AdvPrioritizeKept(i, async)
  <2>1. SelectedAnew(i) \subseteq Items \cup {None}
    BY <1>0 DEF SelectedAnew, Selected, ItemsOK
  <2> QED
    BY <1>0, <1>1, <1>3, <1>7, <2>1 DEF AdvPrioritizeKept, ItemsOK
<1> QED
  BY <1>4, <1>5, <1>6, <1>7 DEF Advance

LEMMA ResumeRows ==
    ASSUME TypeInv, NEW f \in Frames, Resume(f)
    PROVE  RowsOK'
<1> DEFINE i == runs[f].i
           w == runs[f].item
<1>0. /\ ItemsOK /\ HistoryOK /\ i \in Insts /\ w \in Items \cup {None} /\ forced' = forced
      /\ runs[f].cands \subseteq Items /\ inst[i].item \in Items \cup {None}
      /\ trust \in Levels /\ project \in {"running", "paused", "operator"}
  <2>1. i \in Insts /\ forced' = forced
    BY ResumeRuns
  <2>2. RunsOK /\ RowsOK /\ inst \in [Insts -> Rows]
    BY DEF TypeInv
  <2> QED
    BY <2>1, <2>2 DEF RowsOK, RunsOK, RunRecs, Rows, ItemsOK, HistoryOK, Statuses
<1>a. trust' = trust /\ project' \in {"running", "paused", "operator"}
  BY <1>0 DEF Resume, ProbeStale, ClaimItem, ClaimClosed, ClaimNothing, PlanWritten, PlanRejected,
     PlanDrawn, PlanThrows, ExecuteIdle, ExecuteBack, ExecuteStops, ExecuteDone, ShipNoop,
     ShipPauses, EnterVerify, VerifyDone, VerifyPauses, VerifyThrows, VerifyEnds, LearnDone,
     LearnBlocked
<1>b. \E granted, failed \in SUBSET {i} : Remember(granted, failed)
  BY DEF RememberNothing, Resume, ProbeStale, ClaimItem, ClaimClosed, ClaimNothing, PlanWritten,
     PlanRejected, PlanDrawn, PlanThrows, ExecuteIdle, ExecuteBack, ExecuteStops, ExecuteDone,
     ShipNoop, ShipPauses, EnterVerify, VerifyDone, VerifyPauses, VerifyThrows, VerifyEnds,
     LearnDone,
     LearnBlocked
<1>c. approved' \subseteq Insts /\ broke' \subseteq Insts /\ forced' \subseteq Insts
  BY <1>0, <1>b, RememberType DEF HistoryOK
<1>d. ItemsOK' => RowsOK'
  BY <1>0, <1>a, <1>c DEF ItemsOK, RowsOK, Statuses
<1> HIDE DEF i, w
<1>e. \A st \in Statuses : \A v : [status EXCEPT ![v] = st] \in [Items -> Statuses]
  BY <1>0 DEF ItemsOK
<1>g. "open" \in Statuses /\ "cooling" \in Statuses /\ "shipped" \in Statuses /\ "closed" \in Statuses
  BY DEF Statuses
<1>h. status \in [Items -> Statuses] /\ claim \in [Items -> Insts \cup {None}]
  BY <1>0 DEF ItemsOK
<1>i. /\ Released({i}) \in [Items -> Insts \cup {None}]
      /\ \A v : [claim EXCEPT ![v] = i] \in [Items -> Insts \cup {None}]
  BY <1>0, <1>h, ReleasedType
<1>1. CASE ProbeStale(f) \/ ClaimItem(f) \/ ClaimClosed(f) \/ ClaimNothing(f)
  <2>1. status' = status \/ \E st \in Statuses, v \in Items : status' = [status EXCEPT ![v] = st]
    BY <1>0, <1>1, <1>g DEF ProbeStale, ClaimItem, ClaimClosed, ClaimNothing
  <2>2. \/ claim' = claim \/ claim' = Released({i})
        \/ \E v \in Items : claim' = [claim EXCEPT ![v] = i]
    BY <1>0, <1>1 DEF ProbeStale, ClaimItem, ClaimClosed, ClaimNothing, i
  <2>3. logged' = logged \/ \E v \in Items : logged' = logged \cup {v}
    BY <1>0, <1>1 DEF ProbeStale, ClaimItem, ClaimClosed, ClaimNothing
  <2>4. verified' = verified /\ rerun' = rerun
    BY <1>1 DEF ProbeStale, ClaimItem, ClaimClosed, ClaimNothing
  <2>5. status' \in [Items -> Statuses] /\ claim' \in [Items -> Insts \cup {None}]
    BY <1>e, <1>h, <1>i, <2>1, <2>2
  <2> QED
    BY <1>0, <1>d, <2>3, <2>4, <2>5 DEF ItemsOK
<1>2. CASE PlanWritten(f) \/ PlanRejected(f) \/ PlanDrawn(f) \/ PlanThrows(f)
  <2>1. ItemsOK'
    BY <1>0, <1>2, <1>e, <1>g DEF PlanWritten, PlanRejected, PlanDrawn, PlanThrows, rows, ItemsOK
  <2> QED
    BY <1>d, <2>1
<1>3. CASE ExecuteIdle(f) \/ ExecuteBack(f) \/ ExecuteStops(f) \/ ExecuteDone(f)
  <2>1. w \in Items
    BY <1>3 DEF ExecuteIdle, ExecuteBack, ExecuteStops, ExecuteDone, TypeInv, RunsOK, RunOK, w
  <2>2. status[w] \in Statuses
    BY <1>0, <2>1 DEF ItemsOK
  <2>3. PICK st \in Statuses : status' = [status EXCEPT ![w] = st]
    BY <1>3, <1>g, <2>2 DEF ExecuteIdle, ExecuteBack, ExecuteStops, ExecuteDone, w
  <2>4. claim' \in [Items -> Insts \cup {None}]
    BY <1>0, <1>3, <1>i DEF ExecuteIdle, ExecuteBack, ExecuteStops, ExecuteDone, i, ItemsOK
  <2>5. UNCHANGED <<logged, verified, rerun>>
    BY <1>3 DEF ExecuteIdle, ExecuteBack, ExecuteStops, ExecuteDone
  <2>6. status' \in [Items -> Statuses]
    BY <1>e, <2>3
  <2> QED
    BY <1>0, <1>d, <2>4, <2>5, <2>6 DEF ItemsOK
<1>4. CASE ShipNoop(f) \/ ShipPauses(f) \/ EnterVerify(f)
  <2>1. \/ UNCHANGED rows
        \/ /\ status' = [status EXCEPT ![w] = "shipped"] /\ claim' = Released({i})
           /\ UNCHANGED <<logged, verified, rerun>>
    BY <1>4 DEF ShipNoop, ShipPauses, EnterVerify, i, w
  <2>2. CASE UNCHANGED rows
    BY <1>0, <1>d, <2>2 DEF rows, ItemsOK
  <2>3. CASE ~UNCHANGED rows
    <3>1. status' \in [Items -> Statuses]
      BY <1>e, <1>g, <2>1, <2>3
    <3> QED
      BY <1>0, <1>d, <1>i, <2>1, <2>3, <3>1 DEF ItemsOK
  <2> QED
    BY <2>2, <2>3
<1>5. CASE VerifyDone(f) \/ VerifyPauses(f) \/ VerifyThrows(f)
  <2>1. ItemsOK'
    BY <1>0, <1>5 DEF VerifyDone, VerifyPauses, VerifyThrows, ItemsOK
  <2> QED
    BY <1>d, <2>1
<1>6. CASE VerifyEnds(f)
  <2>1. PICK st \in Statuses : status' = [v \in Items |-> IF v = w THEN st ELSE status[v]]
    BY <1>6, <1>g DEF VerifyEnds, w
  <2>2. status' \in [Items -> Statuses]
    BY <1>0, <2>1 DEF ItemsOK
  <2>3. ItemsOK'
    BY <1>0, <1>6, <1>i, <2>2 DEF VerifyEnds, i, ItemsOK
  <2> QED
    BY <1>d, <2>3
<1>7. CASE LearnDone(f)
  <2>1. \A x \in Shipments(w) : x[1] \in [Items -> Statuses]
    <3> SUFFICES ASSUME NEW x \in Shipments(w) PROVE x[1] \in [Items -> Statuses]
      OBVIOUS
    <3>1. \A st, b : x = <<st, b>> => x[1] = st
      OBVIOUS
    <3>2. \E st, b : x = <<st, b>> /\ st \in [Items -> Statuses]
      BY <1>e, <1>g, <1>h DEF Shipments
    <3> QED
      BY <3>1, <3>2
  <2>2. status' \in [Items -> Statuses]
    BY <1>7, <2>1 DEF LearnDone, w
  <2>3. ItemsOK'
    BY <1>0, <1>7, <1>i, <2>2 DEF LearnDone, i, ItemsOK
  <2> QED
    BY <1>d, <2>3
<1>8. CASE LearnBlocked(f)
  BY <1>0, <1>8, <1>d DEF LearnBlocked, rows, ItemsOK
<1> QED
  BY <1>1, <1>2, <1>3, <1>4, <1>5, <1>6, <1>7, <1>8 DEF Resume

LEMMA OutsideRows ==
    ASSUME TypeInv, Operator \/ Server
    PROVE  RowsOK'
<1>0. /\ ItemsOK /\ HistoryOK
      /\ trust \in Levels /\ project \in {"running", "paused", "operator"}
  BY DEF TypeInv, RowsOK, ItemsOK, HistoryOK, Statuses
<1>a. ASSUME NEW granted \in SUBSET Insts, NEW failed \in SUBSET Insts,
             Remember(granted, failed), ItemsOK', forced' \subseteq Insts, trust' = trust,
             project' \in {project, "running", "paused", "operator"}
      PROVE  RowsOK'
  BY <1>0, <1>a, RememberType DEF ItemsOK, RowsOK, Statuses
<1>b. ASSUME RememberNothing, ItemsOK', forced' \subseteq Insts, trust' = trust,
             project' \in {project, "running", "paused", "operator"}
      PROVE  RowsOK'
  BY <1>a, <1>b DEF RememberNothing
<1>c. forced \subseteq Insts
  BY <1>0 DEF HistoryOK
<1>d. ASSUME NEW S, Terminate(S) PROVE ItemsOK'
  BY <1>0, <1>d, ReleasedType DEF Terminate, ItemsOK
<1>1. ASSUME NEW i \in Insts, StartLoop(i) PROVE RowsOK'
  BY <1>0, <1>1, <1>b, <1>c DEF StartLoop, rows, ItemsOK
<1>2. ASSUME NEW i \in Insts, AdvanceAsync(i) \/ AdvanceSync(i) PROVE RowsOK'
  <2>1. forced' \subseteq Insts
    BY <1>2, <1>c DEF AdvanceAsync, AdvanceSync
  <2>2. PICK async \in BOOLEAN : Advance(i, async)
    BY <1>2 DEF AdvanceAsync, AdvanceSync
  <2>3. /\ ItemsOK' /\ approved' \subseteq Insts /\ broke' \subseteq Insts
        /\ UNCHANGED <<trust, project>>
    BY <2>2, AdvanceRows
  <2> QED
    BY <1>0, <2>1, <2>3 DEF ItemsOK, RowsOK, Statuses
<1>3. ASSUME NEW i \in Insts, CancelJob(i) PROVE RowsOK'
  BY <1>0, <1>3, <1>b, <1>c DEF CancelJob, rows, ItemsOK
<1>4. ASSUME NEW i \in Insts, ApproveGate(i) \/ RejectGate(i) \/ RetryVerify(i)
                              \/ TerminateLoop(i) \/ TickEndPausedExecute(i)
      PROVE  RowsOK'
  <2>1. CASE ApproveGate(i)
    <3>1. ItemsOK' /\ UNCHANGED <<trust, project, forced>>
      BY <1>0, <2>1 DEF ApproveGate, GateApproved, ItemsOK
    <3>2. \E granted \in SUBSET Insts : Remember(granted, {})
      BY <2>1 DEF ApproveGate, GateApproved
    <3> QED
      BY <1>a, <1>c, <3>1, <3>2
  <2>2. CASE RetryVerify(i)
    BY <1>0, <1>b, <1>c, <2>2 DEF RetryVerify, ItemsOK
  <2>3. CASE RejectGate(i) \/ TerminateLoop(i) \/ TickEndPausedExecute(i)
    BY <1>b, <1>c, <1>d, <2>3 DEF RejectGate, TerminateLoop, TickEndPausedExecute, Terminate
  <2> QED
    BY <1>4, <2>1, <2>2, <2>3
<1>5. CASE PauseProject
  BY <1>b, <1>c, <1>d, <1>5 DEF PauseProject, Terminate
<1>6. CASE ResumeProject
  BY <1>0, <1>b, <1>c, <1>6 DEF ResumeProject, rows, ItemsOK
<1>7. ASSUME NEW w \in Items, CoolDown(w) PROVE RowsOK'
  <2>1. ItemsOK'
    BY <1>0, <1>7 DEF CoolDown, ItemsOK, Statuses
  <2> QED
    BY <1>b, <1>c, <1>7, <2>1 DEF CoolDown
<1>8. CASE TickHealVerify
  <2>1. ItemsOK' /\ UNCHANGED <<trust, forced>> /\ project' = "running"
    BY <1>0, <1>8 DEF TickHealVerify, GateApproved, ItemsOK
  <2>2. Remember({}, {})
    BY <1>8 DEF TickHealVerify, GateApproved
  <2> QED
    BY <1>a, <1>c, <2>1, <2>2
<1>9. CASE Restart
  <2>1. ItemsOK' /\ UNCHANGED <<trust, project, forced>>
    BY <1>0, <1>9, ReleasedType DEF Restart, ItemsOK
  <2>2. {runs[f].i : f \in {g \in Frames : runs[g].at = "plan"}} \subseteq Insts
    BY DEF TypeInv, RunsOK, RunOK, RunRecs
  <2> QED
    BY <1>a, <1>c, <1>9, <2>1, <2>2 DEF Restart
<1> QED
  BY <1>1, <1>2, <1>3, <1>4, <1>5, <1>6, <1>7, <1>8, <1>9 DEF Operator, Server

-----------------------------------------------------------------------------

LEMMA TypeInit == Init => TypeInv
<1> SUFFICES ASSUME Init PROVE TypeInv
  OBVIOUS
<1>1. RowsOK
  BY DEF Init, RowsOK
<1>2. inst \in [Insts -> Rows]
  BY PauseTypes DEF Init, Rows
<1>3. RunsOK /\ Started
  BY FrameTypes DEF Init, RunsOK, Started
<1> QED
  BY <1>1, <1>2, <1>3 DEF TypeInv

LEMMA TypeNext == TypeInv /\ [Next]_vars => TypeInv'
<1> SUFFICES ASSUME TypeInv, [Next]_vars PROVE TypeInv'
  OBVIOUS
<1>1. InstStep(inst') /\ RunStep
  BY NextInst, NextRuns
<1>2. RowsOK'
  <2>1. CASE UNCHANGED vars
    BY <2>1 DEF vars, rows, TypeInv, RowsOK
  <2> QED
    BY <2>1, OutsideRows, ResumeRows DEF Next
<1>3. inst' \in [Insts -> Rows]
  BY <1>1 DEF InstStep
<1>4. RunsOK'
  BY <1>1, RunsNext DEF TypeInv
<1>5. Started'
  BY <1>1, StartedNext
<1> QED
  BY <1>2, <1>3, <1>4, <1>5 DEF TypeInv

\* Rows, items and suspended advances stay within their domains, and a job
\* is an advance of its own instance that has not ended.
THEOREM FactoryTypeCorrect == Spec => []TypeOK
BY TypeInit, TypeNext, TypeInvTypeOK, PTL DEF Spec

\* The unique index on (project, loop_state) is kept: a stage has at most one
\* live instance.
THEOREM FactoryStageExclusive == Spec => []StageExclusive
<1>1. Init => StageExclusive
  BY DEF Init, StageExclusive, LiveInsts, Live, Stages
<1>2. TypeInv /\ StageExclusive /\ [Next]_vars => StageExclusive'
  <2> SUFFICES ASSUME TypeInv, StageExclusive, InstStep(inst') PROVE StageExclusive'
    BY NextInst
  <2>1. CASE Calm(inst')
    BY <2>1 DEF Calm, StageExclusive, LiveInsts, Live, Stages
  <2>2. ASSUME NEW i \in Insts, NEW s \in Stages, Enters(inst', i, s) PROVE StageExclusive'
    BY <2>2 DEF Enters, StageExclusive, LiveInsts, Live, Stages
  <2> QED
    BY <2>1, <2>2 DEF InstStep
<1> QED
  BY <1>1, <1>2, TypeInit, TypeNext, PTL DEF Spec

\* Whatever an advance remembers when it comes back, no step takes a
\* terminated instance into a stage again.
THEOREM FactoryTerminatedStaysOut == Spec => TerminatedStaysOut
<1>1. TypeInv /\ [Next]_vars => \A i \in Insts : Terminated(i) => inst'[i].state = "IDLE"
  <2> SUFFICES ASSUME TypeInv, InstStep(inst'), NEW i \in Insts, inst[i].state = "IDLE"
               PROVE  inst'[i].state = "IDLE"
    BY NextInst DEF Terminated
  <2> QED
    BY DEF InstStep, Calm, Enters
<1> QED
  BY <1>1, TypeInit, TypeNext, PTL DEF Spec, TerminatedStaysOut

\* Two advances of one instance are under way together only after a blocking
\* call, of the operator or of auto-recovery, or the cancellation of a job.
THEOREM FactoryOneRun == Spec => []OneRunPerInstance
<1>1. Init => JobInv
  BY FrameTypes DEF Init, JobInv
<1>2. TypeInv /\ JobInv /\ [Next]_vars => JobInv'
  BY NextRuns, JobNext DEF TypeInv
<1>3. JobInv => OneRunPerInstance
  BY DEF JobInv, OneRunPerInstance
<1> QED
  BY <1>1, <1>2, <1>3, TypeInit, TypeNext, PTL DEF Spec

-----------------------------------------------------------------------------
(* The PLAN gate. *)

\* The stage in which the instance of an advance waits.
StageOf == [claim |-> "PRIORITIZE", plan |-> "PLAN", execute |-> "EXECUTE", ship |-> "EXECUTE",
            xverify |-> "VERIFY", verify |-> "VERIFY", learn |-> "LEARN"]

\* While its advance waits, an instance leaves its stage only for IDLE.
RunsInStage(i) ==
    \A f \in Frames : runs[f].i = i =>
        /\ inst[i].state \in {StageOf[runs[f].at], "IDLE"}
        /\ runs[f].at = "ship" => runs[f].seen \in {"EXECUTE", "IDLE"}

\* Before PLAN, an instance is parked for the next stage at the furthest.
ParkedForNext(i) ==
    /\ inst[i].state \in {"NONE", "SENSE", "PRIORITIZE"} =>
          inst[i].paused \notin {"READY_FOR_EXECUTE", "READY_FOR_VERIFY", "READY_FOR_LEARN"}
    /\ inst[i].state \in {"NONE", "SENSE"} => inst[i].paused # "READY_FOR_PLAN"

\* In PLAN, an instance whose plan nobody approved waits for its planner or
\* at the gate.
PlanPending(i) ==
    PlanGate /\ inst[i].state = "PLAN" /\ i \notin approved \cup broke =>
        \/ inst[i].paused = "PLAN"
        \/ inst[i].paused = NoStage /\ \E f \in Frames : runs[f].i = i /\ runs[f].at = "plan"

PastPlan(i) ==
    PlanGate /\ inst[i].state \in {"EXECUTE", "VERIFY", "LEARN"} => i \in approved \cup broke

Gated(i) == RunsInStage(i) /\ ParkedForNext(i) /\ PlanPending(i) /\ PastPlan(i)

GateInv == TypeInv /\ JobInv /\ \A i \in Insts \ forced : Gated(i)

LEMMA ReadyNames ==
    /\ ReadyFor["SENSE"] = "READY_FOR_SENSE"
    /\ ReadyFor["PRIORITIZE"] = "READY_FOR_PRIORITIZE"
    /\ ReadyFor["PLAN"] = "READY_FOR_PLAN"
    /\ ReadyFor["EXECUTE"] = "READY_FOR_EXECUTE"
    /\ ReadyFor["VERIFY"] = "READY_FOR_VERIFY"
    /\ ReadyFor["LEARN"] = "READY_FOR_LEARN"
BY DEF ReadyFor

LEMMA StageNames ==
    /\ StageOf["claim"] = "PRIORITIZE" /\ StageOf["plan"] = "PLAN"
    /\ StageOf["execute"] = "EXECUTE" /\ StageOf["ship"] = "EXECUTE"
    /\ StageOf["xverify"] = "VERIFY" /\ StageOf["verify"] = "VERIFY"
    /\ StageOf["learn"] = "LEARN"
BY DEF StageOf

LEMMA GateNames ==
    /\ \A s, t : GateAt(s, t) \in {t, NoStage}
    /\ PlanGate => GateAt("PRIORITIZE", "PLAN") = "PLAN"
BY DEF GateAt, PlanGate

\* The trust level does not change, and so the gates do not.
LEMMA SameGate ==
    ASSUME trust' = trust
    PROVE  PlanGate' = PlanGate
BY DEF PlanGate, PendingGate

\* A terminated instance is past every gate.
LEMMA IdleGated ==
    ASSUME NEW j \in Insts, inst'[j].state = "IDLE",
           \A f \in Frames : runs'[f].i = j /\ runs'[f].at = "ship" =>
              runs'[f].seen \in {"EXECUTE", "IDLE"}
    PROVE  Gated(j)'
BY DEF Gated, RunsInStage, ParkedForNext, PlanPending, PastPlan

\* The advances of j are left alone.
Away(j) == \A f \in Frames : runs[f].i = j \/ runs'[f].i = j => runs'[f] = runs[f]

\* A step that leaves an instance and its advances alone, or terminates it,
\* keeps it gated.
LEMMA UntouchedGated ==
    ASSUME NEW j \in Insts, Gated(j), Away(j), trust' = trust,
           inst'[j] = inst[j] \/ inst'[j].state = "IDLE",
           NEW granted, NEW failed, Remember(granted, failed)
    PROVE  Gated(j)'
<1>1. CASE inst'[j].state = "IDLE"
  BY <1>1, IdleGated DEF Away, Gated, RunsInStage
<1>2. CASE inst'[j] = inst[j]
  <2>1. RunsInStage(j)' /\ ParkedForNext(j)'
    BY <1>2 DEF Away, Gated, RunsInStage, ParkedForNext
  <2>2. PlanGate' = PlanGate
    BY SameGate
  <2>3. InPass(j)' => /\ j \in approved => (PlanGate => j \in approved')
                      /\ j \in broke => (PlanGate => j \in broke')
    BY DEF Remember
  <2>4. inst[j].state \in {"PLAN", "EXECUTE", "VERIFY", "LEARN"} => InPass(j)'
    BY <1>2 DEF InPass, Stages
  <2>5. PlanPending(j)' /\ PastPlan(j)'
    BY <1>2, <2>2, <2>3, <2>4 DEF Away, Gated, PlanPending, PastPlan
  <2> QED
    BY <2>1, <2>5 DEF Gated
<1> QED
  BY <1>1, <1>2

\* From PLAN on, an instance whose plan was approved or broke, before or in
\* this step, is past the gate.
LEMMA LaterGated ==
    ASSUME NEW j \in Insts, trust' = trust,
           inst'[j].state \in {"PLAN", "EXECUTE", "VERIFY", "LEARN"},
           NEW granted, NEW failed, Remember(granted, failed),
           PlanGate => j \in approved \cup broke \cup granted \cup failed
    PROVE  ParkedForNext(j)' /\ PlanPending(j)' /\ PastPlan(j)'
<1>1. PlanGate' = PlanGate
  BY SameGate
<1>2. InPass(j)'
  BY DEF InPass, Stages
<1>3. PlanGate => j \in approved' \cup broke'
  BY <1>2 DEF Remember
<1> QED
  BY <1>1, <1>3 DEF ParkedForNext, PlanPending, PastPlan

\* Before PLAN there is nothing to approve.
LEMMA EarlierGated ==
    ASSUME NEW j \in Insts, inst'[j].state \in {"SENSE", "PRIORITIZE"},
           \/ inst'[j].paused \in {NoStage, "SENSE", "PRIORITIZE", "READY_FOR_SENSE",
                                   "READY_FOR_PRIORITIZE"}
           \/ inst'[j].state = "PRIORITIZE" /\ inst'[j].paused = "READY_FOR_PLAN"
    PROVE  ParkedForNext(j)' /\ PlanPending(j)' /\ PastPlan(j)'
BY DEF ParkedForNext, PlanPending, PastPlan, NoStage

\* What tryMoveInstanceToStage makes of the row of an instance that is live,
\* and that no other row is touched.
LEMMA MovedRow ==
    ASSUME inst \in [Insts -> Rows], NEW i \in Insts, NEW seen, NEW s, NEW p, NEW w,
           seen # s
    PROVE  LET m == Moved(i, seen, s, p, w) IN
           /\ \A j \in Insts \ {i} : m[j] = inst[j]
           /\ inst[i].state = "IDLE" => m = inst
           /\ inst[i].state # "IDLE" /\ ~Blocked(i, seen, s) => m[i].state = s /\ m[i].paused = p
           /\ inst[i].state # "IDLE" /\ Blocked(i, seen, s) =>
                 m[i].state = inst[i].state /\ m[i].paused = ReadyFor[s]
<1> DEFINE m == Moved(i, seen, s, p, w)
<1>1. CASE Terminated(i)
  BY <1>1 DEF Moved, Terminated, Blocked
<1>2. CASE ~Terminated(i) /\ Occupied(i, s)
  BY <1>2 DEF Moved, Terminated, Blocked, SetPause, Write, Rows
<1>3. CASE ~Terminated(i) /\ ~Occupied(i, s)
  BY <1>3 DEF Moved, Terminated, Blocked
<1> QED
  BY <1>1, <1>2, <1>3

LEMMA PausedRow ==
    ASSUME inst \in [Insts -> Rows], NEW i \in Insts, NEW p, NEW w
    PROVE  LET m == Write(i, p, w) IN
           /\ \A j \in Insts \ {i} : m[j] = inst[j]
           /\ m[i].state = inst[i].state
           /\ inst[i].state # "IDLE" => m[i].paused = p
BY DEF Write, Terminated, Rows

LEMMA PlanningRow ==
    ASSUME inst \in [Insts -> Rows], NEW i \in Insts, NEW w \in Items, inst[i].state # "PLAN"
    PROVE  LET m == Planning(i, w) IN
           /\ \A j \in Insts \ {i} : m[j] = inst[j]
           /\ inst[i].state = "IDLE" => m = inst
           /\ inst[i].state # "IDLE" /\ ~Blocked(i, inst[i].state, "PLAN") =>
                 m[i].state = "PLAN" /\ m[i].paused = NoStage
           /\ inst[i].state # "IDLE" /\ Blocked(i, inst[i].state, "PLAN") =>
                 m[i].state = inst[i].state /\ m[i].paused = ReadyFor["PLAN"]
<1> DEFINE t == TryMove(i, "PLAN", NoStage, w)
<1>1. CASE Terminated(i)
  BY <1>1 DEF Planning, Terminated, Blocked
<1>2. CASE ~Terminated(i)
  <2>1. Planning(i, w) = [t EXCEPT ![i].item = w]
    BY <1>2 DEF Planning
  <2>2. /\ \A j \in Insts \ {i} : t[j] = inst[j]
        /\ ~Blocked(i, inst[i].state, "PLAN") => t[i].state = "PLAN" /\ t[i].paused = NoStage
        /\ Blocked(i, inst[i].state, "PLAN") =>
              t[i].state = inst[i].state /\ t[i].paused = ReadyFor["PLAN"]
    BY <1>2, MovedRow DEF TryMove, Terminated
  <2>3. t \in [Insts -> Rows]
    BY MovedStep, PauseTypes DEF TryMove, InstStep, Stages
  <2> HIDE DEF t
  <2>4. /\ \A j \in Insts \ {i} : Planning(i, w)[j] = t[j]
        /\ Planning(i, w)[i].state = t[i].state /\ Planning(i, w)[i].paused = t[i].paused
    BY <2>1, <2>3 DEF Rows
  <2> QED
    BY <1>2, <2>2, <2>4 DEF Terminated
<1> QED
  BY <1>1, <1>2

LEMMA ResumeTrust ==
    ASSUME NEW f \in Frames, Resume(f)
    PROVE  trust' = trust /\ \E granted, failed : Remember(granted, failed)
BY DEF RememberNothing, Resume, ProbeStale, ClaimItem, ClaimClosed, ClaimNothing, PlanWritten,
   PlanRejected, PlanDrawn, PlanThrows, ExecuteIdle, ExecuteBack, ExecuteStops, ExecuteDone,
   ShipNoop, ShipPauses, EnterVerify, VerifyDone, VerifyPauses, VerifyThrows, VerifyEnds,
   LearnDone,
   LearnBlocked

\* An advance that comes back writes the row of its own instance only.
LEMMA ResumeOther ==
    ASSUME TypeInv, NEW f \in Frames, Resume(f), NEW j \in Insts \ {runs[f].i}
    PROVE  inst'[j] = inst[j]
<1> DEFINE i == runs[f].i
           w == runs[f].item
<1>0. inst \in [Insts -> Rows] /\ i \in Insts
  BY ResumeRuns DEF TypeInv
<1> HIDE DEF i, w
<1>a. \A seen, s, p, v : Moved(i, seen, s, p, v)[j] = inst[j]
  <2> TAKE seen, s, p, v
  <2>1. CASE seen # s
    BY <1>0, <2>1, MovedRow DEF i
  <2>2. CASE seen = s
    BY <1>0, <2>2, PausedRow DEF Moved, i
  <2> QED
    BY <2>1, <2>2
<1>b. \A s, v : TryMove(i, s, NoStage, v)[j] = inst[j]
  BY <1>a DEF TryMove
<1>c. \A p, v : Write(i, p, v)[j] = inst[j]
  BY <1>0, PausedRow DEF i
<1>d. \A p : SetPause(i, p)[j] = inst[j]
  BY <1>c DEF SetPause
<1>e. Ended({i})[j] = inst[j]
  BY DEF Ended, i
<1>1. CASE \/ ProbeStale(f) \/ ClaimClosed(f) \/ PlanThrows(f) \/ ExecuteDone(f)
          \/ VerifyThrows(f)
  BY <1>1 DEF ProbeStale, ClaimClosed, PlanThrows, ExecuteDone, VerifyThrows
<1>2. CASE ClaimItem(f)
  <2>1. PICK v \in Items : inst' = Planning(i, v)
    BY <1>2 DEF ClaimItem, TypeInv, RunsOK, RunRecs, i
  <2>2. InstStep(TryMove(i, "PLAN", NoStage, v))
    BY <1>0, MovedStep, PauseTypes DEF TryMove, Stages
  <2> DEFINE t == TryMove(i, "PLAN", NoStage, v)
  <2>3. t \in [Insts -> Rows] /\ t[j] = inst[j] /\ i # j
    BY <1>b, <2>2 DEF InstStep, i
  <2> HIDE DEF t
  <2>4. inst' = inst \/ inst' = [t EXCEPT ![i].item = v]
    BY <2>1 DEF Planning, t
  <2> QED
    BY <1>0, <2>3, <2>4
<1>3. CASE ClaimNothing(f) \/ ExecuteIdle(f) \/ VerifyEnds(f)
  BY <1>3, <1>e DEF ClaimNothing, ExecuteIdle, VerifyEnds, i
<1>4. CASE PlanWritten(f) \/ ExecuteBack(f)
  BY <1>4, <1>b DEF PlanWritten, ExecuteBack, i
<1>5. CASE PlanRejected(f) \/ PlanDrawn(f)
  BY <1>5, <1>c DEF PlanRejected, PlanDrawn, GatedPlan, i
<1>6. CASE ExecuteStops(f) \/ ShipPauses(f) \/ VerifyPauses(f) \/ LearnBlocked(f)
  BY <1>6, <1>d DEF ExecuteStops, ShipPauses, VerifyPauses, LearnBlocked, i
<1>7. CASE ShipNoop(f) \/ EnterVerify(f) \/ VerifyDone(f) \/ LearnDone(f)
  BY <1>7, <1>a, <1>e DEF ShipNoop, EnterVerify, VerifyDone, LearnDone, i
<1> QED
  BY <1>1, <1>2, <1>3, <1>4, <1>5, <1>6, <1>7 DEF Resume

\* What an advance that comes back does to its own instance: it is the only
\* advance of that instance, which is in the stage it waited in or terminated.
LEMMA ResumeGated ==
    ASSUME TypeInv, JobInv, NEW f \in Frames, Resume(f),
           NEW i \in Insts \ forced, runs[f].i = i, Gated(i)
    PROVE  Gated(i)'
<1> DEFINE w == runs[f].item
           NoRuns == \A g \in Frames : runs'[g].i # i
           Runs(at) == /\ \A g \in Frames : runs'[g].i = i => g = f
                       /\ runs'[f].i = i /\ runs'[f].at = at
           Past == PlanGate => i \in approved \cup broke
<1>0. /\ inst \in [Insts -> Rows] /\ runs \in [Frames -> RunRecs] /\ RunOK(runs[f])
      /\ runs[f].cands \subseteq Items /\ w \in Items \cup {None}
  BY DEF TypeInv, RunsOK, RunRecs
<1>a. /\ \A g \in Frames : runs[g].i = i => g = f
      /\ RunsInStage(i) /\ ParkedForNext(i) /\ PlanPending(i) /\ PastPlan(i)
  BY FrameTypes DEF JobInv, Gated
<1>b. PICK granted, failed : Remember(granted, failed)
  BY ResumeTrust
<1>t. trust' = trust
  BY ResumeTrust
<1>f. Finish(f) => NoRuns
  BY <1>0, <1>a, FrameTypes DEF Finish
<1>w. \A at, v, seen, c : Wait(f, at, v, seen, c) => Runs(at) /\ runs'[f].seen = seen
  BY <1>0, <1>a DEF Wait, RunRecs
<1> HIDE DEF w
<1>n. NoRuns => RunsInStage(i)'
  BY DEF RunsInStage
<1>r. \A at \in Waits : Runs(at) /\ inst'[i].state \in {StageOf[at], "IDLE"} /\ at # "ship"
         => RunsInStage(i)'
  BY DEF RunsInStage
<1>l. inst'[i].state \in {"PLAN", "EXECUTE", "VERIFY", "LEARN"} /\ Past
         => ParkedForNext(i)' /\ PlanPending(i)' /\ PastPlan(i)'
  BY <1>b, <1>t, LaterGated
<1>1. CASE inst[i].state = "IDLE"
  <2>1. inst'[i].state = "IDLE"
    BY <1>0, <1>1, NextInst DEF InstStep, Calm, Enters, Next
  <2>2. CASE NoRuns
    BY <2>1, <2>2, IdleGated
  <2>3. CASE ~NoRuns
    <3>1. \E at \in Waits, seen \in Stages \cup {"IDLE", NoStage} :
             /\ Runs(at) /\ runs'[f].seen = seen
             /\ at = "ship" => seen = "IDLE"
      BY <1>1, <1>f, <1>w, <2>3 DEF Waits, Resume, ProbeStale, ClaimItem, ClaimClosed,
         ClaimNothing, PlanWritten, PlanRejected, PlanDrawn, PlanThrows, ExecuteIdle,
         ExecuteBack, ExecuteStops, ExecuteDone, ShipNoop, ShipPauses, EnterVerify, VerifyDone,
         VerifyPauses, VerifyThrows, VerifyEnds, LearnDone, LearnBlocked
    <3>2. \A g \in Frames : runs'[g].i = i /\ runs'[g].at = "ship" => runs'[g].seen = "IDLE"
      BY <3>1
    <3> QED
      BY <2>1, <3>2, IdleGated
  <2> QED
    BY <2>2, <2>3
<1> SUFFICES ASSUME inst[i].state = StageOf[runs[f].at], inst[i].state # "IDLE"
             PROVE  Gated(i)'
  BY <1>1, <1>a DEF RunsInStage
<1>2. CASE ProbeStale(f) \/ ClaimClosed(f)
  <2>0. \E c : Wait(f, "claim", None, NoStage, c)
    BY <1>2, Zenon DEF ProbeStale, ClaimClosed
  <2>1. Runs("claim") /\ inst' = inst /\ inst[i].state = "PRIORITIZE"
    BY <1>2, <1>w, <2>0, StageNames DEF ProbeStale, ClaimClosed
  <2>2. RunsInStage(i)'
    BY <1>r, <2>1, StageNames DEF Waits
  <2>3. ParkedForNext(i)' /\ PlanPending(i)' /\ PastPlan(i)'
    BY <1>a, <2>1 DEF ParkedForNext, PlanPending, PastPlan
  <2> QED
    BY <2>2, <2>3 DEF Gated
<1>3. CASE ClaimItem(f)
  <2>1. PICK v \in Items : inst' = Planning(i, v)
    BY <1>0, <1>3 DEF ClaimItem
  <2>2. inst[i].state = "PRIORITIZE"
    BY <1>3, StageNames DEF ClaimItem
  <2>3. CASE Blocked(i, inst[i].state, "PLAN")
    <3>1. inst'[i].state = "PRIORITIZE" /\ inst'[i].paused = "READY_FOR_PLAN"
      BY <1>0, <2>1, <2>2, <2>3, PlanningRow, ReadyNames
    <3>2. Finish(f)
      BY <1>3, <2>3 DEF ClaimItem
    <3> QED
      BY <1>f, <1>n, <3>1, <3>2, EarlierGated DEF Gated
  <2>4. CASE ~Blocked(i, inst[i].state, "PLAN")
    <3>1. inst'[i].state = "PLAN" /\ inst'[i].paused = NoStage
      BY <1>0, <2>1, <2>2, <2>4, PlanningRow
    <3>2. Runs("plan")
      BY <1>3, <1>w, <2>4 DEF ClaimItem
    <3>3. RunsInStage(i)'
      BY <1>r, <3>1, <3>2, StageNames DEF Waits
    <3> QED
      BY <3>1, <3>2, <3>3 DEF Gated, ParkedForNext, PlanPending, PastPlan
  <2> QED
    BY <2>3, <2>4
<1>4. CASE ClaimNothing(f) \/ ExecuteIdle(f) \/ VerifyEnds(f)
  <2>1. inst'[i].state = "IDLE" /\ Finish(f)
    BY <1>4 DEF ClaimNothing, ExecuteIdle, VerifyEnds, Ended
  <2> QED
    BY <1>f, <2>1, IdleGated
<1>5. CASE PlanWritten(f)
  <2>1. /\ inst' = Moved(i, inst[i].state, "EXECUTE", NoStage, w) /\ Finish(f)
        /\ Remember({i}, {}) /\ inst[i].state = "PLAN"
    BY <1>5, StageNames DEF PlanWritten, TryMove, w
  <2>2. inst'[i].state \in {"PLAN", "EXECUTE"}
    BY <1>0, <2>1, MovedRow
  <2>3. ParkedForNext(i)' /\ PlanPending(i)' /\ PastPlan(i)'
    BY <1>t, <2>1, <2>2, LaterGated
  <2> QED
    BY <1>f, <1>n, <2>1, <2>3 DEF Gated
<1>6. CASE PlanRejected(f) \/ PlanDrawn(f)
  <2>1. PICK v : inst' = GatedPlan(i, v)
    BY <1>6 DEF PlanRejected, PlanDrawn
  <2>2. Finish(f) /\ inst[i].state = "PLAN"
    BY <1>6, StageNames DEF PlanRejected, PlanDrawn
  <2>3. inst'[i].state = "PLAN" /\ (PlanGate => inst'[i].paused = "PLAN")
    BY <1>0, <2>1, <2>2, PausedRow DEF GatedPlan
  <2>4. PlanGate' = PlanGate
    BY <1>t, SameGate
  <2>5. ParkedForNext(i)' /\ PlanPending(i)' /\ PastPlan(i)'
    BY <2>3, <2>4 DEF ParkedForNext, PlanPending, PastPlan
  <2> QED
    BY <1>f, <1>n, <2>2, <2>5 DEF Gated
<1>7. CASE PlanThrows(f)
  <2>1. inst' = inst /\ Finish(f) /\ Remember({}, {i}) /\ inst[i].state = "PLAN"
    BY <1>7, StageNames DEF PlanThrows
  <2>2. ParkedForNext(i)' /\ PlanPending(i)' /\ PastPlan(i)'
    BY <1>t, <2>1, LaterGated
  <2> QED
    BY <1>f, <1>n, <2>1, <2>2 DEF Gated
<1>8. CASE ExecuteBack(f)
  <2>1. /\ inst' = Moved(i, inst[i].state, "PRIORITIZE", NoStage, w) /\ Finish(f)
        /\ inst[i].state = "EXECUTE"
    BY <1>8, StageNames DEF ExecuteBack, TryMove, w
  <2>2. Past
    BY <1>a, <2>1 DEF PastPlan
  <2>3. CASE Blocked(i, inst[i].state, "PRIORITIZE")
    <3>1. inst'[i].state = "EXECUTE"
      BY <1>0, <2>1, <2>3, MovedRow
    <3> QED
      BY <1>f, <1>n, <1>l, <2>1, <2>2, <3>1 DEF Gated
  <2>4. CASE ~Blocked(i, inst[i].state, "PRIORITIZE")
    <3>1. inst'[i].state = "PRIORITIZE" /\ inst'[i].paused = NoStage
      BY <1>0, <2>1, <2>4, MovedRow
    <3> QED
      BY <1>f, <1>n, <2>1, <3>1, EarlierGated DEF Gated
  <2> QED
    BY <2>3, <2>4
<1>9. CASE ExecuteStops(f) \/ ShipPauses(f) \/ VerifyPauses(f) \/ LearnBlocked(f)
  <2>1. inst[i].state \in {"EXECUTE", "VERIFY", "LEARN"} /\ Finish(f)
    BY <1>9, StageNames DEF ExecuteStops, ShipPauses, VerifyPauses, LearnBlocked
  <2>2. PICK p : inst' = SetPause(i, p)
    BY <1>9 DEF ExecuteStops, ShipPauses, VerifyPauses, LearnBlocked
  <2>3. inst'[i].state = inst[i].state
    BY <1>0, <2>2, PausedRow DEF SetPause
  <2>4. Past
    BY <1>a, <2>1 DEF PastPlan
  <2> QED
    BY <1>f, <1>n, <1>l, <2>1, <2>3, <2>4 DEF Gated
<1>10. CASE ExecuteDone(f)
  <2>1. /\ Runs("ship") /\ runs'[f].seen = inst[i].state /\ inst' = inst
        /\ inst[i].state = "EXECUTE"
    BY <1>10, <1>w, StageNames DEF ExecuteDone
  <2>2. RunsInStage(i)'
    BY <2>1, StageNames DEF RunsInStage
  <2>3. Past
    BY <1>a, <2>1 DEF PastPlan
  <2> QED
    BY <1>l, <2>1, <2>2, <2>3 DEF Gated
<1>11. CASE ShipNoop(f)
  <2>1. /\ inst' = Moved(i, runs[f].seen, "LEARN", NoStage, w) /\ Finish(f)
        /\ inst[i].state = "EXECUTE" /\ runs[f].seen # "LEARN"
    BY <1>11, <1>a, StageNames DEF ShipNoop, RunsInStage, w
  <2>2. inst'[i].state \in {"EXECUTE", "LEARN"}
    BY <1>0, <2>1, MovedRow
  <2>3. Past
    BY <1>a, <2>1 DEF PastPlan
  <2> QED
    BY <1>f, <1>n, <1>l, <2>1, <2>2, <2>3 DEF Gated
<1>12. CASE EnterVerify(f)
  <2>1. /\ inst' = Moved(i, runs[f].seen, "VERIFY", NoStage, w)
        /\ inst[i].state = "EXECUTE" /\ runs[f].seen # "VERIFY"
    BY <1>12, <1>a, StageNames DEF EnterVerify, RunsInStage, w
  <2>2. Past
    BY <1>a, <2>1 DEF PastPlan
  <2>3. CASE Blocked(i, runs[f].seen, "VERIFY")
    <3>1. inst'[i].state = "EXECUTE" /\ Finish(f)
      BY <1>0, <1>12, <2>1, <2>3, MovedRow DEF EnterVerify
    <3> QED
      BY <1>f, <1>n, <1>l, <2>2, <3>1 DEF Gated
  <2>4. CASE ~Blocked(i, runs[f].seen, "VERIFY")
    <3>1. inst'[i].state = "VERIFY"
      BY <1>0, <2>1, <2>4, MovedRow
    <3>2. Runs("xverify")
      BY <1>12, <1>w, <2>4 DEF EnterVerify
    <3>3. RunsInStage(i)'
      BY <1>r, <3>1, <3>2, StageNames DEF Waits
    <3> QED
      BY <1>l, <2>2, <3>1, <3>3 DEF Gated
  <2> QED
    BY <2>3, <2>4
<1>13. CASE VerifyDone(f) \/ VerifyThrows(f)
  <2>1. /\ inst' = Moved(i, "VERIFY", "LEARN", NoStage, w) \/ inst' = inst
        /\ Finish(f) /\ inst[i].state = "VERIFY"
    BY <1>13, StageNames DEF VerifyDone, VerifyThrows, w
  <2>2. inst'[i].state \in {"VERIFY", "LEARN"}
    BY <1>0, <2>1, MovedRow
  <2>3. Past
    BY <1>a, <2>1 DEF PastPlan
  <2> QED
    BY <1>f, <1>n, <1>l, <2>1, <2>2, <2>3 DEF Gated
<1>14. CASE LearnDone(f)
  <2>1. /\ inst' = Moved(i, "LEARN", "SENSE", NoStage, None) \/ inst' = Ended({i})
        /\ Finish(f) /\ inst[i].state = "LEARN"
    BY <1>14, StageNames DEF LearnDone
  <2>2. Past
    BY <1>a, <2>1 DEF PastPlan
  <2>3. CASE inst' = Ended({i})
    BY <1>f, <2>1, <2>3, IdleGated DEF Ended
  <2>4. CASE inst' = Moved(i, "LEARN", "SENSE", NoStage, None)
    <3>1. \/ inst'[i].state = "LEARN"
          \/ inst'[i].state = "SENSE" /\ inst'[i].paused = NoStage
      BY <1>0, <2>1, <2>4, MovedRow
    <3>2. CASE inst'[i].state = "LEARN"
      BY <1>f, <1>n, <1>l, <2>1, <2>2, <3>2 DEF Gated
    <3>3. CASE inst'[i].state = "SENSE" /\ inst'[i].paused = NoStage
      BY <1>f, <1>n, <2>1, <3>3, EarlierGated DEF Gated
    <3> QED
      BY <3>1, <3>2, <3>3
  <2> QED
    BY <2>1, <2>3, <2>4
<1> QED
  BY <1>2, <1>3, <1>4, <1>5, <1>6, <1>7, <1>8, <1>9, <1>10, <1>11, <1>12, <1>13, <1>14 DEF Resume

\* An advance that begins writes no other row, but the watchdog may terminate
\* another instance.
LEMMA AdvanceOther ==
    ASSUME TypeInv, NEW i \in Insts, Live(i), NEW async, Advance(i, async),
           NEW j \in Insts \ {i}
    PROVE  inst'[j] = inst[j] \/ inst'[j].state = "IDLE"
<1>0. inst \in [Insts -> Rows]
  BY DEF TypeInv
<1>a. \A s, p, v : TryMove(i, s, p, v)[j] = inst[j]
  <2> TAKE s, p, v
  <2>1. CASE inst[i].state # s
    BY <1>0, <2>1, MovedRow DEF TryMove
  <2>2. CASE inst[i].state = s
    BY <1>0, <2>2, PausedRow DEF TryMove, Moved
  <2> QED
    BY <2>1, <2>2
<1>1. CASE AdvReady(i)
  BY <1>1 DEF AdvReady, Ended
<1>2. CASE AdvSense(i) \/ AdvExecute(i, async) \/ AdvVerify(i, async) \/ AdvLearn(i, async)
  BY <1>2, <1>a DEF AdvSense, AdvExecute, AdvVerify, AdvLearn, Ended
<1>3. CASE AdvPrioritizeClaim(i, async)
  BY <1>0, <1>3 DEF AdvPrioritizeClaim
<1>4. CASE AdvPrioritizeKept(i, async)
  <2>1. PICK w \in Items : inst' = Planning(i, w) /\ inst[i].state = "PRIORITIZE"
    BY <1>4 DEF AdvPrioritizeKept, SelectedAnew, Selected, TypeInv, RowsOK, Rows
  <2> QED
    BY <1>0, <2>1, PlanningRow
<1> QED
  BY <1>1, <1>2, <1>3, <1>4 DEF Advance

\* An advance that begins as the job of its instance keeps it gated.
LEMMA AdvanceGated ==
    ASSUME TypeInv, JobInv, NEW i \in Insts \ forced, Live(i), job[i] = None,
           Advance(i, TRUE), Gated(i)
    PROVE  Gated(i)'
<1> DEFINE NoRuns == \A g \in Frames : runs'[g].i # i
           Runs(at) == \A g \in Frames : runs'[g].i = i => runs'[g].at = at
           Past == PlanGate => i \in approved \cup broke
<1>0. /\ inst \in [Insts -> Rows] /\ runs \in [Frames -> RunRecs]
      /\ inst[i].state \in Stages /\ inst[i].item \in Items \cup {None} /\ logged \subseteq Items
  BY DEF TypeInv, RunsOK, RunRecs, Live, Rows, RowsOK
<1>a. /\ \A g \in Frames : runs[g].i # i
      /\ ParkedForNext(i) /\ PlanPending(i) /\ PastPlan(i)
  BY FrameTypes DEF JobInv, Gated
<1>b. RememberNothing
  BY DEF Advance, AdvReady, AdvSense, AdvPrioritizeClaim, AdvPrioritizeKept, AdvExecute,
     AdvVerify, AdvLearn
<1>t. trust' = trust
  BY DEF Advance
<1>u. runs' = runs => NoRuns
  BY <1>a
<1>s. \A at, v, c : Suspend(i, TRUE, at, v, c) => Runs(at)
  BY <1>0, <1>a DEF Suspend
<1>n. NoRuns => RunsInStage(i)'
  BY DEF RunsInStage
<1>r. \A at \in Waits : Runs(at) /\ inst'[i].state \in {StageOf[at], "IDLE"} /\ at # "ship"
         => RunsInStage(i)'
  BY DEF RunsInStage
<1>l. inst'[i].state \in {"PLAN", "EXECUTE", "VERIFY", "LEARN"} /\ Past
         => ParkedForNext(i)' /\ PlanPending(i)' /\ PastPlan(i)'
  BY <1>b, <1>t, LaterGated DEF RememberNothing
<1>p. \/ inst[i].state \in {"SENSE", "PRIORITIZE"}
      \/ inst[i].state = "PLAN" /\ (Past \/ inst[i].paused = "PLAN")
      \/ inst[i].state \in {"EXECUTE", "VERIFY", "LEARN"} /\ Past
  BY <1>0, <1>a DEF PlanPending, PastPlan, Stages
<1>1. CASE AdvReady(i)
  <2>0. NoRuns
    BY <1>1, <1>u DEF AdvReady
  <2>1. PICK s \in Stages, S \in SUBSET (LiveInsts \ {i}) :
           /\ inst[i].paused = ReadyFor[s]
           /\ LET free == inst[i].state = s \/ \A j \in Insts \ {i} : inst[j].state = s => j \in S IN
              inst' = [Ended(S) EXCEPT ![i] =
                 IF free THEN [@ EXCEPT !.state = s, !.paused = GateAt(inst[i].state, s)]
                 ELSE @]
    BY <1>1 DEF AdvReady
  <2>2. Ended(S)[i] = inst[i] /\ i \in DOMAIN Ended(S)
    BY DEF Ended
  <2>3. \/ inst'[i] = inst[i]
        \/ inst'[i].state = s /\ inst'[i].paused = GateAt(inst[i].state, s)
    BY <1>0, <2>1, <2>2 DEF Rows
  <2>4. CASE inst'[i] = inst[i]
    <3>1. CASE inst[i].state \in {"SENSE", "PRIORITIZE"}
      BY <1>a, <1>n, <2>0, <2>4, <3>1 DEF Gated, ParkedForNext, PlanPending, PastPlan
    <3>2. CASE inst[i].state \notin {"SENSE", "PRIORITIZE"}
      <4>1. Past
        BY <1>p, <2>1, <3>2, ReadyNames DEF Stages
      <4> QED
        BY <1>l, <1>n, <1>p, <2>0, <2>4, <3>2, <4>1 DEF Gated
    <3> QED
      BY <3>1, <3>2
  <2>5. CASE inst'[i].state = s /\ inst'[i].paused = GateAt(inst[i].state, s)
    <3>1. CASE s \in {"SENSE", "PRIORITIZE"}
      <4>1. inst'[i].paused \in {NoStage, "SENSE", "PRIORITIZE"}
        BY <2>5, <3>1, GateNames
      <4> QED
        BY <1>n, <2>0, <2>5, <3>1, <4>1, EarlierGated DEF Gated
    <3>2. CASE s \notin {"SENSE", "PRIORITIZE"} /\ Past
      BY <1>l, <1>n, <2>0, <2>5, <3>2 DEF Gated, Stages
    <3>3. CASE s \notin {"SENSE", "PRIORITIZE"} /\ ~Past
      <4>1. inst[i].state \in {"SENSE", "PRIORITIZE"}
        BY <1>p, <2>1, <3>3, ReadyNames DEF Stages
      <4>2. inst[i].state = "PRIORITIZE" /\ s = "PLAN"
        BY <1>a, <2>1, <3>3, <4>1, ReadyNames DEF ParkedForNext, Stages
      <4>3. inst'[i].state = "PLAN" /\ inst'[i].paused = "PLAN"
        BY <2>5, <3>3, <4>2, GateNames
      <4>4. ParkedForNext(i)' /\ PlanPending(i)' /\ PastPlan(i)'
        BY <4>3 DEF ParkedForNext, PlanPending, PastPlan
      <4> QED
        BY <1>n, <2>0, <4>4 DEF Gated
    <3> QED
      BY <3>1, <3>2, <3>3
  <2> QED
    BY <2>3, <2>4, <2>5
<1>2. CASE AdvSense(i)
  <2>1. /\ inst[i].state = "SENSE" /\ NoRuns
        /\ inst' = Moved(i, "SENSE", "PRIORITIZE", GateAt("SENSE", "PRIORITIZE"), inst[i].item)
    BY <1>2, <1>u DEF AdvSense, TryMove
  <2>2. \/ inst'[i].state = "PRIORITIZE" /\ inst'[i].paused \in {NoStage, "PRIORITIZE"}
        \/ inst'[i].state = "SENSE" /\ inst'[i].paused = "READY_FOR_PRIORITIZE"
    BY <1>0, <2>1, MovedRow, GateNames, ReadyNames
  <2> QED
    BY <1>n, <2>1, <2>2, EarlierGated DEF Gated
<1>3. CASE AdvPrioritizeClaim(i, TRUE)
  <2>1. /\ inst' = inst \/ inst' = [inst EXCEPT ![i].item = None]
        /\ inst[i].state = "PRIORITIZE"
    BY <1>3 DEF AdvPrioritizeClaim
  <2>2. inst'[i].state = "PRIORITIZE" /\ inst'[i].paused = inst[i].paused
    BY <1>0, <2>1 DEF Rows
  <2>3. \E c : Suspend(i, TRUE, "claim", None, c)
    BY <1>3 DEF AdvPrioritizeClaim, ReadCandidates
  <2>4. RunsInStage(i)'
    BY <1>r, <1>s, <2>2, <2>3, StageNames DEF Waits
  <2> QED
    BY <1>a, <2>1, <2>2, <2>4 DEF Gated, ParkedForNext, PlanPending, PastPlan
<1>4. CASE AdvPrioritizeKept(i, TRUE)
  <2>1. PICK w \in Items :
           /\ inst' = Planning(i, w) /\ inst[i].state = "PRIORITIZE"
           /\ IF Blocked(i, "PRIORITIZE", "PLAN") THEN UNCHANGED <<runs, job>>
              ELSE Suspend(i, TRUE, "plan", w, {})
    BY <1>0, <1>4 DEF AdvPrioritizeKept, SelectedAnew, Selected
  <2>2. CASE Blocked(i, "PRIORITIZE", "PLAN")
    <3>1. inst'[i].state = "PRIORITIZE" /\ inst'[i].paused = "READY_FOR_PLAN"
      BY <1>0, <2>1, <2>2, PlanningRow, ReadyNames
    <3> QED
      BY <1>n, <1>u, <2>1, <2>2, <3>1, EarlierGated DEF Gated
  <2>3. CASE ~Blocked(i, "PRIORITIZE", "PLAN")
    <3>1. inst'[i].state = "PLAN" /\ inst'[i].paused = NoStage
      BY <1>0, <2>1, <2>3, PlanningRow
    <3>2. PICK f \in Frames : runs'[f].i = i /\ runs'[f].at = "plan"
      BY <1>0, <2>1, <2>3 DEF Suspend
    <3>3. RunsInStage(i)'
      BY <1>r, <1>s, <2>1, <2>3, <3>1, StageNames DEF Waits
    <3> QED
      BY <3>1, <3>2, <3>3 DEF Gated, ParkedForNext, PlanPending, PastPlan
  <2> QED
    BY <2>2, <2>3
<1>5. CASE AdvExecute(i, TRUE) /\ inst[i].paused = NoStage
  <2>1. Past
    BY <1>5, <1>p DEF AdvExecute, NoStage
  <2>2. inst[i].state \in {"PLAN", "EXECUTE"}
    BY <1>5 DEF AdvExecute
  <2>3. \A w : inst[i].state = "EXECUTE" => TryMove(i, "EXECUTE", NoStage, w)[i].state = "EXECUTE"
    BY <1>0, PausedRow DEF TryMove, Moved
  <2>4. CASE Blocked(i, inst[i].state, "EXECUTE")
    <3>1. inst' = TryMove(i, "EXECUTE", NoStage, inst[i].item) /\ runs' = runs
      BY <1>5, <2>4 DEF AdvExecute
    <3>2. inst'[i].state = "PLAN"
      BY <1>0, <2>2, <2>4, <3>1, MovedRow DEF TryMove, Blocked
    <3> QED
      BY <1>l, <1>n, <1>u, <2>1, <3>1, <3>2 DEF Gated
  <2>5. CASE inst' = Ended({i}) /\ runs' = runs
    BY <1>u, <2>5, IdleGated DEF Ended
  <2>6. ASSUME NEW w, inst' = TryMove(i, "EXECUTE", NoStage, w), Suspend(i, TRUE, "execute", w, {}),
               ~Blocked(i, inst[i].state, "EXECUTE")
        PROVE  Gated(i)'
    <3>1. inst'[i].state = "EXECUTE"
      BY <1>0, <2>2, <2>3, <2>6, MovedRow DEF TryMove
    <3>2. RunsInStage(i)'
      BY <1>r, <1>s, <2>6, <3>1, StageNames DEF Waits
    <3> QED
      BY <1>l, <2>1, <3>1, <3>2 DEF Gated
  <2> QED
    BY <1>5, <2>4, <2>5, <2>6 DEF AdvExecute
<1>6. CASE AdvVerify(i, TRUE)
  <2>0. inst[i].state = "VERIFY" /\ Past
    BY <1>6, <1>p DEF AdvVerify
  <2>1. CASE inst' = TryMove(i, "LEARN", NoStage, inst[i].item) /\ runs' = runs
    <3>1. inst'[i].state \in {"VERIFY", "LEARN"}
      BY <1>0, <2>0, <2>1, MovedRow DEF TryMove
    <3> QED
      BY <1>l, <1>n, <1>u, <2>0, <2>1, <3>1 DEF Gated
  <2>2. CASE inst' = inst /\ Suspend(i, TRUE, "verify", inst[i].item, {})
    <3>1. RunsInStage(i)'
      BY <1>r, <1>s, <2>0, <2>2, StageNames DEF Waits
    <3> QED
      BY <1>l, <2>0, <2>2, <3>1 DEF Gated
  <2> QED
    BY <1>6, <2>1, <2>2 DEF AdvVerify
<1>7. CASE AdvLearn(i, TRUE)
  <2>0. /\ inst[i].state = "LEARN" /\ Past /\ inst' = inst
        /\ Suspend(i, TRUE, "learn", Selected(i), {})
    BY <1>7, <1>p DEF AdvLearn
  <2>1. RunsInStage(i)'
    BY <1>r, <1>s, <2>0, StageNames DEF Waits
  <2> QED
    BY <1>l, <2>0, <2>1 DEF Gated
<1> QED
  BY <1>1, <1>2, <1>3, <1>4, <1>5, <1>6, <1>7 DEF Advance

\* Approving the gate an instance waits at clears its pause; at PLAN the
\* approval is what gets it past.
LEMMA ApprovedGated ==
    ASSUME inst \in [Insts -> Rows], NEW x, NEW j \in Insts, GateApproved(x), Gated(j)
    PROVE  Gated(j)'
<1>1. CASE x = j
  <2>1. /\ inst'[j].state = inst[j].state /\ inst'[j].paused = NoStage
        /\ runs' = runs /\ trust' = trust
        /\ Remember(IF inst[j].paused = "PLAN" THEN {j} ELSE {}, {})
    BY <1>1 DEF GateApproved, Rows
  <2>2. RunsInStage(j)'
    BY <2>1 DEF Gated, RunsInStage
  <2>3. CASE inst[j].state \in {"PLAN", "EXECUTE", "VERIFY", "LEARN"} /\
             (PlanGate => j \in approved \cup broke \/ inst[j].paused = "PLAN")
    <3>1. ParkedForNext(j)' /\ PlanPending(j)' /\ PastPlan(j)'
      BY <2>1, <2>3, LaterGated
    <3> QED
      BY <2>2, <3>1 DEF Gated
  <2>4. CASE inst[j].state = "PLAN" /\ PlanGate /\ inst[j].paused = NoStage
    <3>1. \/ \E f \in Frames : runs[f].i = j /\ runs[f].at = "plan"
          \/ j \in approved \cup broke
      BY <2>4 DEF Gated, PlanPending, NoStage
    <3>2. CASE j \in approved \cup broke
      BY <2>3, <2>4, <3>2
    <3>3. CASE j \notin approved \cup broke
      BY <2>1, <2>2, <2>4, <3>1, <3>3 DEF Gated, ParkedForNext, PlanPending, PastPlan
    <3> QED
      BY <3>2, <3>3
  <2>5. CASE inst[j].state \notin {"PLAN", "EXECUTE", "VERIFY", "LEARN"}
    BY <2>1, <2>2, <2>5 DEF Gated, ParkedForNext, PlanPending, PastPlan, NoStage
  <2> QED
    BY <2>3, <2>4, <2>5 DEF Gated, PlanPending, PastPlan
<1>2. CASE x # j
  <2>1. inst'[j] = inst[j] /\ runs' = runs /\ trust' = trust
    BY <1>2 DEF GateApproved
  <2>2. \E granted, failed : Remember(granted, failed)
    BY DEF GateApproved
  <2> QED
    BY <2>1, <2>2, UntouchedGated DEF Away
<1> QED
  BY <1>1, <1>2

LEMMA OutsideGated ==
    ASSUME TypeInv, JobInv, Operator \/ Server, NEW j \in Insts \ forced', j \notin forced, Gated(j)
    PROVE  Gated(j)'
<1>0. inst \in [Insts -> Rows] /\ runs \in [Frames -> RunRecs]
  BY DEF TypeInv, RunsOK
<1>a. ASSUME Away(j), trust' = trust, inst'[j] = inst[j] \/ inst'[j].state = "IDLE",
             RememberNothing
      PROVE  Gated(j)'
  BY <1>a, UntouchedGated DEF RememberNothing
<1>b. runs' = runs => Away(j)
  BY DEF Away
<1>c. ASSUME NEW S, Terminate(S) PROVE Gated(j)'
  BY <1>a, <1>b, <1>c DEF Terminate, Ended
<1>1. ASSUME NEW i \in Insts, StartLoop(i) PROVE Gated(j)'
  <2>1. CASE i # j
    BY <1>1, <1>a, <1>b, <2>1 DEF StartLoop
  <2>2. CASE i = j
    <3>1. \A f \in Frames : runs'[f].i # j
      BY <1>1, <2>2, FrameTypes DEF StartLoop, TypeInv, Started
    <3>2. inst'[j].state \in {"SENSE", "IDLE"} /\ inst'[j].paused = inst[j].paused
      BY <1>0, <1>1, <2>2 DEF StartLoop, Rows
    <3>3. inst[j].state = "NONE"
      BY <1>1, <2>2 DEF StartLoop
    <3> QED
      BY <3>1, <3>2, <3>3 DEF Gated, RunsInStage, ParkedForNext, PlanPending, PastPlan
  <2> QED
    BY <2>1, <2>2
<1>2. ASSUME NEW i \in Insts, AdvanceAsync(i) \/ AdvanceSync(i) PROVE Gated(j)'
  <2>1. PICK async \in BOOLEAN : /\ Advance(i, async) /\ Live(i)
                                 /\ async => job[i] = None
                                 /\ ~async => i \in forced'
    BY <1>2 DEF AdvanceAsync, AdvanceSync, CanAdvanceAsync
  <2>2. CASE i = j
    <3>1. async = TRUE
      BY <2>1, <2>2
    <3> QED
      BY <2>1, <2>2, <3>1, AdvanceGated
  <2>3. CASE i # j
    <3>1. (runs' = runs /\ job' = job) \/ \E f \in Frames, r \in RunRecs : Begins(i, f, r)
      BY <1>2, <2>1, AdvanceRuns
    <3>2. Away(j)
      BY <1>0, <2>3, <3>1, FrameTypes DEF Away, Begins
    <3>3. inst'[j] = inst[j] \/ inst'[j].state = "IDLE"
      BY <2>1, <2>3, AdvanceOther
    <3>4. trust' = trust /\ RememberNothing
      BY <2>1 DEF Advance, AdvReady, AdvSense, AdvPrioritizeClaim, AdvPrioritizeKept, AdvExecute,
         AdvVerify, AdvLearn
    <3> QED
      BY <1>a, <3>2, <3>3, <3>4
  <2> QED
    BY <2>2, <2>3
<1>3. ASSUME NEW i \in Insts, CancelJob(i) PROVE Gated(j)'
  <2>1. i # j
    BY <1>3 DEF CancelJob
  <2>2. inst'[j] = inst[j]
    BY <1>0, <1>3, <2>1, PausedRow DEF CancelJob, SetPause
  <2> QED
    BY <1>3, <1>a, <1>b, <2>2 DEF CancelJob
<1>4. ASSUME NEW i \in Insts, ApproveGate(i) PROVE Gated(j)'
  BY <1>0, <1>4, ApprovedGated DEF ApproveGate
<1>5. CASE TickHealVerify
  BY <1>0, <1>5, ApprovedGated DEF TickHealVerify
<1>6. ASSUME NEW i \in Insts, RetryVerify(i) PROVE Gated(j)'
  <2>1. CASE i # j
    BY <1>6, <1>a, <1>b, <2>1 DEF RetryVerify
  <2>2. CASE i = j
    <3>1. /\ inst'[j].state = inst[j].state /\ inst'[j].paused = NoStage
          /\ runs' = runs /\ trust' = trust /\ Remember({}, {})
      BY <1>0, <1>6, <2>2 DEF RetryVerify, Rows, RememberNothing
    <3>2. RunsInStage(j)'
      BY <3>1 DEF Gated, RunsInStage
    <3>3. CASE inst[j].state \in {"PLAN", "EXECUTE", "VERIFY", "LEARN"}
      <4>1. PlanGate => j \in approved \cup broke
        BY <1>6, <2>2, <3>3 DEF RetryVerify, Gated, PlanPending, PastPlan, NoStage
      <4>2. ParkedForNext(j)' /\ PlanPending(j)' /\ PastPlan(j)'
        BY <3>1, <3>3, <4>1, LaterGated
      <4> QED
        BY <3>2, <4>2 DEF Gated
    <3>4. CASE inst[j].state \notin {"PLAN", "EXECUTE", "VERIFY", "LEARN"}
      BY <3>1, <3>2, <3>4 DEF Gated, ParkedForNext, PlanPending, PastPlan, NoStage
    <3> QED
      BY <3>3, <3>4
  <2> QED
    BY <2>1, <2>2
<1>7. ASSUME NEW i \in Insts, RejectGate(i) \/ TerminateLoop(i) \/ TickEndPausedExecute(i)
      PROVE  Gated(j)'
  BY <1>7, <1>c DEF RejectGate, TerminateLoop, TickEndPausedExecute
<1>8. CASE PauseProject
  BY <1>8, <1>c DEF PauseProject
<1>9. CASE ResumeProject
  BY <1>9, <1>a, <1>b DEF ResumeProject
<1>10. ASSUME NEW w \in Items, CoolDown(w) PROVE Gated(j)'
  BY <1>10, <1>a, <1>b DEF CoolDown
<1>11. CASE Restart
  <2>1. \A f \in Frames : runs'[f].i # j
    BY <1>11, FrameTypes DEF Restart
  <2>2. inst'[j] = inst[j] \/ inst'[j].state = "IDLE"
    BY <1>11 DEF Restart, Ended
  <2>3. trust' = trust
    BY <1>11 DEF Restart
  <2> DEFINE failed == {runs[f].i : f \in {g \in Frames : runs[g].at = "plan"}}
  <2>4. Remember({}, failed)
    BY <1>11 DEF Restart
  <2>5. CASE inst'[j].state = "IDLE"
    BY <2>1, <2>5, IdleGated
  <2>6. CASE inst'[j] = inst[j] /\ inst[j].state \in {"PLAN", "EXECUTE", "VERIFY", "LEARN"}
    <3>1. CASE PlanGate => j \in approved \cup broke \cup failed
      <4>1. ParkedForNext(j)' /\ PlanPending(j)' /\ PastPlan(j)'
        BY <2>3, <2>4, <2>6, <3>1, LaterGated
      <4> QED
        BY <2>1, <4>1 DEF Gated, RunsInStage
    <3>2. CASE ~(PlanGate => j \in approved \cup broke \cup failed)
      <4>1. inst[j].state = "PLAN" /\ inst[j].paused = "PLAN"
        BY <2>6, <3>2 DEF Gated, PlanPending, PastPlan
      <4> QED
        BY <2>1, <2>6, <4>1 DEF Gated, RunsInStage, ParkedForNext, PlanPending, PastPlan
    <3> QED
      BY <3>1, <3>2
  <2>7. CASE inst'[j] = inst[j] /\ inst[j].state \notin {"PLAN", "EXECUTE", "VERIFY", "LEARN"}
    BY <2>1, <2>7 DEF Gated, RunsInStage, ParkedForNext, PlanPending, PastPlan
  <2> QED
    BY <2>2, <2>5, <2>6, <2>7
<1> QED
  BY <1>1, <1>2, <1>3, <1>4, <1>5, <1>6, <1>7, <1>8, <1>9, <1>10, <1>11 DEF Operator, Server

LEMMA GateNext == GateInv /\ [Next]_vars => GateInv'
<1> SUFFICES ASSUME GateInv, [Next]_vars PROVE GateInv'
  OBVIOUS
<1>1. TypeInv /\ JobInv /\ RunStep
  BY NextRuns DEF GateInv
<1>2. TypeInv' /\ JobInv'
  BY <1>1, TypeNext, JobNext DEF TypeInv
<1>3. ASSUME NEW j \in Insts \ forced' PROVE Gated(j)'
  <2>1. j \notin forced /\ Gated(j)
    BY <1>1, <1>3 DEF RunStep, GateInv
  <2>2. CASE UNCHANGED vars
    BY <2>1, <2>2 DEF vars, Gated, RunsInStage, ParkedForNext, PlanPending, PastPlan, PlanGate,
       PendingGate
  <2>3. CASE Operator \/ Server
    BY <1>1, <2>1, <2>3, OutsideGated
  <2>4. ASSUME NEW f \in Frames, Resume(f) PROVE Gated(j)'
    <3>1. CASE runs[f].i = j
      BY <1>1, <2>1, <2>4, <3>1, ResumeGated
    <3>2. CASE runs[f].i # j
      <4>1. inst'[j] = inst[j] /\ trust' = trust /\ \E granted, failed : Remember(granted, failed)
        BY <1>1, <2>4, <3>2, ResumeOther, ResumeTrust
      <4>2. Finish(f) \/ \E r \in RunRecs : Continues(f, r)
        BY <1>1, <2>4, ResumeRuns
      <4>3. Away(j)
        BY <1>1, <3>2, <4>2, FrameTypes DEF Away, Finish, Continues, TypeInv, RunsOK
      <4> QED
        BY <2>1, <4>1, <4>3, UntouchedGated
    <3> QED
      BY <3>1, <3>2
  <2> QED
    BY <2>2, <2>3, <2>4 DEF Next
<1> QED
  BY <1>2, <1>3 DEF GateInv

LEMMA GateInit == Init => GateInv
<1> SUFFICES ASSUME Init PROVE GateInv
  OBVIOUS
<1>1. JobInv
  BY FrameTypes DEF Init, JobInv
<1>2. \A i \in Insts : Gated(i)
  BY FrameTypes DEF Init, Gated, RunsInStage, ParkedForNext, PlanPending, PastPlan, NoStage
<1> QED
  BY <1>1, <1>2, TypeInit DEF GateInv

\* Where PLAN is gated no instance is past it without approval, but for those
\* whose advance a blocking call or a cancelled job meddled with, and those whose
\* PLAN stage failed or was cut off.
THEOREM FactoryPlanGateHeld == Spec => []PlanGateHeld
<1>1. GateInv => PlanGateHeld
  BY DEF GateInv, Gated, PastPlan, PlanGateHeld
<1> QED
  BY <1>1, GateInit, GateNext, PTL DEF Spec

=============================================================================
