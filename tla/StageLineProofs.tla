--------------------------- MODULE StageLineProofs ---------------------------
(***************************************************************************)
(* The factory's loop controller implements StageLine, for any number of   *)
(* instances, work items and suspended advances.                           *)
(***************************************************************************)
EXTENDS FactoryProofs

\* A parked instance is in a stage and waits for one that follows it.
Routed(i) ==
    \A s \in Stages :
      inst[i].paused = ReadyFor[s] /\ inst[i].state # "IDLE"
        => inst[i].state # "NONE" /\ <<inst[i].state, s>> \in SL!Route

\* The part of the invariant that a pass through the stages needs.
RouteInv == GateInv /\ \A i \in Insts \ forced : Routed(i)

\* What a step may do to an instance that nobody meddled with.
OnRoute(i) ==
    /\ inst'[i].state \in {inst[i].state, "IDLE"} \/ <<inst[i].state, inst'[i].state>> \in SL!Route
    /\ Routed(i)'

ReadyPauses == {ReadyFor[s] : s \in Stages}

LEMMA ReadyApart ==
    /\ \A s \in GatePauses \cup {"VERIFY_FAIL", NoStage} : s \notin ReadyPauses
    /\ \A s, t \in Stages : ReadyFor[s] = ReadyFor[t] => s = t
    /\ \A s \in Stages : \A t : GateAt(t, s) \notin ReadyPauses
<1>1. ReadyPauses = {"READY_FOR_SENSE", "READY_FOR_PRIORITIZE", "READY_FOR_PLAN",
                     "READY_FOR_EXECUTE", "READY_FOR_VERIFY", "READY_FOR_LEARN"}
  BY ReadyNames DEF ReadyPauses, Stages
<1>2. \A s \in GatePauses \cup {"VERIFY_FAIL", NoStage} : s \notin ReadyPauses
  BY <1>1 DEF GatePauses, Stages, NoStage
<1>3. \A s, t \in Stages : ReadyFor[s] = ReadyFor[t] => s = t
  BY ReadyNames DEF Stages
<1>4. \A s \in Stages : \A t : GateAt(t, s) \notin ReadyPauses
  BY <1>2, GateNames DEF GatePauses
<1> QED
  BY <1>2, <1>3, <1>4

\* The rows a step may leave behind.
LEMMA EndedOnRoute ==
    ASSUME NEW i \in Insts, inst'[i].state = "IDLE"
    PROVE  OnRoute(i)
BY DEF OnRoute, Routed

LEMMA SameOnRoute ==
    ASSUME NEW i \in Insts, inst'[i].state = inst[i].state, inst'[i].paused = inst[i].paused,
           Routed(i)
    PROVE  OnRoute(i)
BY DEF OnRoute, Routed

LEMMA UnparkedOnRoute ==
    ASSUME NEW i \in Insts, inst'[i].paused \notin ReadyPauses,
           \/ inst'[i].state = inst[i].state
           \/ <<inst[i].state, inst'[i].state>> \in SL!Route
    PROVE  OnRoute(i)
BY DEF OnRoute, Routed, ReadyPauses

\* tryMoveInstanceToStage along the route, whether the stage is free or not.
LEMMA MovedOnRoute ==
    ASSUME inst \in [Insts -> Rows], NEW i \in Insts, NEW seen, NEW s \in Stages, NEW p, NEW w,
           seen # s, p \notin ReadyPauses, <<inst[i].state, s>> \in SL!Route,
           inst[i].state # "NONE", inst' = Moved(i, seen, s, p, w)
    PROVE  OnRoute(i)
<1>1. CASE inst[i].state = "IDLE"
  <2>1. inst' = inst
    BY <1>1, MovedRow
  <2> QED
    BY <1>1, <2>1, EndedOnRoute
<1>2. CASE inst[i].state # "IDLE" /\ ~Blocked(i, seen, s)
  <2>1. inst'[i].state = s /\ inst'[i].paused = p
    BY <1>2, MovedRow
  <2> QED
    BY <2>1, UnparkedOnRoute
<1>3. CASE inst[i].state # "IDLE" /\ Blocked(i, seen, s)
  <2>1. inst'[i].state = inst[i].state /\ inst'[i].paused = ReadyFor[s]
    BY <1>3, MovedRow
  <2> QED
    BY <2>1, ReadyApart DEF OnRoute, Routed
<1> QED
  BY <1>1, <1>2, <1>3

LEMMA PlanningOnRoute ==
    ASSUME inst \in [Insts -> Rows], NEW i \in Insts, NEW w \in Items,
           inst[i].state = "PRIORITIZE", inst' = Planning(i, w)
    PROVE  OnRoute(i)
<1>1. <<inst[i].state, "PLAN">> \in SL!Route
  BY DEF SL!Route
<1>2. CASE ~Blocked(i, inst[i].state, "PLAN")
  <2>1. inst'[i].state = "PLAN" /\ inst'[i].paused = NoStage
    BY <1>2, PlanningRow
  <2> QED
    BY <1>1, <2>1, ReadyApart, UnparkedOnRoute
<1>3. CASE Blocked(i, inst[i].state, "PLAN")
  <2>1. inst'[i].state = inst[i].state /\ inst'[i].paused = ReadyFor["PLAN"]
    BY <1>3, PlanningRow
  <2>2. "PLAN" \in Stages
    BY DEF Stages
  <2> QED
    BY <1>1, <2>1, <2>2, ReadyApart DEF OnRoute, Routed
<1> QED
  BY <1>2, <1>3

\* updateInstance with a pause that does not park.
LEMMA PausedOnRoute ==
    ASSUME inst \in [Insts -> Rows], NEW i \in Insts, NEW p, NEW w,
           Routed(i), p \notin ReadyPauses \/ p = inst[i].paused, inst' = Write(i, p, w)
    PROVE  OnRoute(i)
<1>1. CASE inst[i].state = "IDLE"
  BY <1>1, PausedRow, EndedOnRoute
<1>2. CASE inst[i].state # "IDLE"
  <2>1. inst'[i].state = inst[i].state /\ inst'[i].paused = p
    BY <1>2, PausedRow
  <2> QED
    BY <2>1, UnparkedOnRoute, SameOnRoute
<1> QED
  BY <1>1, <1>2

-----------------------------------------------------------------------------
(* The steps. *)

\* An advance that comes back moves its instance on from the stage in which it
\* waited: that is where the instance still is, unless it was terminated.
LEMMA ResumeOnRoute ==
    ASSUME TypeInv, NEW f \in Frames, Resume(f), NEW i \in Insts, runs[f].i = i,
           RunsInStage(i), Routed(i)
    PROVE  OnRoute(i)
<1> DEFINE w == runs[f].item
<1>0. /\ inst \in [Insts -> Rows] /\ w \in Items \cup {None}
      /\ runs[f].cands \subseteq Items
  BY DEF TypeInv, RunsOK, RunRecs
<1> HIDE DEF w
<1>1. CASE inst[i].state = "IDLE"
  <2>1. inst'[i].state = "IDLE"
    BY <1>0, <1>1, NextInst DEF InstStep, Calm, Enters, Next
  <2> QED
    BY <2>1, EndedOnRoute
<1> SUFFICES ASSUME inst[i].state = StageOf[runs[f].at]
             PROVE  OnRoute(i)
  BY <1>1 DEF RunsInStage
<1>s. /\ runs[f].at = "claim" => inst[i].state = "PRIORITIZE"
      /\ runs[f].at = "plan" => inst[i].state = "PLAN"
      /\ runs[f].at \in {"execute", "ship"} => inst[i].state = "EXECUTE"
      /\ runs[f].at \in {"verify", "xverify"} => inst[i].state = "VERIFY"
      /\ runs[f].at = "learn" => inst[i].state = "LEARN"
      /\ runs[f].at = "ship" => runs[f].seen \in {"EXECUTE", "IDLE"}
  BY StageNames DEF RunsInStage
<1>c. inst[i].state # "NONE"
  BY <1>s DEF Resume, ProbeStale, ClaimItem, ClaimClosed, ClaimNothing, PlanWritten, PlanRejected,
     PlanDrawn, PlanThrows, ExecuteIdle, ExecuteBack, ExecuteStops, ExecuteDone, ShipNoop,
     ShipPauses, EnterVerify, VerifyDone, VerifyPauses, VerifyThrows, VerifyEnds, LearnDone,
     LearnBlocked
<1>w. \A p, v : inst' = Write(i, p, v) /\ (p \notin ReadyPauses \/ p = inst[i].paused) => OnRoute(i)
  BY <1>0, PausedOnRoute
<1>p. \A p : inst' = SetPause(i, p) /\ (p \notin ReadyPauses \/ p = inst[i].paused) => OnRoute(i)
  BY <1>w DEF SetPause
<1>m. \A seen, v : \A s \in Stages :
         inst' = Moved(i, seen, s, NoStage, v) /\ seen # s /\ <<inst[i].state, s>> \in SL!Route
           => OnRoute(i)
  BY <1>0, <1>c, MovedOnRoute, ReadyApart
<1>2. CASE \/ ProbeStale(f) \/ ClaimClosed(f) \/ PlanThrows(f) \/ ExecuteDone(f)
          \/ VerifyThrows(f)
  BY <1>2, SameOnRoute DEF ProbeStale, ClaimClosed, PlanThrows, ExecuteDone, VerifyThrows
<1>3. CASE ClaimItem(f)
  <2>1. PICK v \in Items : inst' = Planning(i, v)
    BY <1>0, <1>3 DEF ClaimItem
  <2> QED
    BY <1>0, <1>3, <1>s, <2>1, PlanningOnRoute DEF ClaimItem
<1>4. CASE ClaimNothing(f) \/ ExecuteIdle(f) \/ VerifyEnds(f)
  BY <1>4, EndedOnRoute DEF ClaimNothing, ExecuteIdle, VerifyEnds, Ended
<1>5. CASE PlanWritten(f)
  <2>1. inst' = Moved(i, "PLAN", "EXECUTE", NoStage, w) /\ inst[i].state = "PLAN"
    BY <1>5, <1>s DEF PlanWritten, TryMove, w
  <2> QED
    BY <1>m, <2>1 DEF Stages, SL!Route
<1>6. CASE PlanRejected(f) \/ PlanDrawn(f)
  <2>1. \E v : inst' = Write(i, IF PlanGate THEN "PLAN" ELSE inst[i].paused, v)
    BY <1>6 DEF PlanRejected, PlanDrawn, GatedPlan
  <2>2. "PLAN" \notin ReadyPauses
    BY ReadyApart DEF GatePauses, Stages
  <2> QED
    BY <1>w, <2>1, <2>2
<1>7. CASE ExecuteBack(f)
  <2>1. inst' = Moved(i, "EXECUTE", "PRIORITIZE", NoStage, w) /\ inst[i].state = "EXECUTE"
    BY <1>7, <1>s DEF ExecuteBack, TryMove, w
  <2> QED
    BY <1>m, <2>1 DEF Stages, SL!Route
<1>8. CASE ExecuteStops(f) \/ ShipPauses(f) \/ VerifyPauses(f) \/ LearnBlocked(f)
  <2>1. \E p \in {NoStage, "EXECUTE", "PLAN_REVIEW", "VERIFY", "VERIFY_FAIL", "LEARN",
                  inst[i].paused} : inst' = SetPause(i, p)
    BY <1>8 DEF ExecuteStops, ShipPauses, VerifyPauses, LearnBlocked
  <2>2. \A p \in {NoStage, "EXECUTE", "PLAN_REVIEW", "VERIFY", "VERIFY_FAIL", "LEARN"} :
           p \notin ReadyPauses
    BY ReadyApart DEF GatePauses, Stages
  <2> QED
    BY <1>p, <2>1, <2>2
<1>9. CASE ShipNoop(f)
  <2>1. inst' = Moved(i, runs[f].seen, "LEARN", NoStage, w) /\ inst[i].state = "EXECUTE"
    BY <1>9, <1>s DEF ShipNoop, w
  <2> QED
    BY <1>9, <1>m, <1>s, <2>1 DEF ShipNoop, Stages, SL!Route
<1>10. CASE EnterVerify(f)
  <2>1. inst' = Moved(i, runs[f].seen, "VERIFY", NoStage, w) /\ inst[i].state = "EXECUTE"
    BY <1>10, <1>s DEF EnterVerify, w
  <2> QED
    BY <1>10, <1>m, <1>s, <2>1 DEF EnterVerify, Stages, SL!Route
<1>11. CASE VerifyDone(f)
  <2>1. /\ inst' = inst \/ inst' = Moved(i, "VERIFY", "LEARN", NoStage, w)
        /\ inst[i].state = "VERIFY"
    BY <1>11, <1>s DEF VerifyDone, w
  <2> QED
    BY <1>m, <2>1, SameOnRoute DEF Stages, SL!Route
<1>12. CASE LearnDone(f)
  <2>1. /\ inst' = Moved(i, "LEARN", "SENSE", NoStage, None) \/ inst' = Ended({i})
        /\ inst[i].state = "LEARN"
    BY <1>12, <1>s DEF LearnDone
  <2>2. CASE inst' = Ended({i})
    BY <2>2, EndedOnRoute DEF Ended
  <2> QED
    BY <1>m, <2>1, <2>2 DEF Stages, SL!Route
<1> QED
  BY <1>2, <1>3, <1>4, <1>5, <1>6, <1>7, <1>8, <1>9, <1>10, <1>11, <1>12 DEF Resume

\* An advance that begins moves its instance to the stage after the one it is
\* in, or to the one for which it was parked.
LEMMA AdvanceOnRoute ==
    ASSUME TypeInv, NEW i \in Insts, Live(i), NEW async, Advance(i, async), Routed(i)
    PROVE  OnRoute(i)
<1>0. /\ inst \in [Insts -> Rows] /\ inst[i].state \in Stages
      /\ inst[i].item \in Items \cup {None} /\ logged \subseteq Items
  BY DEF TypeInv, RowsOK, Rows, Live
<1>m. ASSUME NEW seen, NEW s \in Stages, NEW p, NEW v, seen # s, p \notin ReadyPauses,
             <<inst[i].state, s>> \in SL!Route, inst' = Moved(i, seen, s, p, v)
      PROVE  OnRoute(i)
  <2>1. inst[i].state # "NONE"
    BY <1>0 DEF Stages
  <2> QED
    BY <1>0, <1>m, <2>1, MovedOnRoute
<1>1. CASE AdvReady(i)
  <2>1. PICK s \in Stages, S \in SUBSET (LiveInsts \ {i}) :
           /\ inst[i].paused = ReadyFor[s]
           /\ LET free == inst[i].state = s \/ \A j \in Insts \ {i} : inst[j].state = s => j \in S IN
              inst' = [Ended(S) EXCEPT ![i] =
                 IF free THEN [@ EXCEPT !.state = s, !.paused = GateAt(inst[i].state, s)]
                 ELSE @]
    BY <1>1 DEF AdvReady
  <2>2. Ended(S)[i] = inst[i] /\ i \in DOMAIN Ended(S)
    BY DEF Ended
  <2>3. \/ inst'[i] = inst[i]
        \/ inst'[i].state = s /\ inst'[i].paused = GateAt(inst[i].state, s)
    BY <1>0, <2>1, <2>2 DEF Rows
  <2>4. <<inst[i].state, s>> \in SL!Route
    BY <1>0, <2>1 DEF Routed, Stages
  <2> QED
    BY <2>3, <2>4, ReadyApart, UnparkedOnRoute, SameOnRoute
<1>2. CASE AdvSense(i)
  <2>1. /\ inst' = Moved(i, "SENSE", "PRIORITIZE", GateAt("SENSE", "PRIORITIZE"), inst[i].item)
        /\ inst[i].state = "SENSE"
    BY <1>2 DEF AdvSense, TryMove
  <2>2. "PRIORITIZE" \in Stages /\ <<"SENSE", "PRIORITIZE">> \in SL!Route
    BY DEF Stages, SL!Route
  <2>3. GateAt("SENSE", "PRIORITIZE") \notin ReadyPauses
    BY <2>2, ReadyApart
  <2> QED
    BY <1>m, <2>1, <2>2, <2>3
<1>3. CASE AdvPrioritizeClaim(i, async)
  <2>1. inst' = inst \/ inst' = [inst EXCEPT ![i].item = None]
    BY <1>3 DEF AdvPrioritizeClaim
  <2>2. inst'[i].state = inst[i].state /\ inst'[i].paused = inst[i].paused
    BY <1>0, <2>1 DEF Rows
  <2> QED
    BY <2>2, SameOnRoute
<1>4. CASE AdvPrioritizeKept(i, async)
  <2>1. PICK v \in Items : inst' = Planning(i, v) /\ inst[i].state = "PRIORITIZE"
    BY <1>0, <1>4 DEF AdvPrioritizeKept, SelectedAnew, Selected
  <2> QED
    BY <1>0, <2>1, PlanningOnRoute
<1>5. CASE AdvExecute(i, async)
  <2>1. \/ inst' = Ended({i})
        \/ \E v : inst' = Moved(i, inst[i].state, "EXECUTE", NoStage, v)
    BY <1>5 DEF AdvExecute, TryMove
  <2>2. CASE inst' = Ended({i})
    BY <2>2, EndedOnRoute DEF Ended
  <2>3. ASSUME NEW v, inst' = Moved(i, "PLAN", "EXECUTE", NoStage, v), inst[i].state = "PLAN"
        PROVE  OnRoute(i)
    BY <1>m, <2>3, ReadyApart DEF Stages, SL!Route
  <2>4. ASSUME NEW v, inst' = Moved(i, "EXECUTE", "EXECUTE", NoStage, v)
        PROVE  OnRoute(i)
    BY <1>0, <2>4, PausedOnRoute, ReadyApart DEF Moved
  <2> QED
    BY <1>5, <2>1, <2>2, <2>3, <2>4 DEF AdvExecute
<1>6. CASE AdvVerify(i, async)
  <2>1. /\ inst' = inst \/ inst' = Moved(i, "VERIFY", "LEARN", NoStage, inst[i].item)
        /\ inst[i].state = "VERIFY"
    BY <1>6 DEF AdvVerify, TryMove
  <2> QED
    BY <1>m, <2>1, SameOnRoute, ReadyApart DEF Stages, SL!Route
<1>7. CASE AdvLearn(i, async)
  BY <1>7, SameOnRoute DEF AdvLearn
<1> QED
  BY <1>1, <1>2, <1>3, <1>4, <1>5, <1>6, <1>7 DEF Advance

LEMMA OutsideOnRoute ==
    ASSUME TypeInv, Operator \/ Server, NEW j \in Insts \ forced', Routed(j)
    PROVE  OnRoute(j)
<1>0. inst \in [Insts -> Rows]
  BY DEF TypeInv
<1>a. inst'[j] = inst[j] \/ inst'[j].state = "IDLE" => OnRoute(j)
  BY EndedOnRoute, SameOnRoute
<1>b. ASSUME NEW i, inst' = [inst EXCEPT ![i].paused = NoStage] PROVE OnRoute(j)
  <2>1. inst'[j].state = inst[j].state /\ inst'[j].paused \in {inst[j].paused, NoStage}
    BY <1>0, <1>b DEF Rows
  <2> QED
    BY <2>1, ReadyApart, SameOnRoute, UnparkedOnRoute
<1>1. ASSUME NEW i \in Insts, StartLoop(i) PROVE OnRoute(j)
  <2>1. CASE i # j
    BY <1>1, <1>a, <2>1 DEF StartLoop
  <2>2. CASE i = j
    <3>1. inst[j].state = "NONE" /\ inst'[j].state \in {"SENSE", "IDLE"}
      BY <1>0, <1>1, <2>2 DEF StartLoop, Rows
    <3>2. inst'[j].paused = inst[j].paused
      BY <1>0, <1>1, <2>2 DEF StartLoop, Rows
    <3>3. CASE inst'[j].state = "IDLE"
      BY <3>3, EndedOnRoute
    <3>4. CASE inst'[j].state = "SENSE"
      <4>1. <<inst[j].state, inst'[j].state>> \in SL!Route
        BY <3>1, <3>4 DEF SL!Route
      <4>2. inst[j].paused \notin ReadyPauses
        BY <3>1 DEF Routed, ReadyPauses
      <4> QED
        BY <3>2, <4>1, <4>2, UnparkedOnRoute
    <3> QED
      BY <3>1, <3>3, <3>4
  <2> QED
    BY <2>1, <2>2
<1>2. ASSUME NEW i \in Insts, AdvanceAsync(i) \/ AdvanceSync(i) PROVE OnRoute(j)
  <2>1. PICK async \in BOOLEAN : Advance(i, async) /\ Live(i)
    BY <1>2 DEF AdvanceAsync, AdvanceSync, CanAdvanceAsync
  <2>2. CASE i = j
    BY <2>1, <2>2, AdvanceOnRoute
  <2>3. CASE i # j
    BY <1>a, <2>1, <2>3, AdvanceOther
  <2> QED
    BY <2>2, <2>3
<1>3. ASSUME NEW i \in Insts, CancelJob(i) PROVE OnRoute(j)
  <2>1. i # j
    BY <1>3 DEF CancelJob
  <2> QED
    BY <1>0, <1>3, <1>a, <2>1, PausedRow DEF CancelJob, SetPause
<1>4. ASSUME NEW i \in Insts, ApproveGate(i) \/ RetryVerify(i) PROVE OnRoute(j)
  BY <1>4, <1>b DEF ApproveGate, GateApproved, RetryVerify
<1>5. CASE TickHealVerify
  BY <1>5, <1>b DEF TickHealVerify, GateApproved
<1>6. ASSUME NEW i \in Insts, RejectGate(i) \/ TerminateLoop(i) \/ TickEndPausedExecute(i)
      PROVE  OnRoute(j)
  BY <1>6, <1>a DEF RejectGate, TerminateLoop, TickEndPausedExecute, Terminate, Ended
<1>7. CASE PauseProject \/ Restart
  BY <1>7, <1>a DEF PauseProject, Terminate, Restart, Ended
<1>8. CASE ResumeProject \/ \E w \in Items : CoolDown(w)
  BY <1>8, <1>a DEF ResumeProject, CoolDown
<1> QED
  BY <1>1, <1>2, <1>3, <1>4, <1>5, <1>6, <1>7, <1>8 DEF Operator, Server

\* Whatever step is taken, an instance that nobody meddled with stays on its
\* route.
LEMMA NextOnRoute ==
    ASSUME RouteInv, [Next]_vars, NEW j \in Insts \ forced'
    PROVE  OnRoute(j)
<1>1. TypeInv /\ JobInv /\ RunStep
  BY NextRuns DEF RouteInv, GateInv
<1>2. j \notin forced /\ Routed(j) /\ RunsInStage(j)
  BY <1>1 DEF RunStep, RouteInv, GateInv, Gated
<1>3. CASE UNCHANGED vars
  BY <1>2, <1>3, SameOnRoute DEF vars
<1>4. CASE Operator \/ Server
  BY <1>1, <1>2, <1>4, OutsideOnRoute
<1>5. ASSUME NEW f \in Frames, Resume(f) PROVE OnRoute(j)
  <2>1. CASE runs[f].i = j
    BY <1>1, <1>2, <1>5, <2>1, ResumeOnRoute
  <2>2. CASE runs[f].i # j
    BY <1>1, <1>2, <1>5, <2>2, ResumeOther, SameOnRoute
  <2> QED
    BY <2>1, <2>2
<1> QED
  BY <1>3, <1>4, <1>5 DEF Next

LEMMA RouteNext == RouteInv /\ [Next]_vars => RouteInv'
<1> SUFFICES ASSUME RouteInv, [Next]_vars PROVE RouteInv'
  OBVIOUS
<1>1. GateInv'
  BY GateNext DEF RouteInv
<1>2. \A i \in Insts \ forced' : Routed(i)'
  BY NextOnRoute DEF OnRoute
<1> QED
  BY <1>1, <1>2 DEF RouteInv

\* Every step is one of the abstract line: at most one instance enters a
\* stage, one that nobody else is in, and it goes there along the route or
\* a blocking call or a cancelled job took it off.
LEMMA LineStep == RouteInv /\ [Next]_vars => [SL!LineNext]_(SL!lineVars)
<1> SUFFICES ASSUME RouteInv, [Next]_vars PROVE SL!LineNext
  BY DEF SL!LineNext
<1>1. TypeInv /\ InstStep(inst') /\ forced \subseteq forced' /\ TypeInv'
  BY NextInst, NextRuns, TypeNext DEF RouteInv, GateInv, RunStep
<1>2. [i \in Insts |-> inst[i].state]' \in [Insts -> SL!StageNames \cup {"NONE", "IDLE"}]
  BY <1>1 DEF InstStep, Rows, SL!StageNames, Stages
<1>3. forced' \in SUBSET Insts
  BY <1>1 DEF TypeInv, RowsOK
<1>4. CASE Calm(inst')
  <2>1. \A i \in Insts : SL!Stays(i)
    BY <1>4 DEF Calm, SL!Stays
  <2> QED
    BY <1>1, <1>2, <1>3, <2>1 DEF SL!LineNext
<1>5. ASSUME NEW i \in Insts, NEW s \in Stages, Enters(inst', i, s) PROVE SL!LineNext
  <2>1. CASE inst'[i].state = inst[i].state
    <3>1. Calm(inst')
      BY <1>5, <2>1 DEF Enters, Calm
    <3> QED
      BY <1>4, <3>1
  <2>2. CASE inst'[i].state # inst[i].state
    <3>1. <<inst[i].state, inst'[i].state>> \in SL!Route \/ i \in forced'
      BY <1>5, <2>2, NextOnRoute DEF OnRoute, Enters, Stages
    <3>2. inst[i].state # "IDLE" /\ inst'[i].state \in SL!StageNames
      BY <1>5 DEF Enters, Stages, SL!StageNames
    <3>3. \A j \in Insts \ {i} :
             inst'[j].state \in {inst[j].state, "IDLE"} /\ inst'[j].state # inst'[i].state
      BY <1>5 DEF Enters
    <3>4. SL!Enters(i)
      BY <3>1, <3>2, <3>3 DEF SL!Enters, SL!Stays
    <3> QED
      BY <1>1, <1>2, <1>3, <3>4 DEF SL!LineNext
  <2> QED
    BY <2>1, <2>2
<1> QED
  BY <1>1, <1>4, <1>5 DEF InstStep

\* The loop controller implements the stage line: whatever ticks, timers,
\* operators, restarts and late answers do, stages are passed in order, one
\* instance each, and nobody comes back.
THEOREM FactoryImplementsStageLine == Spec => ImplementsStageLine
<1>1. Init => RouteInv
  <2> SUFFICES ASSUME Init PROVE RouteInv
    OBVIOUS
  <2>1. GateInv
    BY GateInit
  <2>2. \A i \in Insts : Routed(i)
    BY ReadyApart DEF Init, Routed, ReadyPauses
  <2> QED
    BY <2>1, <2>2 DEF RouteInv
<1>2. Init => SL!LineInit
  BY DEF Init, SL!LineInit
<1> QED
  BY <1>1, <1>2, RouteNext, LineStep, PTL DEF Spec, ImplementsStageLine, SL!LineSpec

=============================================================================
