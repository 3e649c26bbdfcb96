---------------------------- MODULE CodexBreaker -----------------------------
(***************************************************************************)
(* The circuit breaker of the provider 'codex' and what observes it:       *)
(* execution/circuit-breaker.js with its row in provider_circuit_breaker,  *)
(* the routing template swap (routing/failover-activator.js), the canary   *)
(* probe (factory/canary-scheduler.js), and the factory's parked work      *)
(* items (factory/stages/prioritize.js, factory/park-resume-handler.js).   *)
(*                                                                         *)
(* The event bus calls its listeners synchronously, so one breaker call    *)
(* with everything its events trigger is one action.  The operators in     *)
(* lower case take the state as a record w and return the state after the  *)
(* call; an action moves the variables there with Goto.                    *)
(***************************************************************************)
EXTENDS Naturals

CONSTANTS
    Items,        \* factory work items
    Templates,    \* routing templates an operator may activate by hand
    NoTemplate,   \* no active_routing_template row: System Default applies
    Failover,     \* preset-codex-down-failover
    Categories,   \* failure categories that recordFailureByCode reports
    Threshold,    \* consecutive failures that trip the breaker
    MaxCanaries   \* bound: canary submissions, and canary tasks, at a time

ASSUME BreakerAssumption ==
    /\ Failover \notin Templates \cup {NoTemplate}
    /\ NoTemplate \notin Templates
    /\ Categories \subseteq {"rate_limit", "auth", "resource", "unknown"}
    /\ Threshold \in Nat \ {0}
    /\ MaxCanaries \in Nat

VARIABLES
    entry,       \* the provider's entry in CircuitBreaker._providers
    dbState,     \* provider_circuit_breaker.state of its row
    work,        \* status of each work item
    active,      \* config.active_routing_template
    prior,       \* failover-activator: priorTemplate
    canary,      \* canary-scheduler: active, pendingTimer, the setImmediate
    submitting,  \* submitTask calls of canaries not settled yet
    inFlight,    \* canary tasks not finished yet
    override,    \* history: an operator set a template since the last trip
    noWayBack    \* history: the failover template went up with no explicit one
                 \* under it, or was found up by a restart; no operator since

watched == <<entry, dbState, work, active, prior, canary>>
canaryTasks == <<submitting, inFlight>>
history == <<override, noWayBack>>
vars == <<entry, dbState, work, active, prior, canary, submitting, inFlight,
          override, noWayBack>>

(***************************************************************************)
(* trippedAt and recoveryTimeoutMs are abstracted to whether the timeout   *)
(* has elapsed; consecutiveFailures is followed up to the threshold, which *)
(* is all that recordFailure compares it with.                             *)
(***************************************************************************)
Entry == [state   : {"CLOSED", "OPEN", "HALF_OPEN"},
          fails   : 0..Threshold,
          cat     : Categories \cup {"none", "manual"},
          elapsed : BOOLEAN,
          probe   : BOOLEAN]

Template == Templates \cup {NoTemplate, Failover}
Canary == [active : BOOLEAN, timer : BOOLEAN, arming : BOOLEAN]
Disarmed == [active |-> FALSE, timer |-> FALSE, arming |-> FALSE]

\* createProviderState
NewEntry == [state |-> "CLOSED", fails |-> 0, cat |-> "none",
             elapsed |-> FALSE, probe |-> FALSE]

World == [entry : Entry, dbState : {"OPEN", "CLOSED"}, active : Template,
          work : [Items -> {"pending", "parked", "planned"}],
          prior : Template, canary : Canary]

TypeOK ==
    /\ entry \in Entry
    /\ dbState \in {"OPEN", "CLOSED"}
    /\ work \in [Items -> {"pending", "parked", "planned"}]
    /\ active \in Template
    /\ prior \in Template
    /\ canary \in Canary
    /\ submitting \in 0..MaxCanaries
    /\ inFlight \in 0..MaxCanaries
    /\ override \in BOOLEAN
    /\ noWayBack \in BOOLEAN

Init ==
    /\ entry = NewEntry
    /\ dbState = "CLOSED"
    /\ work = [i \in Items |-> "pending"]
    /\ active \in Templates \cup {NoTemplate}
    /\ prior = NoTemplate
    /\ canary = Disarmed
    /\ submitting = 0
    /\ inFlight = 0
    /\ override = FALSE
    /\ noWayBack = FALSE

Here == [entry |-> entry, dbState |-> dbState, work |-> work,
         active |-> active, prior |-> prior, canary |-> canary]

Goto(w) ==
    /\ entry' = w.entry
    /\ dbState' = w.dbState
    /\ work' = w.work
    /\ active' = w.active
    /\ prior' = w.prior
    /\ canary' = w.canary

-----------------------------------------------------------------------------
(* The listeners, in the order they subscribe. *)

resumeAllCodexParked(w) ==
    [w EXCEPT !.work = [i \in Items |-> IF w.work[i] = "parked" THEN "pending"
                                                                ELSE w.work[i]]]

\* failover-activator, circuit:recovered
restoreTemplate(w) ==
    IF w.prior = NoTemplate THEN w
    ELSE [w EXCEPT !.active = w.prior, !.prior = NoTemplate]

\* Mutant: a trip in the middle of an outage remembers the failover template
\* itself as the one to go back to.
activateFailoverAgain(w) == [w EXCEPT !.prior = w.active, !.active = Failover]

\* failover-activator, circuit:tripped and the startup reconcile
activateFailover(w) ==
    IF w.active = Failover THEN w
    ELSE [w EXCEPT !.prior = w.active, !.active = Failover]

\* canary-scheduler, circuit:recovered; a setImmediate is not cancelled
cancelCanary(w) ==
    [w EXCEPT !.canary = [@ EXCEPT !.active = FALSE, !.timer = FALSE]]

\* canary-scheduler, circuit:tripped
armCanary(w) ==
    IF w.canary.active THEN w
    ELSE [w EXCEPT !.canary = [@ EXCEPT !.active = TRUE, !.timer = TRUE]]

recovered(w) == cancelCanary(restoreTemplate(resumeAllCodexParked(w)))
tripped(w) == armCanary(activateFailover(w))

-----------------------------------------------------------------------------
(* The breaker. *)

halfOpen(w) == [w EXCEPT !.entry = [@ EXCEPT !.state = "HALF_OPEN", !.probe = FALSE]]

\* Mutant: only a breaker that counted enough failures becomes due.
DueAfterFailures(w) ==
    w.entry.state = "OPEN" /\ w.entry.elapsed /\ w.entry.fails >= Threshold

Due(w) == w.entry.state = "OPEN" /\ w.entry.elapsed

\* Mutant: the lazy transition is not announced.
halfOpenSilently(w) == IF Due(w) THEN halfOpen(w) ELSE w

maybeTransitionToHalfOpen(w) == IF Due(w) THEN recovered(halfOpen(w)) ELSE w

openNow(w) == [w EXCEPT !.entry = [@ EXCEPT !.state = "OPEN", !.elapsed = FALSE]]
persist(w, s) == [w EXCEPT !.dbState = s]

tripCircuit(w) ==
    persist(tripped([openNow(w) EXCEPT !.entry.probe = FALSE]), "OPEN")

\* Mutant: the close is not written to the store.
recordSuccessUnsaved(w) ==
    IF w.entry.state = "CLOSED" THEN [w EXCEPT !.entry = NewEntry]
    ELSE recovered([w EXCEPT !.entry = NewEntry])

\* Mutant: only a success that finds the breaker HALF_OPEN is announced.
recordSuccessIfProbing(w) ==
    LET closed == persist([w EXCEPT !.entry = NewEntry], "CLOSED")
    IN  IF w.entry.state = "HALF_OPEN" THEN recovered(closed) ELSE closed

recordSuccess(w) ==
    LET closed == [w EXCEPT !.entry = NewEntry]
    IN  IF w.entry.state = "CLOSED" THEN closed
        ELSE recovered(persist(closed, "CLOSED"))

\* Mutant: the error code is stored without its mapping to a category.
countFailureRawCode(w, c) ==
    [w EXCEPT !.entry = [@ EXCEPT !.fails = 1, !.cat = "quota_exceeded"]]

countFailure(w, c) ==
    LET n == IF w.entry.cat # c THEN 1
             ELSE IF w.entry.fails < Threshold THEN w.entry.fails + 1
             ELSE Threshold
    IN  [w EXCEPT !.entry = [@ EXCEPT !.fails = n, !.cat = c]]

shouldTrip(w) == w.entry.state = "HALF_OPEN" \/ w.entry.fails >= Threshold

recordFailure(w, c) ==
    LET counted == countFailure(maybeTransitionToHalfOpen(w), c)
    IN  IF shouldTrip(counted) THEN tripCircuit(counted) ELSE counted

allowRequest(w) ==
    LET x == maybeTransitionToHalfOpen(w)
    IN  IF x.entry.state = "HALF_OPEN" THEN [x EXCEPT !.entry.probe = TRUE] ELSE x

\* trip() with a manual reason: it has no category of its own
trip(w) ==
    LET c == IF w.entry.cat = "none" THEN "manual" ELSE w.entry.cat
    IN  persist(tripped([openNow(w) EXCEPT !.entry.cat = c]), "OPEN")

untrip(w) == persist(recovered([w EXCEPT !.entry = NewEntry]), "CLOSED")

-----------------------------------------------------------------------------
(***************************************************************************)
(* A restart.  The breaker loads its row; e says whether the base timeout  *)
(* has passed since tripped_at.  The park-resume handler subscribes first; *)
(* the activator and then the canary scheduler call allowRequest before    *)
(* they subscribe, so the first call may move the breaker to HALF_OPEN     *)
(* with only the park-resume handler listening, and uses up the probe that *)
(* the second call is then refused.                                        *)
(***************************************************************************)
loadEntry(w, e) ==
    [w EXCEPT !.entry = [NewEntry EXCEPT !.state = w.dbState,
                                         !.elapsed = w.dbState = "OPEN" /\ e],
              !.prior = NoTemplate,
              !.canary = Disarmed]

\* Mutant: no startup reconcile of the template.
reconcileNothing(w) ==
    IF Due(w) THEN [resumeAllCodexParked(halfOpen(w)) EXCEPT !.entry.probe = TRUE] ELSE w

reconcileTemplate(w) ==
    IF Due(w)
    THEN [resumeAllCodexParked(halfOpen(w)) EXCEPT !.entry.probe = TRUE]
    ELSE IF w.entry.state = "OPEN" THEN activateFailover(w) ELSE w

reconcileCanary(w) ==
    IF w.entry.state = "CLOSED" THEN w
    ELSE [w EXCEPT !.canary = [@ EXCEPT !.active = TRUE, !.arming = TRUE]]

boot(w, e) == reconcileCanary(reconcileTemplate(loadEntry(w, e)))

\* The base timeout is the shortest, so what had elapsed has elapsed again.
\* Canary tasks may survive a restart or be cancelled by it.
Restart ==
    /\ \E e \in BOOLEAN :
          /\ entry.elapsed => e
          /\ Goto(boot(Here, e))
    /\ submitting' = 0
    /\ inFlight' \in 0..inFlight
    /\ override' = FALSE
    /\ noWayBack' = (active' = Failover /\ active \notin Templates)

-----------------------------------------------------------------------------
(* Calls of the breaker. *)

\* A codex task completes with exit code 0 (completion-pipeline).
TaskSucceeds ==
    /\ Goto(recordSuccess(Here))
    /\ UNCHANGED <<canaryTasks, history>>

\* A codex task fails; a re-trip puts the failover template back.
ReportFailure(c) ==
    LET w     == maybeTransitionToHalfOpen(Here)
        trips == shouldTrip(countFailure(w, c))
    IN  /\ Goto(recordFailure(Here, c))
        /\ override' = (override /\ ~trips)
        /\ noWayBack' = (noWayBack \/ (trips /\ w.active = NoTemplate))

TaskFails(c) == ReportFailure(c) /\ UNCHANGED canaryTasks

\* isOpen, isHalfOpen, getState and getAllStates, from any caller.
Query ==
    /\ Due(Here)
    /\ Goto(maybeTransitionToHalfOpen(Here))
    /\ UNCHANGED <<canaryTasks, history>>

\* Routing asks allowRequest, whether or not it then sends the request.
Route ==
    /\ entry.state # "CLOSED"
    /\ Goto(allowRequest(Here))
    /\ UNCHANGED <<canaryTasks, history>>

\* trip_codex_breaker
Trip ==
    /\ Goto(trip(Here))
    /\ override' = FALSE
    /\ noWayBack' = (noWayBack \/ active = NoTemplate)
    /\ UNCHANGED canaryTasks

\* untrip_codex_breaker
Untrip ==
    /\ Goto(untrip(Here))
    /\ UNCHANGED <<canaryTasks, history>>

\* activate_routing_template
ActivateTemplate(t) ==
    /\ active' = t
    /\ override' = TRUE
    /\ noWayBack' = FALSE
    /\ UNCHANGED <<entry, dbState, work, prior, canary, canaryTasks>>

\* Date.now() - trippedAt reaches recoveryTimeoutMs.
Elapse ==
    /\ entry.state = "OPEN"
    /\ ~entry.elapsed
    /\ entry' = [entry EXCEPT !.elapsed = TRUE]
    /\ UNCHANGED <<dbState, work, active, prior, canary, canaryTasks, history>>

\* What becomes of the picked item; only the policy wait_for_codex parks.
decideCodexFallbackAction(w, policy) ==
    IF w.entry.state = "OPEN" /\ policy = "wait_for_codex" THEN "parked" ELSE "planned"

\* PRIORITIZE picks the item, which is then parked or goes on to PLAN.
Prioritize(i, policy) ==
    LET w == maybeTransitionToHalfOpen(Here)
    IN  /\ work[i] = "pending"
        /\ Goto([w EXCEPT !.work[i] = decideCodexFallbackAction(w, policy)])
        /\ UNCHANGED <<canaryTasks, history>>

-----------------------------------------------------------------------------
(* The canary scheduler. *)

\* setImmediate of the startup reconcile
CanaryArms ==
    /\ canary.arming
    /\ canary' = [canary EXCEPT !.arming = FALSE, !.timer = canary.timer \/ canary.active]
    /\ UNCHANGED <<entry, dbState, work, active, prior, canaryTasks, history>>

\* The timer fires and runCanary calls submitTask.
CanaryTimer ==
    /\ canary.timer
    /\ submitting < MaxCanaries
    /\ canary' = [canary EXCEPT !.timer = FALSE]
    /\ submitting' = IF canary.active THEN submitting + 1 ELSE submitting
    /\ UNCHANGED <<entry, dbState, work, active, prior, inFlight, history>>

\* submitTask resolves and the task exists.
CanarySubmitted ==
    /\ submitting > 0
    /\ inFlight < MaxCanaries
    /\ submitting' = submitting - 1
    /\ inFlight' = inFlight + 1
    /\ UNCHANGED <<watched, history>>

\* handleSmartSubmitTask turns what it catches into an error result, so
\* submitTask resolves and there is no task.
CanaryRefused ==
    /\ submitting > 0
    /\ submitting' = submitting - 1
    /\ UNCHANGED <<watched, inFlight, history>>

\* submitTask rejects: schedule() again.
CanaryRejected ==
    /\ submitting > 0
    /\ submitting' = submitting - 1
    /\ canary' = [canary EXCEPT !.timer = canary.timer \/ canary.active]
    /\ UNCHANGED <<entry, dbState, work, active, prior, inFlight, history>>

CanarySucceeds ==
    /\ inFlight > 0
    /\ inFlight' = inFlight - 1
    /\ Goto(recordSuccess(Here))
    /\ UNCHANGED <<submitting, history>>

CanaryFails(c) ==
    /\ inFlight > 0
    /\ inFlight' = inFlight - 1
    /\ ReportFailure(c)
    /\ UNCHANGED submitting

\* Cancelled, or finished on another provider: the breaker hears nothing.
CanaryLost ==
    /\ inFlight > 0
    /\ inFlight' = inFlight - 1
    /\ UNCHANGED <<watched, submitting, history>>

-----------------------------------------------------------------------------
Next ==
    \/ TaskSucceeds
    \/ \E c \in Categories : TaskFails(c)
    \/ Query
    \/ Route
    \/ Trip
    \/ Untrip
    \/ \E t \in Templates \cup {NoTemplate} : ActivateTemplate(t)
    \/ Elapse
    \/ \E i \in Items, policy \in {"wait_for_codex", "manual", "auto"} :
          Prioritize(i, policy)
    \/ CanaryArms
    \/ CanaryTimer
    \/ CanarySubmitted
    \/ CanaryRefused
    \/ CanaryRejected
    \/ CanarySucceeds
    \/ \E c \in Categories : CanaryFails(c)
    \/ CanaryLost
    \/ Restart

Spec == Init /\ [][Next]_vars

\* A pause of recoveryTimeoutMs without a new failure comes (the work that was
\* on codex when it tripped runs out), and somebody keeps asking for the state.
FairSpec == Spec /\ WF_vars(Elapse) /\ WF_vars(Query)

-----------------------------------------------------------------------------
(* Properties. *)

(***************************************************************************)
(* No work item is parked behind a breaker that is not OPEN.  parkWork-    *)
(* ItemForCodex writes the status that only resumeAllCodexParked clears,   *)
(* and that runs only on circuit:recovered, so an exit from OPEN that does *)
(* not announce itself, or a restart that forgets the trip, strands items. *)
(***************************************************************************)
ParkedMeansOpen ==
    \A i \in Items : work[i] = "parked" => entry.state = "OPEN"

(***************************************************************************)
(* The row records a trip exactly while the breaker is tripped: a restart  *)
(* neither forgets an outage nor brings back one that was announced over.  *)
(* HALF_OPEN is never written; its row still says OPEN.                    *)
(***************************************************************************)
RowRemembersTrip == dbState = "OPEN" <=> entry.state # "CLOSED"

(***************************************************************************)
(* While the breaker is OPEN the failover template is active, unless an    *)
(* operator chose another one since the last trip or restart.  The startup *)
(* reconcile of failover-activator.js is there for the restart case.       *)
(***************************************************************************)
FailoverWhileOpen == entry.state = "OPEN" => active = Failover \/ override

(***************************************************************************)
(* Out of an outage the failover template is not left active: what a trip  *)
(* replaced comes back, however many trips, probes and restarts the outage *)
(* had.  noWayBack names where failover-activator.js has nothing to go     *)
(* back to: priorTemplate is null when no template was set explicitly, and *)
(* after a restart that finds the failover template already in place.      *)
(***************************************************************************)
FailoverTakenBack == entry.state # "OPEN" /\ active = Failover => noWayBack

(***************************************************************************)
(* A closed breaker leaves no canary armed: every way to CLOSED reaches    *)
(* cancel(), also after a restart in the middle of an outage.              *)
(***************************************************************************)
ClosedDisarmsCanary ==
    entry.state = "CLOSED" => ~canary.active /\ ~canary.timer

(***************************************************************************)
(* A parked item is resumed, whatever trips, restarts and failures happen  *)
(* on the way, unless an operator trips the breaker again and again.       *)
(***************************************************************************)
ParkedResumes ==
    (<>[][~Trip]_vars) =>
        \A i \in Items : (work[i] = "parked") ~> (work[i] # "parked")
=============================================================================
