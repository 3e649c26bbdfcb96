--------------------------- MODULE BreakerProofs -----------------------------
(***************************************************************************)
(* Proofs about CodexBreaker.  Good is the inductive invariant, stated of  *)
(* a state record w so that it can be carried through the calls an action  *)
(* is composed of; each lemma says what one call or event does to it.      *)
(* Homeward, further down, is what takes the failover template back.       *)
(***************************************************************************)
EXTENDS CodexBreaker, TLAPS

NoneParked(w) == \A i \in Items : w.work[i] # "parked"
CanaryOff(w) == ~w.canary.active /\ ~w.canary.timer

Good(w, o) ==
    /\ w \in World
    /\ w.entry.state # "OPEN" => NoneParked(w)
    /\ w.dbState = "OPEN" <=> w.entry.state # "CLOSED"
    /\ w.entry.state = "CLOSED" => CanaryOff(w)
    /\ w.entry.state = "OPEN" => w.active = Failover \/ o

\* circuit:recovered leaves no item parked and no canary armed.
LEMMA RecoveredFacts ==
    ASSUME NEW w \in World
    PROVE  /\ recovered(w) \in World
           /\ recovered(w).entry = w.entry
           /\ recovered(w).dbState = w.dbState
           /\ NoneParked(recovered(w))
           /\ CanaryOff(recovered(w))
<1> DEFINE r1 == resumeAllCodexParked(w)
           r2 == restoreTemplate(r1)
<1>1. /\ r1 \in World
      /\ r1.entry = w.entry /\ r1.dbState = w.dbState
      /\ NoneParked(r1)
  BY DEF resumeAllCodexParked, World, NoneParked
<1>2. /\ r2 \in World
      /\ r2.entry = r1.entry /\ r2.dbState = r1.dbState /\ r2.work = r1.work
  BY <1>1 DEF restoreTemplate, World, Template
<1>3. /\ cancelCanary(r2) \in World
      /\ cancelCanary(r2).entry = r2.entry
      /\ cancelCanary(r2).dbState = r2.dbState
      /\ cancelCanary(r2).work = r2.work
      /\ CanaryOff(cancelCanary(r2))
  BY <1>2 DEF cancelCanary, World, Canary, CanaryOff
<1> QED BY <1>1, <1>2, <1>3 DEF recovered, NoneParked

\* circuit:tripped puts the failover template in place.
LEMMA TrippedFacts ==
    ASSUME NEW w \in World
    PROVE  /\ tripped(w) \in World
           /\ tripped(w).entry = w.entry
           /\ tripped(w).dbState = w.dbState
           /\ tripped(w).work = w.work
           /\ tripped(w).active = Failover
<1> DEFINE r == activateFailover(w)
<1>1. /\ r \in World
      /\ r.entry = w.entry /\ r.dbState = w.dbState /\ r.work = w.work
      /\ r.active = Failover
  BY DEF activateFailover, World, Template
<1>2. /\ armCanary(r) \in World
      /\ armCanary(r).entry = r.entry /\ armCanary(r).dbState = r.dbState
      /\ armCanary(r).work = r.work /\ armCanary(r).active = r.active
  BY <1>1 DEF armCanary, World, Canary
<1> QED BY <1>1, <1>2 DEF tripped

LEMMA HalfOpenFacts ==
    ASSUME NEW w \in World
    PROVE  /\ halfOpen(w) \in World
           /\ halfOpen(w).entry.state = "HALF_OPEN"
           /\ halfOpen(w).dbState = w.dbState
           /\ halfOpen(w).work = w.work
           /\ halfOpen(w).active = w.active
           /\ halfOpen(w).canary = w.canary
BY DEF halfOpen, World, Entry

LEMMA MaybeGood ==
    ASSUME NEW w, NEW o \in BOOLEAN, Good(w, o)
    PROVE  /\ Good(maybeTransitionToHalfOpen(w), o)
           /\ ~Due(maybeTransitionToHalfOpen(w))
<1>0. w \in World BY DEF Good
<1>1. CASE Due(w)
  BY <1>0, <1>1, HalfOpenFacts, RecoveredFacts DEF Good, maybeTransitionToHalfOpen, Due
<1>2. CASE ~Due(w)
  BY <1>2 DEF maybeTransitionToHalfOpen
<1> QED BY <1>1, <1>2

LEMMA NewEntryType == NewEntry \in Entry
BY BreakerAssumption DEF NewEntry, Entry

LEMMA PersistFacts ==
    ASSUME NEW w \in World, NEW s \in {"OPEN", "CLOSED"}
    PROVE  /\ persist(w, s) \in World
           /\ persist(w, s).dbState = s
           /\ persist(w, s).entry = w.entry
           /\ persist(w, s).work = w.work
           /\ persist(w, s).active = w.active
           /\ persist(w, s).canary = w.canary
BY DEF persist, World

LEMMA CloseFacts ==
    ASSUME NEW w \in World
    PROVE  LET x == [w EXCEPT !.entry = NewEntry]
           IN  /\ x \in World
               /\ x.entry.state = "CLOSED"
               /\ x.dbState = w.dbState
               /\ x.work = w.work
               /\ x.active = w.active
               /\ x.canary = w.canary
BY NewEntryType DEF World, NewEntry

LEMMA SuccessGood ==
    ASSUME NEW w, NEW o \in BOOLEAN, Good(w, o)
    PROVE  Good(recordSuccess(w), o)
<1>0. w \in World BY DEF Good
<1> DEFINE closed == [w EXCEPT !.entry = NewEntry]
<1>1. /\ closed \in World
      /\ closed.entry.state = "CLOSED"
      /\ closed.dbState = w.dbState
      /\ closed.work = w.work
      /\ closed.canary = w.canary
  BY <1>0, CloseFacts
<1> HIDE DEF closed
<1>2. CASE w.entry.state = "CLOSED"
  <2>1. recordSuccess(w) = closed BY <1>2 DEF recordSuccess, closed
  <2> QED BY <1>1, <1>2, <2>1 DEF Good, NoneParked, CanaryOff
<1>3. CASE w.entry.state # "CLOSED"
  <2>1. recordSuccess(w) = recovered(persist(closed, "CLOSED"))
    BY <1>3 DEF recordSuccess, closed
  <2>2. /\ persist(closed, "CLOSED") \in World
        /\ persist(closed, "CLOSED").dbState = "CLOSED"
        /\ persist(closed, "CLOSED").entry = closed.entry
    BY <1>1, PersistFacts
  <2> QED BY <1>1, <2>1, <2>2, RecoveredFacts DEF Good
<1> QED BY <1>2, <1>3

LEMMA UntripGood ==
    ASSUME NEW w, NEW o \in BOOLEAN, Good(w, o)
    PROVE  Good(untrip(w), o)
<1>0. w \in World BY DEF Good
<1> DEFINE closed == [w EXCEPT !.entry = NewEntry]
<1>1. closed \in World /\ closed.entry.state = "CLOSED" BY <1>0, CloseFacts
<1>2. untrip(w) = persist(recovered(closed), "CLOSED") BY DEF untrip
<1> HIDE DEF closed
<1>3. /\ recovered(closed) \in World
      /\ recovered(closed).entry = closed.entry
      /\ NoneParked(recovered(closed)) /\ CanaryOff(recovered(closed))
  BY <1>1, RecoveredFacts
<1> QED BY <1>1, <1>2, <1>3, PersistFacts DEF Good, NoneParked, CanaryOff

\* Opening, announcing and storing: what tripCircuit and trip() share.
LEMMA OpenedGood ==
    ASSUME NEW w \in World, NEW o \in BOOLEAN, w.entry.state = "OPEN"
    PROVE  Good(persist(tripped(w), "OPEN"), o)
<1>1. /\ tripped(w) \in World /\ tripped(w).entry = w.entry
      /\ tripped(w).active = Failover
  BY TrippedFacts
<1> QED BY <1>1, PersistFacts DEF Good

LEMMA TripGood ==
    ASSUME NEW w, NEW o \in BOOLEAN, NEW q \in BOOLEAN, Good(w, q)
    PROVE  Good(trip(w), o) /\ Good(tripCircuit(w), o)
<1>0. w \in World BY DEF Good
<1> DEFINE c == IF w.entry.cat = "none" THEN "manual" ELSE w.entry.cat
           x == [openNow(w) EXCEPT !.entry.cat = c]
           y == [openNow(w) EXCEPT !.entry.probe = FALSE]
<1>1. x \in World /\ x.entry.state = "OPEN"
  BY <1>0 DEF openNow, World, Entry
<1>2. y \in World /\ y.entry.state = "OPEN"
  BY <1>0 DEF openNow, World, Entry
<1>3. trip(w) = persist(tripped(x), "OPEN") BY DEF trip
<1>4. tripCircuit(w) = persist(tripped(y), "OPEN") BY DEF tripCircuit
<1> HIDE DEF x, y
<1> QED BY <1>1, <1>2, <1>3, <1>4, OpenedGood

LEMMA CountGood ==
    ASSUME NEW w, NEW o \in BOOLEAN, NEW c \in Categories, Good(w, o)
    PROVE  /\ Good(countFailure(w, c), o)
           /\ countFailure(w, c).entry.state = w.entry.state
<1> DEFINE n == IF w.entry.cat # c THEN 1
                ELSE IF w.entry.fails < Threshold THEN w.entry.fails + 1
                ELSE Threshold
           x == [w EXCEPT !.entry = [@ EXCEPT !.fails = n, !.cat = c]]
<1>0. w \in World BY DEF Good
<1>1. w.entry \in Entry BY <1>0 DEF World
<1>2. n \in 0..Threshold BY <1>1, BreakerAssumption DEF Entry
<1>3. countFailure(w, c) = x BY DEF countFailure
<1> HIDE DEF n
<1>4. /\ x \in World
      /\ x.entry.state = w.entry.state
      /\ x.dbState = w.dbState /\ x.work = w.work
      /\ x.active = w.active /\ x.canary = w.canary
  BY <1>0, <1>1, <1>2 DEF World, Entry
<1> HIDE DEF x
<1> QED BY <1>3, <1>4 DEF Good, NoneParked, CanaryOff

LEMMA FailureGood ==
    ASSUME NEW w, NEW o \in BOOLEAN, NEW c \in Categories, Good(w, o)
    PROVE  Good(recordFailure(w, c),
                o /\ ~shouldTrip(countFailure(maybeTransitionToHalfOpen(w), c)))
<1> DEFINE k == countFailure(maybeTransitionToHalfOpen(w), c)
<1>1. Good(k, o) BY MaybeGood, CountGood
<1>2. recordFailure(w, c) = IF shouldTrip(k) THEN tripCircuit(k) ELSE k
  BY DEF recordFailure
<1> HIDE DEF k
<1>3. CASE shouldTrip(k)
  <2>1. Good(tripCircuit(k), FALSE) BY <1>1, TripGood
  <2> QED BY <1>2, <1>3, <2>1 DEF k
<1>4. CASE ~shouldTrip(k)
  BY <1>1, <1>2, <1>4 DEF k
<1> QED BY <1>3, <1>4

LEMMA AllowGood ==
    ASSUME NEW w, NEW o \in BOOLEAN, Good(w, o)
    PROVE  Good(allowRequest(w), o)
<1> DEFINE x == maybeTransitionToHalfOpen(w)
           y == [x EXCEPT !.entry.probe = TRUE]
<1>1. Good(x, o) BY MaybeGood
<1>2. allowRequest(w) = IF x.entry.state = "HALF_OPEN" THEN y ELSE x
  BY DEF allowRequest
<1> HIDE DEF x
<1>3. /\ y \in World /\ y.entry.state = x.entry.state
      /\ y.dbState = x.dbState /\ y.work = x.work
      /\ y.active = x.active /\ y.canary = x.canary
  BY <1>1 DEF Good, World, Entry
<1> HIDE DEF y
<1>4. Good(y, o) BY <1>1, <1>3 DEF Good, NoneParked, CanaryOff
<1> QED BY <1>1, <1>2, <1>4

-----------------------------------------------------------------------------
(* The restart. *)

\* The loaded entry agrees with the row; items stay parked only behind OPEN.
LEMMA LoadFacts ==
    ASSUME NEW w, NEW o \in BOOLEAN, NEW e \in BOOLEAN, Good(w, o)
    PROVE  LET x == loadEntry(w, e)
           IN  /\ x \in World
               /\ x.entry.state = w.dbState
               /\ x.dbState = w.dbState
               /\ x.entry.state # "OPEN" => NoneParked(x)
               /\ x.canary = Disarmed
<1> DEFINE n == [NewEntry EXCEPT !.state = w.dbState,
                                 !.elapsed = w.dbState = "OPEN" /\ e]
<1>0. w \in World BY DEF Good
<1>1. n \in Entry /\ n.state = w.dbState
  BY <1>0, NewEntryType DEF World, Entry, NewEntry
<1>2. loadEntry(w, e) = [w EXCEPT !.entry = n, !.prior = NoTemplate, !.canary = Disarmed]
  BY DEF loadEntry
<1> HIDE DEF n
<1>3. /\ loadEntry(w, e) \in World
      /\ loadEntry(w, e).entry = n
      /\ loadEntry(w, e).dbState = w.dbState
      /\ loadEntry(w, e).work = w.work
      /\ loadEntry(w, e).canary = Disarmed
  <2>1. Disarmed \in Canary /\ NoTemplate \in Template
    BY DEF Disarmed, Canary, Template
  <2> QED BY <1>0, <1>1, <1>2, <2>1 DEF World
<1>4. w.dbState # "OPEN" => NoneParked(w)
  BY <1>0 DEF Good, World
<1> QED BY <1>1, <1>3, <1>4 DEF NoneParked

LEMMA BootGood ==
    ASSUME NEW w, NEW o \in BOOLEAN, NEW e \in BOOLEAN, Good(w, o)
    PROVE  Good(boot(w, e), FALSE)
<1> DEFINE x == loadEntry(w, e)
           y == reconcileTemplate(x)
<1>1. /\ x \in World /\ x.entry.state = x.dbState
      /\ x.entry.state # "OPEN" => NoneParked(x)
      /\ x.canary = Disarmed
  BY LoadFacts
<1>2. boot(w, e) = reconcileCanary(y) BY DEF boot
<1> HIDE DEF x
<1>3. Good(y, FALSE)
  <2>1. CASE Due(x)
    <3> DEFINE h == halfOpen(x)
               r == resumeAllCodexParked(h)
    <3>1. h \in World /\ h.entry.state = "HALF_OPEN" /\ h.dbState = "OPEN"
      BY <1>1, <2>1, HalfOpenFacts DEF Due
    <3>2. y = [r EXCEPT !.entry.probe = TRUE] BY <2>1 DEF reconcileTemplate
    <3> HIDE DEF h
    <3>3. /\ r \in World /\ r.entry = h.entry /\ r.dbState = h.dbState
          /\ NoneParked(r)
      BY <3>1 DEF resumeAllCodexParked, World, NoneParked
    <3> HIDE DEF r
    <3>4. /\ y \in World /\ y.entry.state = r.entry.state
          /\ y.dbState = r.dbState /\ y.work = r.work
      BY <3>2, <3>3 DEF World, Entry
    <3> HIDE DEF y
    <3> QED BY <3>1, <3>3, <3>4 DEF Good, NoneParked
  <2>2. CASE ~Due(x) /\ x.entry.state = "OPEN"
    <3>1. y = activateFailover(x) BY <2>2 DEF reconcileTemplate
    <3>2. /\ activateFailover(x) \in World
          /\ activateFailover(x).entry = x.entry
          /\ activateFailover(x).dbState = x.dbState
          /\ activateFailover(x).active = Failover
      BY <1>1 DEF activateFailover, World, Template
    <3> HIDE DEF y
    <3> QED BY <1>1, <2>2, <3>1, <3>2 DEF Good
  <2>3. CASE ~Due(x) /\ x.entry.state # "OPEN"
    <3>1. y = x BY <2>3 DEF reconcileTemplate
    <3>2. x.entry.state = "CLOSED" BY <1>1, <2>3 DEF World
    <3> HIDE DEF y
    <3> QED BY <1>1, <3>1, <3>2 DEF Good, CanaryOff, Disarmed
  <2> QED BY <2>1, <2>2, <2>3
<1> HIDE DEF y
<1> DEFINE z == [y EXCEPT !.canary = [@ EXCEPT !.active = TRUE, !.arming = TRUE]]
<1>4. CASE y.entry.state = "CLOSED"
  BY <1>2, <1>3, <1>4 DEF reconcileCanary
<1>5. CASE y.entry.state # "CLOSED"
  <2>1. boot(w, e) = z BY <1>2, <1>5 DEF reconcileCanary
  <2>2. /\ z \in World /\ z.entry = y.entry /\ z.dbState = y.dbState
        /\ z.work = y.work /\ z.active = y.active
    BY <1>3 DEF Good, World, Canary
  <2> HIDE DEF z
  <2> QED BY <1>3, <1>5, <2>1, <2>2 DEF Good, NoneParked
<1> QED BY <1>4, <1>5

-----------------------------------------------------------------------------
(* The inductive invariant. *)

CountsOK == submitting \in 0..MaxCanaries /\ inFlight \in 0..MaxCanaries
HistoryOK == override \in BOOLEAN /\ noWayBack \in BOOLEAN
Inv == Good(Here, override) /\ CountsOK /\ HistoryOK

LEMMA InvImplies ==
    Inv => /\ TypeOK
           /\ ParkedMeansOpen
           /\ RowRemembersTrip
           /\ FailoverWhileOpen
           /\ ClosedDisarmsCanary
<1> SUFFICES ASSUME Inv
             PROVE  TypeOK /\ ParkedMeansOpen /\ RowRemembersTrip
                    /\ FailoverWhileOpen /\ ClosedDisarmsCanary
  OBVIOUS
<1>1. Here \in World BY DEF Inv, Good
<1>2. TypeOK BY <1>1 DEF Inv, CountsOK, HistoryOK, Here, World, TypeOK
<1>3. ParkedMeansOpen BY DEF Inv, Good, Here, NoneParked, ParkedMeansOpen
<1>4. RowRemembersTrip BY DEF Inv, Good, Here, RowRemembersTrip
<1>5. FailoverWhileOpen BY DEF Inv, Good, Here, FailoverWhileOpen
<1>6. ClosedDisarmsCanary BY DEF Inv, Good, Here, CanaryOff, ClosedDisarmsCanary
<1> QED BY <1>2, <1>3, <1>4, <1>5, <1>6

\* An action that moves to a good state ends in a good state.
LEMMA GotoGood ==
    ASSUME NEW w, Good(w, override'), Goto(w)
    PROVE  Good(Here, override)'
<1>1. w = [entry |-> w.entry, dbState |-> w.dbState, work |-> w.work,
           active |-> w.active, prior |-> w.prior, canary |-> w.canary]
  BY DEF Good, World
<1>2. Here' = w BY <1>1 DEF Goto, Here
<1>3. Good(Here, override)' <=> Good(Here', override')
  BY DEF Good, NoneParked, CanaryOff
<1> QED BY <1>2, <1>3

LEMMA InitInv == Init => Inv
<1> SUFFICES ASSUME Init PROVE Inv OBVIOUS
<1>1. Here \in World
  BY NewEntryType DEF Init, Here, World, Template, Canary, Disarmed
<1>2. Good(Here, override)
  BY <1>1 DEF Init, Good, Here, NoneParked, CanaryOff, NewEntry, Disarmed
<1>3. CountsOK BY BreakerAssumption DEF Init, CountsOK
<1>4. HistoryOK BY Zenon DEF Init, HistoryOK
<1> QED BY <1>2, <1>3, <1>4 DEF Inv

\* An action that changes only the canary scheduler's flags.
LEMMA CanaryOnly ==
    ASSUME Inv, UNCHANGED <<entry, dbState, work, active, prior, override>>,
           canary' \in Canary,
           (~canary.active /\ ~canary.timer) => (~canary'.active /\ ~canary'.timer)
    PROVE  Good(Here, override)'
<1>1. Here' \in World BY DEF Inv, Good, Here, World
<1> QED BY <1>1 DEF Inv, Good, Here, NoneParked, CanaryOff

\* An action that leaves everything alone that the breaker's events touch.
LEMMA WatchedSame ==
    ASSUME Inv, UNCHANGED <<watched, override>>
    PROVE  Good(Here, override)'
<1>1. Here' = Here BY DEF watched, Here
<1>2. Good(Here, override)' <=> Good(Here', override')
  BY DEF Good, NoneParked, CanaryOff
<1> QED BY <1>1, <1>2 DEF Inv

LEMMA NextGood ==
    ASSUME Inv, Next
    PROVE  Good(Here, override)' /\ override' \in BOOLEAN
<1>0. Good(Here, override) /\ override \in BOOLEAN BY DEF Inv, HistoryOK
<1>1. CASE TaskSucceeds \/ CanarySucceeds
  <2>1. Goto(recordSuccess(Here)) /\ override' = override
    BY <1>1 DEF TaskSucceeds, CanarySucceeds, history
  <2> QED BY <1>0, <2>1, SuccessGood, GotoGood
<1>2. ASSUME NEW c \in Categories, TaskFails(c) \/ CanaryFails(c)
      PROVE  Good(Here, override)' /\ override' \in BOOLEAN
  <2>1. ReportFailure(c) BY <1>2 DEF TaskFails, CanaryFails
  <2>2. Good(recordFailure(Here, c), override')
    BY <1>0, <2>1, FailureGood DEF ReportFailure
  <2>3. Goto(recordFailure(Here, c)) /\ override' \in BOOLEAN
    BY <2>1 DEF ReportFailure
  <2> QED BY <2>2, <2>3, GotoGood
<1>3. CASE Query
  <2>1. Goto(maybeTransitionToHalfOpen(Here)) /\ override' = override
    BY <1>3 DEF Query, history
  <2> QED BY <1>0, <2>1, MaybeGood, GotoGood
<1>4. CASE Route
  <2>1. Goto(allowRequest(Here)) /\ override' = override
    BY <1>4 DEF Route, history
  <2> QED BY <1>0, <2>1, AllowGood, GotoGood
<1>5. CASE Trip
  <2>1. Goto(trip(Here)) /\ override' = FALSE BY <1>5 DEF Trip
  <2>2. Good(trip(Here), FALSE) BY <1>0, TripGood
  <2> QED BY <2>1, <2>2, GotoGood
<1>6. CASE Untrip
  <2>1. Goto(untrip(Here)) /\ override' = override BY <1>6 DEF Untrip, history
  <2> QED BY <1>0, <2>1, UntripGood, GotoGood
<1>7. ASSUME NEW t \in Templates \cup {NoTemplate}, ActivateTemplate(t)
      PROVE  Good(Here, override)' /\ override' \in BOOLEAN
  <2>1. /\ active' = t /\ override' = TRUE
        /\ UNCHANGED <<entry, dbState, work, prior, canary>>
    BY <1>7 DEF ActivateTemplate
  <2>2. Here' \in World BY <1>0, <2>1 DEF Good, Here, World, Template
  <2> QED BY <1>0, <2>1, <2>2 DEF Good, Here, NoneParked, CanaryOff
<1>8. CASE Elapse
  <2>1. /\ entry.state = "OPEN"
        /\ entry' = [entry EXCEPT !.elapsed = TRUE]
        /\ UNCHANGED <<dbState, work, active, prior, canary, override>>
    BY <1>8 DEF Elapse, history
  <2>2. entry \in Entry BY <1>0 DEF Good, Here, World
  <2>3. entry' \in Entry /\ entry'.state = entry.state BY <2>1, <2>2 DEF Entry
  <2>4. Here' \in World BY <1>0, <2>1, <2>3 DEF Good, Here, World
  <2> QED BY <1>0, <2>1, <2>3, <2>4 DEF Good, Here, NoneParked, CanaryOff
<1>9. ASSUME NEW i \in Items, NEW policy \in {"wait_for_codex", "manual", "auto"},
             Prioritize(i, policy)
      PROVE  Good(Here, override)' /\ override' \in BOOLEAN
  <2> DEFINE w == maybeTransitionToHalfOpen(Here)
             next == decideCodexFallbackAction(w, policy)
             x == [w EXCEPT !.work[i] = next]
  <2>1. Goto(x) /\ override' = override BY <1>9 DEF Prioritize, history
  <2>2. Good(w, override) BY <1>0, MaybeGood
  <2> HIDE DEF w
  <2>3. w \in World BY <2>2 DEF Good
  <2>4. /\ next \in {"parked", "planned"}
        /\ next = "parked" => w.entry.state = "OPEN"
    BY DEF decideCodexFallbackAction
  <2> HIDE DEF next
  <2>5. /\ x \in World /\ x.entry = w.entry /\ x.dbState = w.dbState
        /\ x.active = w.active /\ x.canary = w.canary
        /\ x.work = [w.work EXCEPT ![i] = next]
    BY <2>3, <2>4 DEF World
  <2> HIDE DEF x
  <2>6. x.entry.state # "OPEN" => NoneParked(x)
    BY <2>2, <2>3, <2>4, <2>5 DEF Good, NoneParked, World
  <2>7. Good(x, override) BY <2>2, <2>5, <2>6 DEF Good, CanaryOff
  <2> QED BY <1>0, <2>1, <2>7, GotoGood
<1>10. CASE CanaryArms \/ CanaryTimer \/ CanaryRejected
  <2>1. canary \in Canary BY <1>0 DEF Good, Here, World
  <2>2. /\ canary' \in Canary
        /\ (~canary.active /\ ~canary.timer) => (~canary'.active /\ ~canary'.timer)
    BY <1>10, <2>1 DEF CanaryArms, CanaryTimer, CanaryRejected, Canary
  <2>3. UNCHANGED <<entry, dbState, work, active, prior, override>>
    BY <1>10 DEF CanaryArms, CanaryTimer, CanaryRejected, history
  <2> QED BY <1>0, <2>2, <2>3, CanaryOnly
<1>11. CASE CanarySubmitted \/ CanaryRefused \/ CanaryLost
  <2>1. UNCHANGED <<watched, override>>
    BY <1>11 DEF CanarySubmitted, CanaryRefused, CanaryLost, history
  <2> QED BY <1>0, <2>1, WatchedSame
<1>12. CASE Restart
  <2>1. override' = FALSE BY <1>12 DEF Restart
  <2>2. PICK e \in BOOLEAN : Goto(boot(Here, e)) BY <1>12 DEF Restart
  <2>3. Good(boot(Here, e), FALSE) BY <1>0, BootGood
  <2> QED BY <2>1, <2>2, <2>3, GotoGood
<1> QED BY <1>1, <1>2, <1>3, <1>4, <1>5, <1>6, <1>7, <1>8, <1>9, <1>10, <1>11, <1>12
        DEF Next

LEMMA NextCounts ==
    ASSUME CountsOK, Next
    PROVE  CountsOK'
<1>1. CASE Restart
  <2>1. submitting' = 0 /\ inFlight' \in 0..inFlight BY <1>1 DEF Restart
  <2> QED BY <2>1, BreakerAssumption DEF CountsOK
<1>2. CASE \/ CanaryTimer \/ CanarySubmitted \/ CanaryRefused \/ CanaryRejected
           \/ CanarySucceeds \/ CanaryLost \/ \E c \in Categories : CanaryFails(c)
  <2>1. /\ submitting' \in {submitting, submitting + 1, submitting - 1}
        /\ inFlight' \in {inFlight, inFlight + 1, inFlight - 1}
        /\ submitting' = submitting + 1 => submitting < MaxCanaries
        /\ submitting' = submitting - 1 => submitting > 0
        /\ inFlight' = inFlight + 1 => inFlight < MaxCanaries
        /\ inFlight' = inFlight - 1 => inFlight > 0
    BY <1>2 DEF CountsOK, CanaryTimer, CanarySubmitted, CanaryRefused,
                CanaryRejected, CanarySucceeds, CanaryLost, CanaryFails
  <2> QED BY <2>1, BreakerAssumption DEF CountsOK
<1>3. CASE UNCHANGED canaryTasks
  BY <1>3 DEF canaryTasks, CountsOK
<1> QED BY <1>1, <1>2, <1>3
        DEF Next, TaskSucceeds, TaskFails, Query, Route, Trip, Untrip,
            ActivateTemplate, Elapse, Prioritize, CanaryArms

LEMMA NextNoWayBack ==
    ASSUME noWayBack \in BOOLEAN, Next
    PROVE  noWayBack' \in BOOLEAN
<1>1. CASE UNCHANGED history BY <1>1 DEF history
<1>2. CASE Trip \/ Restart BY <1>2 DEF Trip, Restart
<1>3. ASSUME NEW t \in Templates \cup {NoTemplate}, ActivateTemplate(t)
      PROVE  noWayBack' \in BOOLEAN
  BY <1>3 DEF ActivateTemplate
<1>4. ASSUME NEW c \in Categories, TaskFails(c) \/ CanaryFails(c)
      PROVE  noWayBack' \in BOOLEAN
  BY <1>4 DEF TaskFails, CanaryFails, ReportFailure
<1> QED BY <1>1, <1>2, <1>3, <1>4
        DEF Next, TaskSucceeds, Query, Route, Untrip, Elapse, Prioritize, CanaryArms,
            CanaryTimer, CanarySubmitted, CanaryRefused, CanaryRejected,
            CanarySucceeds, CanaryLost

LEMMA StepInv == Inv /\ [Next]_vars => Inv'
<1> SUFFICES ASSUME Inv, [Next]_vars PROVE Inv' OBVIOUS
<1>1. CASE Next
  BY <1>1, NextGood, NextCounts, NextNoWayBack DEF Inv, HistoryOK
<1>2. CASE UNCHANGED vars
  <2>1. UNCHANGED <<watched, override>> /\ UNCHANGED canaryTasks
    BY <1>2 DEF vars, watched, canaryTasks
  <2>2. Good(Here, override)' BY <2>1, WatchedSame
  <2>3. CountsOK' BY <2>1 DEF Inv, CountsOK, canaryTasks
  <2>4. HistoryOK' BY <1>2 DEF vars, Inv, HistoryOK
  <2> QED BY <2>2, <2>3, <2>4 DEF Inv
<1> QED BY <1>1, <1>2

LEMMA SpecInv == Spec => []Inv
BY InitInv, StepInv, PTL DEF Spec

-----------------------------------------------------------------------------
(***************************************************************************)
(* The way back from the failover template.  Backed says that the template *)
(* to go back to is at hand, or known to be lost (l); Homeward adds that   *)
(* outside an outage nothing is left to go back to.                        *)
(***************************************************************************)
Backed(w, l) ==
    /\ w.prior # Failover
    /\ w.active = Failover /\ ~l => w.prior # NoTemplate

Homeward(w, l) ==
    /\ Backed(w, l)
    /\ w.active = Failover /\ ~l => w.entry.state = "OPEN"

\* Both look at the templates and the breaker's state alone.
LEMMA SameTemplates ==
    ASSUME NEW w, NEW v, NEW l \in BOOLEAN, v.active = w.active, v.prior = w.prior
    PROVE  /\ Backed(w, l) => Backed(v, l)
           /\ Homeward(w, l) /\ v.entry.state = w.entry.state => Homeward(v, l)
BY DEF Backed, Homeward

\* circuit:recovered takes the failover template back.
LEMMA RecoveredHome ==
    ASSUME NEW w \in World, NEW l \in BOOLEAN, Backed(w, l)
    PROVE  Homeward(recovered(w), l)
<1> DEFINE r1 == resumeAllCodexParked(w)
           r2 == restoreTemplate(r1)
<1>1. r1 \in World /\ r1.active = w.active /\ r1.prior = w.prior
  BY DEF resumeAllCodexParked, World
<1>2. Backed(r1, l) BY <1>1, SameTemplates
<1> HIDE DEF r1
<1>3. /\ r2 \in World
      /\ r2.prior # Failover
      /\ r2.active = Failover => l
  <2>1. CASE r1.prior = NoTemplate
    BY <1>1, <1>2, <2>1 DEF restoreTemplate, Backed
  <2>2. CASE r1.prior # NoTemplate
    BY <1>1, <1>2, <2>2, BreakerAssumption DEF restoreTemplate, Backed, World, Template
  <2> QED BY <2>1, <2>2
<1> HIDE DEF r2
<1>4. cancelCanary(r2).active = r2.active /\ cancelCanary(r2).prior = r2.prior
  BY <1>3 DEF cancelCanary, World
<1> QED BY <1>3, <1>4 DEF recovered, r1, r2, Homeward, Backed

\* circuit:tripped remembers the template it replaces, never the failover one.
LEMMA ActivatedHome ==
    ASSUME NEW w \in World, NEW l \in BOOLEAN, Backed(w, l)
    PROVE  /\ Backed(activateFailover(w), l \/ w.active = NoTemplate)
           /\ activateFailover(w).entry = w.entry
BY DEF activateFailover, World, Backed

LEMMA OpenedHome ==
    ASSUME NEW w \in World, NEW l \in BOOLEAN, Backed(w, l), w.entry.state = "OPEN"
    PROVE  Homeward(persist(tripped(w), "OPEN"), l \/ w.active = NoTemplate)
<1> DEFINE r == activateFailover(w)
           m == l \/ w.active = NoTemplate
<1>1. r \in World /\ r.entry = w.entry /\ Backed(r, m)
  <2>1. r \in World BY DEF activateFailover, World, Template
  <2> QED BY <2>1, ActivatedHome
<1> HIDE DEF r
<1>2. /\ armCanary(r) \in World /\ armCanary(r).entry = r.entry
      /\ armCanary(r).active = r.active /\ armCanary(r).prior = r.prior
  BY <1>1 DEF armCanary, World, Canary
<1> DEFINE x == persist(armCanary(r), "OPEN")
<1>3. x.entry = r.entry /\ x.active = r.active /\ x.prior = r.prior
  BY <1>2 DEF persist, World
<1>4. persist(tripped(w), "OPEN") = x BY DEF tripped, r
<1> HIDE DEF x
<1>5. Homeward(x, m) BY <1>1, <1>3 DEF Homeward, Backed
<1> QED BY <1>4, <1>5

LEMMA MaybeHome ==
    ASSUME NEW w \in World, NEW l \in BOOLEAN, Homeward(w, l)
    PROVE  Homeward(maybeTransitionToHalfOpen(w), l)
<1>1. CASE Due(w)
  <2>1. /\ halfOpen(w) \in World
        /\ halfOpen(w).active = w.active /\ halfOpen(w).prior = w.prior
    BY DEF halfOpen, World, Entry
  <2>2. Backed(halfOpen(w), l) BY <2>1, SameTemplates DEF Homeward
  <2> QED BY <1>1, <2>1, <2>2, RecoveredHome DEF maybeTransitionToHalfOpen
<1>2. CASE ~Due(w)
  BY <1>2 DEF maybeTransitionToHalfOpen
<1> QED BY <1>1, <1>2

LEMMA CloseHome ==
    ASSUME NEW w \in World, NEW l \in BOOLEAN, Homeward(w, l)
    PROVE  Homeward(recordSuccess(w), l) /\ Homeward(untrip(w), l)
<1> DEFINE closed == [w EXCEPT !.entry = NewEntry]
           stored == persist(closed, "CLOSED")
<1>1. /\ closed \in World
      /\ closed.entry.state = "CLOSED"
      /\ closed.active = w.active /\ closed.prior = w.prior
  BY NewEntryType DEF World, NewEntry
<1>2. /\ recordSuccess(w) = IF w.entry.state = "CLOSED" THEN closed ELSE recovered(stored)
      /\ untrip(w) = persist(recovered(closed), "CLOSED")
  BY DEF recordSuccess, untrip
<1> HIDE DEF closed
<1>3. /\ stored \in World
      /\ stored.active = closed.active /\ stored.prior = closed.prior
  BY <1>1 DEF persist, World
<1> HIDE DEF stored
<1>4. Backed(closed, l) /\ Backed(stored, l)
  BY <1>1, <1>3 DEF Backed, Homeward
<1>5. Homeward(recovered(closed), l) /\ Homeward(recovered(stored), l)
  BY <1>1, <1>3, <1>4, RecoveredHome
<1>6. w.entry.state = "CLOSED" => Homeward(closed, l)
  BY <1>1 DEF Backed, Homeward
<1>7. recovered(closed) \in World BY <1>1, RecoveredFacts
<1> DEFINE r == recovered(closed)
<1> HIDE DEF r
<1>8. Homeward(persist(r, "CLOSED"), l)
  <2>1. r \in World /\ Homeward(r, l) BY <1>5, <1>7 DEF r
  <2>2. /\ persist(r, "CLOSED").active = r.active
        /\ persist(r, "CLOSED").prior = r.prior
        /\ persist(r, "CLOSED").entry = r.entry
    BY <2>1 DEF persist, World
  <2> QED BY <2>1, <2>2, SameTemplates
<1> QED BY <1>2, <1>5, <1>6, <1>8 DEF r

LEMMA TripHome ==
    ASSUME NEW w \in World, NEW l \in BOOLEAN, Homeward(w, l)
    PROVE  /\ Homeward(trip(w), l \/ w.active = NoTemplate)
           /\ Homeward(tripCircuit(w), l \/ w.active = NoTemplate)
<1> DEFINE c == IF w.entry.cat = "none" THEN "manual" ELSE w.entry.cat
           x == [openNow(w) EXCEPT !.entry.cat = c]
           y == [openNow(w) EXCEPT !.entry.probe = FALSE]
<1>1. /\ x \in World /\ x.entry.state = "OPEN"
      /\ x.active = w.active /\ x.prior = w.prior
  BY DEF openNow, World, Entry
<1>2. /\ y \in World /\ y.entry.state = "OPEN"
      /\ y.active = w.active /\ y.prior = w.prior
  BY DEF openNow, World, Entry
<1>3. trip(w) = persist(tripped(x), "OPEN") BY DEF trip
<1>4. tripCircuit(w) = persist(tripped(y), "OPEN") BY DEF tripCircuit
<1> HIDE DEF x, y
<1>5. Backed(x, l) /\ Backed(y, l) BY <1>1, <1>2 DEF Backed, Homeward
<1>6. /\ Homeward(persist(tripped(x), "OPEN"), l \/ x.active = NoTemplate)
      /\ Homeward(persist(tripped(y), "OPEN"), l \/ y.active = NoTemplate)
  BY <1>1, <1>2, <1>5, OpenedHome
<1> QED BY <1>1, <1>2, <1>3, <1>4, <1>6

LEMMA FailureHome ==
    ASSUME NEW w, NEW o \in BOOLEAN, NEW l \in BOOLEAN, NEW c \in Categories,
           Good(w, o), Homeward(w, l)
    PROVE  LET u     == maybeTransitionToHalfOpen(w)
               trips == shouldTrip(countFailure(u, c))
           IN  Homeward(recordFailure(w, c), l \/ (trips /\ u.active = NoTemplate))
<1> DEFINE u == maybeTransitionToHalfOpen(w)
           k == countFailure(u, c)
<1>1. w \in World BY DEF Good
<1>2. Good(u, o) /\ Homeward(u, l) BY <1>1, MaybeGood, MaybeHome
<1>3. recordFailure(w, c) = IF shouldTrip(k) THEN tripCircuit(k) ELSE k
  BY DEF recordFailure
<1> HIDE DEF u
<1>4. k \in World /\ k.entry.state = u.entry.state BY <1>2, CountGood DEF Good
<1>5. k.active = u.active /\ k.prior = u.prior
  BY <1>2 DEF countFailure, Good, World
<1> HIDE DEF k
<1>6. Homeward(k, l) BY <1>2, <1>4, <1>5, SameTemplates
<1>7. Homeward(tripCircuit(k), l \/ u.active = NoTemplate)
  BY <1>4, <1>5, <1>6, TripHome
<1>8. CASE shouldTrip(k) BY <1>3, <1>7, <1>8 DEF u, k
<1>9. CASE ~shouldTrip(k) BY <1>3, <1>6, <1>9 DEF u, k
<1> QED BY <1>8, <1>9

LEMMA AllowHome ==
    ASSUME NEW w, NEW o \in BOOLEAN, NEW l \in BOOLEAN, Good(w, o), Homeward(w, l)
    PROVE  Homeward(allowRequest(w), l)
<1> DEFINE x == maybeTransitionToHalfOpen(w)
           y == [x EXCEPT !.entry.probe = TRUE]
<1>1. x \in World /\ Homeward(x, l) BY MaybeGood, MaybeHome DEF Good
<1>2. allowRequest(w) = IF x.entry.state = "HALF_OPEN" THEN y ELSE x
  BY DEF allowRequest
<1> HIDE DEF x
<1>3. y.active = x.active /\ y.prior = x.prior /\ y.entry.state = x.entry.state
  BY <1>1 DEF World, Entry
<1> HIDE DEF y
<1>4. Homeward(y, l) BY <1>1, <1>3, SameTemplates
<1> QED BY <1>1, <1>2, <1>4

\* A restart knows of no template to go back to but the one it replaces.
LEMMA BootHome ==
    ASSUME NEW w, NEW o \in BOOLEAN, NEW e \in BOOLEAN, Good(w, o)
    PROVE  Homeward(boot(w, e), boot(w, e).active = Failover /\ w.active \notin Templates)
<1> DEFINE x == loadEntry(w, e)
           y == reconcileTemplate(x)
<1>1. x \in World BY LoadFacts
<1>2. x.active = w.active /\ x.prior = NoTemplate
  BY DEF loadEntry, Good, World
<1>3. boot(w, e) = reconcileCanary(y) BY DEF boot
<1>4. w.active \in Template BY DEF Good, World
<1> HIDE DEF x
<1>5. /\ y \in World
      /\ y.prior # Failover
      /\ y.active = Failover /\ w.active \in Templates =>
            y.prior # NoTemplate /\ y.entry.state = "OPEN"
  <2>1. CASE Due(x)
    <3> DEFINE r == resumeAllCodexParked(halfOpen(x))
    <3>1. r \in World /\ r.active = x.active /\ r.prior = x.prior
      BY <1>1 DEF resumeAllCodexParked, halfOpen, World, Entry
    <3>2. y = [r EXCEPT !.entry.probe = TRUE] BY <2>1 DEF reconcileTemplate
    <3> HIDE DEF r, y
    <3>3. y \in World /\ y.active = r.active /\ y.prior = r.prior
      BY <3>1, <3>2 DEF World, Entry
    <3> QED BY <1>2, <3>1, <3>3, BreakerAssumption
  <2>2. CASE ~Due(x) /\ x.entry.state = "OPEN"
    <3>1. y = activateFailover(x) BY <2>2 DEF reconcileTemplate
    <3> HIDE DEF y
    <3>2. CASE x.active = Failover
      BY <1>1, <1>2, <3>1, <3>2, BreakerAssumption DEF activateFailover
    <3>3. CASE x.active # Failover
      <4>1. /\ y \in World /\ y.prior = x.active /\ y.active = Failover
            /\ y.entry = x.entry
        BY <1>1, <3>1, <3>3 DEF activateFailover, World, Template
      <4> QED BY <1>2, <2>2, <3>3, <4>1, BreakerAssumption
    <3> QED BY <3>2, <3>3
  <2>3. CASE ~Due(x) /\ x.entry.state # "OPEN"
    <3>1. y = x BY <2>3 DEF reconcileTemplate
    <3> HIDE DEF y
    <3> QED BY <1>1, <1>2, <3>1, BreakerAssumption
  <2> QED BY <2>1, <2>2, <2>3
<1> HIDE DEF y
<1> DEFINE z == reconcileCanary(y)
<1>6. z.active = y.active /\ z.prior = y.prior /\ z.entry = y.entry
  BY <1>5 DEF reconcileCanary, World, Canary
<1>7. z = boot(w, e) BY <1>3
<1> HIDE DEF z
<1>8. Homeward(z, z.active = Failover /\ w.active \notin Templates)
  BY <1>4, <1>5, <1>6 DEF Homeward, Backed
<1> QED BY <1>7, <1>8

LEMMA GotoHome ==
    ASSUME NEW w \in World, Homeward(w, noWayBack'), Goto(w)
    PROVE  Homeward(Here, noWayBack)'
BY DEF Goto, Here, Homeward, Backed

LEMMA StepHome ==
    ASSUME Inv, Homeward(Here, noWayBack), [Next]_vars
    PROVE  Homeward(Here, noWayBack)'
<1>0. /\ Good(Here, override) /\ Here \in World
      /\ override \in BOOLEAN /\ noWayBack \in BOOLEAN
  BY DEF Inv, HistoryOK, Good
<1>1. CASE TaskSucceeds \/ CanarySucceeds
  <2>1. Goto(recordSuccess(Here)) /\ noWayBack' = noWayBack
    BY <1>1 DEF TaskSucceeds, CanarySucceeds, history
  <2>2. recordSuccess(Here) \in World BY <1>0, SuccessGood DEF Good
  <2> QED BY <1>0, <2>1, <2>2, CloseHome, GotoHome
<1>2. ASSUME NEW c \in Categories, TaskFails(c) \/ CanaryFails(c)
      PROVE  Homeward(Here, noWayBack)'
  <2>1. ReportFailure(c) BY <1>2 DEF TaskFails, CanaryFails
  <2>2. Homeward(recordFailure(Here, c), noWayBack')
    BY <1>0, <2>1, FailureHome DEF ReportFailure
  <2>3. recordFailure(Here, c) \in World BY <1>0, FailureGood DEF Good
  <2>4. Goto(recordFailure(Here, c)) BY <2>1 DEF ReportFailure
  <2> QED BY <2>2, <2>3, <2>4, GotoHome
<1>3. CASE Query
  <2>1. Goto(maybeTransitionToHalfOpen(Here)) /\ noWayBack' = noWayBack
    BY <1>3 DEF Query, history
  <2>2. maybeTransitionToHalfOpen(Here) \in World BY <1>0, MaybeGood DEF Good
  <2> QED BY <1>0, <2>1, <2>2, MaybeHome, GotoHome
<1>4. CASE Route
  <2>1. Goto(allowRequest(Here)) /\ noWayBack' = noWayBack
    BY <1>4 DEF Route, history
  <2>2. allowRequest(Here) \in World BY <1>0, AllowGood DEF Good
  <2> QED BY <1>0, <2>1, <2>2, AllowHome, GotoHome
<1>5. CASE Trip
  <2>1. Goto(trip(Here)) /\ noWayBack' = (noWayBack \/ Here.active = NoTemplate)
    BY <1>5 DEF Trip, Here
  <2>2. trip(Here) \in World BY <1>0, TripGood DEF Good
  <2>3. Homeward(trip(Here), noWayBack \/ Here.active = NoTemplate)
    BY <1>0, TripHome
  <2> QED BY <2>1, <2>2, <2>3, GotoHome
<1>6. CASE Untrip
  <2>1. Goto(untrip(Here)) /\ noWayBack' = noWayBack BY <1>6 DEF Untrip, history
  <2>2. untrip(Here) \in World BY <1>0, UntripGood DEF Good
  <2> QED BY <1>0, <2>1, <2>2, CloseHome, GotoHome
<1>7. ASSUME NEW t \in Templates \cup {NoTemplate}, ActivateTemplate(t)
      PROVE  Homeward(Here, noWayBack)'
  <2>1. active' = t /\ prior' = prior BY <1>7 DEF ActivateTemplate
  <2>2. t # Failover BY BreakerAssumption
  <2> QED BY <2>1, <2>2 DEF Here, Homeward, Backed
<1>8. CASE Elapse
  <2>1. /\ entry' = [entry EXCEPT !.elapsed = TRUE]
        /\ active' = active /\ prior' = prior /\ noWayBack' = noWayBack
    BY <1>8 DEF Elapse, history
  <2>2. entry \in Entry BY <1>0 DEF Here, World
  <2>3. entry'.state = entry.state BY <2>1, <2>2 DEF Entry
  <2> QED BY <2>1, <2>3 DEF Here, Homeward, Backed
<1>9. ASSUME NEW i \in Items, NEW policy \in {"wait_for_codex", "manual", "auto"},
             Prioritize(i, policy)
      PROVE  Homeward(Here, noWayBack)'
  <2> DEFINE w == maybeTransitionToHalfOpen(Here)
             x == [w EXCEPT !.work[i] = decideCodexFallbackAction(w, policy)]
  <2>1. Goto(x) /\ noWayBack' = noWayBack BY <1>9 DEF Prioritize, history
  <2>2. w \in World /\ Homeward(w, noWayBack) BY <1>0, MaybeGood, MaybeHome DEF Good
  <2> HIDE DEF w
  <2>3. /\ x \in World
        /\ x.active = w.active /\ x.prior = w.prior /\ x.entry = w.entry
    BY <2>2 DEF World, decideCodexFallbackAction
  <2> HIDE DEF x
  <2>4. Homeward(x, noWayBack) BY <1>0, <2>2, <2>3, SameTemplates
  <2> QED BY <2>1, <2>3, <2>4, GotoHome
<1>10. CASE UNCHANGED <<entry, active, prior, noWayBack>>
  BY <1>10 DEF Here, Homeward, Backed
<1>11. CASE Restart
  <2>1. PICK e \in BOOLEAN : Goto(boot(Here, e)) BY <1>11 DEF Restart
  <2>2. noWayBack' = (boot(Here, e).active = Failover /\ Here.active \notin Templates)
    BY <1>11, <2>1 DEF Restart, Goto, Here
  <2>3. boot(Here, e) \in World BY <1>0, BootGood DEF Good
  <2>4. Homeward(boot(Here, e), noWayBack') BY <1>0, <2>2, BootHome
  <2> QED BY <2>1, <2>3, <2>4, GotoHome
<1>12. CASE \/ CanaryArms \/ CanaryTimer \/ CanarySubmitted \/ CanaryRefused
            \/ CanaryRejected \/ CanaryLost
  BY <1>10, <1>12 DEF CanaryArms, CanaryTimer, CanarySubmitted, CanaryRefused,
                      CanaryRejected, CanaryLost, watched, history
<1>13. CASE UNCHANGED vars BY <1>10, <1>13 DEF vars
<1> QED BY <1>1, <1>2, <1>3, <1>4, <1>5, <1>6, <1>7, <1>8, <1>9, <1>11, <1>12, <1>13
        DEF Next

-----------------------------------------------------------------------------
(* The theorems. *)

\* Entry, row, items, templates and canary keep their types in every reachable
\* state, for any threshold and any sets of items, templates and categories.
THEOREM BreakerTypeCorrect == Spec => []TypeOK
<1>1. Inv => TypeOK BY InvImplies
<1> QED BY <1>1, SpecInv, PTL

\* No work item is ever parked behind a breaker that is not OPEN: every exit
\* from OPEN, the lazy one and the one inside a restart included, resumes all.
THEOREM BreakerParkedMeansOpen == Spec => []ParkedMeansOpen
<1>1. Inv => ParkedMeansOpen BY InvImplies
<1> QED BY <1>1, SpecInv, PTL

\* The stored state says OPEN exactly while the breaker is not CLOSED.
THEOREM BreakerRowRemembersTrip == Spec => []RowRemembersTrip
<1>1. Inv => RowRemembersTrip BY InvImplies
<1> QED BY <1>1, SpecInv, PTL

\* While OPEN, the failover template is active unless an operator chose
\* another one since the last trip or restart.
THEOREM BreakerFailoverWhileOpen == Spec => []FailoverWhileOpen
<1>1. Inv => FailoverWhileOpen BY InvImplies
<1> QED BY <1>1, SpecInv, PTL

\* Out of an outage the failover template is active only where there was nothing
\* to go back to: each trip remembers what it replaced, and only a recovery that
\* restores it, or a restart, forgets it.
THEOREM BreakerFailoverTakenBack == Spec => []FailoverTakenBack
<1>1. Init => Homeward(Here, noWayBack)
  BY BreakerAssumption DEF Init, Here, Homeward, Backed
<1>2. Inv /\ Homeward(Here, noWayBack) /\ [Next]_vars => Homeward(Here, noWayBack)'
  BY StepHome
<1>3. Homeward(Here, noWayBack) => FailoverTakenBack
  BY DEF Homeward, Here, FailoverTakenBack
<1> QED BY <1>1, <1>2, <1>3, SpecInv, PTL DEF Spec

\* A CLOSED breaker leaves no canary armed and no canary timer pending.
THEOREM BreakerClosedDisarmsCanary == Spec => []ClosedDisarmsCanary
<1>1. Inv => ClosedDisarmsCanary BY InvImplies
<1> QED BY <1>1, SpecInv, PTL
=============================================================================
