---------------------------- MODULE CoordProofs ----------------------------
(***************************************************************************)
(* Proofs about the coord daemon and its clients, for any number of        *)
(* clients, projects, slots and lock ids and any set of faults.            *)
(***************************************************************************)
EXTENDS CoordClients, FiniteSetTheorems, TLAPS

\* What TypeOK needs to be inductive: a client that will retry still has an
\* attempt left, and one that will use lockOf holds a lock id there.
ClientShape ==
    \A c \in Clients :
        /\ pc[c] \in {"acquire", "queued", "waiting"} => attempt[c] <= MaxAttempts
        /\ pc[c] \in {"queued", "waiting"} => lockOf[c] \in LockIds
        /\ pc[c] = "running" /\ how[c] = "acquired" => lockOf[c] \in LockIds

TypeInv == TypeOK /\ ClientShape

-----------------------------------------------------------------------------
(* The daemon's part of the type invariant. *)

\* Deleting a set of live locks from the two Maps keeps their types
\* (state.js release, forceRelease).
LEMMA RemoveType ==
    ASSUME DaemonTypeOK, NEW S \in SUBSET LockIds, removeAndNotify(S)
    PROVE  /\ locks' \in [LockIds -> LockRec \cup {NoLock}]
           /\ byProject' \in [Projects -> LockIds \cup {NoId}]
           /\ subscribers' \in [LockIds -> SUBSET Clients]
           /\ ended' \in SUBSET Clients
BY DEF DaemonTypeOK, removeAndNotify

\* A grant keeps the daemon's types (state.js acquire).
LEMMA AcquireType ==
    ASSUME DaemonTypeOK, CoordAssumption, NEW c \in Clients, NEW p \in Projects,
           NEW k \in Keys, NEW l \in LockIds, acquire(c, p, k, l)
    PROVE  DaemonTypeOK'
<1>1. [project |-> p, key |-> k, holder |-> c, age |-> 0] \in LockRec
  BY CoordAssumption DEF LockRec
<1> QED
  BY <1>1 DEF DaemonTypeOK, acquire

\* A release keeps the daemon's types, the result file included
\* (http.js handleRelease).
LEMMA ReleaseType ==
    ASSUME DaemonTypeOK, CoordAssumption, NEW l \in LockIds, NEW passed \in BOOLEAN,
           NEW h \in Hashes \cup {EmptyHashes}, NEW c \in Clients,
           release(l, passed, h, c)
    PROVE  DaemonTypeOK'
<1>1. locks[l] \in LockRec
  BY DEF DaemonTypeOK, release
<1>2. [hashes |-> h, by |-> c] \in ResultRec
  BY DEF ResultRec
<1>3. results' \in [Projects -> [Keys -> ResultRec \cup {NoResult}]]
  BY <1>1, <1>2 DEF DaemonTypeOK, release, writeResult, LockRec
<1>4. removeAndNotify({l})
  BY DEF release
<1> QED
  BY <1>3, <1>4, RemoveType DEF DaemonTypeOK, release

\* The daemon's own steps keep its types.
LEMMA DaemonStepType ==
    ASSUME DaemonTypeOK, CoordAssumption, DaemonStep
    PROVE  DaemonTypeOK'
<1>1. CASE Tick
  <2>1. \A l \in LockIds : locks'[l] \in LockRec \cup {NoLock}
    BY <1>1, CoordAssumption DEF DaemonTypeOK, Tick, LockRec
  <2>2. locks' \in [LockIds -> LockRec \cup {NoLock}]
    BY <1>1, <2>1 DEF Tick
  <2> QED
    BY <1>1, <2>2 DEF DaemonTypeOK, Tick
<1>2. CASE reapStaleLocks
  <2> DEFINE stale == {l \in LockIds : IsStale(l)}
  <2>1. removeAndNotify(stale) /\ stale \in SUBSET LockIds
    BY <1>2 DEF reapStaleLocks
  <2> QED
    BY <1>2, <2>1, RemoveType DEF DaemonTypeOK, reapStaleLocks
<1>3. CASE restoreFromFile
  BY <1>3 DEF DaemonTypeOK, restoreFromFile
<1>4. CASE DaemonCrash
  <2>1. \A x \in ended' : x \in Clients
    BY <1>4 DEF DaemonTypeOK, DaemonCrash
  <2>2. /\ locks' \in [LockIds -> LockRec \cup {NoLock}]
        /\ byProject' \in [Projects -> LockIds \cup {NoId}]
        /\ subscribers' \in [LockIds -> SUBSET Clients]
    BY <1>4 DEF DaemonCrash
  <2> QED
    BY <1>4, <2>1, <2>2 DEF DaemonTypeOK, DaemonCrash
<1>5. ASSUME NEW p \in Projects, NEW k \in Keys, ResultExpires(p, k)
      PROVE  DaemonTypeOK'
  BY <1>5 DEF DaemonTypeOK, ResultExpires
<1> QED
  BY <1>1, <1>2, <1>3, <1>4, <1>5 DEF DaemonStep

-----------------------------------------------------------------------------

LEMMA TypeInit == Init => TypeInv
BY CoordAssumption, ClientAssumption
   DEF Init, DaemonInit, TypeInv, TypeOK, DaemonTypeOK, ClientShape, PCs, Hows

\* Every step of the system keeps the type invariant.
LEMMA TypeNext == TypeInv /\ [Next]_vars => TypeInv'
<1> SUFFICES ASSUME TypeInv, [Next]_vars PROVE TypeInv'
  OBVIOUS
<1> USE CoordAssumption, ClientAssumption
<1>0. DaemonTypeOK
  BY DEF TypeInv, TypeOK
<1>a. \A c \in Clients : Job[c].project \in Projects /\ Job[c].key \in Keys
  OBVIOUS
<1>1. CASE DaemonStep
  <2>1. DaemonTypeOK'
    BY <1>0, <1>1, DaemonStepType
  <2> QED
    BY <1>1, <2>1 DEF TypeInv, TypeOK, ClientShape, DaemonStep, clientVars
<1>2. ASSUME NEW c \in Clients, ClientStep(c) PROVE TypeInv'
  <2>1. CASE GiveUp(c)
    BY <2>1 DEF TypeInv, TypeOK, DaemonTypeOK, ClientShape, GiveUp, StartRun, daemonVars, PCs, Hows
  <2>2. CASE LookupResults(c)
    <3>1. getResult(Job[c].project, Job[c].key) \in ResultRec \cup {NoResult}
      BY <1>0, <1>a DEF DaemonTypeOK, getResult
    <3> HIDE DEF getResult
    <3>2. hit' \in [Clients -> ResultRec \cup {NoResult}]
      BY <2>2, <3>1 DEF TypeInv, TypeOK, LookupResults
    <3> QED
      BY <2>2, <3>2 DEF TypeInv, TypeOK, DaemonTypeOK, ClientShape, LookupResults, daemonVars, PCs, Hows
  <2>3. CASE AcquireGranted(c)
    <3>1. PICK l \in LockIds : /\ acquire(c, Job[c].project, Job[c].key, l)
                               /\ StartRun(c, "acquired", l)
      BY <2>3 DEF AcquireGranted
    <3>2. DaemonTypeOK'
      BY <1>0, <1>a, <3>1, AcquireType
    <3> QED
      BY <3>1, <3>2 DEF TypeInv, TypeOK, ClientShape, StartRun, PCs, Hows
  <2>4. CASE AcquireQueued(c)
    BY <2>4, <1>a DEF TypeInv, TypeOK, DaemonTypeOK, ClientShape, AcquireQueued, ProjectHeld, daemonVars, PCs, Hows
  <2>5. CASE AcquireSemaphoreFull(c)
    BY <2>5 DEF TypeInv, TypeOK, DaemonTypeOK, ClientShape, AcquireSemaphoreFull, StartRun, daemonVars, PCs, Hows
  <2>6. CASE BeginUnreachable(c)
    BY <2>6 DEF TypeInv, TypeOK, DaemonTypeOK, ClientShape, BeginUnreachable, StartRun, daemonVars, PCs, Hows
  <2>7. CASE AcquireAnswerLost(c)
    <3>1. PICK l \in LockIds : acquire(c, Job[c].project, Job[c].key, l)
      BY <2>7 DEF AcquireAnswerLost
    <3>2. DaemonTypeOK'
      BY <1>0, <1>a, <3>1, AcquireType
    <3> QED
      BY <2>7, <3>2 DEF TypeInv, TypeOK, ClientShape, AcquireAnswerLost, StartRun, PCs, Hows
  <2>8. CASE WaitSubscribe(c)
    BY <2>8 DEF TypeInv, TypeOK, DaemonTypeOK, ClientShape, WaitSubscribe, subscribe, PCs, Hows
  <2>9. CASE WaitUnknown(c)
    BY <2>9 DEF TypeInv, TypeOK, DaemonTypeOK, ClientShape, WaitUnknown, Retry, daemonVars, PCs, Hows
  <2>10. CASE WaitEnds(c)
    BY <2>10 DEF TypeInv, TypeOK, DaemonTypeOK, ClientShape, WaitEnds, Retry, PCs, Hows
  <2> QED
    BY <1>2, <2>1, <2>2, <2>3, <2>4, <2>5, <2>6, <2>7, <2>8, <2>9, <2>10 DEF ClientStep
<1>3. ASSUME NEW c \in Clients, NEW passed \in BOOLEAN, Exit(c, passed) PROVE TypeInv'
  <2>1. DaemonTypeOK'
    <3>1. CASE how[c] = "acquired" /\ up /\ locks[lockOf[c]] # NoLock
      <4>1. lockOf[c] \in LockIds /\ release(lockOf[c], passed, EmptyHashes, c)
        BY <1>3, <3>1 DEF Exit, SentHashes, TypeInv, ClientShape
      <4> QED
        BY <1>0, <4>1, ReleaseType
    <3>2. CASE ~(how[c] = "acquired" /\ up /\ locks[lockOf[c]] # NoLock)
      BY <1>0, <1>3, <3>2 DEF Exit, daemonVars, DaemonTypeOK
    <3> QED
      BY <3>1, <3>2
  <2> QED
    BY <1>3, <2>1 DEF Exit, TypeInv, TypeOK, ClientShape, PCs
<1>4. ASSUME NEW c \in Clients, ExitReleaseLost(c) PROVE TypeInv'
  BY <1>4 DEF TypeInv, TypeOK, DaemonTypeOK, ClientShape, ExitReleaseLost, daemonVars, PCs
<1>5. ASSUME NEW c \in Clients, Kill(c) PROVE TypeInv'
  BY <1>5 DEF TypeInv, TypeOK, DaemonTypeOK, ClientShape, Kill, PCs
<1>6. ASSUME NEW c \in Clients, Heartbeat(c) PROVE TypeInv'
  <2>1. lockOf[c] \in LockIds /\ locks[lockOf[c]] \in LockRec
    BY <1>0, <1>6 DEF Heartbeat, heartbeat, TypeInv, ClientShape, DaemonTypeOK
  <2>2. [locks[lockOf[c]] EXCEPT !.age = 0] \in LockRec
    BY <2>1 DEF LockRec
  <2> QED
    BY <1>6, <2>1, <2>2 DEF TypeInv, TypeOK, DaemonTypeOK, ClientShape, Heartbeat, heartbeat, clientVars
<1>7. CASE UNCHANGED vars
  BY <1>7 DEF vars, TypeInv, TypeOK, DaemonTypeOK, ClientShape
<1> QED
  BY <1>1, <1>2, <1>3, <1>4, <1>5, <1>6, <1>7 DEF Next

\* Types are preserved for ever: the Maps of state.js hold well-formed
\* records and the wrapper's attempt counter never exceeds the limit by
\* more than the one that makes it give up.
THEOREM CoordTypeCorrect == Spec => []TypeOK
<1>1. TypeInv => TypeOK
  BY DEF TypeInv
<1> QED
  BY <1>1, TypeInit, TypeNext, PTL DEF Spec
-----------------------------------------------------------------------------
(* The lock table: the two Maps of state.js stay in step. *)

\* A step that may age or refresh locks but neither adds nor removes one.
SameLocks ==
    /\ byProject' = byProject
    /\ issued' = issued
    /\ \A l \in LockIds :
          /\ locks'[l] = NoLock <=> locks[l] = NoLock
          /\ locks[l] # NoLock => /\ locks'[l].project = locks[l].project
                                 /\ locks'[l].holder = locks[l].holder

\* Every live lock's id has been issued, so newLockId() returns no live id.
LiveIssued == Live \subseteq issued

\* What the other invariants are built on.
TableInv == TypeInv /\ OneLockPerProject /\ LiveIssued

\* A grant adds one fresh lock and points its project to it.
LEMMA AcquireTable ==
    ASSUME TableInv, NEW c \in Clients, NEW p \in Projects,
           NEW k \in Keys, NEW l \in LockIds, acquire(c, p, k, l)
    PROVE  /\ OneLockPerProject' /\ LiveIssued'
           /\ l \notin Live /\ Live' = Live \cup {l}
<1> USE CoordAssumption
<1>1. [project |-> p, key |-> k, holder |-> c, age |-> 0] \in LockRec
  BY DEF LockRec
<1> DEFINE r == [project |-> p, key |-> k, holder |-> c, age |-> 0]
<1>2. r # NoLock /\ r.project = p
  BY <1>1
<1>3. /\ locks' = [locks EXCEPT ![l] = r]
      /\ byProject' = [byProject EXCEPT ![p] = l]
      /\ issued' = issued \cup {l}
      /\ l \notin issued /\ byProject[p] = NoId
  BY DEF acquire, ProjectHeld
<1>4. /\ locks \in [LockIds -> LockRec \cup {NoLock}]
      /\ byProject \in [Projects -> LockIds \cup {NoId}]
      /\ OneLockPerProject /\ LiveIssued
  BY DEF TableInv, TypeInv, TypeOK, DaemonTypeOK
<1>5. \A x \in LockIds : locks[x] # NoLock => locks[x].project \in Projects
  BY <1>4 DEF LockRec
<1> HIDE DEF r
<1>6. l \notin Live /\ Live' = Live \cup {l}
  BY <1>2, <1>3, <1>4 DEF Live, LiveIssued
<1>7. LiveIssued'
  BY <1>3, <1>4, <1>6 DEF LiveIssued
<1>8. \A x \in LockIds : locks[x] # NoLock => x # l /\ locks[x].project # p
  BY <1>3, <1>4, <1>5, <1>6 DEF OneLockPerProject, Live
<1>9. \A x \in LockIds : locks'[x] # NoLock => byProject'[locks'[x].project] = x
  <2> TAKE x \in LockIds
  <2>1. CASE x = l
    BY <2>1, <1>2, <1>3, <1>4
  <2>2. CASE x # l
    BY <2>2, <1>3, <1>4, <1>5, <1>8 DEF OneLockPerProject, Live
  <2> QED
    BY <2>1, <2>2
<1>10. ASSUME NEW q \in Projects, byProject'[q] # NoId
       PROVE  byProject'[q] \in Live' /\ locks'[byProject'[q]].project = q
  <2>1. CASE q = p
    BY <2>1, <1>2, <1>3, <1>4, <1>6
  <2>2. CASE q # p
    <3>1. byProject'[q] = byProject[q]
      BY <2>2, <1>3, <1>4
    <3>2. byProject[q] \in Live /\ locks[byProject[q]].project = q
      BY <1>4, <1>10, <3>1 DEF OneLockPerProject
    <3> QED
      BY <1>3, <1>4, <1>6, <3>1, <3>2
  <2> QED
    BY <2>1, <2>2
<1>11. OneLockPerProject'
  BY <1>9, <1>10 DEF OneLockPerProject, Live
<1> QED
  BY <1>6, <1>7, <1>11

\* release and forceRelease remove exactly the given locks.
LEMMA RemoveTable ==
    ASSUME TableInv, NEW S \in SUBSET Live, removeAndNotify(S), issued' = issued
    PROVE  OneLockPerProject' /\ LiveIssued' /\ Live' = Live \ S
<1> USE CoordAssumption
<1>1. /\ locks \in [LockIds -> LockRec \cup {NoLock}]
      /\ byProject \in [Projects -> LockIds \cup {NoId}]
      /\ OneLockPerProject /\ LiveIssued
  BY DEF TableInv, TypeInv, TypeOK, DaemonTypeOK
<1>2. \A x \in LockIds : locks[x] # NoLock => locks[x].project \in Projects
  BY <1>1 DEF LockRec
<1>3. Live' = Live \ S
  BY <1>1 DEF Live, removeAndNotify
<1>4. LiveIssued'
  BY <1>1, <1>3 DEF LiveIssued
<1>5. OneLockPerProject'
  BY <1>1, <1>2 DEF OneLockPerProject, Live, removeAndNotify
<1> QED
  BY <1>3, <1>4, <1>5

LEMMA SameTable ==
    ASSUME TableInv, SameLocks
    PROVE  OneLockPerProject' /\ LiveIssued' /\ Live' = Live
<1>1. Live' = Live
  BY DEF Live, SameLocks
<1>2. \A x \in LockIds : locks[x] # NoLock => locks[x].project \in Projects
  BY CoordAssumption DEF TableInv, TypeInv, TypeOK, DaemonTypeOK, LockRec
<1> QED
  BY <1>1, <1>2 DEF TableInv, OneLockPerProject, LiveIssued, SameLocks, Live

\* The steps of the system, sorted by what they do to the lock table: a
\* grant to one client, the removal of some locks, the loss of all of them
\* with the daemon, or none of these.
LEMMA TableStep ==
    ASSUME TableInv, [Next]_vars
    PROVE  \/ SameLocks
           \/ \E c \in Clients, l \in LockIds :
                 acquire(c, Job[c].project, Job[c].key, l)
           \/ \E S \in SUBSET Live : removeAndNotify(S) /\ issued' = issued
           \/ DaemonCrash
<1> USE CoordAssumption, ClientAssumption
<1>0. /\ locks \in [LockIds -> LockRec \cup {NoLock}]
      /\ ClientShape
  BY DEF TableInv, TypeInv, TypeOK, DaemonTypeOK
<1>1. CASE DaemonStep
  <2>1. CASE Tick
    <3>1. \A l \in LockIds : locks[l] # NoLock /\ locks[l].age <= StaleThreshold =>
             /\ [locks[l] EXCEPT !.age = @ + 1] \in LockRec
             /\ [locks[l] EXCEPT !.age = @ + 1].project = locks[l].project
             /\ [locks[l] EXCEPT !.age = @ + 1].holder = locks[l].holder
      BY <1>0 DEF LockRec
    <3> QED
      BY <1>0, <2>1, <3>1 DEF Tick, SameLocks
  <2>2. CASE reapStaleLocks
    <3> DEFINE stale == {l \in LockIds : IsStale(l)}
    <3>1. removeAndNotify(stale) /\ stale \in SUBSET Live /\ issued' = issued
      BY <2>2 DEF reapStaleLocks, Live, IsStale
    <3> QED
      BY <3>1
  <2>3. CASE restoreFromFile
    BY <2>3 DEF restoreFromFile, SameLocks
  <2>4. ASSUME NEW p \in Projects, NEW k \in Keys, ResultExpires(p, k) PROVE SameLocks
    BY <2>4 DEF ResultExpires, SameLocks
  <2> QED
    BY <1>1, <2>1, <2>2, <2>3, <2>4 DEF DaemonStep
<1>2. ASSUME NEW c \in Clients, ClientStep(c)
      PROVE  SameLocks \/ \E l \in LockIds : acquire(c, Job[c].project, Job[c].key, l)
  BY <1>2 DEF ClientStep, GiveUp, LookupResults, AcquireGranted, AcquireQueued,
     AcquireSemaphoreFull, BeginUnreachable, AcquireAnswerLost, WaitSubscribe, subscribe,
     WaitUnknown, WaitEnds, daemonVars, SameLocks
<1>3. ASSUME NEW c \in Clients, NEW passed \in BOOLEAN, Exit(c, passed)
      PROVE  SameLocks \/ \E S \in SUBSET Live : removeAndNotify(S) /\ issued' = issued
  <2>1. CASE how[c] = "acquired" /\ up /\ locks[lockOf[c]] # NoLock
    <3>1. lockOf[c] \in Live
      BY <1>0, <1>3, <2>1 DEF Exit, ClientShape, Live
    <3>2. removeAndNotify({lockOf[c]}) /\ issued' = issued
      BY <1>3, <2>1 DEF Exit, release
    <3> QED
      BY <3>1, <3>2
  <2>2. CASE ~(how[c] = "acquired" /\ up /\ locks[lockOf[c]] # NoLock)
    BY <1>3, <2>2 DEF Exit, daemonVars, SameLocks
  <2> QED
    BY <2>1, <2>2
<1>4. ASSUME NEW c \in Clients, ExitReleaseLost(c) \/ Kill(c) PROVE SameLocks
  BY <1>4 DEF ExitReleaseLost, Kill, daemonVars, SameLocks
<1>5. ASSUME NEW c \in Clients, Heartbeat(c) PROVE SameLocks
  <2>1. lockOf[c] \in LockIds /\ locks[lockOf[c]] \in LockRec
    BY <1>0, <1>5 DEF Heartbeat, heartbeat, ClientShape
  <2>2. /\ [locks[lockOf[c]] EXCEPT !.age = 0] \in LockRec
        /\ [locks[lockOf[c]] EXCEPT !.age = 0].project = locks[lockOf[c]].project
        /\ [locks[lockOf[c]] EXCEPT !.age = 0].holder = locks[lockOf[c]].holder
    BY <2>1 DEF LockRec
  <2>3. locks' = [locks EXCEPT ![lockOf[c]] = [locks[lockOf[c]] EXCEPT !.age = 0]]
    BY <1>5 DEF Heartbeat, heartbeat
  <2> QED
    BY <1>0, <1>5, <2>1, <2>2, <2>3 DEF Heartbeat, heartbeat, SameLocks
<1>6. CASE UNCHANGED vars
  BY <1>6 DEF vars, SameLocks
<1> QED
  BY <1>1, <1>2, <1>3, <1>4, <1>5, <1>6 DEF Next

LEMMA TableNext == TableInv /\ [Next]_vars => TableInv'
<1> SUFFICES ASSUME TableInv, [Next]_vars PROVE OneLockPerProject' /\ LiveIssued'
  BY TypeNext DEF TableInv
<1>1. CASE SameLocks
  BY <1>1, SameTable
<1>2. CASE \E c \in Clients, l \in LockIds : acquire(c, Job[c].project, Job[c].key, l)
  <2>1. PICK c \in Clients, l \in LockIds : acquire(c, Job[c].project, Job[c].key, l)
    BY <1>2
  <2>2. Job[c].project \in Projects /\ Job[c].key \in Keys
    BY ClientAssumption
  <2> QED
    BY <2>1, <2>2, AcquireTable
<1>3. CASE \E S \in SUBSET Live : removeAndNotify(S) /\ issued' = issued
  BY <1>3, RemoveTable
<1>4. CASE DaemonCrash
  BY <1>4 DEF DaemonCrash, OneLockPerProject, LiveIssued, Live
<1> QED
  BY <1>1, <1>2, <1>3, <1>4, TableStep

LEMMA TableInit == Init => TableInv
BY TypeInit DEF Init, DaemonInit, TableInv, OneLockPerProject, LiveIssued, Live

\* At most one live lock per project, and the two Maps of the state store
\* always agree, whatever crashes, timeouts and reaps happen.
THEOREM CoordOneLockPerProject == Spec => []OneLockPerProject
<1>1. TableInv => OneLockPerProject
  BY DEF TableInv
<1> QED
  BY <1>1, TableInit, TableNext, PTL DEF Spec
-----------------------------------------------------------------------------
(* The global semaphore. *)

SemaphoreInv == TableInv /\ IsFiniteSet(Live) /\ SemaphoreBound

LEMMA SemaphoreNext == SemaphoreInv /\ [Next]_vars => SemaphoreInv'
<1> SUFFICES ASSUME SemaphoreInv, [Next]_vars
             PROVE  IsFiniteSet(Live') /\ Cardinality(Live') <= MaxConcurrentRuns
  BY TableNext DEF SemaphoreInv, SemaphoreBound
<1> USE CoordAssumption
<1>0. /\ TableInv /\ IsFiniteSet(Live) /\ Cardinality(Live) \in Nat
      /\ Cardinality(Live) <= MaxConcurrentRuns
  BY FS_CardinalityType DEF SemaphoreInv, SemaphoreBound
<1>1. CASE SameLocks
  BY <1>0, <1>1, SameTable
<1>2. CASE \E c \in Clients, l \in LockIds : acquire(c, Job[c].project, Job[c].key, l)
  <2>1. PICK c \in Clients, l \in LockIds : acquire(c, Job[c].project, Job[c].key, l)
    BY <1>2
  <2>2. Job[c].project \in Projects /\ Job[c].key \in Keys
    BY ClientAssumption
  <2>3. l \notin Live /\ Live' = Live \cup {l}
    BY <1>0, <2>1, <2>2, AcquireTable
  <2>4. ~(Cardinality(Live) >= MaxConcurrentRuns)
    BY <2>1 DEF acquire, SemaphoreFull
  <2>5. IsFiniteSet(Live') /\ Cardinality(Live') = Cardinality(Live) + 1
    BY <1>0, <2>3, FS_AddElement
  <2> QED
    BY <1>0, <2>4, <2>5
<1>3. CASE \E S \in SUBSET Live : removeAndNotify(S) /\ issued' = issued
  <2>1. Live' \subseteq Live
    BY <1>0, <1>3, RemoveTable
  <2>2. IsFiniteSet(Live') /\ Cardinality(Live') <= Cardinality(Live) /\ Cardinality(Live') \in Nat
    BY <1>0, <2>1, FS_Subset, FS_CardinalityType
  <2> QED
    BY <1>0, <2>2
<1>4. CASE DaemonCrash
  <2>1. Live' = {}
    BY <1>4 DEF DaemonCrash, Live
  <2> QED
    BY <2>1, FS_EmptySet
<1> QED
  BY <1>0, <1>1, <1>2, <1>3, <1>4, TableStep

\* Never more than max_concurrent_runs live locks.
THEOREM CoordSemaphoreBound == Spec => []SemaphoreBound
<1>1. Init => SemaphoreInv
  <2>1. Init => Live = {}
    BY DEF Init, DaemonInit, Live
  <2> QED
    BY <2>1, TableInit, FS_EmptySet, CoordAssumption DEF SemaphoreInv, SemaphoreBound
<1>2. SemaphoreInv => SemaphoreBound
  BY DEF SemaphoreInv
<1> QED
  BY <1>1, <1>2, SemaphoreNext, PTL DEF Spec
-----------------------------------------------------------------------------
(* No waiter is stranded. *)

WaiterInv == TableInv /\ NoStrandedWaiter

\* Removing locks wakes everyone subscribed to them, so a client that still
\* waits afterwards waits on a lock that stayed.
LEMMA RemoveWaiters ==
    ASSUME WaiterInv, NEW S \in SUBSET Live, removeAndNotify(S), up' = up,
           NEW d \in Clients, pc[d] = "waiting", lockOf'[d] = lockOf[d], d \notin ended'
    PROVE  up' /\ locks'[lockOf'[d]] # NoLock /\ d \in subscribers'[lockOf'[d]]
<1>1. lockOf[d] \in LockIds
  BY DEF WaiterInv, TableInv, TypeInv, ClientShape
<1>2. d \notin ended /\ d \notin UNION {subscribers[l] : l \in S}
  BY DEF removeAndNotify
<1>3. up /\ locks[lockOf[d]] # NoLock /\ d \in subscribers[lockOf[d]]
  BY <1>2 DEF WaiterInv, NoStrandedWaiter
<1>4. lockOf[d] \notin S
  BY <1>2, <1>3
<1> QED
  BY <1>1, <1>3, <1>4 DEF removeAndNotify

LEMMA WaiterNext == WaiterInv /\ [Next]_vars => WaiterInv'
<1> SUFFICES ASSUME WaiterInv, [Next]_vars, NEW d \in Clients,
                    pc'[d] = "waiting", d \notin ended'
             PROVE  up' /\ locks'[lockOf'[d]] # NoLock /\ d \in subscribers'[lockOf'[d]]
  BY TableNext DEF WaiterInv, NoStrandedWaiter
<1> USE CoordAssumption, ClientAssumption
<1>0. /\ locks \in [LockIds -> LockRec \cup {NoLock}]
      /\ subscribers \in [LockIds -> SUBSET Clients]
      /\ pc \in [Clients -> PCs] /\ lockOf \in [Clients -> LockIds \cup {NoId}]
      /\ TableInv /\ ClientShape
  BY DEF WaiterInv, TableInv, TypeInv, TypeOK, DaemonTypeOK
<1>a. pc[d] = "waiting" => lockOf[d] \in LockIds
  BY <1>0 DEF ClientShape
<1>b. pc[d] = "waiting" /\ d \notin ended =>
         up /\ locks[lockOf[d]] # NoLock /\ d \in subscribers[lockOf[d]]
  BY DEF WaiterInv, NoStrandedWaiter
<1>1. CASE DaemonStep
  <2>0. pc' = pc /\ lockOf' = lockOf
    BY <1>1 DEF DaemonStep, clientVars
  <2>1. CASE Tick
    <3>1. SameLocks
      <4>1. \A l \in LockIds : locks[l] # NoLock /\ locks[l].age <= StaleThreshold =>
               /\ [locks[l] EXCEPT !.age = @ + 1] \in LockRec
               /\ [locks[l] EXCEPT !.age = @ + 1].project = locks[l].project
               /\ [locks[l] EXCEPT !.age = @ + 1].holder = locks[l].holder
        BY <1>0 DEF LockRec
      <4> QED
        BY <1>0, <2>1, <4>1 DEF Tick, SameLocks
    <3> QED
      BY <1>a, <1>b, <2>0, <2>1, <3>1 DEF SameLocks, Tick
  <2>2. CASE reapStaleLocks
    <3> DEFINE stale == {l \in LockIds : IsStale(l)}
    <3>1. removeAndNotify(stale) /\ stale \in SUBSET Live /\ up' = up
      BY <2>2 DEF reapStaleLocks, Live, IsStale
    <3> HIDE DEF stale
    <3> QED
      BY <2>0, <3>1, RemoveWaiters
  <2>3. CASE restoreFromFile
    BY <1>b, <2>0, <2>3 DEF restoreFromFile
  <2>4. CASE DaemonCrash
    BY <1>a, <1>b, <2>0, <2>4 DEF DaemonCrash
  <2>5. ASSUME NEW p \in Projects, NEW k \in Keys, ResultExpires(p, k)
        PROVE  UNCHANGED <<up, locks, subscribers, ended>>
    BY <2>5 DEF ResultExpires
  <2> QED
    BY <1>1, <1>b, <2>0, <2>1, <2>2, <2>3, <2>4, <2>5 DEF DaemonStep
<1>2. ASSUME NEW c \in Clients, ClientStep(c)
      PROVE  up' /\ locks'[lockOf'[d]] # NoLock /\ d \in subscribers'[lockOf'[d]]
  <2>1. CASE GiveUp(c) \/ LookupResults(c) \/ AcquireQueued(c) \/ AcquireSemaphoreFull(c)
             \/ BeginUnreachable(c) \/ WaitUnknown(c)
    <3>1. d # c /\ pc[d] = "waiting" /\ lockOf'[d] = lockOf[d]
      BY <1>0, <2>1 DEF GiveUp, LookupResults, AcquireQueued, AcquireSemaphoreFull,
         BeginUnreachable, WaitUnknown, StartRun, Retry, PCs
    <3>2. UNCHANGED daemonVars
      BY <2>1 DEF GiveUp, LookupResults, AcquireQueued, AcquireSemaphoreFull,
         BeginUnreachable, WaitUnknown
    <3> QED
      BY <1>b, <3>1, <3>2 DEF daemonVars
  <2>2. CASE AcquireGranted(c) \/ AcquireAnswerLost(c)
    <3>1. PICK l \in LockIds : acquire(c, Job[c].project, Job[c].key, l)
      BY <2>2 DEF AcquireGranted, AcquireAnswerLost
    <3>2. d # c /\ pc[d] = "waiting" /\ lockOf'[d] = lockOf[d]
      BY <1>0, <2>2 DEF AcquireGranted, AcquireAnswerLost, StartRun, PCs
    <3>3. up' = up /\ ended' = ended /\ subscribers' = subscribers
      BY <3>1 DEF acquire
    <3>4. lockOf[d] \in Live
      BY <1>a, <1>b, <3>2, <3>3 DEF Live
    <3>5. Job[c].project \in Projects /\ Job[c].key \in Keys
      OBVIOUS
    <3>6. Live' = Live \cup {l}
      BY <1>0, <3>1, <3>5, AcquireTable
    <3>7. lockOf[d] \in Live'
      BY <3>4, <3>6
    <3> QED
      BY <1>b, <3>2, <3>3, <3>7 DEF Live
  <2>3. CASE WaitSubscribe(c)
    <3>1. UNCHANGED <<up, locks, ended, lockOf>> /\ up /\ locks[lockOf[c]] # NoLock
      BY <2>3 DEF WaitSubscribe, subscribe
    <3>2. lockOf[c] \in LockIds
      BY <1>0, <2>3 DEF WaitSubscribe, ClientShape
    <3>3. subscribers' = [subscribers EXCEPT ![lockOf[c]] = @ \cup {c}]
      BY <2>3 DEF WaitSubscribe, subscribe
    <3>4. d # c => pc[d] = "waiting"
      BY <1>0, <2>3 DEF WaitSubscribe
    <3> QED
      BY <1>0, <1>a, <1>b, <3>1, <3>2, <3>3, <3>4
  <2>4. CASE WaitEnds(c)
    <3>1. d # c /\ pc[d] = "waiting" /\ lockOf'[d] = lockOf[d] /\ d \notin ended
      BY <1>0, <2>4 DEF WaitEnds, Retry, PCs
    <3> QED
      BY <1>b, <2>4, <3>1 DEF WaitEnds
  <2> QED
    BY <1>2, <2>1, <2>2, <2>3, <2>4 DEF ClientStep
<1>3. ASSUME NEW c \in Clients, NEW passed \in BOOLEAN, Exit(c, passed)
      PROVE  up' /\ locks'[lockOf'[d]] # NoLock /\ d \in subscribers'[lockOf'[d]]
  <2>0. pc[d] = "waiting" /\ lockOf'[d] = lockOf[d]
    BY <1>0, <1>3 DEF Exit
  <2>1. CASE how[c] = "acquired" /\ up /\ locks[lockOf[c]] # NoLock
    <3>1. lockOf[c] \in Live
      BY <1>0, <1>3, <2>1 DEF Exit, ClientShape, Live
    <3>2. removeAndNotify({lockOf[c]}) /\ up' = up
      BY <1>3, <2>1 DEF Exit, release
    <3> QED
      BY <2>0, <3>1, <3>2, RemoveWaiters
  <2>2. CASE ~(how[c] = "acquired" /\ up /\ locks[lockOf[c]] # NoLock)
    BY <1>3, <1>b, <2>0, <2>2 DEF Exit, daemonVars
  <2> QED
    BY <2>1, <2>2
<1>4. ASSUME NEW c \in Clients, ExitReleaseLost(c)
      PROVE  up' /\ locks'[lockOf'[d]] # NoLock /\ d \in subscribers'[lockOf'[d]]
  BY <1>0, <1>b, <1>4 DEF ExitReleaseLost, daemonVars
<1>5. ASSUME NEW c \in Clients, Kill(c)
      PROVE  up' /\ locks'[lockOf'[d]] # NoLock /\ d \in subscribers'[lockOf'[d]]
  BY <1>0, <1>a, <1>b, <1>5 DEF Kill
<1>6. ASSUME NEW c \in Clients, Heartbeat(c)
      PROVE  up' /\ locks'[lockOf'[d]] # NoLock /\ d \in subscribers'[lockOf'[d]]
  <2>1. lockOf[c] \in LockIds /\ locks[lockOf[c]] \in LockRec
    BY <1>0, <1>6 DEF Heartbeat, heartbeat, ClientShape
  <2>2. [locks[lockOf[c]] EXCEPT !.age = 0] \in LockRec
    BY <2>1 DEF LockRec
  <2>3. locks' = [locks EXCEPT ![lockOf[c]] = [locks[lockOf[c]] EXCEPT !.age = 0]]
    BY <1>6 DEF Heartbeat, heartbeat
  <2> QED
    BY <1>0, <1>a, <1>b, <1>6, <2>1, <2>2, <2>3 DEF Heartbeat, heartbeat, clientVars
<1>7. CASE UNCHANGED vars
  BY <1>7, <1>b DEF vars
<1> QED
  BY <1>1, <1>2, <1>3, <1>4, <1>5, <1>6, <1>7 DEF Next

\* A client blocked on /wait is always subscribed to a live lock of a
\* running daemon, or its last event is already on its way.
THEOREM CoordNoStrandedWaiter == Spec => []NoStrandedWaiter
<1>1. Init => WaiterInv
  BY TableInit DEF WaiterInv, NoStrandedWaiter, Init
<1>2. WaiterInv => NoStrandedWaiter
  BY DEF WaiterInv
<1> QED
  BY <1>1, <1>2, WaiterNext, PTL DEF Spec
-----------------------------------------------------------------------------
(* A lock belongs to the run it was granted to. *)

\* A live lock is the one its holder asked for, in project and key, and a
\* client has how = "none" until it runs.
HolderInv ==
    /\ TableInv
    /\ HolderOwnsLock
    /\ \A l \in Live : /\ locks[l].project = Job[locks[l].holder].project
                       /\ locks[l].key = Job[locks[l].holder].key
    /\ \A c \in Clients : pc[c] \in {"begin", "acquire", "queued", "waiting"} => how[c] = "none"

\* The steps of the system, sorted by what they do to the locks and to the
\* client that acts: a grant that makes it run, a grant it never learns of,
\* or a step that only removes or ages locks and starts no granted run.
LEMMA HolderStep ==
    ASSUME HolderInv, [Next]_vars
    PROVE  \/ \E c \in Clients, l \in LockIds :
                 /\ pc[c] = "acquire"
                 /\ acquire(c, Job[c].project, Job[c].key, l)
                 /\ \/ StartRun(c, "acquired", l)
                    \/ StartRun(c, "unreachable", NoId)
           \/ /\ issued' = issued
              /\ \A l \in LockIds : locks'[l] # NoLock =>
                    /\ locks[l] # NoLock
                    /\ locks'[l].project = locks[l].project
                    /\ locks'[l].holder = locks[l].holder
                    /\ locks'[l].key = locks[l].key
              /\ \A c \in Clients :
                    /\ pc'[c] = "running" /\ how'[c] = "acquired" =>
                          pc[c] = "running" /\ how[c] = "acquired" /\ lockOf'[c] = lockOf[c]
                    /\ pc'[c] \in {"begin", "acquire", "queued", "waiting"} =>
                          pc[c] \in {"begin", "acquire", "queued", "waiting"} /\ how'[c] = how[c]
<1> USE CoordAssumption, ClientAssumption
<1> DEFINE Removing ==
              /\ issued' = issued
              /\ \A l \in LockIds : locks'[l] # NoLock =>
                    /\ locks[l] # NoLock
                    /\ locks'[l].project = locks[l].project
                    /\ locks'[l].holder = locks[l].holder
                    /\ locks'[l].key = locks[l].key
           Idle ==
              \A c \in Clients :
                    /\ pc'[c] = "running" /\ how'[c] = "acquired" =>
                          pc[c] = "running" /\ how[c] = "acquired" /\ lockOf'[c] = lockOf[c]
                    /\ pc'[c] \in {"begin", "acquire", "queued", "waiting"} =>
                          pc[c] \in {"begin", "acquire", "queued", "waiting"} /\ how'[c] = how[c]
           Granting == \E c \in Clients, l \in LockIds :
                 /\ pc[c] = "acquire"
                 /\ acquire(c, Job[c].project, Job[c].key, l)
                 /\ \/ StartRun(c, "acquired", l)
                    \/ StartRun(c, "unreachable", NoId)
<1>0. /\ locks \in [LockIds -> LockRec \cup {NoLock}]
      /\ pc \in [Clients -> PCs] /\ how \in [Clients -> Hows]
      /\ lockOf \in [Clients -> LockIds \cup {NoId}]
      /\ ClientShape
  BY DEF HolderInv, TableInv, TypeInv, TypeOK, DaemonTypeOK
<1>a. UNCHANGED clientVars => Idle
  BY DEF clientVars
<1>b. UNCHANGED daemonVars => Removing
  BY DEF daemonVars
<1>c. ASSUME NEW S \in SUBSET LockIds, removeAndNotify(S), issued' = issued PROVE Removing
  BY <1>0, <1>c DEF removeAndNotify
<1>1. ASSUME DaemonStep PROVE Removing /\ Idle
  <2>1. CASE Tick
    <3>1. \A l \in LockIds : locks[l] # NoLock /\ locks[l].age <= StaleThreshold =>
             /\ [locks[l] EXCEPT !.age = @ + 1].project = locks[l].project
             /\ [locks[l] EXCEPT !.age = @ + 1].holder = locks[l].holder
             /\ [locks[l] EXCEPT !.age = @ + 1].key = locks[l].key
      BY <1>0 DEF LockRec
    <3> QED
      BY <1>0, <1>1, <1>a, <2>1, <3>1 DEF Tick, DaemonStep
  <2>2. CASE reapStaleLocks
    <3> DEFINE stale == {l \in LockIds : IsStale(l)}
    <3>1. removeAndNotify(stale) /\ stale \in SUBSET LockIds /\ issued' = issued
      BY <2>2 DEF reapStaleLocks
    <3> HIDE DEF stale
    <3>2. Removing
      BY <1>c, <3>1
    <3> QED
      BY <1>1, <1>a, <3>2 DEF DaemonStep
  <2>3. CASE restoreFromFile
    BY <1>1, <1>a, <2>3 DEF DaemonStep, restoreFromFile
  <2>4. CASE DaemonCrash
    BY <1>1, <1>a, <2>4 DEF DaemonStep, DaemonCrash
  <2>5. ASSUME NEW p \in Projects, NEW k \in Keys, ResultExpires(p, k) PROVE Removing
    BY <2>5 DEF ResultExpires
  <2> QED
    BY <1>1, <1>a, <2>1, <2>2, <2>3, <2>4, <2>5 DEF DaemonStep
<1>2. ASSUME NEW c \in Clients, ClientStep(c) PROVE Granting \/ (Removing /\ Idle)
  <2>1. CASE GiveUp(c)
    BY <1>0, <1>b, <2>1 DEF GiveUp, StartRun, PCs
  <2>2. CASE LookupResults(c)
    BY <1>0, <1>b, <2>2 DEF LookupResults, PCs
  <2>3. CASE AcquireGranted(c) \/ AcquireAnswerLost(c)
    BY <2>3 DEF AcquireGranted, AcquireAnswerLost
  <2>4. CASE AcquireQueued(c)
    BY <1>0, <1>b, <2>4 DEF AcquireQueued, PCs
  <2>5. CASE AcquireSemaphoreFull(c) \/ BeginUnreachable(c)
    BY <1>0, <1>b, <2>5 DEF AcquireSemaphoreFull, BeginUnreachable, StartRun, PCs
  <2>6. CASE WaitSubscribe(c)
    BY <1>0, <2>6 DEF WaitSubscribe, subscribe, PCs
  <2>7. CASE WaitUnknown(c) \/ WaitEnds(c)
    BY <1>0, <1>b, <2>7 DEF WaitUnknown, WaitEnds, Retry, PCs
  <2> QED
    BY <1>2, <2>1, <2>2, <2>3, <2>4, <2>5, <2>6, <2>7 DEF ClientStep
<1>3. ASSUME NEW c \in Clients, NEW passed \in BOOLEAN, Exit(c, passed) PROVE Removing /\ Idle
  <2>1. Idle
    BY <1>0, <1>3 DEF Exit, PCs
  <2>2. CASE how[c] = "acquired" /\ up /\ locks[lockOf[c]] # NoLock
    <3>1. {lockOf[c]} \in SUBSET LockIds
      BY <1>0, <1>3, <2>2 DEF Exit, ClientShape
    <3>2. removeAndNotify({lockOf[c]}) /\ issued' = issued
      BY <1>3, <2>2 DEF Exit, release
    <3>3. Removing
      BY <1>c, <3>1, <3>2
    <3> QED
      BY <2>1, <3>3
  <2>3. CASE ~(how[c] = "acquired" /\ up /\ locks[lockOf[c]] # NoLock)
    BY <1>3, <1>b, <2>1, <2>3 DEF Exit
  <2> QED
    BY <2>2, <2>3
<1>4. ASSUME NEW c \in Clients, ExitReleaseLost(c) PROVE Removing /\ Idle
  BY <1>0, <1>b, <1>4 DEF ExitReleaseLost, PCs
<1>5. ASSUME NEW c \in Clients, Kill(c) PROVE Removing /\ Idle
  BY <1>0, <1>5 DEF Kill, PCs
<1>6. ASSUME NEW c \in Clients, Heartbeat(c) PROVE Removing /\ Idle
  <2>1. lockOf[c] \in LockIds /\ locks[lockOf[c]] \in LockRec
    BY <1>0, <1>6 DEF Heartbeat, heartbeat, ClientShape
  <2>2. /\ [locks[lockOf[c]] EXCEPT !.age = 0].project = locks[lockOf[c]].project
        /\ [locks[lockOf[c]] EXCEPT !.age = 0].holder = locks[lockOf[c]].holder
        /\ [locks[lockOf[c]] EXCEPT !.age = 0].key = locks[lockOf[c]].key
    BY <2>1 DEF LockRec
  <2>3. /\ locks' = [locks EXCEPT ![lockOf[c]] = [locks[lockOf[c]] EXCEPT !.age = 0]]
        /\ locks[lockOf[c]] # NoLock /\ issued' = issued
    BY <1>6 DEF Heartbeat, heartbeat
  <2>4. Removing
    BY <1>0, <2>1, <2>2, <2>3
  <2> QED
    BY <1>6, <1>a, <2>4 DEF Heartbeat
<1>7. CASE UNCHANGED vars
  <2>1. UNCHANGED clientVars /\ UNCHANGED daemonVars
    BY <1>7 DEF vars, clientVars, daemonVars
  <2> QED
    BY <1>a, <1>b, <2>1
<1> QED
  BY <1>1, <1>2, <1>3, <1>4, <1>5, <1>6, <1>7 DEF Next

LEMMA HolderNext == HolderInv /\ [Next]_vars => HolderInv'
<1> SUFFICES ASSUME HolderInv, [Next]_vars PROVE HolderInv'
  OBVIOUS
<1> USE CoordAssumption, ClientAssumption
<1>0. /\ locks \in [LockIds -> LockRec \cup {NoLock}]
      /\ pc \in [Clients -> PCs] /\ how \in [Clients -> Hows]
      /\ lockOf \in [Clients -> LockIds \cup {NoId}]
      /\ ClientShape /\ TableInv /\ TableInv'
  BY TableNext DEF HolderInv, TableInv, TypeInv, TypeOK, DaemonTypeOK
<1>0b. \A c \in Clients : pc[c] = "running" /\ how[c] = "acquired" => lockOf[c] \in LockIds
  BY <1>0 DEF ClientShape
<1>0c. /\ HolderOwnsLock
       /\ \A l \in Live : /\ locks[l].project = Job[locks[l].holder].project
                          /\ locks[l].key = Job[locks[l].holder].key
       /\ \A c \in Clients : pc[c] \in {"begin", "acquire", "queued", "waiting"} => how[c] = "none"
  BY DEF HolderInv
<1>1. ASSUME NEW c \in Clients, NEW l \in LockIds, pc[c] = "acquire",
             acquire(c, Job[c].project, Job[c].key, l),
             StartRun(c, "acquired", l) \/ StartRun(c, "unreachable", NoId)
      PROVE  HolderInv'
  <2> DEFINE r == [project |-> Job[c].project, key |-> Job[c].key, holder |-> c, age |-> 0]
  <2>1. /\ locks' = [locks EXCEPT ![l] = r] /\ issued' = issued \cup {l} /\ l \notin issued
        /\ r.project = Job[c].project /\ r.key = Job[c].key /\ r.holder = c
    BY <1>1 DEF acquire
  <2> HIDE DEF r
  <2>2. l \notin Live /\ Live' = Live \cup {l}
    BY <1>0, <1>1, AcquireTable
  <2>3. \A x \in Live' : /\ locks'[x].project = Job[locks'[x].holder].project
                         /\ locks'[x].key = Job[locks'[x].holder].key
    BY <1>0, <1>0c, <2>1, <2>2 DEF Live
  <2>4. \A d \in Clients : pc'[d] \in {"begin", "acquire", "queued", "waiting"} => how'[d] = "none"
    BY <1>0, <1>0c, <1>1 DEF StartRun
  <2>5. \A d \in Clients : d # c =>
           pc'[d] = pc[d] /\ how'[d] = how[d] /\ lockOf'[d] = lockOf[d]
    BY <1>0, <1>1 DEF StartRun
  <2>6. how'[c] = "acquired" => lockOf'[c] = l
    BY <1>0, <1>1 DEF StartRun
  <2>7. \A d \in Clients : d # c /\ pc[d] = "running" /\ how[d] = "acquired" =>
           lockOf[d] \in issued /\ lockOf[d] # l
    BY <1>0c, <2>1 DEF HolderOwnsLock
  <2>8. ASSUME NEW d \in Clients, pc'[d] = "running", how'[d] = "acquired"
        PROVE  /\ lockOf'[d] \in issued'
               /\ locks'[lockOf'[d]] # NoLock =>
                     /\ locks'[lockOf'[d]].holder = d
                     /\ locks'[lockOf'[d]].project = Job[d].project
    <3>1. CASE d = c
      BY <1>0, <2>1, <2>6, <2>8, <3>1
    <3>2. CASE d # c
      BY <1>0, <1>0b, <1>0c, <2>1, <2>5, <2>7, <2>8, <3>2 DEF HolderOwnsLock
    <3> QED
      BY <3>1, <3>2
  <2>9. \A d, e \in Clients :
           /\ pc'[d] = "running" /\ how'[d] = "acquired"
           /\ pc'[e] = "running" /\ how'[e] = "acquired"
           /\ lockOf'[d] = lockOf'[e]
           => d = e
    BY <1>0c, <2>5, <2>6, <2>7 DEF HolderOwnsLock
  <2>10. HolderOwnsLock'
    BY <2>8, <2>9 DEF HolderOwnsLock
  <2> QED
    BY <1>0, <2>3, <2>4, <2>10 DEF HolderInv
<1>2. ASSUME issued' = issued,
             \A l \in LockIds : locks'[l] # NoLock =>
                    /\ locks[l] # NoLock
                    /\ locks'[l].project = locks[l].project
                    /\ locks'[l].holder = locks[l].holder
                    /\ locks'[l].key = locks[l].key,
             \A c \in Clients :
                    /\ pc'[c] = "running" /\ how'[c] = "acquired" =>
                          pc[c] = "running" /\ how[c] = "acquired" /\ lockOf'[c] = lockOf[c]
                    /\ pc'[c] \in {"begin", "acquire", "queued", "waiting"} =>
                          pc[c] \in {"begin", "acquire", "queued", "waiting"} /\ how'[c] = how[c]
      PROVE  HolderInv'
  <2>1. HolderOwnsLock'
    BY <1>0b, <1>0c, <1>2 DEF HolderOwnsLock
  <2>2. \A l \in Live' : /\ locks'[l].project = Job[locks'[l].holder].project
                         /\ locks'[l].key = Job[locks'[l].holder].key
    BY <1>0c, <1>2 DEF Live
  <2>3. \A c \in Clients : pc'[c] \in {"begin", "acquire", "queued", "waiting"} => how'[c] = "none"
    BY <1>0c, <1>2
  <2> QED
    BY <1>0, <2>1, <2>2, <2>3 DEF HolderInv
<1> QED
  BY <1>1, <1>2, HolderStep

LEMMA HolderInit == Init => HolderInv
BY TableInit DEF Init, DaemonInit, HolderInv, HolderOwnsLock, Live

\* A running command's lock, as long as it is live, is its own and no
\* other running command carries its id.
THEOREM CoordHolderOwnsLock == Spec => []HolderOwnsLock
<1>1. HolderInv => HolderOwnsLock
  BY DEF HolderInv
<1> QED
  BY <1>1, HolderInit, HolderNext, PTL DEF Spec
-----------------------------------------------------------------------------
(* What a step may do to locks and results. *)

\* A lock that is there before a step and not after it was lost in one of
\* the three justified ways.
LEMMA LossStep ==
    ASSUME HolderInv, [Next]_vars, NEW l \in LockIds,
           locks[l] # NoLock, locks'[l] = NoLock
    PROVE  \/ ~up'
           \/ locks[l].age > StaleThreshold
           \/ /\ pc[locks[l].holder] = "running"
              /\ pc'[locks[l].holder] = "done"
<1> USE CoordAssumption, ClientAssumption
<1>0. /\ locks \in [LockIds -> LockRec \cup {NoLock}]
      /\ pc \in [Clients -> PCs]
      /\ TableInv /\ ClientShape
  BY DEF HolderInv, TableInv, TypeInv, TypeOK, DaemonTypeOK
<1>1. CASE DaemonStep
  <2>1. CASE Tick
    <3>1. locks[l].age <= StaleThreshold => [locks[l] EXCEPT !.age = @ + 1] \in LockRec
      BY <1>0 DEF LockRec
    <3> QED
      BY <2>1, <3>1 DEF Tick
  <2>2. CASE reapStaleLocks
    BY <2>2 DEF reapStaleLocks, removeAndNotify, IsStale
  <2>3. CASE restoreFromFile
    BY <2>3 DEF restoreFromFile
  <2>4. CASE DaemonCrash
    BY <2>4 DEF DaemonCrash
  <2>5. ASSUME NEW p \in Projects, NEW k \in Keys, ResultExpires(p, k) PROVE FALSE
    BY <2>5 DEF ResultExpires
  <2> QED
    BY <1>1, <2>1, <2>2, <2>3, <2>4, <2>5 DEF DaemonStep
<1>2. ASSUME NEW c \in Clients, ClientStep(c) PROVE FALSE
  <2>1. CASE AcquireGranted(c) \/ AcquireAnswerLost(c)
    <3>1. PICK x \in LockIds : acquire(c, Job[c].project, Job[c].key, x)
      BY <2>1 DEF AcquireGranted, AcquireAnswerLost
    <3>2. Live' = Live \cup {x}
      BY <1>0, <3>1, AcquireTable
    <3> QED
      BY <3>2 DEF Live
  <2>2. CASE ~(AcquireGranted(c) \/ AcquireAnswerLost(c))
    BY <1>2, <2>2 DEF ClientStep, GiveUp, LookupResults, AcquireQueued,
       AcquireSemaphoreFull, BeginUnreachable, WaitSubscribe, subscribe,
       WaitUnknown, WaitEnds, daemonVars
  <2> QED
    BY <2>1, <2>2
<1>3. ASSUME NEW c \in Clients, NEW passed \in BOOLEAN, Exit(c, passed)
      PROVE  pc[locks[l].holder] = "running" /\ pc'[locks[l].holder] = "done"
  <2>1. how[c] = "acquired" /\ up /\ locks[lockOf[c]] # NoLock
    BY <1>3 DEF Exit, daemonVars
  <2>2. removeAndNotify({lockOf[c]})
    BY <1>3, <2>1 DEF Exit, release
  <2>3. l = lockOf[c]
    BY <2>2 DEF removeAndNotify
  <2>4. locks[l].holder = c
    BY <1>3, <2>1, <2>3 DEF Exit, HolderInv, HolderOwnsLock
  <2> QED
    BY <1>0, <1>3, <2>4 DEF Exit
<1>4. ASSUME NEW c \in Clients, ExitReleaseLost(c) \/ Kill(c) PROVE FALSE
  BY <1>4 DEF ExitReleaseLost, Kill, daemonVars
<1>5. ASSUME NEW c \in Clients, Heartbeat(c) PROVE FALSE
  <2>1. [locks[l] EXCEPT !.age = 0] \in LockRec
    BY <1>0 DEF LockRec
  <2> QED
    BY <1>0, <1>5, <2>1 DEF Heartbeat, heartbeat
<1>6. CASE UNCHANGED vars
  BY <1>6 DEF vars
<1> QED
  BY <1>1, <1>2, <1>3, <1>4, <1>5, <1>6 DEF Next

\* No lock is lost but by its holder's own exit, by its age or with the
\* daemon: a reaped holder's late exit never frees the next one's lock.
THEOREM CoordLockLossJustified == Spec => LockLossJustified
<1>1. HolderInv /\ [Next]_vars =>
         (\A l \in LockIds : locks[l] # NoLock /\ locks'[l] = NoLock =>
             \/ ~up'
             \/ locks[l].age > StaleThreshold
             \/ /\ pc[locks[l].holder] = "running"
                /\ pc'[locks[l].holder] = "done")
  BY LossStep
<1> QED
  BY <1>1, HolderInit, HolderNext, PTL DEF Spec, LockLossJustified

\* A step that changes a stored result either lets it expire, or is the
\* passing exit of a run that held the lock of this project and key.
LEMMA ResultStep ==
    ASSUME HolderInv, [Next]_vars, NEW p \in Projects, NEW k \in Keys,
           results'[p][k] # results[p][k], results'[p][k] # NoResult
    PROVE  LET c == results'[p][k].by IN
           /\ pc[c] = "running" /\ how[c] = "acquired"
           /\ locks[lockOf[c]] # NoLock /\ locks'[lockOf[c]] = NoLock
           /\ Job[c].project = p /\ Job[c].key = k
<1> USE CoordAssumption, ClientAssumption
<1>0. /\ results \in [Projects -> [Keys -> ResultRec \cup {NoResult}]]
      /\ locks \in [LockIds -> LockRec \cup {NoLock}] /\ ClientShape
  BY DEF HolderInv, TableInv, TypeInv, TypeOK, DaemonTypeOK
<1>1. results' # results
  OBVIOUS
<1>2. ASSUME NEW q \in Projects, NEW j \in Keys, ResultExpires(q, j) PROVE FALSE
  <2>1. results' = [results EXCEPT ![q][j] = NoResult]
    BY <1>2 DEF ResultExpires
  <2>2. results'[p][k] = results[p][k] \/ results'[p][k] = NoResult
    BY <1>0, <2>1
  <2> QED
    BY <2>2
<1>3. ASSUME NEW c \in Clients, NEW passed \in BOOLEAN, Exit(c, passed)
      PROVE  /\ results'[p][k].by = c
             /\ pc[c] = "running" /\ how[c] = "acquired"
             /\ locks[lockOf[c]] # NoLock /\ locks'[lockOf[c]] = NoLock
             /\ Job[c].project = p /\ Job[c].key = k
  <2>1. pc[c] = "running" /\ how[c] = "acquired" /\ up /\ locks[lockOf[c]] # NoLock
    BY <1>1, <1>3 DEF Exit, daemonVars
  <2>2. /\ lockOf[c] \in LockIds
        /\ locks[lockOf[c]].project = Job[c].project /\ locks[lockOf[c]].key = Job[c].key
    BY <1>0, <2>1 DEF ClientShape, Live, HolderInv, HolderOwnsLock
  <2>3. writeResult(lockOf[c], passed, EmptyHashes, c) /\ removeAndNotify({lockOf[c]})
    BY <1>3, <2>1 DEF Exit, release, SentHashes
  <2>4. /\ p = Job[c].project /\ k = Job[c].key
        /\ results'[p][k] = [hashes |-> EmptyHashes, by |-> c]
    BY <1>0, <2>2, <2>3 DEF writeResult
  <2>5. locks'[lockOf[c]] = NoLock
    BY <2>2, <2>3 DEF removeAndNotify
  <2>6. [hashes |-> EmptyHashes, by |-> c].by = c
    OBVIOUS
  <2> QED
    BY <2>1, <2>4, <2>5, <2>6
<1>4. ASSUME NEW c \in Clients, ClientStep(c) PROVE FALSE
  BY <1>1, <1>4 DEF ClientStep, GiveUp, LookupResults, AcquireGranted, AcquireQueued,
     AcquireSemaphoreFull, BeginUnreachable, AcquireAnswerLost, WaitSubscribe, subscribe,
     WaitUnknown, WaitEnds, daemonVars, acquire
<1>5. ASSUME NEW c \in Clients, ExitReleaseLost(c) \/ Kill(c) \/ Heartbeat(c) PROVE FALSE
  BY <1>1, <1>5 DEF ExitReleaseLost, Kill, Heartbeat, heartbeat, daemonVars
<1>6. CASE UNCHANGED vars
  BY <1>1, <1>6 DEF vars
<1>7. CASE DaemonStep
  BY <1>1, <1>2, <1>7 DEF DaemonStep, Tick, reapStaleLocks, restoreFromFile, DaemonCrash
<1> QED
  BY <1>3, <1>4, <1>5, <1>6, <1>7 DEF Next

\* A result appears only when a run that passed gives back the lock it
\* still held, under the project and key of that run.
THEOREM CoordResultsOnlyFromHolders == Spec => ResultsOnlyFromHolders
<1>1. HolderInv /\ [Next]_vars =>
         (\A p \in Projects, k \in Keys :
             results'[p][k] \notin {results[p][k], NoResult} =>
                LET c == results'[p][k].by IN
                /\ pc[c] = "running" /\ how[c] = "acquired"
                /\ locks[lockOf[c]] # NoLock /\ locks'[lockOf[c]] = NoLock
                /\ Job[c].project = p /\ Job[c].key = k)
  BY ResultStep
<1> QED
  BY <1>1, HolderInit, HolderNext, PTL DEF Spec, ResultsOnlyFromHolders
-----------------------------------------------------------------------------
(* The coordinator implements the lease of RunLease. *)

\* A stored result is under the project and key of the run it came from.
ResultsOwned ==
    \A p \in Projects, k \in Keys : results[p][k] # NoResult =>
        Job[results[p][k].by].project = p /\ Job[results[p][k].by].key = k

LeaseInv == HolderInv /\ SemaphoreInv /\ ResultsOwned

\* Only the exit of a run that still holds its lock adds a result.
LEMMA ResultsNext ==
    ASSUME HolderInv, ResultsOwned, [Next]_vars
    PROVE  ResultsOwned'
<1> USE CoordAssumption, ClientAssumption
<1>0. /\ results \in [Projects -> [Keys -> ResultRec \cup {NoResult}]]
      /\ locks \in [LockIds -> LockRec \cup {NoLock}] /\ ClientShape
  BY DEF HolderInv, TableInv, TypeInv, TypeOK, DaemonTypeOK
<1>1. CASE results' = results
  BY <1>1 DEF ResultsOwned
<1>2. ASSUME NEW p \in Projects, NEW k \in Keys, ResultExpires(p, k) PROVE ResultsOwned'
  <2>1. results' = [results EXCEPT ![p][k] = NoResult]
    BY <1>2 DEF ResultExpires
  <2>2. \A q \in Projects, j \in Keys :
           results'[q][j] = results[q][j] \/ results'[q][j] = NoResult
    BY <1>0, <2>1
  <2> QED
    BY <2>2 DEF ResultsOwned
<1>3. ASSUME NEW c \in Clients, NEW passed \in BOOLEAN, Exit(c, passed) PROVE ResultsOwned'
  <2>1. CASE how[c] = "acquired" /\ up /\ locks[lockOf[c]] # NoLock
    <3>1. /\ lockOf[c] \in Live /\ locks[lockOf[c]].holder = c
          /\ locks[lockOf[c]].project = Job[c].project /\ locks[lockOf[c]].key = Job[c].key
      BY <1>0, <1>3, <2>1 DEF Exit, ClientShape, Live, HolderInv, HolderOwnsLock
    <3>2. writeResult(lockOf[c], passed, EmptyHashes, c)
      BY <1>3, <2>1 DEF Exit, release, SentHashes
    <3>3. \A q \in Projects, j \in Keys :
             \/ results'[q][j] = results[q][j]
             \/ /\ q = Job[c].project /\ j = Job[c].key
                /\ results'[q][j] = [hashes |-> EmptyHashes, by |-> c]
      BY <1>0, <3>1, <3>2 DEF writeResult
    <3>4. [hashes |-> EmptyHashes, by |-> c].by = c
      OBVIOUS
    <3> QED
      BY <3>3, <3>4 DEF ResultsOwned
  <2>2. CASE ~(how[c] = "acquired" /\ up /\ locks[lockOf[c]] # NoLock)
    BY <1>1, <1>3, <2>2 DEF Exit, daemonVars
  <2> QED
    BY <2>1, <2>2
<1>4. ASSUME NEW c \in Clients, ClientStep(c) PROVE results' = results
  BY <1>4 DEF ClientStep, GiveUp, LookupResults, AcquireGranted, AcquireQueued,
     AcquireSemaphoreFull, BeginUnreachable, AcquireAnswerLost, WaitSubscribe, subscribe,
     WaitUnknown, WaitEnds, daemonVars, acquire
<1>5. ASSUME NEW c \in Clients, ExitReleaseLost(c) \/ Kill(c) \/ Heartbeat(c)
      PROVE  results' = results
  BY <1>5 DEF ExitReleaseLost, Kill, Heartbeat, heartbeat, daemonVars
<1>6. CASE UNCHANGED vars
  BY <1>1, <1>6 DEF vars
<1>7. CASE DaemonStep
  BY <1>1, <1>2, <1>7 DEF DaemonStep, Tick, reapStaleLocks, restoreFromFile, DaemonCrash
<1> QED
  BY <1>1, <1>3, <1>4, <1>5, <1>6, <1>7 DEF Next

\* A step that at most loses leases and leaves results and replays alone.
Quiet == Holding' \subseteq Holding /\ results' = results /\ Replayed' = Replayed

LEMMA QuietRefines == Quiet => Lease!LeaseNext
<1> SUFFICES ASSUME Quiet PROVE Lease!LeaseNext
  OBVIOUS
<1>1. Published' = Published
  BY DEF Quiet, Published
<1>2. Lease!Revoke(Holding \ Holding')
  BY <1>1 DEF Quiet, Lease!Revoke
<1> QED
  BY <1>2 DEF Lease!LeaseNext

\* A grant in state.js is a grant of the lease: nobody holds the project,
\* and the holders are no more than the live locks.
LEMMA GrantRefines ==
    ASSUME LeaseInv, NEW c \in Clients, NEW l \in LockIds,
           acquire(c, Job[c].project, Job[c].key, l), Replayed' = Replayed
    PROVE  Lease!LeaseNext
<1> USE CoordAssumption, ClientAssumption
<1>0. /\ locks \in [LockIds -> LockRec \cup {NoLock}]
      /\ TableInv /\ IsFiniteSet(Live) /\ OneLockPerProject
      /\ \A x \in Live : locks[x].project = Job[locks[x].holder].project
  BY DEF LeaseInv, HolderInv, SemaphoreInv, TableInv, TypeInv, TypeOK, DaemonTypeOK
<1> DEFINE r == [project |-> Job[c].project, key |-> Job[c].key, holder |-> c, age |-> 0]
<1>1. /\ locks' = [locks EXCEPT ![l] = r] /\ r.holder = c /\ results' = results
      /\ byProject[Job[c].project] = NoId
      /\ ~(Cardinality(Live) >= MaxConcurrentRuns)
  BY DEF acquire, ProjectHeld, SemaphoreFull
<1> HIDE DEF r
<1>2. l \notin Live /\ Live' = Live \cup {l}
  BY <1>0, AcquireTable
<1>3. Holding' = Holding \cup {c}
  BY <1>0, <1>1, <1>2 DEF Holding, Live
<1>4. \A s \in Holding : Job[s].project # Job[c].project
  <2> SUFFICES ASSUME NEW x \in Live, Job[locks[x].holder].project = Job[c].project PROVE FALSE
    BY DEF Holding
  <2>1. byProject[Job[c].project] = x /\ x \in LockIds
    BY <1>0 DEF OneLockPerProject, Live
  <2> QED
    BY <1>1, <2>1
<1>5. Cardinality(Holding) <= Cardinality(Live) /\ IsFiniteSet(Holding)
  <2> DEFINE f == [x \in Live |-> locks[x].holder]
  <2>1. f \in Surjection(Live, Holding)
    BY DEF Surjection, Holding
  <2> HIDE DEF f
  <2> QED
    BY <1>0, <2>1, FS_Surjection
<1>6. Cardinality(Holding) \in Nat /\ Cardinality(Live) \in Nat
  BY <1>0, <1>5, FS_CardinalityType
<1>7. Cardinality(Holding) < MaxConcurrentRuns
  BY <1>1, <1>5, <1>6
<1>8. Published' = Published
  BY <1>1 DEF Published
<1>9. Lease!Grant(c)
  <2>1. \A s \in Holding : ~ Lease!SameProject(c, s)
    BY <1>4 DEF Lease!SameProject
  <2>2. Lease!Cardinality(Holding) = Cardinality(Holding)
    BY Zenon DEF Cardinality, Lease!Cardinality
  <2> QED
    BY <1>3, <1>7, <1>8, <2>1, <2>2 DEF Lease!Grant
<1> QED
  BY <1>9 DEF Lease!LeaseNext

\* The exit of a run whose lock is live gives the lease back and, when it
\* passed, publishes in the same step.
LEMMA ExitRefines ==
    ASSUME LeaseInv, NEW c \in Clients, NEW passed \in BOOLEAN, Exit(c, passed)
    PROVE  Lease!LeaseNext
<1> USE CoordAssumption, ClientAssumption
<1>0. /\ locks \in [LockIds -> LockRec \cup {NoLock}]
      /\ results \in [Projects -> [Keys -> ResultRec \cup {NoResult}]]
      /\ how \in [Clients -> Hows]
      /\ TableInv /\ ClientShape /\ OneLockPerProject /\ ResultsOwned
      /\ \A x \in Live : /\ locks[x].project = Job[locks[x].holder].project
                         /\ locks[x].key = Job[locks[x].holder].key
  BY DEF LeaseInv, HolderInv, SemaphoreInv, TableInv, TypeInv, TypeOK, DaemonTypeOK
<1>1. Replayed' = Replayed
  BY DEF Exit, Replayed
<1>2. CASE ~(how[c] = "acquired" /\ up /\ locks[lockOf[c]] # NoLock)
  <2>1. locks' = locks /\ results' = results
    BY <1>2 DEF Exit, daemonVars
  <2>2. Quiet
    BY <1>1, <2>1 DEF Quiet, Holding, Live
  <2> QED
    BY <2>2, QuietRefines
<1>3. CASE how[c] = "acquired" /\ up /\ locks[lockOf[c]] # NoLock
  <2>1. /\ lockOf[c] \in Live /\ locks[lockOf[c]].holder = c
        /\ locks[lockOf[c]].project = Job[c].project /\ locks[lockOf[c]].key = Job[c].key
    BY <1>0, <1>3 DEF Exit, ClientShape, Live, LeaseInv, HolderInv, HolderOwnsLock
  <2>2. /\ writeResult(lockOf[c], passed, EmptyHashes, c)
        /\ removeAndNotify({lockOf[c]}) /\ issued' = issued
    BY <1>3 DEF Exit, release, SentHashes
  <2>3. Live' = Live \ {lockOf[c]}
    BY <1>0, <2>1, <2>2, RemoveTable
  <2>4. \A x \in Live' : locks'[x] = locks[x]
    BY <1>0, <2>2, <2>3 DEF removeAndNotify, Live
  <2>5. \A x \in Live : locks[x].holder = c => x = lockOf[c]
    BY <1>0, <2>1 DEF OneLockPerProject, Live
  <2>6. Holding' = Holding \ {c} /\ c \in Holding
    BY <2>1, <2>3, <2>4, <2>5 DEF Holding
  <2>7. Published' = IF passed THEN {s \in Published : ~ Lease!SameResult(c, s)} \cup {c}
                     ELSE Published
    <3>1. CASE ~ passed
      BY <2>2, <3>1 DEF writeResult, Published
    <3>2. CASE passed
      <4> DEFINE P == Job[c].project
                 K == Job[c].key
                 r == [hashes |-> EmptyHashes, by |-> c]
      <4>1. results' = [results EXCEPT ![P][K] = r]
        BY <2>1, <2>2, <3>2 DEF writeResult
      <4>2. r \in ResultRec /\ r # NoResult /\ r.by = c /\ P \in Projects /\ K \in Keys
        BY DEF ResultRec
      <4> HIDE DEF r
      <4>3. /\ results'[P][K] = r
            /\ \A q \in Projects, j \in Keys : q # P \/ j # K => results'[q][j] = results[q][j]
        BY <1>0, <4>1, <4>2
      <4>4. ASSUME NEW s \in Clients
            PROVE  s \in Published' <=> s = c \/ (s \in Published /\ ~ Lease!SameResult(c, s))
        <5>1. s \in Published => \E q \in Projects, j \in Keys :
                 /\ results[q][j] # NoResult /\ results[q][j].by = s
                 /\ q = Job[s].project /\ j = Job[s].key
          BY <1>0 DEF Published, ResultsOwned
        <5>2. Lease!SameResult(c, s) <=> Job[s].project = P /\ Job[s].key = K
          BY DEF Lease!SameResult, Lease!SameProject
        <5>3. s \in Published' <=> \E q \in Projects, j \in Keys :
                 results'[q][j] # NoResult /\ results'[q][j].by = s
          BY DEF Published
        <5>4. s = c => s \in Published'
          BY <4>2, <4>3, <5>3
        <5>5. s \in Published /\ ~ Lease!SameResult(c, s) => s \in Published'
          BY <4>3, <5>1, <5>2, <5>3
        <5>6. s \in Published' /\ s # c => s \in Published /\ ~ Lease!SameResult(c, s)
          <6> SUFFICES ASSUME s \in Published', s # c
                       PROVE  s \in Published /\ ~ Lease!SameResult(c, s)
            OBVIOUS
          <6>1. PICK q \in Projects, j \in Keys :
                   results'[q][j] # NoResult /\ results'[q][j].by = s
            BY <5>3
          <6>2. q # P \/ j # K
            BY <4>2, <4>3, <6>1
          <6>3. results[q][j] # NoResult /\ results[q][j].by = s
            BY <4>3, <6>1, <6>2
          <6>4. q = Job[s].project /\ j = Job[s].key
            BY <1>0, <6>3 DEF ResultsOwned
          <6> QED
            BY <5>2, <6>2, <6>3, <6>4 DEF Published
        <5> QED
          BY <5>4, <5>5, <5>6
      <4>5. Published \subseteq Clients /\ Published' \subseteq Clients
        BY DEF Published
      <4> QED
        BY <3>2, <4>4, <4>5
    <3> QED
      BY <3>1, <3>2
  <2>8. Lease!GiveBack(c, passed)
    BY <1>1, <2>6, <2>7 DEF Lease!GiveBack
  <2> QED
    BY <2>8 DEF Lease!LeaseNext
<1> QED
  BY <1>2, <1>3

\* A result whose TTL is over leaves the published ones.
LEMMA ExpiryRefines ==
    ASSUME LeaseInv, NEW p \in Projects, NEW k \in Keys, ResultExpires(p, k),
           UNCHANGED clientVars
    PROVE  Lease!LeaseNext
<1> USE CoordAssumption, ClientAssumption
<1>0. /\ results \in [Projects -> [Keys -> ResultRec \cup {NoResult}]] /\ ResultsOwned
  BY DEF LeaseInv, HolderInv, SemaphoreInv, TableInv, TypeInv, TypeOK, DaemonTypeOK
<1> DEFINE c == results[p][k].by
<1>1. /\ results[p][k] # NoResult /\ results' = [results EXCEPT ![p][k] = NoResult]
      /\ locks' = locks /\ how' = how
  BY DEF ResultExpires, clientVars
<1>2. c \in Clients /\ Job[c].project = p /\ Job[c].key = k
  BY <1>0, <1>1 DEF ResultRec, ResultsOwned
<1>3. /\ results'[p][k] = NoResult
      /\ \A q \in Projects, j \in Keys : q # p \/ j # k => results'[q][j] = results[q][j]
  BY <1>0, <1>1
<1>4. \A q \in Projects, j \in Keys :
         results[q][j] # NoResult /\ results[q][j].by = c => q = p /\ j = k
  BY <1>0, <1>2 DEF ResultsOwned
<1> HIDE DEF c
<1>5. c \notin Published'
  BY <1>3, <1>4 DEF Published
<1>6. \A s \in Clients : s # c => (s \in Published' <=> s \in Published)
  BY <1>3 DEF Published, c
<1>7. Published' = Published \ {c}
  BY <1>5, <1>6 DEF Published
<1>8. Holding' = Holding /\ Replayed' = Replayed
  BY <1>1 DEF Holding, Live, Replayed
<1>9. Lease!Expire(c)
  BY <1>7, <1>8 DEF Lease!Expire
<1> QED
  BY <1>2, <1>9 DEF Lease!LeaseNext

\* Every other step of the clients either replays a published result or
\* leaves the lease alone.
LEMMA ClientRefines ==
    ASSUME LeaseInv, NEW c \in Clients, ClientStep(c)
    PROVE  Lease!LeaseNext
<1> USE CoordAssumption, ClientAssumption
<1>0. /\ how \in [Clients -> Hows] /\ pc \in [Clients -> PCs]
      /\ results \in [Projects -> [Keys -> ResultRec \cup {NoResult}]] /\ ResultsOwned
      /\ \A d \in Clients : pc[d] \in {"begin", "acquire", "queued", "waiting"} => how[d] = "none"
  BY DEF LeaseInv, HolderInv, SemaphoreInv, TableInv, TypeInv, TypeOK, DaemonTypeOK
<1>1. ASSUME locks' = locks, results' = results, Replayed' = Replayed PROVE Lease!LeaseNext
  <2>1. Quiet
    BY <1>1 DEF Quiet, Holding, Live
  <2> QED
    BY <2>1, QuietRefines
<1>2. ASSUME how' = how PROVE Replayed' = Replayed
  BY <1>2 DEF Replayed
<1>3. ASSUME NEW why, NEW l, pc[c] \in {"begin", "acquire"}, why # "cache_hit", StartRun(c, why, l)
      PROVE  Replayed' = Replayed
  BY <1>0, <1>3 DEF StartRun, Replayed
<1>4. CASE LookupResults(c)
  <2> DEFINE r == getResult(Job[c].project, Job[c].key)
  <2>0. UNCHANGED daemonVars
    BY <1>4 DEF LookupResults
  <2>1. CASE ~(r # NoResult /\ HashesMatch(r.hashes, Job[c].hashes))
    BY <1>1, <1>2, <1>4, <2>0, <2>1 DEF LookupResults, daemonVars
  <2>2. CASE r # NoResult /\ HashesMatch(r.hashes, Job[c].hashes)
    <3>1. how' = [how EXCEPT ![c] = "cache_hit"]
      BY <1>4, <2>2 DEF LookupResults
    <3>2. Replayed' = Replayed \cup {c}
      BY <1>0, <3>1 DEF Replayed
    <3>3. results[Job[c].project][Job[c].key] # NoResult
      BY <2>2 DEF getResult
    <3> DEFINE s == results[Job[c].project][Job[c].key].by
    <3>4. s \in Published /\ Lease!SameResult(c, s)
      <4>1. s \in Clients /\ Job[s].project = Job[c].project /\ Job[s].key = Job[c].key
        BY <1>0, <3>3 DEF ResultRec, ResultsOwned
      <4> QED
        BY <3>3, <4>1 DEF Published, Lease!SameResult, Lease!SameProject
    <3>5. Holding' = Holding /\ Published' = Published
      BY <2>0 DEF daemonVars, Holding, Live, Published
    <3> HIDE DEF s
    <3>6. Lease!Replay(c)
      BY <3>2, <3>4, <3>5 DEF Lease!Replay
    <3> QED
      BY <3>6 DEF Lease!LeaseNext
  <2> QED
    BY <2>1, <2>2
<1>5. CASE AcquireGranted(c) \/ AcquireAnswerLost(c)
  <2>1. PICK l \in LockIds : acquire(c, Job[c].project, Job[c].key, l)
    BY <1>5 DEF AcquireGranted, AcquireAnswerLost
  <2>2. Replayed' = Replayed
    BY <1>3, <1>5 DEF AcquireGranted, AcquireAnswerLost
  <2> QED
    BY <2>1, <2>2, GrantRefines
<1>6. CASE GiveUp(c) \/ AcquireSemaphoreFull(c) \/ BeginUnreachable(c)
  <2>1. Replayed' = Replayed
    BY <1>3, <1>6 DEF GiveUp, AcquireSemaphoreFull, BeginUnreachable
  <2>2. UNCHANGED daemonVars
    BY <1>6 DEF GiveUp, AcquireSemaphoreFull, BeginUnreachable
  <2> QED
    BY <1>1, <2>1, <2>2 DEF daemonVars
<1>7. CASE AcquireQueued(c) \/ WaitSubscribe(c) \/ WaitUnknown(c) \/ WaitEnds(c)
  <2>1. how' = how /\ locks' = locks /\ results' = results
    BY <1>7 DEF AcquireQueued, WaitSubscribe, subscribe, WaitUnknown, WaitEnds, Retry, daemonVars
  <2> QED
    BY <1>1, <1>2, <2>1
<1> QED
  BY <1>4, <1>5, <1>6, <1>7 DEF ClientStep

\* The daemon's own steps lose leases or results, and nothing else.
LEMMA DaemonRefines ==
    ASSUME LeaseInv, DaemonStep
    PROVE  Lease!LeaseNext
<1> USE CoordAssumption, ClientAssumption
<1>0. locks \in [LockIds -> LockRec \cup {NoLock}]
  BY DEF LeaseInv, HolderInv, TableInv, TypeInv, TypeOK, DaemonTypeOK
<1>1. Replayed' = Replayed
  BY DEF DaemonStep, clientVars, Replayed
<1>2. ASSUME results' = results,
             \A l \in LockIds : locks'[l] # NoLock =>
                locks[l] # NoLock /\ locks'[l].holder = locks[l].holder
      PROVE  Lease!LeaseNext
  <2>1. Quiet
    BY <1>1, <1>2 DEF Quiet, Holding, Live
  <2> QED
    BY <2>1, QuietRefines
<1>3. CASE Tick
  <2>1. \A l \in LockIds : locks[l] # NoLock =>
           [locks[l] EXCEPT !.age = @ + 1].holder = locks[l].holder
    BY <1>0 DEF LockRec
  <2> QED
    BY <1>0, <1>2, <1>3, <2>1 DEF Tick
<1>4. CASE reapStaleLocks
  BY <1>0, <1>2, <1>4 DEF reapStaleLocks, removeAndNotify
<1>5. CASE restoreFromFile \/ DaemonCrash
  BY <1>2, <1>5 DEF restoreFromFile, DaemonCrash
<1>6. ASSUME NEW p \in Projects, NEW k \in Keys, ResultExpires(p, k) PROVE Lease!LeaseNext
  BY <1>6, ExpiryRefines DEF DaemonStep
<1> QED
  BY <1>3, <1>4, <1>5, <1>6 DEF DaemonStep

LEMMA LeaseStep ==
    ASSUME LeaseInv, [Next]_vars
    PROVE  [Lease!LeaseNext]_<<Holding, Published, Replayed>>
<1> USE CoordAssumption, ClientAssumption
<1>0. locks \in [LockIds -> LockRec \cup {NoLock}] /\ ClientShape
  BY DEF LeaseInv, HolderInv, TableInv, TypeInv, TypeOK, DaemonTypeOK
<1>1. ASSUME NEW c \in Clients, ExitReleaseLost(c) \/ Kill(c) PROVE Lease!LeaseNext
  <2>1. Quiet
    BY <1>1 DEF ExitReleaseLost, Kill, daemonVars, Quiet, Holding, Live, Replayed
  <2> QED
    BY <2>1, QuietRefines
<1>2. ASSUME NEW c \in Clients, Heartbeat(c) PROVE Lease!LeaseNext
  <2>1. lockOf[c] \in LockIds /\ locks[lockOf[c]] \in LockRec
    BY <1>0, <1>2 DEF Heartbeat, heartbeat, ClientShape
  <2>2. [locks[lockOf[c]] EXCEPT !.age = 0].holder = locks[lockOf[c]].holder
    BY <2>1 DEF LockRec
  <2>3. /\ locks' = [locks EXCEPT ![lockOf[c]] = [locks[lockOf[c]] EXCEPT !.age = 0]]
        /\ locks[lockOf[c]] # NoLock /\ results' = results /\ how' = how
    BY <1>2 DEF Heartbeat, heartbeat, clientVars
  <2>4. Holding' \subseteq Holding
    BY <1>0, <2>1, <2>2, <2>3 DEF Holding, Live
  <2>5. Quiet
    BY <2>3, <2>4 DEF Quiet, Replayed
  <2> QED
    BY <2>5, QuietRefines
<1>3. CASE UNCHANGED vars
  BY <1>3 DEF vars, Holding, Published, Replayed, Live
<1> QED
  BY <1>1, <1>2, <1>3, ExitRefines, ClientRefines, DaemonRefines DEF Next

\* The coordinator, its daemon crashing and its clients dying at any
\* moment, implements the lease: each step of the two is a step of
\* RunLease on holders, published results and replays.
THEOREM CoordImplementsLease == Spec => ImplementsLease
<1>1. Init => LeaseInv
  <2>1. Init => Live = {}
    BY DEF Init, DaemonInit, Live
  <2>2. Init => SemaphoreInv
    BY <2>1, TableInit, FS_EmptySet, CoordAssumption DEF SemaphoreInv, SemaphoreBound
  <2>3. Init => ResultsOwned
    BY DEF ResultsOwned, Init, DaemonInit
  <2> QED
    BY <2>2, <2>3, HolderInit DEF LeaseInv
<1>2. LeaseInv /\ [Next]_vars => LeaseInv'
  BY HolderNext, SemaphoreNext, ResultsNext DEF LeaseInv
<1>3. Init => Lease!LeaseInit
  BY DEF Init, DaemonInit, Lease!LeaseInit, Holding, Live, Published, Replayed
<1>4. LeaseInv /\ [Next]_vars => [Lease!LeaseNext]_<<Holding, Published, Replayed>>
  BY LeaseStep
<1> QED
  BY <1>1, <1>2, <1>3, <1>4, PTL DEF Spec, ImplementsLease, Lease!LeaseSpec, Lease!leaseVars
=============================================================================
