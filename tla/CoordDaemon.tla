---------------------------- MODULE CoordDaemon ----------------------------
(***************************************************************************)
(* The torque-coord daemon: the lock table of server/coord/state.js, the   *)
(* reaper of reaper.js, the result store of result-store.js and the        *)
(* request handlers of http.js that change them.  The daemon is a          *)
(* single-threaded Node process and every handler runs to completion       *)
(* after its body has been read, so each handler is one action.            *)
(***************************************************************************)
EXTENDS Naturals, FiniteSets

CONSTANTS
    Clients,            \* torque-remote invocations (one run each)
    Projects,           \* project names
    Keys,               \* (sha, suite) pairs of a cached result
    Hashes,             \* possible package-lock hash maps of a checkout
    LockIds,            \* the random ids newLockId() may return
    MaxConcurrentRuns,  \* config.max_concurrent_runs
    StaleThreshold,     \* config.stale_lock_threshold_ms, in clock ticks
    NoLock, NoId, NoResult, EmptyHashes

\* A live entry of the locks Map.  "age" stands for now - last_heartbeat_at;
\* one more than the threshold is as old as any greater age.
LockRec == [project : Projects, key : Keys, holder : Clients,
            age : 0..(StaleThreshold + 1)]

\* A record of the result store: the hash map the holder sent, and (instead
\* of output_tail) the run the output came from.
ResultRec == [hashes : Hashes \cup {EmptyHashes}, by : Clients]

ASSUME CoordAssumption ==
    /\ MaxConcurrentRuns \in Nat
    /\ StaleThreshold \in Nat
    /\ NoLock \notin LockRec
    /\ NoId \notin LockIds
    /\ NoResult \notin ResultRec

VARIABLES
    up,           \* the daemon process is running
    locks,        \* the locks Map: LockIds -> lock record or NoLock
    byProject,    \* the byProject Map: Projects -> lock id or NoId
    subscribers,  \* the subscribers Map: LockIds -> set of waiting clients
    ended,        \* clients whose /wait stream has delivered its last event
    issued,       \* lock ids already returned by newLockId()
    results       \* the result files: Projects -> Keys -> record or NoResult

daemonVars == <<up, locks, byProject, subscribers, ended, issued, results>>

Live == {l \in LockIds : locks[l] # NoLock}

DaemonTypeOK ==
    /\ up \in BOOLEAN
    /\ locks \in [LockIds -> LockRec \cup {NoLock}]
    /\ byProject \in [Projects -> LockIds \cup {NoId}]
    /\ subscribers \in [LockIds -> SUBSET Clients]
    /\ ended \in SUBSET Clients
    /\ issued \in SUBSET LockIds
    /\ results \in [Projects -> [Keys -> ResultRec \cup {NoResult}]]

DaemonInit ==
    /\ up = TRUE
    /\ locks = [l \in LockIds |-> NoLock]
    /\ byProject = [p \in Projects |-> NoId]
    /\ subscribers = [l \in LockIds |-> {}]
    /\ ended = {}
    /\ issued = {}
    /\ results = [p \in Projects |-> [k \in Keys |-> NoResult]]

-----------------------------------------------------------------------------
(* state.js acquire: the two refusals and the grant. *)

ProjectHeld(p) == byProject[p] # NoId

SemaphoreFullOffByOne == Cardinality(Live) > MaxConcurrentRuns

SemaphoreFull == Cardinality(Live) >= MaxConcurrentRuns

grantWithoutProjectCheck(c, p, k, l) ==
    /\ ~SemaphoreFull
    /\ l \in LockIds \ issued
    /\ locks' = [locks EXCEPT ![l] = [project |-> p, key |-> k,
                                      holder |-> c, age |-> 0]]
    /\ byProject' = [byProject EXCEPT ![p] = l]
    /\ issued' = issued \cup {l}
    /\ UNCHANGED <<up, subscribers, ended, results>>

grantReusedId(c, p, k, l) ==
    /\ ~ProjectHeld(p)
    /\ ~SemaphoreFull
    /\ l \in LockIds \ Live
    /\ locks' = [locks EXCEPT ![l] = [project |-> p, key |-> k,
                                      holder |-> c, age |-> 0]]
    /\ byProject' = [byProject EXCEPT ![p] = l]
    /\ issued' = issued \cup {l}
    /\ UNCHANGED <<up, subscribers, ended, results>>

acquire(c, p, k, l) ==
    /\ ~ProjectHeld(p)
    /\ ~SemaphoreFull
    /\ l \in LockIds \ issued
    /\ locks' = [locks EXCEPT ![l] = [project |-> p, key |-> k,
                                      holder |-> c, age |-> 0]]
    /\ byProject' = [byProject EXCEPT ![p] = l]
    /\ issued' = issued \cup {l}
    /\ UNCHANGED <<up, subscribers, ended, results>>

\* handleHeartbeat on a live lock: last_heartbeat_at becomes now.
heartbeat(l) ==
    /\ locks[l] # NoLock
    /\ locks' = [locks EXCEPT ![l].age = 0]
    /\ UNCHANGED <<up, byProject, subscribers, ended, issued, results>>

-----------------------------------------------------------------------------
(* Removing locks.  release and forceRelease delete the entry from both    *)
(* Maps and then notify: every subscriber's stream gets its last event and *)
(* the subscription is dropped.                                            *)

removeWithoutNotify(S) ==
    /\ locks' = [l \in LockIds |-> IF l \in S THEN NoLock ELSE locks[l]]
    /\ byProject' = [p \in Projects |->
                        IF \E l \in S : locks[l].project = p
                        THEN NoId ELSE byProject[p]]
    /\ subscribers' = [l \in LockIds |-> IF l \in S THEN {} ELSE subscribers[l]]
    /\ UNCHANGED ended

removeAndNotify(S) ==
    /\ locks' = [l \in LockIds |-> IF l \in S THEN NoLock ELSE locks[l]]
    /\ byProject' = [p \in Projects |->
                        IF \E l \in S : locks[l].project = p
                        THEN NoId ELSE byProject[p]]
    /\ subscribers' = [l \in LockIds |-> IF l \in S THEN {} ELSE subscribers[l]]
    /\ ended' = ended \cup UNION {subscribers[l] : l \in S}

\* Result records are written for a clean pass only.
writeResult(l, passed, h, c) ==
    results' = IF passed
               THEN [results EXCEPT ![locks[l].project][locks[l].key] =
                                        [hashes |-> h, by |-> c]]
               ELSE results

\* handleRelease of a live lock: release, then writeResult in the same tick.
release(l, passed, h, c) ==
    /\ locks[l] # NoLock
    /\ removeAndNotify({l})
    /\ writeResult(l, passed, h, c)
    /\ UNCHANGED <<up, issued>>

\* The reaper's threshold test.
IsStaleNever(l) == locks[l] # NoLock /\ locks[l].age > StaleThreshold + 1

IsStale(l) == locks[l] # NoLock /\ locks[l].age > StaleThreshold

reapAndPublish ==
    LET stale == {l \in LockIds : IsStale(l)} IN
    /\ up
    /\ \E l \in stale :
          /\ removeAndNotify({l})
          /\ writeResult(l, TRUE, EmptyHashes, locks[l].holder)
    /\ UNCHANGED <<up, issued>>

\* One reaper tick force-releases every stale lock; no result is written.
reapStaleLocks ==
    LET stale == {l \in LockIds : IsStale(l)} IN
    /\ up
    /\ stale # {}
    /\ removeAndNotify(stale)
    /\ UNCHANGED <<up, issued, results>>

-----------------------------------------------------------------------------
(* GET /wait/:lock_id of a live lock, and the client's disconnect. *)

subscribe(c, l) ==
    /\ locks[l] # NoLock
    /\ subscribers' = [subscribers EXCEPT ![l] = @ \cup {c}]
    /\ UNCHANGED <<up, locks, byProject, ended, issued, results>>

\* getResult: the record of the key while its TTL lasts.
getResult(p, k) == results[p][k]

\* result_ttl_seconds pass: the record is no longer returned.
ResultExpires(p, k) ==
    /\ results[p][k] # NoResult
    /\ results' = [results EXCEPT ![p][k] = NoResult]
    /\ UNCHANGED <<up, locks, byProject, subscribers, ended, issued>>

-----------------------------------------------------------------------------
(* Time and process faults. *)

\* A clock tick ages every live lock.
Tick ==
    /\ \E l \in Live : locks[l].age <= StaleThreshold
    /\ locks' = [l \in LockIds |->
                    IF locks[l] # NoLock /\ locks[l].age <= StaleThreshold
                    THEN [locks[l] EXCEPT !.age = @ + 1]
                    ELSE locks[l]]
    /\ UNCHANGED <<up, byProject, subscribers, ended, issued, results>>

\* The process dies: the Maps are gone and every open stream is cut.
DaemonCrash ==
    /\ up
    /\ up' = FALSE
    /\ locks' = [l \in LockIds |-> NoLock]
    /\ byProject' = [p \in Projects |-> NoId]
    /\ subscribers' = [l \in LockIds |-> {}]
    /\ ended' = ended \cup UNION {subscribers[l] : l \in LockIds}
    /\ UNCHANGED <<issued, results>>

\* startDaemon: restoreFromFile counts the locks of active.json and drops
\* them; the result files are kept.
restoreFromFile ==
    /\ ~up
    /\ up' = TRUE
    /\ UNCHANGED <<locks, byProject, subscribers, ended, issued, results>>

-----------------------------------------------------------------------------

\* The two Maps describe the same locks: a live lock is the one its project
\* points to, and a project points to a live lock of that project.  Two
\* live locks of one project are therefore impossible (state.js acquire,
\* release, forceRelease keep locks and byProject in step).
OneLockPerProject ==
    /\ \A l \in Live : byProject[locks[l].project] = l
    /\ \A p \in Projects : byProject[p] # NoId =>
          byProject[p] \in Live /\ locks[byProject[p]].project = p

\* The global semaphore: never more live locks than max_concurrent_runs.
SemaphoreBound == Cardinality(Live) <= MaxConcurrentRuns

=============================================================================
