--------------------------- MODULE CoordClients ----------------------------
(***************************************************************************)
(* torque-remote invocations against the coord daemon: the `begin`, `wait` *)
(* and `release` subcommands of bin/torque-coord-client and the wrapper    *)
(* functions coord_begin and coord_release_on_exit of bin/torque-remote    *)
(* that drive them.  Each HTTP round trip is one action, so anything may   *)
(* happen between a client's lookup, its acquire and its wait.             *)
(***************************************************************************)
EXTENDS CoordDaemon

CONSTANTS
    Job,          \* Clients -> [project, key, hashes] of the invocation
    MaxAttempts,  \* COORD_MAX_ACQUIRE_ATTEMPTS
    Faults        \* which faults may happen, of FaultKinds

FaultKinds == {"daemon_crash", "timeout", "kill"}

ASSUME ClientAssumption ==
    /\ Job \in [Clients -> [project : Projects, key : Keys, hashes : Hashes]]
    /\ MaxAttempts \in Nat
    /\ Faults \subseteq FaultKinds

VARIABLES
    pc,       \* where the wrapper is
    attempt,  \* the argument of coord_begin
    lockOf,   \* COORD_LOCK_ID while running, wait_for while waiting
    how,      \* why the command runs (or that it was replayed)
    hit       \* the cached record that was replayed

clientVars == <<pc, attempt, lockOf, how, hit>>
vars == <<up, locks, byProject, subscribers, ended, issued, results,
          pc, attempt, lockOf, how, hit>>

PCs == {"begin", "acquire", "queued", "waiting", "running", "done", "killed"}
Hows == {"none", "acquired", "unreachable", "gave_up", "error", "cache_hit"}

TypeOK ==
    /\ DaemonTypeOK
    /\ pc \in [Clients -> PCs]
    /\ attempt \in [Clients -> 1..(MaxAttempts + 1)]
    /\ lockOf \in [Clients -> LockIds \cup {NoId}]
    /\ how \in [Clients -> Hows]
    /\ hit \in [Clients -> ResultRec \cup {NoResult}]

Init ==
    /\ DaemonInit
    /\ pc = [c \in Clients |-> "begin"]
    /\ attempt = [c \in Clients |-> 1]
    /\ lockOf = [c \in Clients |-> NoId]
    /\ how = [c \in Clients |-> "none"]
    /\ hit = [c \in Clients |-> NoResult]

-----------------------------------------------------------------------------

\* The wrapper stops coordinating and runs the command.
StartRun(c, why, l) ==
    /\ pc' = [pc EXCEPT ![c] = "running"]
    /\ how' = [how EXCEPT ![c] = why]
    /\ lockOf' = [lockOf EXCEPT ![c] = l]
    /\ UNCHANGED <<attempt, hit>>

\* coord_begin is called again after a wait.
Retry(c) ==
    /\ pc' = [pc EXCEPT ![c] = "begin"]
    /\ attempt' = [attempt EXCEPT ![c] = @ + 1]
    /\ lockOf' = [lockOf EXCEPT ![c] = NoId]
    /\ UNCHANGED <<how, hit>>

GiveUpLate(c) ==
    /\ pc[c] = "begin"
    /\ attempt[c] > MaxAttempts
    /\ Retry(c)
    /\ UNCHANGED daemonVars

GiveUp(c) ==
    /\ pc[c] = "begin"
    /\ attempt[c] > MaxAttempts
    /\ StartRun(c, "gave_up", NoId)
    /\ UNCHANGED daemonVars

\* runBegin's hash comparison: every hash in the STORED map must match.
HashesMatch(stored, mine) == stored = EmptyHashes \/ stored = mine

\* GET /results/:project/:sha/:suite and the replay of a matching record.
LookupResults(c) ==
    LET r == getResult(Job[c].project, Job[c].key) IN
    /\ pc[c] = "begin"
    /\ attempt[c] <= MaxAttempts
    /\ up
    /\ IF r # NoResult /\ HashesMatch(r.hashes, Job[c].hashes)
       THEN /\ pc' = [pc EXCEPT ![c] = "done"]
            /\ how' = [how EXCEPT ![c] = "cache_hit"]
            /\ hit' = [hit EXCEPT ![c] = r]
       ELSE /\ pc' = [pc EXCEPT ![c] = "acquire"]
            /\ UNCHANGED <<how, hit>>
    /\ UNCHANGED <<attempt, lockOf>>
    /\ UNCHANGED daemonVars

\* POST /acquire answered 200.
AcquireGranted(c) ==
    /\ pc[c] = "acquire"
    /\ up
    /\ \E l \in LockIds :
          /\ acquire(c, Job[c].project, Job[c].key, l)
          /\ StartRun(c, "acquired", l)

\* POST /acquire answered 202 project_held with wait_for = the live lock.
AcquireQueued(c) ==
    /\ pc[c] = "acquire"
    /\ up
    /\ ProjectHeld(Job[c].project)
    /\ pc' = [pc EXCEPT ![c] = "queued"]
    /\ lockOf' = [lockOf EXCEPT ![c] = byProject[Job[c].project]]
    /\ UNCHANGED <<attempt, how, hit>>
    /\ UNCHANGED daemonVars

\* POST /acquire answered 202 global_semaphore_full with wait_for = null:
\* runBegin needs a truthy wait_for to report "queued", so it reports
\* "error" and coord_begin takes its last branch.
AcquireSemaphoreFull(c) ==
    /\ pc[c] = "acquire"
    /\ up
    /\ ~ProjectHeld(Job[c].project)
    /\ SemaphoreFull
    /\ StartRun(c, "error", NoId)
    /\ UNCHANGED daemonVars

\* A request of `begin` cannot be delivered: connection refused while the
\* daemon is down, or a timeout.
BeginUnreachable(c) ==
    /\ pc[c] \in {"begin", "acquire"}
    /\ pc[c] = "begin" => attempt[c] <= MaxAttempts
    /\ ~up \/ "timeout" \in Faults
    /\ StartRun(c, "unreachable", NoId)
    /\ UNCHANGED daemonVars

\* The daemon grants the lock but the answer comes after the client's
\* timeout: the client runs uncoordinated and nobody will release the lock.
AcquireAnswerLost(c) ==
    /\ "timeout" \in Faults
    /\ pc[c] = "acquire"
    /\ up
    /\ \E l \in LockIds : acquire(c, Job[c].project, Job[c].key, l)
    /\ StartRun(c, "unreachable", NoId)

-----------------------------------------------------------------------------
(* `torque-coord-client wait`. *)

\* GET /wait of a lock that is still live.
WaitSubscribe(c) ==
    /\ pc[c] = "queued"
    /\ up
    /\ subscribe(c, lockOf[c])
    /\ pc' = [pc EXCEPT ![c] = "waiting"]
    /\ UNCHANGED <<attempt, lockOf, how, hit>>

\* GET /wait of a lock released meanwhile (404), or of a daemon that is
\* down: the wrapper ignores the exit code and begins again.
WaitUnknown(c) ==
    /\ pc[c] = "queued"
    /\ up => locks[lockOf[c]] = NoLock
    /\ Retry(c)
    /\ UNCHANGED daemonVars

\* The stream's last event arrives, or the stream is cut.
WaitEnds(c) ==
    /\ pc[c] = "waiting"
    /\ c \in ended
    /\ ended' = ended \ {c}
    /\ Retry(c)
    /\ UNCHANGED <<up, locks, byProject, subscribers, issued, results>>

-----------------------------------------------------------------------------

\* What coord_release_on_exit sends as --hashes, after the release
\* subcommand parsed it: the expansion "${COORD_LOCAL_HASHES:-{}}" appends a
\* brace to the captured JSON, JSON.parse fails and {} is sent instead.
SentHashes(c) == EmptyHashes

\* Exiting commands free whatever lock their project has now.
ExitByProject(c, passed) ==
    /\ pc[c] = "running"
    /\ pc' = [pc EXCEPT ![c] = "done"]
    /\ UNCHANGED <<attempt, lockOf, how, hit>>
    /\ IF how[c] = "acquired" /\ up /\ ProjectHeld(Job[c].project)
       THEN release(byProject[Job[c].project], passed, SentHashes(c), c)
       ELSE UNCHANGED daemonVars

\* The command ends and the EXIT trap releases the lock it acquired; a
\* release of an unknown lock is answered 404 and ignored.
Exit(c, passed) ==
    /\ pc[c] = "running"
    /\ pc' = [pc EXCEPT ![c] = "done"]
    /\ UNCHANGED <<attempt, lockOf, how, hit>>
    /\ IF how[c] = "acquired" /\ up /\ locks[lockOf[c]] # NoLock
       THEN release(lockOf[c], passed, SentHashes(c), c)
       ELSE UNCHANGED daemonVars

\* The release request times out before it reaches the daemon; the
\* wrapper ignores that (>/dev/null 2>&1 || true).
ExitReleaseLost(c) ==
    /\ "timeout" \in Faults
    /\ pc[c] = "running"
    /\ how[c] = "acquired"
    /\ pc' = [pc EXCEPT ![c] = "done"]
    /\ UNCHANGED <<attempt, lockOf, how, hit>>
    /\ UNCHANGED daemonVars

\* The wrapper is killed without running its trap; the daemon drops the
\* subscription of a stream whose request closed.
Kill(c) ==
    /\ "kill" \in Faults
    /\ pc[c] \notin {"done", "killed"}
    /\ pc' = [pc EXCEPT ![c] = "killed"]
    /\ subscribers' = [l \in LockIds |-> subscribers[l] \ {c}]
    /\ UNCHANGED <<attempt, lockOf, how, hit>>
    /\ UNCHANGED <<up, locks, byProject, ended, issued, results>>

\* `torque-coord-client heartbeat` for the lock of a running command.  The
\* wrapper never calls it: it may happen, it need not.
Heartbeat(c) ==
    /\ pc[c] = "running"
    /\ how[c] = "acquired"
    /\ up
    /\ heartbeat(lockOf[c])
    /\ UNCHANGED clientVars

ClientStep(c) ==
    \/ GiveUp(c)
    \/ LookupResults(c)
    \/ AcquireGranted(c)
    \/ AcquireQueued(c)
    \/ AcquireSemaphoreFull(c)
    \/ BeginUnreachable(c)
    \/ AcquireAnswerLost(c)
    \/ WaitSubscribe(c)
    \/ WaitUnknown(c)
    \/ WaitEnds(c)

DaemonStep ==
    /\ \/ Tick
       \/ reapStaleLocks
       \/ restoreFromFile
       \/ "daemon_crash" \in Faults /\ DaemonCrash
       \/ \E p \in Projects, k \in Keys : ResultExpires(p, k)
    /\ UNCHANGED clientVars

Next ==
    \/ DaemonStep
    \/ \E c \in Clients :
          \/ ClientStep(c)
          \/ \E passed \in BOOLEAN : Exit(c, passed)
          \/ ExitReleaseLost(c)
          \/ Kill(c)
          \/ Heartbeat(c)

Spec == Init /\ [][Next]_vars

\* Client processes keep running, commands terminate, timers fire and the
\* service manager restarts a dead daemon.
Fairness ==
    /\ \A c \in Clients : WF_vars(ClientStep(c))
    /\ \A c \in Clients : WF_vars(\E passed \in BOOLEAN : Exit(c, passed))
    /\ WF_vars(Tick /\ UNCHANGED clientVars)
    /\ WF_vars(reapStaleLocks /\ UNCHANGED clientVars)
    /\ WF_vars(restoreFromFile /\ UNCHANGED clientVars)

FairSpec == Spec /\ Fairness

-----------------------------------------------------------------------------
(* Properties. *)

Terminated(c) == pc[c] \in {"done", "killed"}

\* A client blocked on a /wait stream whose last event has not been sent is
\* subscribed to a lock that is still live in a running daemon, so the
\* release, reap or crash of that lock will wake it (http.js handleWait
\* checks and subscribes in one tick; state.js notify).
NoStrandedWaiter ==
    \A c \in Clients : pc[c] = "waiting" /\ c \notin ended =>
        /\ up
        /\ locks[lockOf[c]] # NoLock
        /\ c \in subscribers[lockOf[c]]

\* As long as the lock a running command acquired is live it is that
\* command's own: it names its project and its holder, and no other running
\* command carries the same id (ids are random and never reused).
HolderOwnsLock ==
    \A c \in Clients : pc[c] = "running" /\ how[c] = "acquired" =>
        /\ lockOf[c] \in issued
        /\ locks[lockOf[c]] # NoLock =>
              /\ locks[lockOf[c]].holder = c
              /\ locks[lockOf[c]].project = Job[c].project
        /\ \A d \in Clients : pc[d] = "running" /\ how[d] = "acquired"
                              /\ lockOf[d] = lockOf[c] => d = c

\* A live lock disappears only by its own holder's exit, because its
\* heartbeat is older than the threshold, or with the daemon; in
\* particular a late exit of a reaped holder never frees the lock of the
\* next one.
LockLossJustified ==
    [][\A l \in LockIds : locks[l] # NoLock /\ locks'[l] = NoLock =>
          \/ ~up'
          \/ locks[l].age > StaleThreshold
          \/ /\ pc[locks[l].holder] = "running"
             /\ pc'[locks[l].holder] = "done"]_vars

\* A result record appears only when a run that passed gives back a lock
\* it still held: a run that was reaped, crashed or lost its daemon never
\* becomes a reusable result (result-store.js writeResult).
ResultsOnlyFromHolders ==
    [][\A p \in Projects, k \in Keys :
          results'[p][k] \notin {results[p][k], NoResult} =>
             LET c == results'[p][k].by IN
             /\ pc[c] = "running" /\ how[c] = "acquired"
             /\ locks[lockOf[c]] # NoLock /\ locks'[lockOf[c]] = NoLock
             /\ Job[c].project = p /\ Job[c].key = k]_vars

\* Every invocation ends: waiting, retries, the semaphore and daemon
\* restarts never block a wrapper for ever.
EveryInvocationFinishes == \A c \in Clients : <>Terminated(c)

\* A lock whose holder will never release it (killed, or its grant or
\* release was lost) is eventually freed, so the project is not blocked.
OrphanFreed ==
    \A l \in LockIds :
        (locks[l] # NoLock /\ Terminated(locks[l].holder)) ~> (locks[l] = NoLock)

-----------------------------------------------------------------------------
(* The coordinator implements RunLease. *)

Holding == {locks[l].holder : l \in Live}
Published == {c \in Clients : \E p \in Projects, k \in Keys :
                 results[p][k] # NoResult /\ results[p][k].by = c}
Replayed == {c \in Clients : how[c] = "cache_hit"}

Lease == INSTANCE RunLease WITH
    Runs <- Clients, JobOf <- Job, Limit <- MaxConcurrentRuns,
    holding <- Holding, published <- Published, replayed <- Replayed

\* Whatever crashes, timeouts and late exits do to ids, Maps and streams,
\* each step of daemon and clients is a step of the lease: no grant beside
\* a held one, no result without the lease, no replay of a result nobody
\* published.
ImplementsLease == Lease!LeaseSpec

-----------------------------------------------------------------------------
(* What the documentation says and the code does not do. *)

\* docs/torque-coord.md: the daemon "serializes concurrent torque-remote
\* invocations": two commands that were both granted the project's lock do
\* not run at the same time.
OneRunPerProject ==
    \A c, d \in Clients :
        /\ c # d
        /\ pc[c] = "running" /\ how[c] = "acquired"
        /\ pc[d] = "running" /\ how[d] = "acquired"
        => Job[c].project # Job[d].project
=============================================================================
