------------------------------ MODULE RunLease ------------------------------
(***************************************************************************)
(* What the remote test coordinator promises, without its lock ids, Maps,  *)
(* streams and clocks: a run holds the lease of its project, a lease is    *)
(* given back by the run itself or taken away with nothing published, only *)
(* a run that still holds its lease publishes, and only a published result *)
(* of the same project and key is replayed.                                *)
(***************************************************************************)
EXTENDS Naturals, FiniteSets

CONSTANTS
    Runs,   \* the invocations
    JobOf,  \* Runs -> a record with the project and the result key
    Limit   \* leases that may be held at the same time

VARIABLES
    holding,    \* runs that hold the lease of their project
    published,  \* runs whose result may be replayed
    replayed    \* runs that were answered with a published result

leaseVars == <<holding, published, replayed>>

SameProject(r, s) == JobOf[r].project = JobOf[s].project
SameResult(r, s) == SameProject(r, s) /\ JobOf[r].key = JobOf[s].key

LeaseInit == holding = {} /\ published = {} /\ replayed = {}

Grant(r) ==
    /\ \A s \in holding : ~ SameProject(r, s)
    /\ Cardinality(holding) < Limit
    /\ holding' = holding \cup {r}
    /\ UNCHANGED <<published, replayed>>

\* The lease and the result change hands in one step.
GiveBack(r, passed) ==
    /\ r \in holding
    /\ holding' = holding \ {r}
    /\ published' = IF passed THEN {s \in published : ~ SameResult(r, s)} \cup {r}
                    ELSE published
    /\ UNCHANGED replayed

\* Leases are lost: nothing is published for their holders.
Revoke(S) ==
    /\ holding' = holding \ S
    /\ UNCHANGED <<published, replayed>>

Expire(r) ==
    /\ published' = published \ {r}
    /\ UNCHANGED <<holding, replayed>>

Replay(r) ==
    /\ \E s \in published : SameResult(r, s)
    /\ replayed' = replayed \cup {r}
    /\ UNCHANGED <<holding, published>>

LeaseNext ==
    \/ \E r \in Runs :
          \/ Grant(r) \/ Expire(r) \/ Replay(r)
          \/ \E passed \in BOOLEAN : GiveBack(r, passed)
    \/ \E S \in SUBSET holding : Revoke(S)

LeaseSpec == LeaseInit /\ [][LeaseNext]_leaseVars
=============================================================================
