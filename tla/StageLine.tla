------------------------------ MODULE StageLine ------------------------------
(***************************************************************************)
(* What the factory promises of the stages of its loop, without work       *)
(* items, pauses, gates, claims, jobs and suspended advances: a stage      *)
(* holds one instance, an instance goes from stage to stage along Route,   *)
(* and one that has left the line does not come back.  A second advance    *)
(* started beside the first, or a cancelled one that goes on, can take an  *)
(* instance off its route, but neither into an occupied stage nor back     *)
(* into the line.                                                          *)
(***************************************************************************)
CONSTANT Line  \* the loop instances

VARIABLES
    place,  \* the stage of each instance, "NONE" before and "IDLE" after the line
    loose   \* the instances that such advances may have taken off the route

lineVars == <<place, loose>>

\* A pass of the loop, the way back of a plan that could not be executed, and
\* the short cut of work that was found done.
Route == {<<"NONE", "SENSE">>, <<"SENSE", "PRIORITIZE">>, <<"PRIORITIZE", "PLAN">>,
          <<"PLAN", "EXECUTE">>, <<"EXECUTE", "VERIFY">>, <<"VERIFY", "LEARN">>,
          <<"LEARN", "SENSE">>, <<"EXECUTE", "PRIORITIZE">>, <<"EXECUTE", "LEARN">>}

StageNames == {"SENSE", "PRIORITIZE", "PLAN", "EXECUTE", "VERIFY", "LEARN"}

LineInit == place = [i \in Line |-> "NONE"] /\ loose = {}

Stays(i) == place'[i] \in {place[i], "IDLE"}

\* An instance enters a stage that is empty or is left in the same step.
Enters(i) ==
    /\ place[i] # "IDLE" /\ place'[i] \in StageNames
    /\ <<place[i], place'[i]>> \in Route \/ i \in loose'
    /\ \A j \in Line \ {i} : Stays(j) /\ place'[j] # place'[i]

LineNext ==
    /\ place' \in [Line -> StageNames \cup {"NONE", "IDLE"}]
    /\ loose' \in SUBSET Line /\ loose \subseteq loose'
    /\ (\A i \in Line : Stays(i)) \/ \E i \in Line : Enters(i)

LineSpec == LineInit /\ [][LineNext]_lineVars
=============================================================================
