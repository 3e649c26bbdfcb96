------------------------------- MODULE MCTask --------------------------------
(* Small instances of TaskLifecycle for TLC. *)
EXTENDS TaskLifecycle, TLC

CONSTANTS t1, t2, p1, p2

\* p2 is a provider whose limit is 0; on p1 only max_concurrent bites.
MCLimits == (p1 :> 2 @@ p2 :> 0)
MCOneLimit == (p1 :> 1)
TaskSymmetry == Permutations({t1, t2})
=============================================================================
