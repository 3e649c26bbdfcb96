------------------------------ MODULE MCCoord ------------------------------
(***************************************************************************)
(* Instances of CoordClients: three invocations, two of them for the same  *)
(* project and result key but with different package-lock hashes.          *)
(***************************************************************************)
EXTENDS CoordClients, TLC

CONSTANTS c1, c2, c3, c4, p1, p2, p3, k1, h1, h2, l1, l2, l3, l4

MCClients == {c1, c2, c3}
MCFourClients == {c1, c2, c3, c4}
MCProjects == {p1, p2, p3}
MCKeys == {k1}
MCHashes == {h1, h2}
MCLockIds == {l1, l2, l3}
MCFourLockIds == {l1, l2, l3, l4}

MCJob == (c1 :> [project |-> p1, key |-> k1, hashes |-> h1])
      @@ (c2 :> [project |-> p1, key |-> k1, hashes |-> h2])
      @@ (c3 :> [project |-> p2, key |-> k1, hashes |-> h1])

\* A fourth invocation: with two slots all four refusals and grants mix.
MCFourJob == MCJob @@ (c4 :> [project |-> p3, key |-> k1, hashes |-> h1])

\* Lock ids are interchangeable.
Symmetry == Permutations(MCFourLockIds)
=============================================================================
