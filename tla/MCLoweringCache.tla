-------------------------- MODULE MCLoweringCache --------------------------
(***************************************************************************)
(* LoweringCache behind Registry: one library of three versions, two       *)
(* semantics and two requests.                                             *)
(***************************************************************************)
EXTENDS Registry, TLC

Versions == {<<2>>, <<2, 9>>, <<2, 10>>}

Files == {"manifest", "implementation"}

Symmetry == Permutations(Request) \cup Permutations(Semantics)

(* A new version starts as a copy of the last one; it is the edits that    *)
(* make versions differ, in semantics, stamps or both.                     *)
MCInit == RegistryInit /\ \A v, w \in Library : disk[v] = disk[w]

MCSpec == MCInit /\ [][RegistryNext]_registryVars

=============================================================================
