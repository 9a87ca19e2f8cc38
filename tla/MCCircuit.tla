------------------------------ MODULE MCCircuit -----------------------------
(* Circuit on small instances. *)
EXTENDS Circuit, TLC

Symmetry == Permutations(Relays) \cup Permutations(Ids)
=============================================================================
