----------------------------- MODULE MCDirectory ----------------------------
(* Directory on small instances. *)
EXTENDS Directory, TLC

Symmetry == Permutations(Objs) \cup Permutations(Handlers)
=============================================================================
