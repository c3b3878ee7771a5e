----------------------------- MODULE MCRuntime -----------------------------
(* Runtime for TLC: callers and configurations are interchangeable. *)
EXTENDS Runtime, TLC

AllKinds == [retry : BOOLEAN, bounded : BOOLEAN]
Symmetry == Permutations(Caller) \cup Permutations(Configs)
=============================================================================
