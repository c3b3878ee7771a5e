--------------------------- MODULE MCCanBusSource ---------------------------
(* CanBusSource for TLC: two interchangeable sources. *)
EXTENDS CanBusSource, TLC
Symmetry == Permutations(Source)
=============================================================================
