-------------------------- MODULE MCCircuitBreaker --------------------------
(***************************************************************************)
(* CircuitBreaker for TLC: outcomes differ by nothing but their names.     *)
(***************************************************************************)
EXTENDS CircuitBreaker, TLC

Symmetry == Permutations(Outcomes)
=============================================================================
