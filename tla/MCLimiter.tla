----------------------------- MODULE MCLimiter ------------------------------
(* Limiter for TLC: addresses and callers are interchangeable.             *)
EXTENDS Limiter, TLC

Symmetry == Permutations(Addresses) \cup Permutations(Callers)
=============================================================================
