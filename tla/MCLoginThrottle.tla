-------------------------- MODULE MCLoginThrottle --------------------------
(* Symmetry for the instances of LoginThrottle.                            *)
EXTENDS LoginThrottle, TLC

Symmetric == Permutations(Clients) \cup Permutations(Threads)
=============================================================================
