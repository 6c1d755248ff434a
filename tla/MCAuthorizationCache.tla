------------------------ MODULE MCAuthorizationCache ------------------------
(* AuthorizationCache for TLC: requests of one kind are interchangeable. *)
EXTENDS AuthorizationCache, TLC

Symmetry == Permutations(Readers) \cup Permutations(Writers)
=============================================================================
