---------------------------- MODULE MCTwoFactor ----------------------------
(* TwoFactor for TLC: the clients are interchangeable. *)
EXTENDS TwoFactor, TLC

Symmetry == Permutations(Clients)
=============================================================================
