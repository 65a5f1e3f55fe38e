---------------------------- MODULE MCAccountApi ----------------------------
(* A small instance of AccountApi.  All ids are interchangeable.             *)
EXTENDS AccountApi, TLC

Symmetry == Permutations(Tokens) \cup Permutations(Requests)
=============================================================================
