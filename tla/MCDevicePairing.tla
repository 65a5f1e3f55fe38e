--------------------------- MODULE MCDevicePairing ---------------------------
(* Small instances of DevicePairing.  Users and claimers are interchangeable; *)
(* codes and ids are drawn by CHOOSE and cannot be part of a symmetry set.    *)
EXTENDS DevicePairing, TLC

Symmetry == Permutations(Users) \cup Permutations(Claimers)
=============================================================================
