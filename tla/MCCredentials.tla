--------------------------- MODULE MCCredentials ---------------------------
(* Small instances of Credentials.  Tokens and sessions are drawn by CHOOSE; *)
(* emails and requests are interchangeable.                                  *)
EXTENDS Credentials, TLC

Symmetry == Permutations(Emails) \cup Permutations(Requests)
=============================================================================
