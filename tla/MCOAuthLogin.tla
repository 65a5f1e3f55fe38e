---------------------------- MODULE MCOAuthLogin ----------------------------
(* A small instance of OAuthLogin.  Users, states and sessions are drawn by  *)
(* CHOOSE; emails, identities and requests are interchangeable.              *)
EXTENDS OAuthLogin, TLC

Symmetry == Permutations(Emails) \cup Permutations(Identities) \cup Permutations(Requests)
=============================================================================
