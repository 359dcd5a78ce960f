----------------------------- MODULE MCAuthSessions ----------------------------
(***************************************************************************)
(* Symmetry of the requests and of the slugs of AuthSessions.              *)
(***************************************************************************)
EXTENDS AuthSessions, TLC

Symmetry == Permutations(Requests) \cup Permutations(Slugs)
=============================================================================
