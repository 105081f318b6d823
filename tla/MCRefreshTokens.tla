-------------------------- MODULE MCRefreshTokens --------------------------
(***************************************************************************)
(* TLC instances of RefreshTokens.  Users, tokens and threads are          *)
(* interchangeable and no property is a liveness property: symmetry is     *)
(* sound.                                                                  *)
(***************************************************************************)
EXTENDS RefreshTokens, TLC

Symmetry == Permutations(Users) \cup Permutations(Tokens) \cup Permutations(Requests)
=============================================================================
