---------------------------- MODULE MCAskSession ----------------------------
(***************************************************************************)
(* TLC instances of AskSession.                                            *)
(***************************************************************************)
EXTENDS AskSession, TLC

CONSTANTS u1, u2, d1, d2, q1, q2

MCUsers == {u1, u2}
MCDocs == {d1, d2}
MCSays == u1 :> {q1, d1} @@ u2 :> {q2}

Symmetry == Permutations(Requests)
=============================================================================
