----------------------------- MODULE MCIdentity -----------------------------
(***************************************************************************)
(* TLC instance of Identity: d1 and d2 have one preamble, d1 and d6 one    *)
(* text, d1, d6 and d4 three titles with one id, d3 and d5 one title; two  *)
(* files have d1, two the preamble of d3, and one contract is blank.       *)
(***************************************************************************)
EXTENDS Identity, TLC

CONSTANTS d1, d2, d3, d4, d5, d6, blank, h1, h2, h3

MCDocs == {d1, d2, d3, d4, d5, d6, blank}
MCBlank == {blank}
MCTitleOf == d1 :> "a" @@ d2 :> "b" @@ d3 :> "c" @@ d4 :> "a long" @@ d5 :> "c" @@ d6 :> "A"
                @@ blank :> "a long"
MCTextOf == [d \in MCDocs |-> IF d = d6 THEN d1 ELSE d]
MCIdOf == "a" :> 1 @@ "A" :> 1 @@ "a long" :> 1 @@ "b" :> 2 @@ "c" :> 3
MCHashes == {h1, h2, h3}
MCHashOf == d1 :> h1 @@ d2 :> h1 @@ d3 :> h2 @@ d4 :> h2 @@ d5 :> h2 @@ d6 :> h1 @@ blank :> h3
MCLists == {<<d1, d3, d2>>, <<blank, d6, d5>>, <<d1, d3, d4>>}
=============================================================================
