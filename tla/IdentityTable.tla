--------------------------- MODULE IdentityTable ---------------------------
(***************************************************************************)
(* What the extraction of identities and the build promise together: what  *)
(* is once known of a preamble stays as it is, and a row of the registry   *)
(* has what was known of its contract, or the fallback.                    *)
(***************************************************************************)
CONSTANTS Docs, Ids, Hashes, HashOf, None

VARIABLES
    known,  \* the identity of each preamble, or None
    row     \* the contract under each id, and where its identity is from

Init == known = [h \in Hashes |-> None] /\ row = [id \in Ids |-> None]

Learn ==
    /\ known' \in [Hashes -> {None, "found", "failed"}]
    /\ \A h \in Hashes : known[h] # None => known'[h] = known[h]
    /\ UNCHANGED row

\* The build may have read the table before the identity was learnt.
Register(id, d) ==
    /\ \E source \in {known[HashOf[d]], "regex_fallback"} \ {None} :
           row' = [row EXCEPT ![id] = [contract |-> d, source |-> source]]
    /\ UNCHANGED known

Next == Learn \/ \E id \in Ids, d \in Docs : Register(id, d)

Spec == Init /\ [][Next]_<<known, row>>
=============================================================================
