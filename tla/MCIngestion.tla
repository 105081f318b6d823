---------------------------- MODULE MCIngestion ----------------------------
(***************************************************************************)
(* TLC instances of Ingestion: two texts of one chunk, one of both chunks, *)
(* and a blank one.  From one text to another a document gains a chunk,    *)
(* loses one, or changes one for another; one of its chunks may be kept.   *)
(***************************************************************************)
EXTENDS Ingestion, TLC

CONSTANTS a, b, c, blank, k1, k2

MCContents == {a, b, c, blank}
MCChunks == {k1, k2}
MCChunksOf == a :> {k1} @@ b :> {k1, k2} @@ c :> {k2} @@ blank :> {}

Symmetry == Permutations(Docs)
=============================================================================
