---------------------------- MODULE MCAnswering ----------------------------
(* Answering with a document of two chunks, one of them a preamble.         *)
EXTENDS Answering

CONSTANTS c1, c2

MCChunks == {c1, c2}
MCPreambles == {c1}
=============================================================================
