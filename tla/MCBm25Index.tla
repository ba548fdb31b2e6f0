---------------------------- MODULE MCBm25Index ----------------------------
(* Instances of Bm25Index: a document of two chunks and one of one chunk.  *)
EXTENDS Bm25Index, TLC
CONSTANTS c1, c2, c3

TwoDocuments    == {{c1, c2}, {c3}}
Interchangeable == Permutations(Writers) \cup Permutations(Tokens)
=============================================================================
