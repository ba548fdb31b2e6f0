----------------------------- MODULE MCDocWrite -----------------------------
(* Instances of DocWrite for TLC.                                          *)
EXTENDS DocWrite, TLC

Interchangeable == Permutations(Reqs)
=============================================================================
