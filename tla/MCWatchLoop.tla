---------------------------- MODULE MCWatchLoop -----------------------------
(* Instances of WatchLoop for TLC.                                         *)
EXTENDS WatchLoop, TLC

Interchangeable == Permutations(WatchIds) \cup Permutations(Files)
=============================================================================
