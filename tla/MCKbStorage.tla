---------------------------- MODULE MCKbStorage -----------------------------
(* KbStorage for TLC: its constants are bounds, which the .cfg files give.  *)
EXTENDS KbStorage
=============================================================================
