------------------------------- MODULE MCClht -------------------------------
(* Small instances of Clht.                                                *)
EXTENDS Clht, TLC
============================================================================
