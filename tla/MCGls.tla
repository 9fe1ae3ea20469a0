------------------------------- MODULE MCGls -------------------------------
(* Three threads and two addresses: two threads can wait for each other    *)
(* while the third waits for one of them.                                  *)
EXTENDS Gls
============================================================================
