------------------------------- MODULE MCCond -------------------------------
(* Three threads that meet at one of the barriers, or one that gives two   *)
(* tokens to the two others.                                               *)
EXTENDS Cond
============================================================================
