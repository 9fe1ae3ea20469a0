------------------------------- MODULE MCSpin -------------------------------
(* Three threads on one lock; tickets wrap round every eight.              *)
EXTENDS SpinLocks
============================================================================
