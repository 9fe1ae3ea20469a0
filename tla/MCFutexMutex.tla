---------------------------- MODULE MCFutexMutex ----------------------------
(* Small instances of FutexMutex.                                          *)
EXTENDS FutexMutex, TLC
============================================================================
