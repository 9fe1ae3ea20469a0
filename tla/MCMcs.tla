------------------------------- MODULE MCMcs -------------------------------
(* A small instance of Mcs: one thread nests two locks, and two more wait  *)
(* behind it for the second, so that a queue of three forms with a node    *)
(* that is not the first of its thread.                                    *)
EXTENDS Mcs, TLC

CONSTANTS t1, t2, t3

MCThreads == {t1, t2, t3}
MCUses == (t1 :> {1, 2}) @@ (t2 :> {2}) @@ (t3 :> {2})
============================================================================
