------------------------------- MODULE MCGlk -------------------------------
(* Small instances of Glk; IInv can be added to the invariants of a run.   *)
EXTENDS GlkInvariant, TLC

Symmetry == Permutations(Threads)
============================================================================
