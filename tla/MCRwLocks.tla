----------------------------- MODULE MCRwLocks -----------------------------
(* Three threads, each of which may read and write.                        *)
EXTENDS RwLocks
============================================================================
