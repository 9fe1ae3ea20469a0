------------------------------- MODULE Mutex -------------------------------
(***************************************************************************)
(* What every lock of the library promises its callers, whatever algorithm *)
(* is behind it: a thread that asks is granted the lock when nobody owns   *)
(* it, a trylock either gets it or returns busy, and only the owner gives  *)
(* it back.  The lock modules are shown to implement Spec.                 *)
(***************************************************************************)
CONSTANTS Threads     \* the threads that share the lock

VARIABLE mode         \* mode[t]: what thread t is doing with the lock

Modes == {"idle", "waiting", "trying", "owner"}

Init == mode = [t \in Threads |-> "idle"]

Unowned == \A t \in Threads : mode[t] # "owner"

(* lock() and trylock() are called.                                        *)
Ask(t) ==
  /\ mode[t] = "idle"
  /\ \E m \in {"waiting", "trying"} : mode' = [mode EXCEPT ![t] = m]

(* The call succeeds: the lock had no owner.                               *)
Grant(t) ==
  /\ mode[t] \in {"waiting", "trying"}
  /\ Unowned
  /\ mode' = [mode EXCEPT ![t] = "owner"]

(* trylock() returns busy.                                                 *)
Busy(t) ==
  /\ mode[t] = "trying"
  /\ mode' = [mode EXCEPT ![t] = "idle"]

(* unlock() by the owner.                                                  *)
Unlock(t) ==
  /\ mode[t] = "owner"
  /\ mode' = [mode EXCEPT ![t] = "idle"]

Next == \E t \in Threads : Ask(t) \/ Grant(t) \/ Busy(t) \/ Unlock(t)

Spec == Init /\ [][Next]_mode
============================================================================
