-------------------------------- MODULE Mcs --------------------------------
(***************************************************************************)
(* The MCS queue lock.  A lock is a pointer to the last node of its queue. *)
(* In src/glk.c and src/mcs_glk_in.c the nodes do not belong to a lock:    *)
(* each thread has a few in thread-local memory, with a table that says    *)
(* for which lock each of them is in use, so that a thread may hold        *)
(* several locks together and release them in any order.  In src/mcs_in.c  *)
(* every lock has an array of nodes, one for each thread.                  *)
(*                                                                         *)
(* order is not in the code: it is the history of the swaps, and lets the  *)
(* module be compared with FifoLock.                                       *)
(***************************************************************************)
EXTENDS Naturals, Sequences, FiniteSets, Functions

CONSTANTS
  Threads,      \* the threads
  NumLocks,     \* how many locks there are
  Uses,         \* Uses[t]: the locks that thread t uses
  Slots,        \* MCS_NESTED_LOCKS_MAX: nodes of a thread
  Variants,     \* the copies compiled in: "table" or "array"
  Null          \* the null pointer

Locks == 1 .. NumLocks
Nodes == Threads \X (1 .. Slots)

(* A thread never runs out of nodes (the code asserts it).                 *)
ASSUME McsAssumption ==
  /\ NumLocks \in Nat /\ Slots \in Nat
  /\ NumLocks <= Slots
  /\ Uses \in [Threads -> SUBSET Locks]
  /\ Null \notin Nodes \cup Locks
  /\ Variants \subseteq {"table", "array"}

VARIABLES
  variant,      \* where the nodes are kept, fixed at compile time
  tail,         \* tail[l]: lock->next, the last node in the queue of l
  head,         \* head[n]: the lock for which node n is in use (with the
                \* array, history: the program that holds it knows)
  next,         \* next[n]: the node behind n
  waiting,      \* waiting[n]: the word on which the owner of n spins
  pc,           \* where each thread is
  lock, node,   \* the lock of its call and its node for it
  other,        \* its local pred, succ or curr
  order         \* history: the threads in the order of their swaps

vars == <<variant, tail, head, next, waiting, pc, lock, node, other, order>>

Init ==
  /\ variant \in Variants
  /\ tail = [l \in Locks |-> Null]
  /\ head = [n \in Nodes |-> Null]
  /\ next = [n \in Nodes |-> Null]
  /\ waiting = [n \in Nodes |-> 0]
  /\ pc = [t \in Threads |-> "idle"]
  /\ lock = [t \in Threads |-> Null]
  /\ node = [t \in Threads |-> Null]
  /\ other = [t \in Threads |-> Null]
  /\ order = [l \in Locks |-> <<>>]

Goto(t, label) == pc' = [pc EXCEPT ![t] = label]

(* The call returns, and its local variables are gone.                     *)
Return(t) ==
  /\ Goto(t, "idle")
  /\ lock' = [lock EXCEPT ![t] = Null]
  /\ node' = [node EXCEPT ![t] = Null]
  /\ other' = [other EXCEPT ![t] = Null]

(* The first slot of thread t whose entry is l, or free (l = Null).        *)
Slot(t, l) ==
  <<t, CHOOSE i \in 1 .. Slots :
         head[<<t, i>>] = l /\ \A j \in 1 .. i - 1 : head[<<t, j>>] # l>>

(* The node that t gets to lock l, and the one it finds to unlock it.      *)
GetLocal(t, l) == IF variant = "array" THEN <<t, l>> ELSE Slot(t, Null)
Local(t, l) == IF variant = "array" THEN <<t, l>> ELSE Slot(t, l)

(* The locks that t has nodes for, but for the one it is about to get.     *)
Held(t) == {l \in Locks : l # lock[t] /\ \E i \in 1 .. Slots : head[<<t, i>>] = l}

(* Callers take the locks in one order, or they would deadlock whatever    *)
(* the lock does.                                                          *)
MayWaitFor(t, l) == \A h \in Held(t) : h < l

----------------------------------------------------------------------------
(* mcs_lock_lock                                                           *)

(* Broken: the node comes with the successor it had in its last queue.     *)
CallKeepsNext(t, l) ==
  LET n == GetLocal(t, l) IN
  /\ pc[t] = "idle" /\ l \notin Held(t) /\ MayWaitFor(t, l)
  /\ head' = [head EXCEPT ![n] = l]
  /\ lock' = [lock EXCEPT ![t] = l]
  /\ node' = [node EXCEPT ![t] = n]
  /\ Goto(t, "swap")
  /\ UNCHANGED <<variant, tail, next, waiting, other, order>>

(* mcs_get_local_lock gives a node, which is made the last of a queue.     *)
Call(t, l) ==
  LET n == GetLocal(t, l) IN
  /\ pc[t] = "idle" /\ l \notin Held(t) /\ MayWaitFor(t, l)
  /\ head' = [head EXCEPT ![n] = l]
  /\ next' = [next EXCEPT ![n] = Null]
  /\ lock' = [lock EXCEPT ![t] = l]
  /\ node' = [node EXCEPT ![t] = n]
  /\ Goto(t, "swap")
  /\ UNCHANGED <<variant, tail, waiting, other, order>>

Swap(t) ==
  LET l == lock[t] IN
  /\ pc[t] = "swap"
  /\ tail' = [tail EXCEPT ![l] = node[t]]
  /\ order' = [order EXCEPT ![l] = Append(@, t)]
  /\ \/ tail[l] = Null /\ Return(t)
     \/ /\ tail[l] # Null
        /\ other' = [other EXCEPT ![t] = tail[l]]
        /\ Goto(t, "raise")
        /\ UNCHANGED <<lock, node>>
  /\ UNCHANGED <<variant, head, next, waiting>>

RaiseWaiting(t) ==
  /\ pc[t] = "raise"
  /\ waiting' = [waiting EXCEPT ![node[t]] = 1]
  /\ Goto(t, "link")
  /\ UNCHANGED <<variant, tail, head, next, lock, node, other, order>>

(* From here on the thread ahead can see this one.                         *)
LinkToPred(t) ==
  /\ pc[t] = "link"
  /\ next' = [next EXCEPT ![other[t]] = node[t]]
  /\ other' = [other EXCEPT ![t] = Null]
  /\ Goto(t, "spin")
  /\ UNCHANGED <<variant, tail, head, waiting, lock, node, order>>

SpinEnds(t) ==
  /\ pc[t] = "spin"
  /\ waiting[node[t]] = 0
  /\ Return(t)
  /\ UNCHANGED <<variant, tail, head, next, waiting, order>>

----------------------------------------------------------------------------
(* mcs_lock_trylock                                                        *)

(* The first look: a lock that is taken costs no node.                     *)
CallTry(t, l) ==
  LET n == GetLocal(t, l) IN
  /\ pc[t] = "idle" /\ l \notin Held(t)
  /\ tail[l] = Null
  /\ head' = [head EXCEPT ![n] = l]
  /\ next' = [next EXCEPT ![n] = Null]
  /\ lock' = [lock EXCEPT ![t] = l]
  /\ node' = [node EXCEPT ![t] = n]
  /\ Goto(t, "try")
  /\ UNCHANGED <<variant, tail, waiting, other, order>>

(* Broken: a plain store, for the lock was free at the first look.         *)
TryStore(t) ==
  LET l == lock[t] IN
  /\ pc[t] = "try"
  /\ tail' = [tail EXCEPT ![l] = node[t]]
  /\ order' = [order EXCEPT ![l] = Append(@, t)]
  /\ Return(t)
  /\ UNCHANGED <<variant, head, next, waiting>>

(* Broken: a trylock that fails keeps its node.                            *)
TryKeepsNode(t) ==
  LET l == lock[t] IN
  /\ pc[t] = "try"
  /\ \/ /\ tail[l] = Null
        /\ tail' = [tail EXCEPT ![l] = node[t]]
        /\ order' = [order EXCEPT ![l] = Append(@, t)]
     \/ /\ tail[l] # Null
        /\ UNCHANGED <<tail, order>>
  /\ Return(t)
  /\ UNCHANGED <<variant, head, next, waiting>>

TryCas(t) ==
  LET l == lock[t] IN
  /\ pc[t] = "try"
  /\ \/ /\ tail[l] = Null
        /\ tail' = [tail EXCEPT ![l] = node[t]]
        /\ order' = [order EXCEPT ![l] = Append(@, t)]
        /\ UNCHANGED head
     \/ /\ tail[l] # Null
        /\ head' = [head EXCEPT ![node[t]] = Null]
        /\ UNCHANGED <<tail, order>>
  /\ Return(t)
  /\ UNCHANGED <<variant, next, waiting>>

----------------------------------------------------------------------------
(* mcs_lock_unlock                                                         *)

(* The node leaves the table before the queue does.                        *)
Unlock(t, l) ==
  LET n == Local(t, l) IN
  /\ pc[t] = "idle" /\ l \in Held(t)
  /\ head' = [head EXCEPT ![n] = Null]
  /\ lock' = [lock EXCEPT ![t] = l]
  /\ node' = [node EXCEPT ![t] = n]
  /\ other' = [other EXCEPT ![t] = next[n]]
  /\ Goto(t, IF next[n] = Null THEN "unlock_cas" ELSE "pass")
  /\ UNCHANGED <<variant, tail, next, waiting, order>>

(* Broken: returns without a successor to hand the lock to.                *)
UnlockCasGivesUp(t) ==
  LET l == lock[t] IN
  /\ pc[t] = "unlock_cas"
  /\ tail' = [tail EXCEPT ![l] = IF @ = node[t] THEN Null ELSE @]
  /\ order' = [order EXCEPT ![l] = Tail(@)]
  /\ Return(t)
  /\ UNCHANGED <<variant, head, next, waiting>>

UnlockCas(t) ==
  LET l == lock[t] IN
  /\ pc[t] = "unlock_cas"
  /\ \/ /\ tail[l] = node[t]
        /\ tail' = [tail EXCEPT ![l] = Null]
        /\ order' = [order EXCEPT ![l] = Tail(@)]
        /\ Return(t)
     \/ /\ tail[l] # node[t]
        /\ Goto(t, "find")
        /\ UNCHANGED <<tail, order, lock, node, other>>
  /\ UNCHANGED <<variant, head, next, waiting>>

(* Somebody has swapped, and is yet to link.                               *)
FindSucc(t) ==
  /\ pc[t] = "find"
  /\ next[node[t]] # Null
  /\ other' = [other EXCEPT ![t] = next[node[t]]]
  /\ Goto(t, "pass")
  /\ UNCHANGED <<variant, tail, head, next, waiting, lock, node, order>>

Pass(t) ==
  /\ pc[t] = "pass"
  /\ waiting' = [waiting EXCEPT ![other[t]] = 0]
  /\ order' = [order EXCEPT ![lock[t]] = Tail(@)]
  /\ Return(t)
  /\ UNCHANGED <<variant, tail, head, next>>

----------------------------------------------------------------------------
(* gls_adaptinve_mcs_lock_queue_length, in glk.c only: the holder walks    *)
(* down the queue while others join it.                                    *)

Measure(t, l) ==
  LET n == Local(t, l) IN
  /\ pc[t] = "idle" /\ l \in Held(t)
  /\ variant = "table" /\ next[n] # Null
  /\ lock' = [lock EXCEPT ![t] = l]
  /\ node' = [node EXCEPT ![t] = n]
  /\ other' = [other EXCEPT ![t] = next[n]]
  /\ Goto(t, "walk")
  /\ UNCHANGED <<variant, tail, head, next, waiting, order>>

Walk(t) ==
  /\ pc[t] = "walk"
  /\ \/ next[other[t]] = Null /\ Return(t)
     \/ /\ next[other[t]] # Null
        /\ other' = [other EXCEPT ![t] = next[@]]
        /\ UNCHANGED <<pc, lock, node>>
  /\ UNCHANGED <<variant, tail, head, next, waiting, order>>

----------------------------------------------------------------------------
(* What a thread does inside a call.                                       *)
Step(t) ==
  \/ Swap(t) \/ RaiseWaiting(t) \/ LinkToPred(t) \/ SpinEnds(t) \/ TryCas(t)
  \/ UnlockCas(t) \/ FindSucc(t) \/ Pass(t) \/ Walk(t)

Next ==
  \E t \in Threads :
    \/ Step(t)
    \/ \E l \in Uses[t] : Call(t, l) \/ CallTry(t, l) \/ Unlock(t, l) \/ Measure(t, l)

Spec == Init /\ [][Next]_vars

(* Calls return if the lock lets them, and a thread that holds locks gives *)
(* them back sooner or later, whatever else it does meanwhile.             *)
FairSpec ==
  /\ Spec
  /\ \A t \in Threads :
       WF_vars(Step(t)) /\ \A l \in Uses[t] : SF_vars(Unlock(t, l))

----------------------------------------------------------------------------
(* Properties.                                                             *)

Labels == {"idle", "swap", "raise", "link", "spin", "try", "unlock_cas",
           "find", "pass", "walk"}

(* Every pointer is null or points to a node, and so on.                   *)
TypeOK ==
  /\ tail \in [Locks -> Nodes \cup {Null}]
  /\ head \in [Nodes -> Locks \cup {Null}]
  /\ next \in [Nodes -> Nodes \cup {Null}]
  /\ waiting \in [Nodes -> {0, 1}]
  /\ pc \in [Threads -> Labels]
  /\ lock \in [Threads -> Locks \cup {Null}]
  /\ node \in [Threads -> Nodes \cup {Null}]
  /\ other \in [Threads -> Nodes \cup {Null}]

(* t has returned from lock or trylock of l, and not yet from unlock.      *)
Owns(t, l) ==
  \/ l \in Held(t)
  \/ lock[t] = l /\ pc[t] \in {"unlock_cas", "find", "pass", "walk"}

(* A queue lock is more than mutual exclusion: with order for the queue,   *)
(* the lock is given in the order of the swaps on lock->next, it is never  *)
(* given to two threads, and a trylock never overtakes the queue.          *)
Fifo == INSTANCE FifoLock WITH
  NoThread <- Null, queue <- order,
  owner <- [l \in Locks |->
              IF \E t \in Threads : Owns(t, l)
              THEN CHOOSE t \in Threads : Owns(t, l) ELSE Null]
ImplementsFifo == Fifo!Spec

(* The tables of mcs_get_local_lock and _unlock stay in step with the      *)
(* queues: a node is in use for a lock only while its thread has a place   *)
(* in the queue of that lock or is on its way to it.  A node that is not   *)
(* given back would serve the next unlock of that lock.                    *)
NodeUsed ==
  \A n \in Nodes :
    head[n] # Null =>
      LET t == n[1] IN
      /\ t \in Range(order[head[n]]) \/ (pc[t] \in {"swap", "try"} /\ node[t] = n)
      /\ \A m \in Nodes : m[1] = t /\ head[m] = head[n] => m = n

(* The thread that measures the queue reads thread-local nodes of other    *)
(* threads, and follows no stale pointer: each node it gets to is that of  *)
(* a thread that is waiting for this very lock.                            *)
WalkStaysInQueue ==
  \A t \in Threads :
    pc[t] = "walk" =>
      /\ head[other[t]] = lock[t]
      /\ other[t][1] \in Range(Tail(order[lock[t]]))

(* No hand-over is lost, whatever happens between the swap of a thread and *)
(* its link to the thread ahead: every call of lock, and of unlock, ends.  *)
EveryCallReturns == \A t \in Threads : pc[t] # "idle" ~> pc[t] = "idle"
============================================================================
