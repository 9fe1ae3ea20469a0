------------------------------ MODULE McsProofs ------------------------------
(***************************************************************************)
(* Proofs about Mcs, for any threads, locks and numbers of nodes that      *)
(* McsAssumption allows: it implements FifoLock, a node is in use for a    *)
(* lock only as long as its thread has or gets a place in the queue, and   *)
(* the walk of glk.c never leaves the queue.                               *)
(*                                                                         *)
(* The pointers of the code do not say which nodes form a queue: the last  *)
(* of them can be swapped in and not yet linked.  The invariant says that  *)
(* there are sequences of nodes, one for each lock, that all the pointers  *)
(* agree with; a step appends to one of them, takes its first node away,   *)
(* or leaves them as they are.                                             *)
(***************************************************************************)
EXTENDS Mcs, FiniteSetTheorems, TLAPS

Coming == {"swap", "try"}
Waiters == {"raise", "link", "spin"}
Leavers == {"unlock_cas", "find", "pass"}
Owners == Leavers \cup {"walk"}

(* The thread of node n is in a call for lock l, and n is its node there.  *)
Busy(n, l) == lock[n[1]] = l /\ node[n[1]] = n

(* q[l] is the queue of lock l, as nodes.  No node has two places.         *)
QueuesFit(q) ==
  /\ q \in [Locks -> Seq(Nodes)]
  /\ \A l, k \in Locks : \A i \in 1 .. Len(q[l]), j \in 1 .. Len(q[k]) :
       q[l][i] = q[k][j] => l = k /\ i = j
  /\ \A l \in Locks : tail[l] = IF q[l] = <<>> THEN Null ELSE q[l][Len(q[l])]
  /\ \A l \in Locks : order[l] \in Seq(Threads) /\ Len(order[l]) = Len(q[l])

(* The i-th node in the queue: its thread waits, or it is the first, and   *)
(* the thread has the lock.                                                *)
Placed(n, l, i) ==
  \/ Busy(n, l) /\ pc[n[1]] \in Waiters
  \/ i = 1 /\ Busy(n, l) /\ pc[n[1]] \in Owners
  \/ i = 1 /\ head[n] = l /\ lock[n[1]] # l

(* It points to the next one once that one has linked itself.              *)
Linked(q, l, i) == i < Len(q[l]) /\ pc[q[l][i + 1][1]] = "spin"
Pointing(q, l, i) == next[q[l][i]] = IF Linked(q, l, i) THEN q[l][i + 1] ELSE Null

EntryFit(q, l, i) ==
  order[l][i] = q[l][i][1] /\ Placed(q[l][i], l, i) /\ Pointing(q, l, i)

(* A thread in a call, and its local variables.                            *)
ThreadFit(q, t) ==
  LET l == lock[t]
      n == node[t]
      m == other[t] IN
  /\ pc[t] = "idle" => l = Null
  /\ pc[t] # "idle" => /\ l \in Locks /\ n \in Nodes /\ n[1] = t
                       /\ variant = "array" => n[2] = l
  /\ pc[t] \in Coming => next[n] = Null /\ \A k \in Locks : \A i \in 1 .. Len(q[k]) : q[k][i] # n
  /\ pc[t] \in Coming \cup Waiters \cup {"walk"} => head[n] = l
  /\ pc[t] \in Leavers => \A i \in 1 .. Slots : head[<<t, i>>] # l
  /\ pc[t] \in {"raise", "link"} => \E i \in 2 .. Len(q[l]) : q[l][i] = n /\ m = q[l][i - 1]
  /\ pc[t] = "spin" =>
       \E i \in 1 .. Len(q[l]) : q[l][i] = n /\ waiting[n] = IF i = 1 THEN 0 ELSE 1
  /\ pc[t] = "link" => waiting[n] = 1
  /\ pc[t] \in Owners => Len(q[l]) > 0 /\ q[l][1] = n
  /\ pc[t] = "find" => Len(q[l]) > 1
  /\ pc[t] = "pass" => Len(q[l]) > 1 /\ m = q[l][2] /\ pc[m[1]] = "spin"
  /\ pc[t] = "walk" => \E i \in 2 .. Len(q[l]) : m = q[l][i]

(* The table of the nodes in use.                                          *)
NodeFit(q, n) ==
  LET l == head[n] IN
  l # Null =>
    /\ variant = "array" => n[2] = l
    /\ \/ \E i \in 1 .. Len(q[l]) : q[l][i] = n
       \/ Busy(n, l) /\ pc[n[1]] \in Coming
    /\ \A i \in 1 .. Slots : head[<<n[1], i>>] = l => i = n[2]

Shape(q) ==
  /\ QueuesFit(q)
  /\ \A l \in Locks : \A i \in 1 .. Len(q[l]) : EntryFit(q, l, i)
  /\ \A t \in Threads : ThreadFit(q, t)
  /\ \A n \in Nodes : NodeFit(q, n)

Typed == TypeOK /\ variant \in Variants /\ DOMAIN order = Locks

IInv == Typed /\ \E q \in [Locks -> Seq(Nodes)] : Shape(q)

----------------------------------------------------------------------------
(* The constants, and the smallest number of a set.                        *)

LEMMA Constants ==
  /\ Slots \in Nat /\ NumLocks \in Nat /\ NumLocks <= Slots
  /\ Locks = 1 .. NumLocks /\ Nodes = Threads \X (1 .. Slots)
  /\ \A n \in Nodes : n[1] \in Threads /\ n[2] \in 1 .. Slots /\ n = <<n[1], n[2]>>
  /\ Null \notin Nodes /\ Null \notin Locks
  /\ \A t \in Threads : Uses[t] \subseteq Locks
  BY McsAssumption DEF Locks, Nodes

LEMMA Smallest ==
  ASSUME NEW S \in SUBSET Nat, S # {}
  PROVE  \E i \in S : \A j \in S : ~(j < i)
<1> DEFINE R == {p \in Nat \X Nat : p[1] < p[2]}
<1>1. IsWellFoundedOn(R, Nat)
  BY NatLessThanWellFounded DEF OpToRel
<1>2. PICK i \in S : \A j \in S : <<j, i>> \notin R
  <2> HIDE DEF R
  <2> QED BY <1>1, WFMin
<1>3. ASSUME NEW j \in S PROVE ~(j < i)
  <2>1. <<j, i>> \notin R /\ <<j, i>> \in Nat \X Nat
    BY <1>2
  <2> QED BY <2>1
<1> QED
  BY <1>3

----------------------------------------------------------------------------
(* The table of a thread's nodes.                                          *)

(* A slot with the entry l, if there is one.                               *)
LEMMA SlotIs ==
  ASSUME NEW t \in Threads, NEW l, \E i \in 1 .. Slots : head[<<t, i>>] = l
  PROVE  /\ Slot(t, l) \in Nodes /\ Slot(t, l)[1] = t
         /\ head[Slot(t, l)] = l
<1> DEFINE S == {i \in 1 .. Slots : head[<<t, i>>] = l}
<1>1. PICK i \in S : \A j \in S : ~(j < i)
  <2>1. S \in SUBSET Nat /\ S # {}
    BY Constants
  <2> HIDE DEF S
  <2> QED BY <2>1, Smallest
<1>2. i \in 1 .. Slots /\ head[<<t, i>>] = l /\ \A j \in 1 .. i - 1 : head[<<t, j>>] # l
  <2>1. i \in 1 .. Slots /\ head[<<t, i>>] = l
    OBVIOUS
  <2>2. ASSUME NEW j \in 1 .. i - 1 PROVE head[<<t, j>>] # l
    <3>1. j \in 1 .. Slots /\ j < i
      BY <2>1, Constants
    <3> QED BY <1>1, <3>1
  <2> QED BY <2>1, <2>2
<1> DEFINE c == CHOOSE k \in 1 .. Slots :
                  head[<<t, k>>] = l /\ \A j \in 1 .. k - 1 : head[<<t, j>>] # l
<1>3. c \in 1 .. Slots /\ head[<<t, c>>] = l
  BY <1>2
<1>4. Slot(t, l) = <<t, c>>
  BY DEF Slot
<1> HIDE DEF c
<1> QED
  BY <1>3, <1>4, Constants

(* A thread that is not in a call holds the locks it has nodes for.        *)
LEMMA HeldIs ==
  ASSUME Typed, NEW q, Shape(q), NEW t \in Threads, pc[t] = "idle", NEW l \in Locks
  PROVE  l \in Held(t) <=> \E i \in 1 .. Slots : head[<<t, i>>] = l
<1>1. lock[t] = Null /\ lock[t] # l
  BY Constants DEF Shape, ThreadFit
<1> QED
  BY <1>1 DEF Held

(* The free node that a call gets is in nobody's queue.                    *)
LEMMA GetsFree ==
  ASSUME Typed, NEW q, Shape(q), NEW t \in Threads, pc[t] = "idle",
         NEW l \in Locks, l \notin Held(t)
  PROVE  LET n == GetLocal(t, l) IN
         /\ n \in Nodes /\ n[1] = t /\ head[n] = Null
         /\ variant = "array" => n[2] = l
         /\ \A k \in Locks : \A i \in 1 .. Len(q[k]) : q[k][i] # n
         /\ \A i \in 1 .. Slots : head[<<t, i>>] # l
<1> DEFINE n == GetLocal(t, l)
<1>1. \A i \in 1 .. Slots : head[<<t, i>>] # l
  BY HeldIs
<1>t. head \in [Nodes -> Locks \cup {Null}] /\ lock[t] = Null
  BY DEF Typed, TypeOK, Shape, ThreadFit
<1>f. \A m \in Nodes : NodeFit(q, m)
  BY DEF Shape
<1>2. n \in Nodes /\ n[1] = t /\ head[n] = Null /\ (variant = "array" => n[2] = l)
  <2>1. CASE variant = "array"
    <3>1. n = <<t, l>> /\ n \in Nodes /\ n[1] = t /\ n[2] = l
      BY <2>1, Constants DEF GetLocal
    <3>2. head[n] # l
      BY <1>1, <3>1, Constants
    <3>3. head[n] # Null => head[n] = l
      BY <1>f, <2>1, <3>1 DEF NodeFit
    <3> QED BY <3>1, <3>2, <3>3
  <2>2. CASE variant # "array"
    <3>1. n = Slot(t, Null)
      BY <2>2 DEF GetLocal
    <3>2. \E i \in 1 .. Slots : head[<<t, i>>] = Null
      <4> SUFFICES ASSUME \A i \in 1 .. Slots : head[<<t, i>>] # Null
                   PROVE  FALSE
        OBVIOUS
      <4> DEFINE f == [i \in 1 .. Slots |-> head[<<t, i>>]]
                 L == Locks \ {l}
      <4>1. \A i \in 1 .. Slots : <<t, i>> \in Nodes /\ head[<<t, i>>] \in L
        BY <1>1, <1>t, Constants
      <4>2. \A i, j \in 1 .. Slots : f[i] = f[j] => i = j
        <5> SUFFICES ASSUME NEW i \in 1 .. Slots, NEW j \in 1 .. Slots,
                            head[<<t, i>>] = head[<<t, j>>]
                     PROVE  i = j
          OBVIOUS
        <5>1. NodeFit(q, <<t, i>>)
          BY <1>f, <4>1
        <5> QED BY <4>1, <5>1, Constants DEF NodeFit
      <4>3. f \in Injection(1 .. Slots, L)
        BY <4>1, <4>2 DEF Injection, IsInjective
      <4>4. /\ IsFiniteSet(Locks) /\ Cardinality(Locks) = NumLocks
            /\ Cardinality(1 .. Slots) = Slots
        <5>1. \A k \in Nat : IsFiniteSet(1 .. k) /\ Cardinality(1 .. k) = k
          <6> TAKE k \in Nat
          <6>1. 1 \in Int /\ k \in Int
            OBVIOUS
          <6>2. IsFiniteSet(1 .. k) /\ Cardinality(1 .. k) = IF 1 > k THEN 0 ELSE k - 1 + 1
            BY <6>1, FS_Interval
          <6> QED BY <6>2
        <5> QED BY <5>1, Constants
      <4>5. IsFiniteSet(L) /\ Cardinality(L) = NumLocks - 1
        BY <4>4, FS_RemoveElement
      <4> HIDE DEF f, L
      <4>6. Cardinality(1 .. Slots) <= Cardinality(L)
        BY <4>3, <4>5, FS_Injection
      <4> QED BY <4>4, <4>5, <4>6, Constants
    <3> QED BY <2>2, <3>1, <3>2, SlotIs
  <2> QED BY <2>1, <2>2
<1>3. ASSUME NEW k \in Locks, NEW i \in 1 .. Len(q[k]), q[k][i] = n
      PROVE  FALSE
  <2>1. EntryFit(q, k, i)
    BY DEF Shape
  <2> HIDE DEF n
  <2>2. lock[n[1]] # k /\ head[n] # k
    BY <1>2, <1>t, Constants
  <2> QED BY <1>3, <2>1, <2>2 DEF EntryFit, Placed, Busy
<1> HIDE DEF n
<1>4. /\ n \in Nodes /\ n[1] = t /\ head[n] = Null
      /\ variant = "array" => n[2] = l
      /\ \A k \in Locks : \A i \in 1 .. Len(q[k]) : q[k][i] # n
      /\ \A i \in 1 .. Slots : head[<<t, i>>] # l
  BY <1>1, <1>2, <1>3
<1> QED
  BY <1>4 DEF n

(* A held lock has one node, and the thread is the first in its queue.     *)
Holds(q, t, l, i) ==
  /\ head[<<t, i>>] = l /\ lock[t] # l
  /\ \A j \in 1 .. Slots : head[<<t, j>>] = l => j = i
  /\ variant = "array" => i = l
  /\ Len(q[l]) > 0 /\ q[l][1] = <<t, i>>

LEMMA HolderFirst ==
  ASSUME Typed, NEW q, Shape(q), NEW t \in Threads, NEW l \in Locks, l \in Held(t)
  PROVE  \E i \in 1 .. Slots : Holds(q, t, l, i)
<1>1. PICK i \in 1 .. Slots : head[<<t, i>>] = l /\ lock[t] # l
  BY DEF Held
<1> DEFINE n == <<t, i>>
<1>2. n \in Nodes /\ n[1] = t /\ n[2] = i
  BY Constants
<1>3. NodeFit(q, n)
  BY <1>2 DEF Shape
<1> HIDE DEF n
<1>4. \A j \in 1 .. Slots : head[<<t, j>>] = l => j = i
  BY <1>1, <1>2, <1>3, Constants DEF NodeFit, n
<1>5. head[n] = l /\ l # Null /\ (variant = "array" => i = l)
  BY <1>1, <1>2, <1>3, Constants DEF NodeFit, n
<1>6. PICK j \in 1 .. Len(q[l]) : q[l][j] = n
  BY <1>1, <1>2, <1>3, <1>5 DEF NodeFit, Busy
<1>7. j = 1
  <2>1. EntryFit(q, l, j)
    BY DEF Shape
  <2> QED BY <1>1, <1>2, <1>6, <2>1 DEF EntryFit, Placed, Busy
<1>8. Len(q[l]) \in Nat
  BY DEF Shape, QueuesFit
<1> QED
  BY <1>1, <1>4, <1>5, <1>6, <1>7, <1>8 DEF n, Holds

LEMMA FindsLocal ==
  ASSUME Typed, NEW q, Shape(q), NEW t \in Threads, NEW l \in Locks, l \in Held(t)
  PROVE  LET n == Local(t, l) IN
         /\ n \in Nodes /\ n[1] = t /\ head[n] = l
         /\ variant = "array" => n[2] = l
         /\ \A j \in 1 .. Slots : head[<<t, j>>] = l => j = n[2]
         /\ Len(q[l]) > 0 /\ q[l][1] = n
<1>0. PICK i \in 1 .. Slots : Holds(q, t, l, i)
  BY HolderFirst
<1>1. /\ head[<<t, i>>] = l
      /\ \A j \in 1 .. Slots : head[<<t, j>>] = l => j = i
      /\ variant = "array" => i = l
      /\ Len(q[l]) > 0 /\ q[l][1] = <<t, i>>
  BY <1>0 DEF Holds
<1>2. Local(t, l) = <<t, i>>
  <2>1. CASE variant = "array"
    BY <1>1, <2>1 DEF Local
  <2>2. CASE variant # "array"
    <3>1. Local(t, l) = Slot(t, l)
      BY <2>2 DEF Local
    <3>2. Slot(t, l) \in Nodes /\ Slot(t, l)[1] = t /\ head[Slot(t, l)] = l
      BY <1>1, SlotIs
    <3>3. Slot(t, l)[2] \in 1 .. Slots /\ Slot(t, l) = <<t, Slot(t, l)[2]>>
      BY <3>2, Constants
    <3> QED BY <1>1, <3>1, <3>2, <3>3
  <2> QED BY <2>1, <2>2
<1> QED
  BY <1>1, <1>2, Constants

----------------------------------------------------------------------------
(* What a step of one thread leaves as it is.                              *)

Acts(t) ==
  \/ Step(t)
  \/ \E l \in Uses[t] : Call(t, l) \/ CallTry(t, l) \/ Unlock(t, l) \/ Measure(t, l)

LEMMA Places ==
  ASSUME NEW q, Shape(q)
  PROVE  /\ \A l \in Locks : q[l] \in Seq(Nodes) /\ Len(q[l]) \in Nat
         /\ \A l \in Locks : \A i \in 1 .. Len(q[l]) : q[l][i] \in Nodes /\ q[l][i][1] \in Threads
         /\ \A l, k \in Locks : \A i \in 1 .. Len(q[l]), j \in 1 .. Len(q[k]) :
              q[l][i] = q[k][j] => l = k /\ i = j
         /\ \A l \in Locks : tail[l] = IF q[l] = <<>> THEN Null ELSE q[l][Len(q[l])]
         /\ \A l \in Locks : q[l] = <<>> <=> Len(q[l]) = 0
<1>1. \A l \in Locks : q[l] \in Seq(Nodes) /\ Len(q[l]) \in Nat
  BY DEF Shape, QueuesFit
<1>2. \A l \in Locks : \A i \in 1 .. Len(q[l]) : q[l][i] \in Nodes
  BY <1>1
<1>3. \A l \in Locks : q[l] = <<>> <=> Len(q[l]) = 0
  BY <1>1
<1> QED
  BY <1>1, <1>2, <1>3, Constants DEF Shape, QueuesFit

(* Only the first in a queue can be somewhere else than waiting for it.    *)
LEMMA Behind ==
  ASSUME NEW q, Shape(q), NEW l \in Locks, NEW i \in 1 .. Len(q[l]), i > 1
  PROVE  LET n == q[l][i] IN
         /\ lock[n[1]] = l /\ node[n[1]] = n /\ pc[n[1]] \in Waiters
         /\ pc[n[1]] = "spin" => waiting[n] = 1
         /\ pc[n[1]] \in {"raise", "link"} => other[n[1]] = q[l][i - 1]
<1> DEFINE n == q[l][i]
           t == n[1]
<1>1. EntryFit(q, l, i)
  BY DEF Shape
<1>2. lock[t] = l /\ node[t] = n /\ pc[t] \in Waiters
  BY <1>1 DEF EntryFit, Placed, Busy
<1>3. n \in Nodes /\ t \in Threads
  BY Places
<1>4. ThreadFit(q, t)
  BY <1>3 DEF Shape
<1>5. \A j \in 1 .. Len(q[l]) : q[l][j] = n => j = i
  BY Places
<1>6. pc[t] = "spin" => waiting[n] = 1
  <2> HIDE DEF t
  <2>1. ASSUME pc[t] = "spin"
        PROVE  \E j \in 1 .. Len(q[l]) : q[l][j] = n /\ waiting[n] = IF j = 1 THEN 0 ELSE 1
    BY <1>2, <1>4, <2>1 DEF ThreadFit
  <2> QED BY <1>5, <2>1
<1>7. pc[t] \in {"raise", "link"} => other[t] = q[l][i - 1]
  <2> HIDE DEF t
  <2>1. ASSUME pc[t] \in {"raise", "link"}
        PROVE  \E j \in 2 .. Len(q[l]) : q[l][j] = n /\ other[t] = q[l][j - 1]
    BY <1>2, <1>4, <2>1 DEF ThreadFit
  <2>2. \A j \in 2 .. Len(q[l]) : j \in 1 .. Len(q[l])
    OBVIOUS
  <2> QED BY <1>5, <2>1, <2>2
<1> QED
  BY <1>2, <1>6, <1>7

Alone(t) ==
  /\ variant' = variant
  /\ \A u \in Threads \ {t} :
       /\ pc'[u] = pc[u] /\ lock'[u] = lock[u]
       /\ node'[u] = node[u] /\ other'[u] = other[u]
  /\ \A n \in Nodes : n[1] # t => head'[n] = head[n]

LEMMA LeavesAlone ==
  ASSUME Typed, NEW q, Shape(q), NEW t \in Threads, Acts(t)
  PROVE  Alone(t)
<1> USE DEF Goto, Return, Alone
<1>0. /\ pc \in [Threads -> Labels] /\ lock \in [Threads -> Locks \cup {Null}]
      /\ node \in [Threads -> Nodes \cup {Null}] /\ other \in [Threads -> Nodes \cup {Null}]
      /\ head \in [Nodes -> Locks \cup {Null}]
  BY DEF Typed, TypeOK
<1>1. CASE \/ Swap(t) \/ RaiseWaiting(t) \/ LinkToPred(t) \/ SpinEnds(t) \/ UnlockCas(t)
           \/ FindSucc(t) \/ Pass(t) \/ Walk(t)
  BY <1>0, <1>1 DEF Swap, RaiseWaiting, LinkToPred, SpinEnds, UnlockCas, FindSucc, Pass, Walk
<1>2. CASE TryCas(t)
  <2>1. node[t][1] = t
    BY <1>2 DEF TryCas, Shape, ThreadFit
  <2> QED BY <1>0, <1>2, <2>1 DEF TryCas
<1>3. ASSUME NEW l \in Uses[t], Call(t, l) \/ CallTry(t, l)
      PROVE  Alone(t)
  <2>1. l \in Locks /\ pc[t] = "idle" /\ l \notin Held(t)
    BY <1>3, Constants DEF Call, CallTry
  <2>2. GetLocal(t, l)[1] = t
    BY <2>1, GetsFree
  <2> QED BY <1>0, <1>3, <2>2 DEF Call, CallTry
<1>4. ASSUME NEW l \in Uses[t], Unlock(t, l) \/ Measure(t, l)
      PROVE  Alone(t)
  <2>1. l \in Locks /\ pc[t] = "idle" /\ l \in Held(t)
    BY <1>4, Constants DEF Unlock, Measure
  <2>2. Local(t, l)[1] = t
    BY <2>1, FindsLocal
  <2> QED BY <1>0, <1>4, <2>2 DEF Unlock, Measure
<1> QED
  BY <1>1, <1>2, <1>3, <1>4 DEF Acts, Step

----------------------------------------------------------------------------
(* Steps that leave the queues as they are.                                *)

(* What such a step does to the words of other threads' nodes: nothing,    *)
(* but that it may link a node to that of the thread ahead, and it comes   *)
(* to an end of its spinning only where it is first.                       *)
Keeps(t) ==
  /\ Alone(t) /\ tail' = tail /\ order' = order
  /\ \A n \in Nodes : n[1] # t => waiting'[n] = waiting[n]
  /\ \A u \in Threads \ {t} : pc[u] \in Coming => next'[node[u]] = next[node[u]]
  /\ pc[t] = "spin" => waiting[node[t]] = 0

LEMMA OthersStay ==
  ASSUME NEW q, Shape(q), NEW t \in Threads, Keeps(t), NEW u \in Threads \ {t}
  PROVE  ThreadFit(q, u)'
<1>0. ThreadFit(q, u)
  BY DEF Shape
<1>1. /\ pc'[u] = pc[u] /\ lock'[u] = lock[u] /\ node'[u] = node[u] /\ other'[u] = other[u]
      /\ variant' = variant
  BY DEF Keeps, Alone
<1>2. \A i \in 1 .. Slots : head'[<<u, i>>] = head[<<u, i>>]
  BY Constants DEF Keeps, Alone
<1>3. pc[u] # "idle" => /\ node[u] \in Nodes /\ node[u][1] = u /\ lock[u] \in Locks
                        /\ head'[node[u]] = head[node[u]] /\ waiting'[node[u]] = waiting[node[u]]
  BY <1>0 DEF ThreadFit, Keeps, Alone
<1>4. pc[u] \in Coming => next'[node[u]] = next[node[u]]
  BY DEF Keeps
<1>5. ASSUME pc[u] = "pass"
      PROVE  pc'[other[u][1]] = "spin"
  <2>1. lock[u] \in Locks /\ Len(q[lock[u]]) > 1 /\ other[u] = q[lock[u]][2] /\ pc[other[u][1]] = "spin"
    BY <1>0, <1>3, <1>5 DEF ThreadFit
  <2>2. Len(q[lock[u]]) \in Nat /\ 2 \in 1 .. Len(q[lock[u]])
    BY <2>1, Places
  <2>3. node[other[u][1]] = other[u] /\ waiting[other[u]] = 1 /\ other[u][1] \in Threads
    BY <2>1, <2>2, Behind, Places
  <2>4. other[u][1] # t
    BY <2>1, <2>3 DEF Keeps
  <2> QED BY <2>1, <2>3, <2>4 DEF Keeps, Alone
<1> QED
  BY <1>0, <1>1, <1>2, <1>3, <1>4, <1>5 DEF ThreadFit, Coming, Waiters, Owners, Leavers

LEMMA PlacedStays ==
  ASSUME NEW t, Alone(t), NEW n \in Nodes, n[1] # t, n[1] \in Threads, NEW l, NEW i, Placed(n, l, i)
  PROVE  Placed(n, l, i)'
  BY DEF Alone, Placed, Busy

LEMMA NodeStays ==
  ASSUME NEW q, NEW t, Alone(t), NEW n \in Nodes, n[1] # t, n[1] \in Threads, NodeFit(q, n)
  PROVE  NodeFit(q, n)'
<1>1. head'[n] = head[n] /\ \A i \in 1 .. Slots : head'[<<n[1], i>>] = head[<<n[1], i>>]
  BY Constants DEF Alone
<1>2. variant' = variant /\ pc'[n[1]] = pc[n[1]] /\ lock'[n[1]] = lock[n[1]] /\ node'[n[1]] = node[n[1]]
  BY DEF Alone
<1> QED
  BY <1>1, <1>2 DEF NodeFit, Busy

(* No arrow changes unless the thread behind it comes to spin, or stops.   *)
LEMMA PointingStays ==
  ASSUME NEW q, Shape(q), NEW t \in Threads, Alone(t), NEW l \in Locks, NEW i \in 1 .. Len(q[l]),
         next'[q[l][i]] = next[q[l][i]],
         i < Len(q[l]) /\ q[l][i + 1][1] = t => (pc'[t] = "spin" <=> pc[t] = "spin")
  PROVE  Pointing(q, l, i)'
<1>1. Pointing(q, l, i)
  BY DEF Shape, EntryFit
<1>2. i < Len(q[l]) => i + 1 \in 1 .. Len(q[l]) /\ q[l][i + 1][1] \in Threads
  BY Places
<1>3. i < Len(q[l]) => (pc'[q[l][i + 1][1]] = "spin" <=> pc[q[l][i + 1][1]] = "spin")
  BY <1>2 DEF Alone
<1> QED
  BY <1>1, <1>3 DEF Pointing, Linked

(* So it is enough to look at the thread that moves and its own nodes.     *)
LEMMA QueuesStay ==
  ASSUME NEW q, Shape(q), NEW t \in Threads, Keeps(t),
         ThreadFit(q, t)',
         \A l \in Locks : \A i \in 1 .. Len(q[l]) :
           /\ q[l][i][1] = t => Placed(q[l][i], l, i)'
           /\ Pointing(q, l, i)',
         \A n \in Nodes : n[1] = t => NodeFit(q, n)'
  PROVE  Shape(q)'
<1>1. QueuesFit(q)'
  BY DEF Shape, QueuesFit, Keeps
<1>2. \A l \in Locks : \A i \in 1 .. Len(q[l]) : EntryFit(q, l, i)'
  <2> TAKE l \in Locks
  <2> TAKE i \in 1 .. Len(q[l])
  <2>1. EntryFit(q, l, i) /\ q[l][i] \in Nodes /\ q[l][i][1] \in Threads
    BY Places DEF Shape
  <2>2. Placed(q[l][i], l, i)'
    BY <2>1, PlacedStays DEF EntryFit, Keeps
  <2> QED BY <2>1, <2>2 DEF EntryFit, Keeps
<1>3. \A u \in Threads : ThreadFit(q, u)'
  BY OthersStay
<1>4. \A n \in Nodes : NodeFit(q, n)'
  BY NodeStays, Constants DEF Shape, Keeps
<1> QED
  BY <1>1, <1>2, <1>3, <1>4 DEF Shape

(* The words of a thread in a call.                                        *)
LEMMA InCall ==
  ASSUME NEW q, Shape(q), NEW t \in Threads, pc[t] # "idle"
  PROVE  /\ lock[t] \in Locks /\ lock[t] # Null /\ node[t] \in Nodes /\ node[t][1] = t
         /\ q[lock[t]] \in Seq(Nodes) /\ Len(q[lock[t]]) \in Nat
         /\ node[t][2] \in 1 .. Slots /\ node[t] = <<t, node[t][2]>>
         /\ pc[t] \in Owners => Len(q[lock[t]]) > 0 /\ q[lock[t]][1] = node[t] /\ 1 \in 1 .. Len(q[lock[t]])
         /\ pc[t] = "walk" => other[t] \in Nodes
<1>1. ThreadFit(q, t)
  BY DEF Shape
<1>2. /\ lock[t] \in Locks /\ lock[t] # Null /\ node[t] \in Nodes /\ node[t][1] = t
      /\ node[t][2] \in 1 .. Slots /\ node[t] = <<t, node[t][2]>>
  BY <1>1, Constants DEF ThreadFit
<1>3. q[lock[t]] \in Seq(Nodes) /\ Len(q[lock[t]]) \in Nat
  BY <1>2, Places
<1>4. pc[t] \in Owners => Len(q[lock[t]]) > 0 /\ q[lock[t]][1] = node[t] /\ 1 \in 1 .. Len(q[lock[t]])
  BY <1>1, <1>3 DEF ThreadFit
<1>5. ASSUME pc[t] = "walk" PROVE other[t] \in Nodes
  <2>1. PICK i \in 2 .. Len(q[lock[t]]) : other[t] = q[lock[t]][i]
    BY <1>1, <1>5 DEF ThreadFit
  <2>2. i \in 1 .. Len(q[lock[t]])
    OBVIOUS
  <2> QED BY <1>2, <2>1, <2>2, Places
<1> QED
  BY <1>2, <1>3, <1>4, <1>5

LEMMA TypeStep ==
  ASSUME Typed, NEW q, Shape(q), NEW t \in Threads, Acts(t)
  PROVE  Typed'
<1>t. /\ tail \in [Locks -> Nodes \cup {Null}] /\ head \in [Nodes -> Locks \cup {Null}]
      /\ next \in [Nodes -> Nodes \cup {Null}] /\ waiting \in [Nodes -> {0, 1}]
      /\ pc \in [Threads -> Labels] /\ lock \in [Threads -> Locks \cup {Null}]
      /\ node \in [Threads -> Nodes \cup {Null}] /\ other \in [Threads -> Nodes \cup {Null}]
      /\ variant \in Variants /\ DOMAIN order = Locks
  BY DEF Typed, TypeOK
<1>l. {"idle", "swap", "raise", "link", "spin", "try", "unlock_cas", "find", "pass", "walk"} = Labels
  BY DEF Labels
<1>c. pc[t] # "idle" => /\ lock[t] \in Locks /\ node[t] \in Nodes
                        /\ pc[t] = "walk" => other[t] \in Nodes
  BY InCall
<1> USE DEF Goto, Return, Typed, TypeOK
<1>1. CASE Swap(t)
  BY <1>1, <1>t, <1>l, <1>c DEF Swap
<1>2. CASE RaiseWaiting(t)
  BY <1>2, <1>t, <1>l DEF RaiseWaiting
<1>3. CASE LinkToPred(t)
  BY <1>3, <1>t, <1>l, <1>c DEF LinkToPred
<1>4. CASE SpinEnds(t)
  BY <1>4, <1>t, <1>l DEF SpinEnds
<1>5. CASE TryCas(t)
  BY <1>5, <1>t, <1>l, <1>c DEF TryCas
<1>6. CASE UnlockCas(t)
  BY <1>6, <1>t, <1>l DEF UnlockCas
<1>7. CASE FindSucc(t)
  BY <1>7, <1>t, <1>l, <1>c DEF FindSucc
<1>8. CASE Pass(t)
  BY <1>8, <1>t, <1>l DEF Pass
<1>9. CASE Walk(t)
  BY <1>9, <1>t, <1>l, <1>c DEF Walk
<1>10. ASSUME NEW l \in Uses[t], Call(t, l) \/ CallTry(t, l)
       PROVE  Typed'
  <2>1. l \in Locks /\ pc[t] = "idle" /\ l \notin Held(t)
    BY <1>10, Constants DEF Call, CallTry
  <2>2. GetLocal(t, l) \in Nodes
    BY <2>1, GetsFree
  <2> QED BY <1>10, <1>t, <1>l, <2>1, <2>2 DEF Call, CallTry
<1>11. ASSUME NEW l \in Uses[t], Unlock(t, l) \/ Measure(t, l)
       PROVE  Typed'
  <2>1. l \in Locks /\ pc[t] = "idle" /\ l \in Held(t)
    BY <1>11, Constants DEF Unlock, Measure
  <2>2. Local(t, l) \in Nodes
    BY <2>1, FindsLocal
  <2> QED BY <1>11, <1>t, <1>l, <2>1, <2>2 DEF Unlock, Measure
<1> QED
  BY <1>1, <1>2, <1>3, <1>4, <1>5, <1>6, <1>7, <1>8, <1>9, <1>10, <1>11 DEF Acts, Step

----------------------------------------------------------------------------
(* The steps that leave the queues as they are.                            *)

LEMMA ArrowsStay ==
  ASSUME NEW q, Shape(q), NEW t \in Threads, Alone(t),
         pc[t] # "spin", pc'[t] # "spin",
         \A l \in Locks : \A i \in 1 .. Len(q[l]) : next'[q[l][i]] = next[q[l][i]]
  PROVE  \A l \in Locks : \A i \in 1 .. Len(q[l]) : Pointing(q, l, i)'
  BY PointingStays

LEMMA OwnNodesStay ==
  ASSUME NEW q, Shape(q), NEW t \in Threads, Alone(t), pc[t] \notin Coming, head' = head
  PROVE  \A n \in Nodes : n[1] = t => NodeFit(q, n)'
<1> SUFFICES ASSUME NEW n \in Nodes, n[1] = t
             PROVE  NodeFit(q, n)'
  OBVIOUS
<1>1. NodeFit(q, n) /\ ~(pc[n[1]] \in Coming)
  BY DEF Shape
<1> QED
  BY <1>1 DEF NodeFit, Alone

LEMMA NowIdle ==
  ASSUME NEW q, NEW t, pc'[t] = "idle", lock'[t] = Null
  PROVE  ThreadFit(q, t)'
  BY DEF ThreadFit, Coming, Waiters, Owners, Leavers

LEMMA RaiseStays ==
  ASSUME Typed, NEW q, Shape(q), NEW t \in Threads, RaiseWaiting(t)
  PROVE  Shape(q)'
<1>1. Alone(t)
  BY LeavesAlone DEF Acts, Step
<1>2. /\ pc[t] = "raise" /\ pc'[t] = "link" /\ waiting' = [waiting EXCEPT ![node[t]] = 1]
      /\ lock' = lock /\ node' = node /\ other' = other /\ head' = head /\ next' = next
      /\ tail' = tail /\ order' = order /\ variant' = variant
  BY DEF RaiseWaiting, Goto, Typed, TypeOK
<1>3. node[t] \in Nodes /\ node[t][1] = t
  BY <1>2, InCall
<1>4. waiting'[node[t]] = 1 /\ \A n \in Nodes : n[1] # t => waiting'[n] = waiting[n]
  BY <1>2, <1>3 DEF Typed, TypeOK
<1>5. Keeps(t)
  BY <1>1, <1>2, <1>4 DEF Keeps
<1>6. ThreadFit(q, t)'
  <2>1. ThreadFit(q, t)
    BY DEF Shape
  <2> QED BY <1>2, <1>4, <2>1 DEF ThreadFit, Coming, Waiters, Owners, Leavers
<1>7. ASSUME NEW l \in Locks, NEW i \in 1 .. Len(q[l]), q[l][i][1] = t
      PROVE  Placed(q[l][i], l, i)'
  <2>1. Placed(q[l][i], l, i)
    BY DEF Shape, EntryFit
  <2> QED BY <1>2, <1>7, <2>1 DEF Placed, Busy, Waiters, Owners, Leavers
<1>8. \A l \in Locks : \A i \in 1 .. Len(q[l]) : Pointing(q, l, i)'
  BY <1>1, <1>2, ArrowsStay
<1>9. \A n \in Nodes : n[1] = t => NodeFit(q, n)'
  BY <1>1, <1>2, OwnNodesStay DEF Coming
<1> QED
  BY <1>5, <1>6, <1>7, <1>8, <1>9, QueuesStay

(* The node of a thread that waits is the one behind the node it links to. *)
LEMMA LinkStays ==
  ASSUME Typed, NEW q, Shape(q), NEW t \in Threads, LinkToPred(t)
  PROVE  Shape(q)'
<1>1. Alone(t)
  BY LeavesAlone DEF Acts, Step
<1>2. /\ pc[t] = "link" /\ pc'[t] = "spin" /\ next' = [next EXCEPT ![other[t]] = node[t]]
      /\ lock' = lock /\ node' = node /\ head' = head /\ waiting' = waiting
      /\ tail' = tail /\ order' = order /\ variant' = variant
  BY DEF LinkToPred, Goto, Typed, TypeOK
<1> DEFINE l == lock[t]
           n == node[t]
<1>3. l \in Locks /\ n \in Nodes /\ n[1] = t
  BY <1>2, InCall
<1>4. ThreadFit(q, t)
  BY DEF Shape
<1>5. PICK i \in 2 .. Len(q[l]) : q[l][i] = n /\ other[t] = q[l][i - 1]
  BY <1>2, <1>4 DEF ThreadFit
<1>6. i \in 1 .. Len(q[l]) /\ i - 1 \in 1 .. Len(q[l]) /\ i - 1 + 1 = i /\ i > 1 /\ i # 1
      /\ i - 1 < Len(q[l])
  <2>1. Len(q[l]) \in Nat
    BY <1>3, Places
  <2> HIDE DEF l
  <2> QED BY <2>1
<1>7. other[t] \in Nodes
  BY <1>3, <1>5, <1>6, Places
<1>n. next \in [Nodes -> Nodes \cup {Null}]
  BY DEF Typed, TypeOK
<1>8. Keeps(t)
  <2>1. ASSUME NEW u \in Threads \ {t}, pc[u] \in Coming
        PROVE  next'[node[u]] = next[node[u]]
    <3>1. ThreadFit(q, u) /\ pc[u] # "idle"
      BY <2>1 DEF Shape, Coming
    <3>2. node[u] # q[l][i - 1]
      BY <1>3, <1>6, <2>1, <3>1 DEF ThreadFit
    <3> QED BY <1>2, <1>5, <1>n, <3>1, <3>2 DEF ThreadFit
  <2> QED BY <1>1, <1>2, <2>1 DEF Keeps
<1>9. ThreadFit(q, t)'
  <2>1. waiting[n] = 1
    BY <1>2, <1>4 DEF ThreadFit
  <2>2. \E j \in 1 .. Len(q[l]) : q[l][j] = n /\ waiting'[n] = IF j = 1 THEN 0 ELSE 1
    BY <1>2, <1>5, <1>6, <2>1
  <2> QED BY <1>2, <1>4, <2>2 DEF ThreadFit, Coming, Waiters, Owners, Leavers
<1>10. ASSUME NEW k \in Locks, NEW j \in 1 .. Len(q[k]), q[k][j][1] = t
       PROVE  Placed(q[k][j], k, j)'
  <2>1. Placed(q[k][j], k, j)
    BY DEF Shape, EntryFit
  <2> QED BY <1>2, <1>10, <2>1 DEF Placed, Busy, Waiters, Owners, Leavers
<1>11. ASSUME NEW k \in Locks, NEW j \in 1 .. Len(q[k])
       PROVE  Pointing(q, k, j)'
  <2>1. CASE k = l /\ j = i - 1
    <3>1. next'[q[k][j]] = q[k][j + 1] /\ pc'[q[k][j + 1][1]] = "spin" /\ j < Len(q[k])
      BY <1>2, <1>3, <1>5, <1>6, <1>7, <1>n, <2>1
    <3> QED BY <3>1 DEF Pointing, Linked
  <2>2. CASE ~(k = l /\ j = i - 1)
    <3>0. Len(q[k]) \in Nat
      BY Places
    <3>1. q[k][j] # q[l][i - 1]
      BY <1>3, <1>6, <2>2, Places
    <3>2. next'[q[k][j]] = next[q[k][j]]
      BY <1>2, <1>5, <1>n, <3>1, Places
    <3>3. ASSUME j < Len(q[k]), q[k][j + 1][1] = t
          PROVE  FALSE
      <4>1. j + 1 \in 1 .. Len(q[k]) /\ j + 1 > 1
        BY <3>0, <3>3
      <4>2. node[t] = q[k][j + 1]
        BY <3>3, <4>1, Behind
      <4>3. k = l /\ j + 1 = i
        BY <1>3, <1>5, <1>6, <4>1, <4>2, Places
      <4>4. j = i - 1
        BY <4>3
      <4> QED BY <2>2, <4>3, <4>4
    <3> QED BY <1>1, <3>2, <3>3, PointingStays
  <2> QED BY <2>1, <2>2
<1>12. \A m \in Nodes : m[1] = t => NodeFit(q, m)'
  BY <1>1, <1>2, OwnNodesStay DEF Coming
<1> QED
  BY <1>8, <1>9, <1>10, <1>11, <1>12, QueuesStay

(* The one that stops spinning is the first, and has the lock from here.   *)
LEMMA SpinEndsStays ==
  ASSUME Typed, NEW q, Shape(q), NEW t \in Threads, SpinEnds(t)
  PROVE  Shape(q)'
<1>1. Alone(t)
  BY LeavesAlone DEF Acts, Step
<1>2. /\ pc[t] = "spin" /\ waiting[node[t]] = 0
      /\ pc'[t] = "idle" /\ lock'[t] = Null
      /\ head' = head /\ next' = next /\ waiting' = waiting
      /\ tail' = tail /\ order' = order /\ variant' = variant
  BY DEF SpinEnds, Return, Goto, Typed, TypeOK
<1> DEFINE l == lock[t]
           n == node[t]
<1>3. l \in Locks /\ n \in Nodes /\ n[1] = t
  BY <1>2, InCall
<1>4. ThreadFit(q, t)
  BY DEF Shape
<1>5. 1 \in 1 .. Len(q[l]) /\ q[l][1] = n
  <2>1. PICK i \in 1 .. Len(q[l]) : q[l][i] = n /\ waiting[n] = IF i = 1 THEN 0 ELSE 1
    BY <1>2, <1>4 DEF ThreadFit
  <2>2. i = 1
    BY <1>2, <2>1
  <2> QED BY <2>1, <2>2
<1>6. Keeps(t)
  BY <1>1, <1>2 DEF Keeps
<1>7. ThreadFit(q, t)'
  BY <1>2, NowIdle
<1>8. ASSUME NEW k \in Locks, NEW j \in 1 .. Len(q[k]), q[k][j][1] = t
      PROVE  Placed(q[k][j], k, j)'
  <2>1. Placed(q[k][j], k, j)
    BY DEF Shape, EntryFit
  <2>2. head[n] = l
    BY <1>2, <1>4 DEF ThreadFit, Waiters
  <2>3. k \in Locks /\ Null \notin Locks
    BY Constants
  <2>4. CASE q[k][j] = n
    <3>1. k = l /\ j = 1
      BY <1>3, <1>5, <2>4, Places
    <3> QED BY <1>2, <1>8, <2>2, <2>3, <2>4, <3>1 DEF Placed, Busy
  <2>5. CASE q[k][j] # n
    <3>1. j = 1 /\ head[q[k][j]] = k
      BY <1>8, <2>1, <2>5 DEF Placed, Busy
    <3> QED BY <1>2, <1>8, <2>3, <3>1 DEF Placed, Busy
  <2> QED BY <2>4, <2>5
<1>9. ASSUME NEW k \in Locks, NEW j \in 1 .. Len(q[k])
      PROVE  Pointing(q, k, j)'
  <2>1. ASSUME j < Len(q[k]), q[k][j + 1][1] = t
        PROVE  FALSE
    <3>0. Len(q[k]) \in Nat
      BY Places
    <3>1. j + 1 \in 1 .. Len(q[k]) /\ j + 1 > 1
      BY <2>1, <3>0
    <3>2. node[t] = q[k][j + 1]
      BY <2>1, <3>1, Behind
    <3>3. j + 1 = 1
      BY <1>3, <1>5, <3>1, <3>2, Places
    <3> QED BY <3>1, <3>3
  <2>2. next'[q[k][j]] = next[q[k][j]]
    BY <1>2
  <2> QED BY <1>1, <2>1, <2>2, PointingStays
<1>10. \A m \in Nodes : m[1] = t => NodeFit(q, m)'
  BY <1>1, <1>2, OwnNodesStay DEF Coming
<1> QED
  BY <1>6, <1>7, <1>8, <1>9, <1>10, QueuesStay

(* The node that a call gets is free, and has no successor.                *)
Gets(t, l, n, label) ==
  /\ head' = [head EXCEPT ![n] = l]
  /\ next' = [next EXCEPT ![n] = Null]
  /\ lock' = [lock EXCEPT ![t] = l]
  /\ node' = [node EXCEPT ![t] = n]
  /\ pc' = [pc EXCEPT ![t] = label]
  /\ UNCHANGED <<variant, tail, waiting, other, order>>

LEMMA GetStays ==
  ASSUME Typed, NEW q, Shape(q), NEW t \in Threads, NEW l \in Uses[t],
         Call(t, l) \/ CallTry(t, l)
  PROVE  Shape(q)'
<1>1. Alone(t)
  BY LeavesAlone DEF Acts
<1>2. /\ l \in Locks /\ pc[t] = "idle" /\ l \notin Held(t)
      /\ Gets(t, l, GetLocal(t, l), "swap") \/ Gets(t, l, GetLocal(t, l), "try")
  BY Constants DEF Call, CallTry, Goto, Gets
<1>3. PICK n, label : n = GetLocal(t, l) /\ label \in Coming /\ Gets(t, l, n, label)
  BY <1>2 DEF Coming
<1>4. /\ n \in Nodes /\ n[1] = t /\ head[n] = Null
      /\ variant = "array" => n[2] = l
      /\ \A k \in Locks : \A i \in 1 .. Len(q[k]) : q[k][i] # n
      /\ \A i \in 1 .. Slots : head[<<t, i>>] # l
  BY <1>2, <1>3, GetsFree
<1>5. /\ pc'[t] \in Coming /\ lock'[t] = l /\ node'[t] = n /\ head'[n] = l /\ next'[n] = Null
      /\ \A m \in Nodes \ {n} : head'[m] = head[m] /\ next'[m] = next[m]
      /\ waiting' = waiting /\ tail' = tail /\ order' = order /\ variant' = variant
  BY <1>3, <1>4 DEF Typed, TypeOK, Gets
<1>6. Keeps(t)
  <2>1. ASSUME NEW u \in Threads \ {t}, pc[u] \in Coming
        PROVE  next'[node[u]] = next[node[u]]
    <3>1. node[u] \in Nodes /\ node[u][1] = u
      BY <2>1, InCall DEF Coming
    <3> QED BY <1>4, <1>5, <3>1
  <2> QED BY <1>1, <1>2, <1>5, <2>1 DEF Keeps
<1>7. ThreadFit(q, t)'
  BY <1>2, <1>4, <1>5 DEF ThreadFit, Coming, Waiters, Owners, Leavers
<1>8. ASSUME NEW k \in Locks, NEW j \in 1 .. Len(q[k]), q[k][j][1] = t
      PROVE  Placed(q[k][j], k, j)'
  <2>1. Placed(q[k][j], k, j)
    BY DEF Shape, EntryFit
  <2>2. j = 1 /\ head[q[k][j]] = k
    BY <1>2, <1>8, <2>1 DEF Placed, Waiters, Owners, Leavers
  <2>3. q[k][j] # n /\ q[k][j] \in Nodes
    BY <1>4, Places
  <2>4. k # l
    BY <1>4, <1>8, <2>2, <2>3, Constants
  <2>5. head'[q[k][j]] = k
    BY <1>5, <2>2, <2>3
  <2>6. lock'[q[k][j][1]] # k
    BY <1>5, <1>8, <2>4
  <2> QED BY <2>2, <2>5, <2>6 DEF Placed
<1>9. \A k \in Locks : \A j \in 1 .. Len(q[k]) : Pointing(q, k, j)'
  <2>1. \A k \in Locks : \A j \in 1 .. Len(q[k]) : next'[q[k][j]] = next[q[k][j]]
    BY <1>4, <1>5, Places
  <2> QED BY <1>1, <1>2, <1>5, <2>1, ArrowsStay DEF Coming
<1>10. ASSUME NEW m \in Nodes, m[1] = t
       PROVE  NodeFit(q, m)'
  <2>0. \A i \in 1 .. Slots : <<t, i>> \in Nodes /\ (<<t, i>> = n <=> i = n[2])
    BY <1>4, Constants
  <2>1. CASE m = n
    <3>1. \A i \in 1 .. Slots : head'[<<t, i>>] = l => i = n[2]
      BY <1>4, <1>5, <2>0
    <3> QED BY <1>4, <1>5, <2>1, <3>1 DEF NodeFit, Busy
  <2>2. CASE m # n
    <3>1. NodeFit(q, m) /\ head'[m] = head[m]
      BY <1>5, <2>2 DEF Shape
    <3>2. head[m] # l
      BY <1>4, <1>10, Constants
    <3>3. \A i \in 1 .. Slots : head'[<<t, i>>] = head[m] => head[<<t, i>>] = head[m]
      BY <1>5, <2>0, <3>2
    <3> QED BY <1>2, <1>5, <1>10, <3>1, <3>3 DEF NodeFit, Coming
  <2> QED BY <2>1, <2>2
<1> QED
  BY <1>6, <1>7, <1>8, <1>9, <1>10, QueuesStay

(* The trylock that has been overtaken gives its node back.                *)
LEMMA TryFailsStays ==
  ASSUME Typed, NEW q, Shape(q), NEW t \in Threads, TryCas(t), tail[lock[t]] # Null
  PROVE  Shape(q)'
<1>1. Alone(t)
  BY LeavesAlone DEF Acts, Step
<1>2. /\ pc[t] = "try" /\ pc'[t] = "idle" /\ lock'[t] = Null
      /\ head' = [head EXCEPT ![node[t]] = Null] /\ next' = next /\ waiting' = waiting
      /\ tail' = tail /\ order' = order /\ variant' = variant
  BY DEF TryCas, Return, Goto, Typed, TypeOK
<1>3. PICK n : n = node[t]
  OBVIOUS
<1>4. /\ n \in Nodes /\ n[1] = t
      /\ \A k \in Locks : \A i \in 1 .. Len(q[k]) : q[k][i] # n
  <2>1. ThreadFit(q, t)
    BY DEF Shape
  <2> QED BY <1>2, <1>3, <2>1 DEF ThreadFit, Coming
<1>5. head'[n] = Null /\ \A m \in Nodes \ {n} : head'[m] = head[m]
  BY <1>2, <1>3, <1>4 DEF Typed, TypeOK
<1>6. Keeps(t)
  BY <1>1, <1>2 DEF Keeps
<1>7. ThreadFit(q, t)'
  BY <1>2, NowIdle
<1>8. ASSUME NEW k \in Locks, NEW j \in 1 .. Len(q[k]), q[k][j][1] = t
      PROVE  Placed(q[k][j], k, j)'
  <2>1. Placed(q[k][j], k, j)
    BY DEF Shape, EntryFit
  <2>2. j = 1 /\ head[q[k][j]] = k
    BY <1>2, <1>8, <2>1 DEF Placed, Waiters, Owners, Leavers
  <2>3. q[k][j] \in Nodes \ {n}
    BY <1>4, Places
  <2>4. head'[q[k][j]] = k /\ k # Null
    BY <1>5, <2>2, <2>3, Constants
  <2> QED BY <1>2, <1>8, <2>2, <2>4 DEF Placed
<1>9. \A k \in Locks : \A j \in 1 .. Len(q[k]) : Pointing(q, k, j)'
  BY <1>1, <1>2, ArrowsStay
<1>10. ASSUME NEW m \in Nodes, m[1] = t
       PROVE  NodeFit(q, m)'
  <2>0. \A i \in 1 .. Slots : <<t, i>> \in Nodes /\ (<<t, i>> = n <=> i = n[2])
    BY <1>4, Constants
  <2>1. CASE m = n
    BY <1>5, <2>1 DEF NodeFit
  <2>2. CASE m # n
    <3>1. NodeFit(q, m) /\ head'[m] = head[m]
      BY <1>5, <2>2 DEF Shape
    <3>2. head[m] # Null => \A i \in 1 .. Slots : head'[<<t, i>>] = head[m] => head[<<t, i>>] = head[m]
      BY <1>5, <2>0
    <3> QED BY <1>2, <1>3, <1>10, <2>2, <3>1, <3>2 DEF NodeFit, Busy
  <2> QED BY <2>1, <2>2
<1> QED
  BY <1>6, <1>7, <1>8, <1>9, <1>10, QueuesStay

(* A node with a successor is behind by one place, and that one has linked *)
(* itself and spins.                                                       *)
LEMMA Successor ==
  ASSUME NEW q, Shape(q), NEW l \in Locks, NEW i \in 1 .. Len(q[l]), next[q[l][i]] # Null
  PROVE  /\ i + 1 \in 2 .. Len(q[l]) /\ next[q[l][i]] = q[l][i + 1]
         /\ q[l][i + 1][1] \in Threads /\ pc[q[l][i + 1][1]] = "spin"
<1>1. Pointing(q, l, i) /\ Len(q[l]) \in Nat
  BY Places DEF Shape, EntryFit
<1>2. i < Len(q[l]) /\ next[q[l][i]] = q[l][i + 1] /\ pc[q[l][i + 1][1]] = "spin"
  BY <1>1 DEF Pointing, Linked
<1>3. i + 1 \in 2 .. Len(q[l]) /\ i + 1 \in 1 .. Len(q[l])
  BY <1>1, <1>2
<1> QED
  BY <1>2, <1>3, Places

(* The node that is not in use any more stays the first in the queue.      *)
LEMMA UnlockStays ==
  ASSUME Typed, NEW q, Shape(q), NEW t \in Threads, NEW l \in Uses[t], Unlock(t, l)
  PROVE  Shape(q)'
<1>1. Alone(t)
  BY LeavesAlone DEF Acts
<1>2. PICK n : n = Local(t, l)
  OBVIOUS
<1>3. /\ l \in Locks /\ pc[t] = "idle" /\ l \in Held(t)
      /\ pc' = [pc EXCEPT ![t] = IF next[n] = Null THEN "unlock_cas" ELSE "pass"]
      /\ head' = [head EXCEPT ![n] = Null] /\ lock' = [lock EXCEPT ![t] = l]
      /\ node' = [node EXCEPT ![t] = n] /\ other' = [other EXCEPT ![t] = next[n]]
      /\ next' = next /\ waiting' = waiting
      /\ tail' = tail /\ order' = order /\ variant' = variant
  BY <1>2, Constants DEF Unlock, Goto
<1>4. /\ n \in Nodes /\ n[1] = t /\ head[n] = l
      /\ variant = "array" => n[2] = l
      /\ \A j \in 1 .. Slots : head[<<t, j>>] = l => j = n[2]
      /\ Len(q[l]) > 0 /\ q[l][1] = n
  BY <1>2, <1>3, FindsLocal
<1>5. /\ head'[n] = Null /\ \A m \in Nodes \ {n} : head'[m] = head[m]
      /\ pc'[t] = IF next[n] = Null THEN "unlock_cas" ELSE "pass"
      /\ lock'[t] = l /\ node'[t] = n /\ other'[t] = next[n] /\ l # Null
  BY <1>3, <1>4, Constants DEF Typed, TypeOK
<1>6. 1 \in 1 .. Len(q[l]) /\ Len(q[l]) \in Nat
  BY <1>3, <1>4, Places
<1>0. \A i \in 1 .. Slots : <<t, i>> \in Nodes /\ (<<t, i>> = n <=> i = n[2])
  BY <1>4, Constants
<1>7. Keeps(t)
  BY <1>1, <1>3 DEF Keeps
<1>8. ThreadFit(q, t)'
  <2>1. \A i \in 1 .. Slots : head'[<<t, i>>] # l
    BY <1>0, <1>4, <1>5
  <2>2. ASSUME next[n] # Null
        PROVE  Len(q[l]) > 1 /\ next[n] = q[l][2] /\ pc'[next[n][1]] = "spin"
    <3>1. /\ 1 + 1 \in 2 .. Len(q[l]) /\ next[n] = q[l][1 + 1]
          /\ q[l][1 + 1][1] \in Threads /\ pc[q[l][1 + 1][1]] = "spin"
      BY <1>3, <1>4, <1>6, <2>2, Successor
    <3>2. Len(q[l]) > 1 /\ next[n] = q[l][2] /\ next[n][1] \in Threads /\ pc[next[n][1]] = "spin"
      BY <1>6, <3>1
    <3>3. pc[next[n][1]] # pc[t]
      BY <1>3, <3>2
    <3>4. pc'[next[n][1]] = pc[next[n][1]]
      BY <1>1, <3>2, <3>3 DEF Alone
    <3> QED BY <3>2, <3>4
  <2>3. pc'[t] \in {"unlock_cas", "pass"} /\ (pc'[t] = "pass" => next[n] # Null)
    BY <1>5
  <2> QED BY <1>3, <1>4, <1>5, <2>1, <2>2, <2>3 DEF ThreadFit, Coming, Waiters, Owners, Leavers
<1>9. ASSUME NEW k \in Locks, NEW j \in 1 .. Len(q[k]), q[k][j][1] = t
      PROVE  Placed(q[k][j], k, j)'
  <2>1. Placed(q[k][j], k, j)
    BY DEF Shape, EntryFit
  <2>2. j = 1 /\ head[q[k][j]] = k
    BY <1>3, <1>9, <2>1 DEF Placed, Waiters, Owners, Leavers
  <2>3. CASE k = l
    <3>1. pc'[t] \in Owners
      BY <1>5 DEF Owners, Leavers
    <3> QED BY <1>4, <1>5, <2>2, <2>3, <3>1 DEF Placed, Busy
  <2>4. CASE k # l
    <3>1. head'[q[k][j]] = k
      BY <1>4, <1>5, <2>2, <2>4, Places
    <3> QED BY <1>5, <1>9, <2>2, <2>4, <3>1 DEF Placed
  <2> QED BY <2>3, <2>4
<1>10. \A k \in Locks : \A j \in 1 .. Len(q[k]) : Pointing(q, k, j)'
  BY <1>1, <1>3, <1>5, ArrowsStay
<1>11. ASSUME NEW m \in Nodes, m[1] = t
       PROVE  NodeFit(q, m)'
  <2>1. CASE m = n
    BY <1>5, <2>1 DEF NodeFit
  <2>2. CASE m # n
    <3>1. NodeFit(q, m) /\ head'[m] = head[m]
      BY <1>5, <2>2 DEF Shape
    <3>2. head[m] # Null => \A i \in 1 .. Slots : head'[<<t, i>>] = head[m] => head[<<t, i>>] = head[m]
      BY <1>0, <1>5
    <3> QED BY <1>3, <1>11, <3>1, <3>2 DEF NodeFit, Coming
  <2> QED BY <2>1, <2>2
<1> QED
  BY <1>7, <1>8, <1>9, <1>10, <1>11, QueuesStay

(* A step of a thread that has the lock, to where it has it still, that    *)
(* changes no word but its own local pointer.                              *)
OnlyItself(t) ==
  /\ lock' = lock /\ node' = node /\ head' = head /\ next' = next /\ waiting' = waiting
  /\ tail' = tail /\ order' = order /\ variant' = variant

LEMMA OwnerStays ==
  ASSUME NEW q, Shape(q), NEW t \in Threads, Alone(t), OnlyItself(t),
         pc[t] \in Owners, pc'[t] \in Owners, ThreadFit(q, t)'
  PROVE  Shape(q)'
<1>0. pc[t] # "spin" /\ pc'[t] # "spin" /\ pc[t] \notin Coming /\ pc[t] \notin Waiters
  BY DEF Owners, Leavers, Coming, Waiters
<1>1. Keeps(t)
  BY <1>0 DEF Keeps, OnlyItself
<1>2. ASSUME NEW k \in Locks, NEW j \in 1 .. Len(q[k]), q[k][j][1] = t
      PROVE  Placed(q[k][j], k, j)'
  <2>1. Placed(q[k][j], k, j)
    BY DEF Shape, EntryFit
  <2> QED BY <1>0, <1>2, <2>1 DEF Placed, Busy, OnlyItself
<1>3. \A k \in Locks : \A j \in 1 .. Len(q[k]) : Pointing(q, k, j)'
  BY <1>0, ArrowsStay DEF OnlyItself
<1>4. \A m \in Nodes : m[1] = t => NodeFit(q, m)'
  BY <1>0, OwnNodesStay DEF OnlyItself
<1> QED
  BY <1>1, <1>2, <1>3, <1>4, QueuesStay

LEMMA CasFailsStays ==
  ASSUME Typed, NEW q, Shape(q), NEW t \in Threads, UnlockCas(t), tail[lock[t]] # node[t]
  PROVE  Shape(q)'
<1>1. Alone(t)
  BY LeavesAlone DEF Acts, Step
<1>2. pc[t] = "unlock_cas" /\ pc'[t] = "find" /\ other' = other /\ OnlyItself(t)
  BY DEF UnlockCas, Goto, Typed, TypeOK, OnlyItself
<1>3. pc[t] \in Owners /\ pc'[t] \in Owners
  BY <1>2 DEF Owners, Leavers
<1>4. ThreadFit(q, t)
  BY DEF Shape
<1>5. Len(q[lock[t]]) > 1
  <2>1. PICK l : l = lock[t]
    OBVIOUS
  <2>2. l \in Locks /\ Len(q[l]) \in Nat /\ Len(q[l]) > 0 /\ q[l][1] = node[t]
    BY <1>2, <1>3, <2>1, InCall
  <2>3. Len(q[l]) # 1
    <3>1. tail[l] = IF q[l] = <<>> THEN Null ELSE q[l][Len(q[l])]
      BY <2>2, Places
    <3>2. q[l] # <<>>
      BY <2>2, Places
    <3>3. tail[l] # node[t]
      BY <2>1
    <3> QED BY <2>2, <3>1, <3>2, <3>3
  <2>4. \A k \in Nat : k > 0 /\ k # 1 => k > 1
    OBVIOUS
  <2>5. Len(q[l]) > 1
    BY <2>2, <2>3, <2>4
  <2> QED BY <2>1, <2>5
<1>6. ThreadFit(q, t)'
  BY <1>2, <1>4, <1>5 DEF ThreadFit, Coming, Waiters, Owners, Leavers, OnlyItself
<1> QED
  BY <1>1, <1>2, <1>3, <1>6, OwnerStays

LEMMA FindStays ==
  ASSUME Typed, NEW q, Shape(q), NEW t \in Threads, FindSucc(t)
  PROVE  Shape(q)'
<1>1. Alone(t)
  BY LeavesAlone DEF Acts, Step
<1>2. /\ pc[t] = "find" /\ pc'[t] = "pass" /\ other'[t] = next[node[t]] /\ OnlyItself(t)
      /\ next[node[t]] # Null
  BY DEF FindSucc, Goto, Typed, TypeOK, OnlyItself
<1>3. pc[t] \in Owners /\ pc'[t] \in Owners
  BY <1>2 DEF Owners, Leavers
<1>4. ThreadFit(q, t)
  BY DEF Shape
<1>5. PICK l : l = lock[t]
  OBVIOUS
<1>6. l \in Locks /\ Len(q[l]) \in Nat /\ 1 \in 1 .. Len(q[l]) /\ q[l][1] = node[t]
  BY <1>2, <1>3, <1>5, InCall
<1>7. Len(q[l]) > 1 /\ other'[t] = q[l][2] /\ pc'[other'[t][1]] = "spin"
  <2>1. /\ 1 + 1 \in 2 .. Len(q[l]) /\ next[node[t]] = q[l][1 + 1]
        /\ q[l][1 + 1][1] \in Threads /\ pc[q[l][1 + 1][1]] = "spin"
    BY <1>2, <1>6, Successor
  <2>2. /\ Len(q[l]) > 1 /\ other'[t] = q[l][2]
        /\ other'[t][1] \in Threads /\ pc[other'[t][1]] = "spin"
    BY <1>2, <1>6, <2>1
  <2>3. pc'[other'[t][1]] = pc[other'[t][1]]
    BY <1>1, <1>2, <2>2 DEF Alone
  <2> QED BY <2>2, <2>3
<1>8. ThreadFit(q, t)'
  BY <1>2, <1>4, <1>5, <1>7 DEF ThreadFit, Coming, Waiters, Owners, Leavers, OnlyItself
<1> QED
  BY <1>1, <1>2, <1>3, <1>8, OwnerStays

LEMMA MeasureStays ==
  ASSUME Typed, NEW q, Shape(q), NEW t \in Threads, NEW l \in Uses[t], Measure(t, l)
  PROVE  Shape(q)'
<1>1. Alone(t)
  BY LeavesAlone DEF Acts
<1>2. PICK n : n = Local(t, l)
  OBVIOUS
<1>3. /\ l \in Locks /\ pc[t] = "idle" /\ l \in Held(t) /\ next[n] # Null
      /\ pc'[t] = "walk" /\ lock'[t] = l /\ node'[t] = n /\ other'[t] = next[n]
      /\ head' = head /\ next' = next /\ waiting' = waiting
      /\ tail' = tail /\ order' = order /\ variant' = variant
  BY <1>2, Constants DEF Measure, Goto, Typed, TypeOK
<1>4. /\ n \in Nodes /\ n[1] = t /\ head[n] = l
      /\ variant = "array" => n[2] = l
      /\ \A j \in 1 .. Slots : head[<<t, j>>] = l => j = n[2]
      /\ Len(q[l]) > 0 /\ q[l][1] = n
  BY <1>2, <1>3, FindsLocal
<1>5. 1 \in 1 .. Len(q[l]) /\ Len(q[l]) \in Nat
  BY <1>3, <1>4, Places
<1>6. Keeps(t)
  BY <1>1, <1>3 DEF Keeps
<1>7. ThreadFit(q, t)'
  <2>1. 1 + 1 \in 2 .. Len(q[l]) /\ next[n] = q[l][1 + 1]
    BY <1>3, <1>4, <1>5, Successor
  <2>2. \E i \in 2 .. Len(q[l]) : other'[t] = q[l][i]
    BY <1>3, <2>1
  <2> QED BY <1>3, <1>4, <2>2 DEF ThreadFit, Coming, Waiters, Owners, Leavers
<1>8. ASSUME NEW k \in Locks, NEW j \in 1 .. Len(q[k]), q[k][j][1] = t
      PROVE  Placed(q[k][j], k, j)'
  <2>1. Placed(q[k][j], k, j)
    BY DEF Shape, EntryFit
  <2>2. j = 1 /\ head[q[k][j]] = k
    BY <1>3, <1>8, <2>1 DEF Placed, Waiters, Owners, Leavers
  <2>3. CASE k = l
    BY <1>3, <1>4, <2>2, <2>3 DEF Placed, Busy, Owners
  <2>4. CASE k # l
    BY <1>3, <1>8, <2>2, <2>4 DEF Placed
  <2> QED BY <2>3, <2>4
<1>9. \A k \in Locks : \A j \in 1 .. Len(q[k]) : Pointing(q, k, j)'
  BY <1>1, <1>3, ArrowsStay
<1>10. \A m \in Nodes : m[1] = t => NodeFit(q, m)'
  BY <1>1, <1>3, OwnNodesStay DEF Coming
<1> QED
  BY <1>6, <1>7, <1>8, <1>9, <1>10, QueuesStay

(* The walk goes to the next in the queue, or it ends and the lock is held *)
(* as before.                                                              *)
LEMMA WalkStays ==
  ASSUME Typed, NEW q, Shape(q), NEW t \in Threads, Walk(t)
  PROVE  Shape(q)'
<1>1. Alone(t)
  BY LeavesAlone DEF Acts, Step
<1>2. ThreadFit(q, t) /\ pc[t] = "walk" /\ pc[t] \in Owners
  BY DEF Shape, Walk, Owners
<1>3. PICK l : l = lock[t]
  OBVIOUS
<1>4. l \in Locks /\ Len(q[l]) \in Nat /\ 1 \in 1 .. Len(q[l]) /\ q[l][1] = node[t]
  BY <1>2, <1>3, InCall
<1>5. CASE next[other[t]] # Null
  <2>1. pc' = pc /\ other'[t] = next[other[t]] /\ OnlyItself(t)
    BY <1>2, <1>5 DEF Walk, Typed, TypeOK, OnlyItself
  <2>2. PICK i \in 2 .. Len(q[l]) : other[t] = q[l][i]
    BY <1>2, <1>3 DEF ThreadFit
  <2>3. i \in 1 .. Len(q[l]) /\ next[q[l][i]] # Null
    BY <1>4, <1>5, <2>2
  <2>4. i + 1 \in 2 .. Len(q[l]) /\ other'[t] = q[l][i + 1]
    BY <1>4, <2>1, <2>2, <2>3, Successor
  <2>5. ThreadFit(q, t)'
    BY <1>2, <1>3, <2>1, <2>4 DEF ThreadFit, Coming, Waiters, Owners, Leavers, OnlyItself
  <2> QED BY <1>1, <1>2, <2>1, <2>5, OwnerStays
<1>6. CASE next[other[t]] = Null
  <2>1. /\ pc'[t] = "idle" /\ lock'[t] = Null
        /\ head' = head /\ next' = next /\ waiting' = waiting
        /\ tail' = tail /\ order' = order /\ variant' = variant
    BY <1>2, <1>6 DEF Walk, Return, Goto, Typed, TypeOK
  <2>2. Keeps(t)
    BY <1>1, <1>2, <2>1 DEF Keeps
  <2>3. ThreadFit(q, t)'
    BY <2>1, NowIdle
  <2>4. ASSUME NEW k \in Locks, NEW j \in 1 .. Len(q[k]), q[k][j][1] = t
        PROVE  Placed(q[k][j], k, j)'
    <3>1. Placed(q[k][j], k, j) /\ k # Null
      BY Constants DEF Shape, EntryFit
    <3>2. head[node[t]] = lock[t]
      BY <1>2 DEF ThreadFit
    <3>3. j = 1 /\ head[q[k][j]] = k
      BY <1>2, <2>4, <3>1, <3>2 DEF Placed, Busy, Waiters
    <3> QED BY <2>1, <2>4, <3>1, <3>3 DEF Placed
  <2>5. \A k \in Locks : \A j \in 1 .. Len(q[k]) : Pointing(q, k, j)'
    BY <1>1, <1>2, <2>1, ArrowsStay
  <2>6. \A m \in Nodes : m[1] = t => NodeFit(q, m)'
    BY <1>1, <1>2, <2>1, OwnNodesStay DEF Coming
  <2> QED BY <2>2, <2>3, <2>4, <2>5, <2>6, QueuesStay
<1> QED
  BY <1>5, <1>6

----------------------------------------------------------------------------
(* A thread comes to the end of a queue.                                   *)

Joins(t, l, n) ==
  /\ l = lock[t] /\ n = node[t] /\ pc[t] \in Coming
  /\ tail' = [tail EXCEPT ![l] = n] /\ order' = [order EXCEPT ![l] = Append(@, t)]
  /\ head' = head /\ next' = next /\ waiting' = waiting /\ variant' = variant
  /\ \/ tail[l] = Null /\ pc'[t] = "idle" /\ lock'[t] = Null
     \/ /\ tail[l] # Null /\ pc'[t] = "raise" /\ lock' = lock /\ node' = node
        /\ other'[t] = tail[l]

(* r is q with node n at the end of r[l].                                  *)
Longer(q, r, l, n) ==
  /\ r \in [Locks -> Seq(Nodes)]
  /\ \A k \in Locks \ {l} : r[k] = q[k]
  /\ Len(r[l]) = Len(q[l]) + 1 /\ r[l][Len(q[l]) + 1] = n
  /\ \A i \in 1 .. Len(q[l]) : r[l][i] = q[l][i]

LEMMA LongerIs ==
  ASSUME NEW q, Shape(q), NEW l \in Locks, NEW n \in Nodes
  PROVE  \E r : Longer(q, r, l, n)
<1> DEFINE r == [q EXCEPT ![l] = Append(@, n)]
<1>1. q \in [Locks -> Seq(Nodes)] /\ q[l] \in Seq(Nodes)
  BY DEF Shape, QueuesFit
<1>2. /\ Append(q[l], n) \in Seq(Nodes) /\ Len(Append(q[l], n)) = Len(q[l]) + 1
      /\ Append(q[l], n)[Len(q[l]) + 1] = n
      /\ \A i \in 1 .. Len(q[l]) : Append(q[l], n)[i] = q[l][i]
  BY <1>1
<1>3. r[l] = Append(q[l], n) /\ r \in [Locks -> Seq(Nodes)] /\ \A k \in Locks \ {l} : r[k] = q[k]
  BY <1>1, <1>2
<1> HIDE DEF r
<1>4. Longer(q, r, l, n)
  BY <1>2, <1>3 DEF Longer
<1> QED
  BY <1>4

LEMMA OldPlaces ==
  ASSUME NEW q, Shape(q), NEW r, NEW l \in Locks, NEW n, Longer(q, r, l, n)
  PROVE  /\ \A k \in Locks : /\ Len(r[k]) \in Nat /\ Len(q[k]) \in Nat /\ Len(q[k]) <= Len(r[k])
                             /\ r[k] = <<>> <=> Len(r[k]) = 0
         /\ \A k \in Locks : \A i \in 1 .. Len(q[k]) : i \in 1 .. Len(r[k]) /\ r[k][i] = q[k][i]
         /\ \A k \in Locks : \A i \in 1 .. Len(r[k]) :
              i \in 1 .. Len(q[k]) \/ (k = l /\ i = Len(q[l]) + 1 /\ r[k][i] = n)
<1>1. ASSUME NEW k \in Locks
      PROVE  /\ Len(r[k]) \in Nat /\ Len(q[k]) \in Nat /\ Len(q[k]) <= Len(r[k])
             /\ r[k] = <<>> <=> Len(r[k]) = 0
  <2>1. Len(q[k]) \in Nat /\ r[k] \in Seq(Nodes)
    BY Places DEF Longer
  <2> QED BY <2>1 DEF Longer
<1>2. ASSUME NEW k \in Locks, NEW i \in 1 .. Len(q[k])
      PROVE  i \in 1 .. Len(r[k]) /\ r[k][i] = q[k][i]
  BY <1>1 DEF Longer
<1>3. ASSUME NEW k \in Locks, NEW i \in 1 .. Len(r[k])
      PROVE  i \in 1 .. Len(q[k]) \/ (k = l /\ i = Len(q[l]) + 1 /\ r[k][i] = n)
  BY <1>1 DEF Longer
<1> QED
  BY <1>1, <1>2, <1>3

LEMMA LongerFits ==
  ASSUME Typed, NEW q, Shape(q), NEW t \in Threads, NEW l, NEW n, Joins(t, l, n), Alone(t),
         NEW r, Longer(q, r, l, n)
  PROVE  QueuesFit(r)'
<1>1. l \in Locks /\ n \in Nodes /\ n[1] = t
  BY InCall DEF Joins, Coming
<1>2. \A k \in Locks : \A i \in 1 .. Len(q[k]) : q[k][i] # n
  BY DEF Shape, ThreadFit, Joins
<1>3. ASSUME NEW k \in Locks, NEW h \in Locks, NEW i \in 1 .. Len(r[k]), NEW j \in 1 .. Len(r[h]),
             r[k][i] = r[h][j]
      PROVE  k = h /\ i = j
  <2>1. CASE i \in 1 .. Len(q[k]) /\ j \in 1 .. Len(q[h])
    BY <1>1, <1>3, <2>1, Places, OldPlaces
  <2>2. CASE i \in 1 .. Len(q[k]) /\ j \notin 1 .. Len(q[h])
    BY <1>1, <1>2, <1>3, <2>2, OldPlaces
  <2>3. CASE i \notin 1 .. Len(q[k]) /\ j \in 1 .. Len(q[h])
    BY <1>1, <1>2, <1>3, <2>3, OldPlaces
  <2>4. CASE i \notin 1 .. Len(q[k]) /\ j \notin 1 .. Len(q[h])
    BY <1>1, <2>4, OldPlaces
  <2> QED BY <2>1, <2>2, <2>3, <2>4
<1>4. ASSUME NEW k \in Locks
      PROVE  tail'[k] = IF r[k] = <<>> THEN Null ELSE r[k][Len(r[k])]
  <2>1. CASE k = l
    <3>1. tail'[l] = n
      BY <1>1 DEF Joins, Typed, TypeOK
    <3>2. Len(r[l]) # 0 /\ r[l][Len(r[l])] = n
      BY <1>1, Places DEF Longer
    <3> QED BY <1>1, <2>1, <3>1, <3>2, OldPlaces
  <2>2. CASE k # l
    <3>1. r[k] = q[k] /\ tail'[k] = tail[k]
      BY <2>2 DEF Longer, Joins, Typed, TypeOK
    <3> QED BY <3>1, Places
  <2> QED BY <2>1, <2>2
<1>5. ASSUME NEW k \in Locks
      PROVE  order'[k] \in Seq(Threads) /\ Len(order'[k]) = Len(r[k])
  <2>1. order[k] \in Seq(Threads) /\ Len(order[k]) = Len(q[k]) /\ DOMAIN order = Locks
    BY DEF Shape, QueuesFit, Typed
  <2>2. CASE k = l
    <3>1. order'[l] = Append(order[l], t)
      BY <1>1, <2>1 DEF Joins
    <3> QED BY <2>1, <2>2, <3>1 DEF Longer
  <2>3. CASE k # l
    BY <2>1, <2>3 DEF Joins, Longer
  <2> QED BY <2>2, <2>3
<1>6. r \in [Locks -> Seq(Nodes)]
  BY DEF Longer
<1> QED
  BY <1>3, <1>4, <1>5, <1>6 DEF QueuesFit

LEMMA LongerEntries ==
  ASSUME Typed, NEW q, Shape(q), NEW t \in Threads, NEW l, NEW n, Joins(t, l, n), Alone(t),
         NEW r, Longer(q, r, l, n), NEW k \in Locks, NEW i \in 1 .. Len(r[k])
  PROVE  EntryFit(r, k, i)'
<1>1. /\ l \in Locks /\ l # Null /\ n \in Nodes /\ n[1] = t
      /\ lock[t] = l /\ node[t] = n /\ pc[t] \in Coming /\ pc[t] # "spin" /\ pc'[t] # "spin"
      /\ next' = next /\ head' = head
  BY InCall, Constants DEF Joins, Coming
<1>f. ThreadFit(q, t)
  BY DEF Shape
<1>2. head[n] = l /\ next[n] = Null
  BY <1>1, <1>f DEF ThreadFit
<1>3. \A u \in Threads : pc'[u] = "spin" <=> pc[u] = "spin"
  BY <1>1 DEF Alone
<1>4. order[k] \in Seq(Threads) /\ Len(order[k]) = Len(q[k]) /\ DOMAIN order = Locks
  BY DEF Shape, QueuesFit, Typed
<1>5. order'[k] = IF k = l THEN Append(order[k], t) ELSE order[k]
  BY <1>1, <1>4 DEF Joins
<1>6. CASE i \in 1 .. Len(q[k])
  <2>1. EntryFit(q, k, i) /\ r[k][i] = q[k][i] /\ q[k][i] \in Nodes /\ q[k][i][1] \in Threads
    BY <1>1, <1>6, OldPlaces, Places DEF Shape
  <2>2. order'[k][i] = order[k][i]
    BY <1>4, <1>5, <1>6
  <2>3. Placed(q[k][i], k, i)'
    <3>1. CASE q[k][i][1] # t
      BY <2>1, <3>1, PlacedStays DEF EntryFit
    <3>2. CASE q[k][i][1] = t
      <4>1. i = 1 /\ head[q[k][i]] = k /\ lock[t] # k
        BY <1>1, <2>1, <3>2 DEF EntryFit, Placed, Coming, Waiters, Owners, Leavers
      <4>2. lock'[t] # k
        BY <1>1, <4>1, Constants DEF Joins
      <4> QED BY <1>1, <3>2, <4>1, <4>2 DEF Placed
    <3> QED BY <3>1, <3>2
  <2>4. Linked(r, k, i)' <=> Linked(q, k, i)
    <3>1. CASE i < Len(q[k])
      <4>1. i + 1 \in 1 .. Len(q[k]) /\ Len(q[k]) \in Nat /\ i < Len(r[k])
        BY <1>1, <1>6, <3>1, OldPlaces
      <4>2. r[k][i + 1] = q[k][i + 1] /\ q[k][i + 1][1] \in Threads
        BY <1>1, <4>1, OldPlaces, Places
      <4> QED BY <1>3, <3>1, <4>1, <4>2 DEF Linked
    <3>2. CASE ~(i < Len(q[k]))
      <4>1. i = Len(q[k]) /\ Len(q[k]) \in Nat
        BY <1>6, <3>2, Places
      <4>2. k = l => r[k][i + 1] = n
        BY <4>1 DEF Longer
      <4>3. k # l => r[k] = q[k]
        BY DEF Longer
      <4> QED BY <1>1, <3>2, <4>2, <4>3 DEF Linked
    <3> QED BY <3>1, <3>2
  <2>5. r[k][i + 1] = q[k][i + 1] \/ ~Linked(q, k, i)
    <3>1. i < Len(q[k]) => i + 1 \in 1 .. Len(q[k])
      BY <1>6, Places
    <3> QED BY <1>1, <3>1, OldPlaces DEF Linked
  <2>6. Pointing(r, k, i)'
    BY <1>1, <2>1, <2>4, <2>5 DEF EntryFit, Pointing
  <2> QED BY <2>1, <2>2, <2>3, <2>6 DEF EntryFit
<1>7. CASE i \notin 1 .. Len(q[k])
  <2>1. k = l /\ i = Len(q[l]) + 1 /\ r[k][i] = n /\ Len(q[l]) \in Nat /\ Len(r[l]) = i
    BY <1>1, <1>7, OldPlaces DEF Longer
  <2>2. order'[k][i] = t
    BY <1>4, <1>5, <2>1
  <2>3. Placed(n, k, i)'
    <3>1. CASE tail[l] = Null
      <4>1. q[l] = <<>>
        <5>1. Len(q[l]) \in 1 .. Len(q[l]) => q[l][Len(q[l])] # Null
          BY <1>1, Places, Constants
        <5> QED BY <1>1, <2>1, <3>1, <5>1, Places
      <4>2. i = 1 /\ lock'[t] = Null
        BY <1>1, <2>1, <3>1, <4>1, Places DEF Joins
      <4> QED BY <1>1, <1>2, <2>1, <4>2 DEF Placed
    <3>2. CASE tail[l] # Null
      BY <1>1, <2>1, <3>2 DEF Placed, Busy, Joins, Waiters
    <3> QED BY <3>1, <3>2
  <2>4. Pointing(r, k, i)'
    <3>1. ~Linked(r, k, i)'
      BY <2>1 DEF Linked
    <3> QED BY <1>1, <1>2, <2>1, <3>1 DEF Pointing
  <2> QED BY <1>1, <2>1, <2>2, <2>3, <2>4 DEF EntryFit
<1> QED
  BY <1>6, <1>7

LEMMA LongerThreads ==
  ASSUME Typed, NEW q, Shape(q), NEW t \in Threads, NEW l, NEW n, Joins(t, l, n), Alone(t),
         NEW r, Longer(q, r, l, n), NEW u \in Threads
  PROVE  ThreadFit(r, u)'
<1>1. /\ l \in Locks /\ n \in Nodes /\ n[1] = t
      /\ lock[t] = l /\ node[t] = n /\ pc[t] \in Coming
      /\ next' = next /\ head' = head /\ waiting' = waiting /\ variant' = variant
  BY InCall DEF Joins, Coming
<1>2. \A k \in Locks : /\ Len(r[k]) \in Nat /\ Len(q[k]) \in Nat /\ Len(q[k]) <= Len(r[k])
  BY <1>1, OldPlaces
<1>3. \A k \in Locks : \A i \in 1 .. Len(q[k]) : i \in 1 .. Len(r[k]) /\ r[k][i] = q[k][i]
  BY <1>1, OldPlaces
<1>4. ThreadFit(q, u)
  BY DEF Shape
<1>5. CASE u = t
  <2>1. CASE tail[l] = Null
    <3>1. pc'[t] = "idle" /\ lock'[t] = Null
      BY <2>1 DEF Joins
    <3> QED BY <1>5, <3>1, NowIdle
  <2>2. CASE tail[l] # Null
    <3>1. pc'[t] = "raise" /\ lock'[t] = l /\ node'[t] = n /\ other'[t] = tail[l]
      BY <1>1, <2>2 DEF Joins
    <3>2. q[l] # <<>> /\ Len(q[l]) # 0 /\ tail[l] = q[l][Len(q[l])]
      BY <1>1, <2>2, Places
    <3>3. /\ Len(q[l]) + 1 \in 2 .. Len(r[l]) /\ r[l][Len(q[l]) + 1] = n
          /\ Len(q[l]) + 1 - 1 = Len(q[l]) /\ r[l][Len(q[l])] = q[l][Len(q[l])]
      BY <1>1, <1>2, <3>2 DEF Longer
    <3>4. \E i \in 2 .. Len(r[l]) : r[l][i] = n /\ other'[t] = r[l][i - 1]
      <4>1. PICK i : i = Len(q[l]) + 1
        OBVIOUS
      <4>2. i \in 2 .. Len(r[l]) /\ r[l][i] = n /\ other'[t] = r[l][i - 1]
        BY <3>1, <3>2, <3>3, <4>1
      <4> QED BY <4>2
    <3>5. head[n] = l /\ (variant = "array" => n[2] = l)
      BY <1>1, <1>4, <1>5 DEF ThreadFit, Coming
    <3> QED BY <1>1, <1>5, <3>1, <3>4, <3>5 DEF ThreadFit, Coming, Waiters, Owners, Leavers
  <2> QED BY <2>1, <2>2
<1>6. CASE u # t
  <2>1. pc'[u] = pc[u] /\ lock'[u] = lock[u] /\ node'[u] = node[u] /\ other'[u] = other[u]
    BY <1>6 DEF Alone
  <2>2. PICK k, m, p : k = lock[u] /\ m = node[u] /\ p = other[u]
    OBVIOUS
  <2>3. pc[u] # "idle" => k \in Locks /\ m \in Nodes /\ m[1] = u
    BY <2>2, InCall
  <2>4. ASSUME pc[u] \in Coming
        PROVE  \A h \in Locks : \A i \in 1 .. Len(r[h]) : r[h][i] # m
    <3>1. m # n /\ \A h \in Locks : \A i \in 1 .. Len(q[h]) : q[h][i] # m
      BY <1>1, <1>4, <1>6, <2>2, <2>3, <2>4 DEF ThreadFit, Coming
    <3> QED BY <1>1, <3>1, OldPlaces
  <2>5. ASSUME pc[u] \in {"raise", "link"}
        PROVE  \E i \in 2 .. Len(r[k]) : r[k][i] = m /\ p = r[k][i - 1]
    <3>1. PICK i \in 2 .. Len(q[k]) : q[k][i] = m /\ p = q[k][i - 1]
      BY <1>4, <2>2, <2>5 DEF ThreadFit
    <3>2. k \in Locks
      BY <2>3, <2>5
    <3>3. i \in 1 .. Len(q[k]) /\ i - 1 \in 1 .. Len(q[k]) /\ i \in 2 .. Len(r[k])
      BY <1>2, <3>2
    <3> QED BY <1>3, <3>1, <3>2, <3>3
  <2>6. ASSUME pc[u] = "spin"
        PROVE  \E i \in 1 .. Len(r[k]) : r[k][i] = m /\ waiting[m] = IF i = 1 THEN 0 ELSE 1
    <3>1. PICK i \in 1 .. Len(q[k]) : q[k][i] = m /\ waiting[m] = IF i = 1 THEN 0 ELSE 1
      BY <1>4, <2>2, <2>6 DEF ThreadFit
    <3> QED BY <1>3, <2>3, <2>6, <3>1
  <2>7. ASSUME pc[u] \in Owners
        PROVE  /\ Len(r[k]) > 0 /\ r[k][1] = m
               /\ pc[u] = "find" => Len(r[k]) > 1
               /\ pc[u] = "pass" => Len(r[k]) > 1 /\ p = r[k][2] /\ pc'[p[1]] = "spin"
               /\ pc[u] = "walk" => \E i \in 2 .. Len(r[k]) : p = r[k][i]
    <3>0. k \in Locks
      BY <2>3, <2>7 DEF Owners, Leavers
    <3>1. /\ Len(q[k]) > 0 /\ q[k][1] = m
          /\ pc[u] = "find" => Len(q[k]) > 1
          /\ pc[u] = "pass" => Len(q[k]) > 1 /\ p = q[k][2] /\ pc[p[1]] = "spin"
          /\ pc[u] = "walk" => \E i \in 2 .. Len(q[k]) : p = q[k][i]
      BY <1>4, <2>2, <2>7 DEF ThreadFit
    <3>2. Len(r[k]) > 0 /\ r[k][1] = m /\ (Len(q[k]) > 1 => Len(r[k]) > 1 /\ r[k][2] = q[k][2])
      <4>1. 1 \in 1 .. Len(q[k]) /\ (Len(q[k]) > 1 => 2 \in 1 .. Len(q[k]))
        BY <1>2, <3>0, <3>1
      <4> QED BY <1>2, <1>3, <3>0, <3>1, <4>1
    <3>3. ASSUME pc[u] = "pass" PROVE pc'[p[1]] = "spin"
      <4>1. 2 \in 1 .. Len(q[k]) /\ p = q[k][2] /\ pc[p[1]] = "spin"
        BY <1>2, <3>0, <3>1, <3>3
      <4>2. p[1] \in Threads /\ p[1] # t
        BY <1>1, <3>0, <4>1, Places DEF Coming
      <4> QED BY <4>1, <4>2 DEF Alone
    <3>4. ASSUME pc[u] = "walk" PROVE \E i \in 2 .. Len(r[k]) : p = r[k][i]
      <4>1. PICK i \in 2 .. Len(q[k]) : p = q[k][i]
        BY <3>1, <3>4
      <4>2. i \in 1 .. Len(q[k]) /\ i \in 2 .. Len(r[k])
        BY <1>2, <3>0
      <4> QED BY <1>3, <3>0, <4>1, <4>2
    <3> QED BY <3>1, <3>2, <3>3, <3>4
  <2>8. /\ pc[u] = "idle" => k = Null
        /\ pc[u] # "idle" => /\ k \in Locks /\ m \in Nodes /\ m[1] = u
                             /\ variant = "array" => m[2] = k
        /\ pc[u] \in Coming => next[m] = Null
        /\ pc[u] \in Coming \cup Waiters \cup {"walk"} => head[m] = k
        /\ pc[u] \in Leavers => \A i \in 1 .. Slots : head[<<u, i>>] # k
        /\ pc[u] = "link" => waiting[m] = 1
    BY <1>4, <2>2 DEF ThreadFit
  <2>9. pc[u] \in {"find", "pass", "walk"} => pc[u] \in Owners
    BY DEF Owners, Leavers
  <2>10. /\ pc'[u] = pc[u] /\ lock'[u] = k /\ node'[u] = m /\ other'[u] = p
         /\ next' = next /\ head' = head /\ waiting' = waiting /\ variant' = variant
    BY <1>1, <2>1, <2>2
  <2> QED
    BY <2>4, <2>5, <2>6, <2>7, <2>8, <2>9, <2>10 DEF ThreadFit
<1> QED
  BY <1>5, <1>6

LEMMA LongerNodes ==
  ASSUME Typed, NEW q, Shape(q), NEW t \in Threads, NEW l, NEW n, Joins(t, l, n), Alone(t),
         NEW r, Longer(q, r, l, n), NEW m \in Nodes
  PROVE  NodeFit(r, m)'
<1>1. /\ l \in Locks /\ n \in Nodes /\ n[1] = t
      /\ lock[t] = l /\ node[t] = n /\ pc[t] \in Coming
      /\ head' = head /\ variant' = variant
  BY InCall DEF Joins, Coming
<1>2. NodeFit(q, m)
  BY DEF Shape
<1>3. CASE m = n
  <2>1. head[n] = l
    BY <1>1 DEF Shape, ThreadFit
  <2>2. Len(q[l]) + 1 \in 1 .. Len(r[l]) /\ r[l][Len(q[l]) + 1] = n
    BY <1>1, Places DEF Longer
  <2> QED BY <1>1, <1>2, <1>3, <2>1, <2>2 DEF NodeFit
<1>4. CASE m # n
  <2> SUFFICES ASSUME head[m] # Null PROVE NodeFit(r, m)'
    BY <1>1 DEF NodeFit
  <2>1. PICK k : k = head[m]
    OBVIOUS
  <2>2. k \in Locks
    BY <2>1 DEF Typed, TypeOK
  <2>3. CASE \E i \in 1 .. Len(q[k]) : q[k][i] = m
    BY <1>1, <1>2, <2>1, <2>2, <2>3, OldPlaces DEF NodeFit
  <2>4. CASE Busy(m, k) /\ pc[m[1]] \in Coming
    <3>1. m[1] # t
      BY <1>1, <1>4, <2>4 DEF Busy
    <3>2. m[1] \in Threads
      BY Constants
    <3>3. pc'[m[1]] = pc[m[1]] /\ lock'[m[1]] = lock[m[1]] /\ node'[m[1]] = node[m[1]]
      BY <3>1, <3>2 DEF Alone
    <3> QED BY <1>1, <1>2, <2>1, <2>4, <3>3 DEF NodeFit, Busy
  <2> QED BY <1>2, <2>1, <2>3, <2>4 DEF NodeFit
<1> QED
  BY <1>3, <1>4

LEMMA JoinsStays ==
  ASSUME Typed, NEW q, Shape(q), NEW t \in Threads, NEW l, NEW n, Joins(t, l, n), Alone(t)
  PROVE  \E r \in [Locks -> Seq(Nodes)] : Shape(r)'
<1>1. l \in Locks /\ n \in Nodes
  BY InCall DEF Joins, Coming
<1>2. PICK r : Longer(q, r, l, n)
  BY <1>1, LongerIs
<1>3. QueuesFit(r)'
  BY <1>2, LongerFits
<1>4. \A k \in Locks : \A i \in 1 .. Len(r[k]) : EntryFit(r, k, i)'
  BY <1>2, LongerEntries
<1>5. \A u \in Threads : ThreadFit(r, u)'
  BY <1>2, LongerThreads
<1>6. \A m \in Nodes : NodeFit(r, m)'
  BY <1>2, LongerNodes
<1>7. Shape(r)'
  BY <1>3, <1>4, <1>5, <1>6 DEF Shape
<1>8. r \in [Locks -> Seq(Nodes)]
  BY <1>2 DEF Longer
<1> QED
  BY <1>7, <1>8

LEMMA SwapStays ==
  ASSUME Typed, NEW q, Shape(q), NEW t \in Threads, Swap(t)
  PROVE  \E r \in [Locks -> Seq(Nodes)] : Shape(r)'
<1>1. Alone(t)
  BY LeavesAlone DEF Acts, Step
<1>2. Joins(t, lock[t], node[t])
  BY DEF Swap, Return, Goto, Typed, TypeOK, Joins, Coming
<1> QED
  BY <1>1, <1>2, JoinsStays

LEMMA TryCasStays ==
  ASSUME Typed, NEW q \in [Locks -> Seq(Nodes)], Shape(q), NEW t \in Threads, TryCas(t)
  PROVE  \E r \in [Locks -> Seq(Nodes)] : Shape(r)'
<1>1. Alone(t)
  BY LeavesAlone DEF Acts, Step
<1>2. CASE tail[lock[t]] # Null
  BY <1>2, TryFailsStays
<1>3. CASE tail[lock[t]] = Null
  <2>1. Joins(t, lock[t], node[t])
    BY <1>3 DEF TryCas, Return, Goto, Typed, TypeOK, Joins, Coming
  <2> QED BY <1>1, <2>1, JoinsStays
<1> QED
  BY <1>2, <1>3

----------------------------------------------------------------------------
(* The first in a queue leaves it: nobody is behind it, or it hands the    *)
(* lock to the one that is.                                                *)

Leaves(t, l, n, q) ==
  /\ l = lock[t] /\ n = node[t] /\ pc[t] \in Leavers
  /\ pc'[t] = "idle" /\ lock'[t] = Null
  /\ order' = [order EXCEPT ![l] = Tail(@)]
  /\ head' = head /\ next' = next /\ variant' = variant
  /\ \/ /\ Len(q[l]) = 1 /\ tail' = [tail EXCEPT ![l] = Null] /\ waiting' = waiting
     \/ /\ Len(q[l]) > 1 /\ tail' = tail /\ pc[q[l][2][1]] = "spin"
        /\ waiting' = [waiting EXCEPT ![q[l][2]] = 0]

(* r is q without the first node of q[l].                                  *)
Shorter(q, r, l) ==
  /\ r \in [Locks -> Seq(Nodes)]
  /\ \A k \in Locks \ {l} : r[k] = q[k]
  /\ Len(r[l]) = Len(q[l]) - 1
  /\ \A i \in 1 .. Len(r[l]) : r[l][i] = q[l][i + 1]

LEMMA ShorterIs ==
  ASSUME NEW q, Shape(q), NEW l \in Locks, Len(q[l]) > 0
  PROVE  \E r : Shorter(q, r, l)
<1> DEFINE r == [q EXCEPT ![l] = Tail(@)]
<1>1. q \in [Locks -> Seq(Nodes)] /\ q[l] \in Seq(Nodes) /\ q[l] # <<>>
  BY Places DEF Shape, QueuesFit
<1>2. /\ Tail(q[l]) \in Seq(Nodes) /\ Len(Tail(q[l])) = Len(q[l]) - 1
      /\ \A i \in 1 .. Len(Tail(q[l])) : Tail(q[l])[i] = q[l][i + 1]
  BY <1>1
<1>3. r[l] = Tail(q[l]) /\ r \in [Locks -> Seq(Nodes)] /\ \A k \in Locks \ {l} : r[k] = q[k]
  BY <1>1, <1>2
<1> HIDE DEF r
<1>4. Shorter(q, r, l)
  BY <1>2, <1>3 DEF Shorter
<1> QED
  BY <1>4

(* Where the place i of the shorter queue was.                             *)
Was(k, l, i) == IF k = l THEN i + 1 ELSE i

LEMMA LeftPlaces ==
  ASSUME NEW q, Shape(q), NEW r, NEW l \in Locks, Shorter(q, r, l)
  PROVE  /\ \A k \in Locks : /\ Len(r[k]) \in Nat /\ Len(q[k]) \in Nat
                             /\ Len(r[k]) = IF k = l THEN Len(q[k]) - 1 ELSE Len(q[k])
                             /\ r[k] = <<>> <=> Len(r[k]) = 0
         /\ \A k \in Locks : \A i \in 1 .. Len(r[k]) :
              Was(k, l, i) \in 1 .. Len(q[k]) /\ r[k][i] = q[k][Was(k, l, i)]
<1>1. ASSUME NEW k \in Locks
      PROVE  /\ Len(r[k]) \in Nat /\ Len(q[k]) \in Nat
             /\ Len(r[k]) = IF k = l THEN Len(q[k]) - 1 ELSE Len(q[k])
             /\ r[k] = <<>> <=> Len(r[k]) = 0
  <2>1. Len(q[k]) \in Nat /\ r[k] \in Seq(Nodes)
    BY Places DEF Shorter
  <2>2. Len(r[k]) = IF k = l THEN Len(q[k]) - 1 ELSE Len(q[k])
    BY DEF Shorter
  <2>3. Len(r[k]) \in Nat
    BY <2>1
  <2>4. r[k] = <<>> <=> Len(r[k]) = 0
    BY <2>1
  <2> QED BY <2>1, <2>2, <2>3, <2>4
<1>2. ASSUME NEW k \in Locks, NEW i \in 1 .. Len(r[k])
      PROVE  Was(k, l, i) \in 1 .. Len(q[k]) /\ r[k][i] = q[k][Was(k, l, i)]
  <2>1. CASE k = l
    BY <1>1, <2>1 DEF Shorter, Was
  <2>2. CASE k # l
    BY <1>1, <2>2 DEF Shorter, Was
  <2> QED BY <2>1, <2>2
<1> QED
  BY <1>1, <1>2

(* What the leaving thread knows.                                          *)
LEMMA Leaver ==
  ASSUME NEW q, Shape(q), NEW t \in Threads, NEW l, NEW n, Leaves(t, l, n, q)
  PROVE  /\ l \in Locks /\ l # Null /\ n \in Nodes /\ n[1] = t /\ lock[t] = l /\ node[t] = n
         /\ Len(q[l]) \in Nat /\ 1 \in 1 .. Len(q[l]) /\ q[l][1] = n /\ Len(q[l]) > 0
         /\ head[n] # l
         /\ pc[t] \notin Coming /\ pc[t] \notin Waiters /\ pc[t] # "spin" /\ pc'[t] # "spin"
<1>1. pc[t] # "idle" /\ pc[t] \in Owners /\ lock[t] = l /\ node[t] = n
  BY DEF Leaves, Leavers, Owners
<1>2. /\ l \in Locks /\ l # Null /\ n \in Nodes /\ n[1] = t
      /\ Len(q[l]) \in Nat /\ 1 \in 1 .. Len(q[l]) /\ q[l][1] = n /\ Len(q[l]) > 0
      /\ n[2] \in 1 .. Slots /\ n = <<t, n[2]>>
  BY <1>1, InCall
<1>3. head[n] # l
  <2>1. \A i \in 1 .. Slots : head[<<t, i>>] # l
    BY <1>1 DEF Shape, ThreadFit, Leaves
  <2> QED BY <1>2, <2>1
<1>4. pc[t] \notin Coming /\ pc[t] \notin Waiters /\ pc[t] # "spin" /\ pc'[t] # "spin"
  BY DEF Leaves, Leavers, Coming, Waiters
<1> QED
  BY <1>1, <1>2, <1>3, <1>4

LEMMA ShorterFits ==
  ASSUME Typed, NEW q, Shape(q), NEW t \in Threads, NEW l, NEW n, Leaves(t, l, n, q), Alone(t),
         NEW r, Shorter(q, r, l)
  PROVE  QueuesFit(r)'
<1>1. l \in Locks /\ Len(q[l]) \in Nat /\ 1 \in 1 .. Len(q[l]) /\ Len(q[l]) > 0
  BY Leaver
<1>2. \A k \in Locks : /\ Len(r[k]) \in Nat /\ Len(q[k]) \in Nat
                       /\ Len(r[k]) = IF k = l THEN Len(q[k]) - 1 ELSE Len(q[k])
                       /\ r[k] = <<>> <=> Len(r[k]) = 0
  BY <1>1, LeftPlaces
<1>3. ASSUME NEW k \in Locks, NEW h \in Locks, NEW i \in 1 .. Len(r[k]), NEW j \in 1 .. Len(r[h]),
             r[k][i] = r[h][j]
      PROVE  k = h /\ i = j
  <2>1. /\ Was(k, l, i) \in 1 .. Len(q[k]) /\ r[k][i] = q[k][Was(k, l, i)]
        /\ Was(h, l, j) \in 1 .. Len(q[h]) /\ r[h][j] = q[h][Was(h, l, j)]
    BY <1>1, LeftPlaces
  <2>2. k = h /\ Was(k, l, i) = Was(h, l, j)
    <3>1. PICK a, b : a = Was(k, l, i) /\ b = Was(h, l, j)
      OBVIOUS
    <3>2. a \in 1 .. Len(q[k]) /\ b \in 1 .. Len(q[h]) /\ q[k][a] = q[h][b]
      BY <1>3, <2>1, <3>1
    <3>3. k = h /\ a = b
      BY <3>2, Places
    <3> QED BY <3>1, <3>3
  <2>3. i \in Int /\ j \in Int
    BY <1>2
  <2>4. i + 1 = j + 1 => i = j
    BY <2>3
  <2>5. CASE k = l
    <3>1. Was(k, l, i) = i + 1 /\ Was(h, l, j) = j + 1
      BY <2>2, <2>5 DEF Was
    <3> QED BY <2>2, <2>4, <3>1
  <2>6. CASE k # l
    BY <2>2, <2>6 DEF Was
  <2> QED BY <2>5, <2>6
<1>4. ASSUME NEW k \in Locks
      PROVE  tail'[k] = IF r[k] = <<>> THEN Null ELSE r[k][Len(r[k])]
  <2>0. tail[k] = IF q[k] = <<>> THEN Null ELSE q[k][Len(q[k])]
    BY Places
  <2>1. CASE k = l /\ Len(q[l]) = 1
    <3>1. tail'[l] = Null
      BY <1>1, <2>1 DEF Leaves, Typed, TypeOK
    <3>2. Len(r[l]) = 0
      BY <1>1, <2>1 DEF Shorter
    <3>3. r[l] = <<>>
      BY <1>1, <1>2, <3>2
    <3> QED BY <2>1, <3>1, <3>3
  <2>2. CASE k = l /\ Len(q[l]) > 1
    <3>1. tail'[l] = tail[l] /\ q[l] # <<>>
      BY <1>1, <2>2, Places DEF Leaves
    <3>2. Len(r[l]) \in 1 .. Len(r[l]) /\ Len(r[l]) + 1 = Len(q[l]) /\ Len(r[l]) # 0
      BY <1>1, <1>2, <2>2
    <3>3. r[l][Len(r[l])] = q[l][Len(q[l])]
      BY <3>2 DEF Shorter
    <3> QED BY <1>2, <2>0, <2>2, <3>1, <3>2, <3>3
  <2>3. CASE k # l
    <3>1. r[k] = q[k] /\ tail'[k] = tail[k]
      BY <2>3 DEF Shorter, Leaves, Typed, TypeOK
    <3> QED BY <2>0, <3>1
  <2>4. k # l \/ Len(q[l]) = 1 \/ Len(q[l]) > 1
    BY DEF Leaves
  <2> QED BY <2>1, <2>2, <2>3, <2>4
<1>5. ASSUME NEW k \in Locks
      PROVE  order'[k] \in Seq(Threads) /\ Len(order'[k]) = Len(r[k])
  <2>1. order[k] \in Seq(Threads) /\ Len(order[k]) = Len(q[k]) /\ DOMAIN order = Locks
    BY DEF Shape, QueuesFit, Typed
  <2>2. CASE k = l
    <3>1. order'[l] = Tail(order[l]) /\ order[l] # <<>>
      BY <1>1, <2>1, <2>2 DEF Leaves
    <3>2. Tail(order[l]) \in Seq(Threads) /\ Len(Tail(order[l])) = Len(order[l]) - 1
      BY <2>1, <2>2, <3>1
    <3> QED BY <1>2, <2>1, <2>2, <3>1, <3>2
  <2>3. CASE k # l
    BY <2>1, <2>3 DEF Leaves, Shorter
  <2> QED BY <2>2, <2>3
<1>6. r \in [Locks -> Seq(Nodes)]
  BY DEF Shorter
<1> QED
  BY <1>3, <1>4, <1>5, <1>6 DEF QueuesFit

LEMMA ShorterEntries ==
  ASSUME Typed, NEW q, Shape(q), NEW t \in Threads, NEW l, NEW n, Leaves(t, l, n, q), Alone(t),
         NEW r, Shorter(q, r, l), NEW k \in Locks, NEW i \in 1 .. Len(r[k])
  PROVE  EntryFit(r, k, i)'
<1>1. /\ l \in Locks /\ l # Null /\ n \in Nodes /\ n[1] = t /\ lock[t] = l /\ node[t] = n
      /\ Len(q[l]) \in Nat /\ 1 \in 1 .. Len(q[l]) /\ q[l][1] = n /\ Len(q[l]) > 0
      /\ pc[t] \notin Coming /\ pc[t] \notin Waiters /\ pc[t] # "spin" /\ pc'[t] # "spin"
  BY Leaver
<1>2. head' = head /\ next' = next /\ lock'[t] = Null
  BY DEF Leaves
<1>3. \A u \in Threads : pc'[u] = "spin" <=> pc[u] = "spin"
  BY <1>1 DEF Alone
<1>4. order[k] \in Seq(Threads) /\ Len(order[k]) = Len(q[k]) /\ DOMAIN order = Locks
  BY DEF Shape, QueuesFit, Typed
<1>5. PICK j : j = Was(k, l, i)
  OBVIOUS
<1>6. /\ Len(r[k]) \in Nat /\ Len(q[k]) \in Nat
      /\ Len(r[k]) = IF k = l THEN Len(q[k]) - 1 ELSE Len(q[k])
      /\ j \in 1 .. Len(q[k]) /\ r[k][i] = q[k][j]
  BY <1>1, <1>5, LeftPlaces
<1>7. EntryFit(q, k, j) /\ q[k][j] \in Nodes /\ q[k][j][1] \in Threads
  BY <1>6, Places DEF Shape
<1>8. order'[k][i] = order[k][j]
  <2>1. CASE k = l
    <3>1. order'[k] = Tail(order[k]) /\ order[k] # <<>>
      BY <1>1, <1>4, <2>1 DEF Leaves
    <3>2. \A h \in 1 .. Len(order[k]) - 1 : Tail(order[k])[h] = order[k][h + 1]
      BY <1>4, <3>1
    <3> QED BY <1>4, <1>5, <1>6, <2>1, <3>1, <3>2 DEF Was
  <2>2. CASE k # l
    BY <1>4, <1>5, <2>2 DEF Leaves, Was
  <2> QED BY <2>1, <2>2
<1>9. Placed(q[k][j], k, i)'
  <2>1. CASE k = l
    <3>1. j > 1
      BY <1>5, <1>6, <2>1 DEF Was
    <3>2. PICK m : m = q[k][j]
      OBVIOUS
    <3>3. lock[m[1]] = k /\ node[m[1]] = m /\ pc[m[1]] \in Waiters
      BY <1>6, <3>1, <3>2, Behind
    <3>4. m[1] # t /\ m[1] \in Threads
      BY <1>1, <1>7, <3>2, <3>3
    <3>5. lock'[m[1]] = k /\ node'[m[1]] = m /\ pc'[m[1]] \in Waiters
      BY <3>3, <3>4 DEF Alone
    <3> QED BY <3>2, <3>5 DEF Placed, Busy
  <2>2. CASE k # l
    <3>0. i = j
      BY <1>5, <2>2 DEF Was
    <3>1. CASE q[k][j][1] # t
      BY <1>7, <3>0, <3>1, PlacedStays DEF EntryFit
    <3>2. CASE q[k][j][1] = t
      <4>1. i = 1 /\ head[q[k][j]] = k
        BY <1>1, <1>7, <2>2, <3>0, <3>2 DEF EntryFit, Placed, Busy
      <4>2. lock'[t] # k
        BY <1>2, Constants
      <4> QED BY <1>2, <3>2, <4>1, <4>2 DEF Placed
    <3> QED BY <3>1, <3>2
  <2> QED BY <2>1, <2>2
<1>10. Pointing(r, k, i)'
  <2>1. i < Len(r[k]) <=> j < Len(q[k])
    BY <1>5, <1>6 DEF Was
  <2>2. ASSUME i < Len(r[k])
        PROVE  r[k][i + 1] = q[k][j + 1] /\ q[k][j + 1][1] \in Threads
    <3>1. i + 1 \in 1 .. Len(r[k]) /\ Was(k, l, i + 1) = j + 1
      BY <1>5, <1>6, <2>2 DEF Was
    <3>2. j + 1 \in 1 .. Len(q[k]) /\ r[k][i + 1] = q[k][j + 1]
      BY <1>1, <3>1, LeftPlaces
    <3> QED BY <3>2, Places
  <2>3. Linked(r, k, i)' <=> Linked(q, k, j)
    BY <1>3, <2>1, <2>2 DEF Linked
  <2>4. Linked(q, k, j) => r[k][i + 1] = q[k][j + 1]
    BY <2>1, <2>2 DEF Linked
  <2> QED BY <1>2, <1>6, <1>7, <2>3, <2>4 DEF EntryFit, Pointing
<1> QED
  BY <1>6, <1>7, <1>8, <1>9, <1>10 DEF EntryFit

(* Every place but the first of q[l] has its place in r.                   *)
LEMMA StillPlaced ==
  ASSUME NEW q, Shape(q), NEW r, NEW l \in Locks, Shorter(q, r, l),
         NEW k \in Locks, NEW i \in 1 .. Len(q[k]), ~(k = l /\ i = 1)
  PROVE  LET j == IF k = l THEN i - 1 ELSE i IN
         j \in 1 .. Len(r[k]) /\ r[k][j] = q[k][i]
<1>1. /\ Len(r[k]) \in Nat /\ Len(q[k]) \in Nat
      /\ Len(r[k]) = IF k = l THEN Len(q[k]) - 1 ELSE Len(q[k])
  BY LeftPlaces
<1>2. CASE k = l
  <2>1. i - 1 \in 1 .. Len(r[k]) /\ i - 1 + 1 = i
    BY <1>1, <1>2
  <2> QED BY <1>2, <2>1 DEF Shorter
<1>3. CASE k # l
  BY <1>1, <1>3 DEF Shorter
<1> QED
  BY <1>2, <1>3

LEMMA ShorterThreads ==
  ASSUME Typed, NEW q, Shape(q), NEW t \in Threads, NEW l, NEW n, Leaves(t, l, n, q), Alone(t),
         NEW r, Shorter(q, r, l), NEW u \in Threads
  PROVE  ThreadFit(r, u)'
<1>1. /\ l \in Locks /\ n \in Nodes /\ n[1] = t
      /\ Len(q[l]) \in Nat /\ 1 \in 1 .. Len(q[l]) /\ q[l][1] = n /\ Len(q[l]) > 0
      /\ pc[t] \notin Waiters /\ pc[t] # "spin"
  BY Leaver
<1>2. head' = head /\ next' = next /\ variant' = variant
  BY DEF Leaves
<1>3. ThreadFit(q, u)
  BY DEF Shape
<1>4. CASE u = t
  BY <1>4, NowIdle DEF Leaves
<1>5. CASE u # t
  <2>1. pc'[u] = pc[u] /\ lock'[u] = lock[u] /\ node'[u] = node[u] /\ other'[u] = other[u]
    BY <1>5 DEF Alone
  <2>2. PICK k, m, p : k = lock[u] /\ m = node[u] /\ p = other[u]
    OBVIOUS
  <2>3. pc[u] # "idle" => k \in Locks /\ m \in Nodes /\ m[1] = u
    BY <2>2, InCall
  <2>4. /\ pc[u] = "idle" => k = Null
        /\ pc[u] # "idle" => /\ k \in Locks /\ m \in Nodes /\ m[1] = u
                             /\ variant = "array" => m[2] = k
        /\ pc[u] \in Coming => next[m] = Null
        /\ pc[u] \in Coming \cup Waiters \cup {"walk"} => head[m] = k
        /\ pc[u] \in Leavers => \A i \in 1 .. Slots : head[<<u, i>>] # k
    BY <1>3, <2>2 DEF ThreadFit
  <2>5. ASSUME pc[u] \in Coming
        PROVE  \A h \in Locks : \A i \in 1 .. Len(r[h]) : r[h][i] # m
    <3>1. \A h \in Locks : \A i \in 1 .. Len(q[h]) : q[h][i] # m
      BY <1>3, <2>2, <2>5 DEF ThreadFit
    <3> QED BY <1>1, <3>1, LeftPlaces
  <2>6. ASSUME pc[u] \in {"raise", "link"}
        PROVE  /\ \E i \in 2 .. Len(r[k]) : r[k][i] = m /\ p = r[k][i - 1]
               /\ waiting'[m] = waiting[m]
    <3>0. k \in Locks /\ m \in Nodes /\ m[1] = u /\ Len(q[k]) \in Nat
      BY <2>3, <2>6, Places
    <3>1. PICK i \in 2 .. Len(q[k]) : q[k][i] = m /\ p = q[k][i - 1]
      BY <1>3, <2>2, <2>6 DEF ThreadFit
    <3>2. ~(k = l /\ i = 2)
      <4> SUFFICES ASSUME k = l, i = 2 PROVE FALSE
        OBVIOUS
      <4>1. Len(q[l]) > 1 /\ Len(q[l]) # 1
        BY <3>0, <3>1
      <4>2. pc[q[l][2][1]] = "spin"
        BY <4>1 DEF Leaves
      <4> QED BY <2>6, <3>0, <3>1, <4>2
    <3>3. i \in 1 .. Len(q[k]) /\ i # 1 /\ i - 1 \in 1 .. Len(q[k]) /\ (k = l => i - 1 # 1)
      BY <3>0, <3>2
    <3>4. PICK j : j = IF k = l THEN i - 1 ELSE i
      OBVIOUS
    <3>5. j \in 1 .. Len(r[k]) /\ r[k][j] = m
      BY <1>1, <3>0, <3>1, <3>3, <3>4, StillPlaced
    <3>6. r[k][j - 1] = p /\ j \in 2 .. Len(r[k])
      <4>1. Len(r[k]) \in Nat
        BY <1>1, <3>0, LeftPlaces
      <4>2. /\ (IF k = l THEN i - 1 - 1 ELSE i - 1) \in 1 .. Len(r[k])
            /\ r[k][IF k = l THEN i - 1 - 1 ELSE i - 1] = q[k][i - 1]
        BY <1>1, <3>0, <3>3, StillPlaced
      <4>3. (IF k = l THEN i - 1 - 1 ELSE i - 1) = j - 1
        BY <3>4
      <4>4. j - 1 \in 1 .. Len(r[k]) /\ r[k][j - 1] = q[k][i - 1]
        BY <4>2, <4>3
      <4>5. j \in 2 .. Len(r[k])
        BY <3>5, <4>1, <4>4
      <4> QED BY <3>1, <4>4, <4>5
    <3>7. waiting'[m] = waiting[m]
      <4>1. pc[m[1]] # "spin"
        BY <2>6, <3>0
      <4>2. Len(q[l]) = 1 \/ q[l][2] # m
        BY <4>1 DEF Leaves
      <4> QED BY <3>0, <4>2 DEF Leaves, Typed, TypeOK
    <3> QED BY <3>5, <3>6, <3>7
  <2>7. ASSUME pc[u] = "spin"
        PROVE  \E i \in 1 .. Len(r[k]) : r[k][i] = m /\ waiting'[m] = IF i = 1 THEN 0 ELSE 1
    <3>0. k \in Locks /\ m \in Nodes /\ m[1] = u /\ Len(q[k]) \in Nat
      BY <2>3, <2>7, Places
    <3>1. PICK i \in 1 .. Len(q[k]) : q[k][i] = m /\ waiting[m] = IF i = 1 THEN 0 ELSE 1
      BY <1>3, <2>2, <2>7 DEF ThreadFit
    <3>2. ~(k = l /\ i = 1)
      BY <1>1, <1>5, <3>0, <3>1
    <3>3. PICK j : j = IF k = l THEN i - 1 ELSE i
      OBVIOUS
    <3>4. j \in 1 .. Len(r[k]) /\ r[k][j] = m
      BY <1>1, <3>0, <3>1, <3>2, <3>3, StillPlaced
    <3>5. CASE k = l /\ i = 2
      <4>1. Len(q[l]) # 1 /\ q[l][2] = m
        BY <3>0, <3>1, <3>5
      <4>2. waiting'[m] = 0
        BY <3>0, <4>1 DEF Leaves, Typed, TypeOK
      <4>3. j = 1
        BY <3>3, <3>5
      <4> QED BY <3>4, <4>2, <4>3
    <3>6. CASE ~(k = l /\ i = 2)
      <4>1. Len(q[l]) > 1 => 2 \in 1 .. Len(q[l])
        BY <1>1
      <4>2. Len(q[l]) > 1 => q[l][2] # m
        BY <1>1, <3>0, <3>1, <3>6, <4>1, Places
      <4>3. waiting'[m] = waiting[m]
        BY <3>0, <4>2 DEF Leaves, Typed, TypeOK
      <4>4. i = 1 <=> j = 1
        BY <3>0, <3>2, <3>3, <3>6
      <4> QED BY <3>1, <3>4, <4>3, <4>4
    <3> QED BY <3>5, <3>6
  <2>8. ASSUME pc[u] \in Owners
        PROVE  /\ Len(r[k]) > 0 /\ r[k][1] = m
               /\ pc[u] = "find" => Len(r[k]) > 1
               /\ pc[u] = "pass" => Len(r[k]) > 1 /\ p = r[k][2] /\ pc'[p[1]] = "spin"
               /\ pc[u] = "walk" => \E i \in 2 .. Len(r[k]) : p = r[k][i]
    <3>0. k \in Locks /\ m \in Nodes /\ m[1] = u /\ Len(q[k]) \in Nat
      BY <2>3, <2>8, Places DEF Owners, Leavers
    <3>1. /\ Len(q[k]) > 0 /\ q[k][1] = m
          /\ pc[u] = "find" => Len(q[k]) > 1
          /\ pc[u] = "pass" => Len(q[k]) > 1 /\ p = q[k][2] /\ pc[p[1]] = "spin"
          /\ pc[u] = "walk" => \E i \in 2 .. Len(q[k]) : p = q[k][i]
      BY <1>3, <2>2, <2>8 DEF ThreadFit
    <3>2. k # l
      BY <1>1, <1>5, <3>0, <3>1
    <3>3. r[k] = q[k]
      BY <3>0, <3>2 DEF Shorter
    <3>4. ASSUME pc[u] = "pass" PROVE pc'[p[1]] = "spin"
      <4>1. 2 \in 1 .. Len(q[k]) /\ p = q[k][2] /\ pc[p[1]] = "spin"
        BY <3>0, <3>1, <3>4
      <4>2. p[1] \in Threads /\ p[1] # t
        BY <1>1, <3>0, <4>1, Places
      <4> QED BY <4>1, <4>2 DEF Alone
    <3> QED BY <3>1, <3>3, <3>4
  <2>9. ASSUME pc[u] = "link" PROVE waiting'[m] = 1
    <3>1. waiting[m] = 1
      BY <1>3, <2>2, <2>9 DEF ThreadFit
    <3> QED BY <2>6, <2>9, <3>1
  <2>10. pc[u] \in {"find", "pass", "walk"} => pc[u] \in Owners
    BY DEF Owners, Leavers
  <2>11. /\ pc'[u] = pc[u] /\ lock'[u] = k /\ node'[u] = m /\ other'[u] = p
         /\ next' = next /\ head' = head /\ variant' = variant
    BY <1>2, <2>1, <2>2
  <2> QED
    BY <2>4, <2>5, <2>6, <2>7, <2>8, <2>9, <2>10, <2>11 DEF ThreadFit
<1> QED
  BY <1>4, <1>5

LEMMA ShorterNodes ==
  ASSUME Typed, NEW q, Shape(q), NEW t \in Threads, NEW l, NEW n, Leaves(t, l, n, q), Alone(t),
         NEW r, Shorter(q, r, l), NEW m \in Nodes
  PROVE  NodeFit(r, m)'
<1>1. /\ l \in Locks /\ q[l][1] = n /\ head[n] # l /\ pc[t] \notin Coming
  BY Leaver
<1>2. NodeFit(q, m) /\ head' = head /\ variant' = variant
  BY DEF Shape, Leaves
<1> SUFFICES ASSUME head[m] # Null PROVE NodeFit(r, m)'
  BY <1>2 DEF NodeFit
<1>3. PICK k : k = head[m]
  OBVIOUS
<1>4. k \in Locks
  BY <1>3 DEF Typed, TypeOK
<1>5. CASE \E i \in 1 .. Len(q[k]) : q[k][i] = m
  <2>1. PICK i \in 1 .. Len(q[k]) : q[k][i] = m
    BY <1>5
  <2>2. ~(k = l /\ i = 1)
    BY <1>1, <1>3, <2>1
  <2>3. \E j \in 1 .. Len(r[k]) : r[k][j] = m
    BY <1>1, <1>4, <2>1, <2>2, StillPlaced
  <2> QED BY <1>2, <1>3, <2>3 DEF NodeFit
<1>6. CASE Busy(m, k) /\ pc[m[1]] \in Coming
  <2>1. m[1] # t /\ m[1] \in Threads
    BY <1>1, <1>6, Constants
  <2>2. pc'[m[1]] = pc[m[1]] /\ lock'[m[1]] = lock[m[1]] /\ node'[m[1]] = node[m[1]]
    BY <2>1 DEF Alone
  <2> QED BY <1>2, <1>3, <1>6, <2>2 DEF NodeFit, Busy
<1> QED
  BY <1>2, <1>3, <1>5, <1>6 DEF NodeFit

LEMMA LeavesStays ==
  ASSUME Typed, NEW q, Shape(q), NEW t \in Threads, NEW l, NEW n, Leaves(t, l, n, q), Alone(t)
  PROVE  \E r \in [Locks -> Seq(Nodes)] : Shape(r)'
<1>1. l \in Locks /\ Len(q[l]) > 0
  BY Leaver
<1>2. PICK r : Shorter(q, r, l)
  BY <1>1, ShorterIs
<1>3. QueuesFit(r)'
  BY <1>2, ShorterFits
<1>4. \A k \in Locks : \A i \in 1 .. Len(r[k]) : EntryFit(r, k, i)'
  BY <1>2, ShorterEntries
<1>5. \A u \in Threads : ThreadFit(r, u)'
  BY <1>2, ShorterThreads
<1>6. \A m \in Nodes : NodeFit(r, m)'
  BY <1>2, ShorterNodes
<1>7. Shape(r)'
  BY <1>3, <1>4, <1>5, <1>6 DEF Shape
<1>8. r \in [Locks -> Seq(Nodes)]
  BY <1>2 DEF Shorter
<1> QED
  BY <1>7, <1>8

LEMMA LastLeaves ==
  ASSUME Typed, NEW q, Shape(q), NEW t \in Threads, UnlockCas(t), tail[lock[t]] = node[t]
  PROVE  Leaves(t, lock[t], node[t], q)
<1>1. pc[t] = "unlock_cas" /\ pc[t] \in Owners /\ pc[t] \in Leavers
  BY DEF UnlockCas, Owners, Leavers
<1>2. PICK l, n : l = lock[t] /\ n = node[t]
  OBVIOUS
<1>3. /\ l \in Locks /\ n \in Nodes /\ Len(q[l]) \in Nat
      /\ 1 \in 1 .. Len(q[l]) /\ q[l][1] = n
  BY <1>1, <1>2, InCall
<1>4. Len(q[l]) = 1
  <2>1. PICK i : i = Len(q[l])
    OBVIOUS
  <2>2. i \in Nat /\ 1 \in 1 .. i /\ i \in 1 .. i /\ i # 0
    BY <1>3, <2>1
  <2>3. q[l] # <<>>
    BY <1>3, <2>1, <2>2, Places
  <2>4. tail[l] = q[l][i]
    BY <1>3, <2>1, <2>3, Places
  <2>5. q[l][i] = q[l][1]
    BY <1>2, <1>3, <2>4
  <2>6. \A j, k \in 1 .. Len(q[l]) : q[l][j] = q[l][k] => j = k
    BY <1>3, Places
  <2>7. i = 1
    BY <2>1, <2>2, <2>5, <2>6
  <2> QED BY <2>1, <2>7
<1>5. Leaves(t, l, n, q)
  BY <1>1, <1>2, <1>4 DEF UnlockCas, Return, Goto, Typed, TypeOK, Leaves
<1> QED
  BY <1>2, <1>5

LEMMA FirstLeaves ==
  ASSUME Typed, NEW q, Shape(q), NEW t \in Threads, Pass(t)
  PROVE  Leaves(t, lock[t], node[t], q)
<1>1. pc[t] = "pass" /\ pc[t] \in Leavers
  BY DEF Pass, Leavers
<1>2. PICK l, n : l = lock[t] /\ n = node[t]
  OBVIOUS
<1>3. Len(q[l]) > 1 /\ other[t] = q[l][2] /\ pc[q[l][2][1]] = "spin"
  BY <1>1, <1>2 DEF Shape, ThreadFit
<1>4. Leaves(t, l, n, q)
  BY <1>1, <1>2, <1>3 DEF Pass, Return, Goto, Typed, TypeOK, Leaves
<1> QED
  BY <1>2, <1>4

LEMMA UnlockCasStays ==
  ASSUME Typed, NEW q \in [Locks -> Seq(Nodes)], Shape(q), NEW t \in Threads, UnlockCas(t)
  PROVE  \E r \in [Locks -> Seq(Nodes)] : Shape(r)'
<1>1. Alone(t)
  BY LeavesAlone DEF Acts, Step
<1>2. CASE tail[lock[t]] # node[t]
  BY <1>2, CasFailsStays
<1>3. CASE tail[lock[t]] = node[t]
  BY <1>1, <1>3, LastLeaves, LeavesStays
<1> QED
  BY <1>2, <1>3

LEMMA PassStays ==
  ASSUME Typed, NEW q \in [Locks -> Seq(Nodes)], Shape(q), NEW t \in Threads, Pass(t)
  PROVE  \E r \in [Locks -> Seq(Nodes)] : Shape(r)'
<1>1. Alone(t)
  BY LeavesAlone DEF Acts, Step
<1> QED
  BY <1>1, FirstLeaves, LeavesStays

----------------------------------------------------------------------------
(* The invariant.                                                          *)

LEMMA InitHolds == Init => IInv
<1> SUFFICES ASSUME Init PROVE IInv
  OBVIOUS
<1> DEFINE q == [l \in Locks |-> <<>>]
<1>1. Typed
  BY DEF Init, Typed, TypeOK, Labels
<1>2. /\ q \in [Locks -> Seq(Nodes)]
      /\ \A l \in Locks : q[l] = <<>> /\ Len(q[l]) = 0 /\ 1 .. Len(q[l]) = {}
  <2>1. <<>> \in Seq(Nodes) /\ Len(<<>>) = 0 /\ 1 .. 0 = {}
    OBVIOUS
  <2> QED BY <2>1
<1>3. Shape(q)
  <2> HIDE DEF q
  <2>1. QueuesFit(q)
    <3>1. \A l \in Locks : order[l] = <<>> /\ tail[l] = Null
      BY DEF Init
    <3>2. <<>> \in Seq(Threads) /\ Len(<<>>) = 0
      OBVIOUS
    <3> QED BY <1>2, <3>1, <3>2 DEF QueuesFit
  <2>2. \A l \in Locks : \A i \in 1 .. Len(q[l]) : EntryFit(q, l, i)
    BY <1>2
  <2>3. \A t \in Threads : ThreadFit(q, t)
    BY DEF Init, ThreadFit, Coming, Waiters, Owners, Leavers
  <2>4. \A n \in Nodes : NodeFit(q, n)
    BY DEF Init, NodeFit
  <2> QED BY <2>1, <2>2, <2>3, <2>4 DEF Shape
<1> HIDE DEF q
<1> QED
  BY <1>1, <1>2, <1>3 DEF IInv

LEMMA ActKeeps ==
  ASSUME Typed, NEW q \in [Locks -> Seq(Nodes)], Shape(q), NEW t \in Threads, Acts(t)
  PROVE  \E r \in [Locks -> Seq(Nodes)] : Shape(r)'
<1>1. CASE Swap(t)
  BY <1>1, SwapStays
<1>2. CASE RaiseWaiting(t)
  BY <1>2, RaiseStays
<1>3. CASE LinkToPred(t)
  BY <1>3, LinkStays
<1>4. CASE SpinEnds(t)
  BY <1>4, SpinEndsStays
<1>5. CASE TryCas(t)
  BY <1>5, TryCasStays
<1>6. CASE UnlockCas(t)
  BY <1>6, UnlockCasStays
<1>7. CASE FindSucc(t)
  BY <1>7, FindStays
<1>8. CASE Pass(t)
  BY <1>8, PassStays
<1>9. CASE Walk(t)
  BY <1>9, WalkStays
<1>10. ASSUME NEW l \in Uses[t], Call(t, l) \/ CallTry(t, l)
       PROVE  \E r \in [Locks -> Seq(Nodes)] : Shape(r)'
  BY <1>10, GetStays
<1>11. ASSUME NEW l \in Uses[t], Unlock(t, l)
       PROVE  \E r \in [Locks -> Seq(Nodes)] : Shape(r)'
  BY <1>11, UnlockStays
<1>12. ASSUME NEW l \in Uses[t], Measure(t, l)
       PROVE  \E r \in [Locks -> Seq(Nodes)] : Shape(r)'
  BY <1>12, MeasureStays
<1> QED
  BY <1>1, <1>2, <1>3, <1>4, <1>5, <1>6, <1>7, <1>8, <1>9, <1>10, <1>11, <1>12 DEF Acts, Step

LEMMA StepKeeps == IInv /\ [Next]_vars => IInv'
<1> SUFFICES ASSUME IInv, [Next]_vars PROVE IInv'
  OBVIOUS
<1>1. Typed
  BY DEF IInv
<1>2. PICK q \in [Locks -> Seq(Nodes)] : Shape(q)
  BY DEF IInv
<1>3. CASE Next
  <2>1. PICK t \in Threads : Acts(t)
    BY <1>3 DEF Next, Acts
  <2>2. Typed'
    BY <1>1, <1>2, <2>1, TypeStep
  <2>3. \E r \in [Locks -> Seq(Nodes)] : Shape(r)'
    BY <1>1, <1>2, <2>1, ActKeeps
  <2> QED BY <2>2, <2>3 DEF IInv
<1>4. CASE UNCHANGED vars
  <2> USE DEF vars
  <2>1. Typed'
    BY <1>1, <1>4 DEF Typed, TypeOK
  <2>2. Shape(q)'
    <3>1. QueuesFit(q)'
      BY <1>2, <1>4 DEF Shape, QueuesFit
    <3>2. ASSUME NEW l \in Locks, NEW i \in 1 .. Len(q[l]) PROVE EntryFit(q, l, i)'
      BY <1>2, <1>4 DEF Shape, EntryFit, Placed, Busy, Pointing, Linked
    <3>3. ASSUME NEW t \in Threads PROVE ThreadFit(q, t)'
      BY <1>2, <1>4 DEF Shape, ThreadFit
    <3>4. ASSUME NEW n \in Nodes PROVE NodeFit(q, n)'
      BY <1>2, <1>4 DEF Shape, NodeFit, Busy
    <3> QED BY <3>1, <3>2, <3>3, <3>4 DEF Shape
  <2> QED BY <2>1, <2>2 DEF IInv
<1> QED
  BY <1>3, <1>4

(* The queues hold together, whatever the threads do: there is a sequence  *)
(* of nodes for every lock with which all the pointers of mcs_glk_in.c,    *)
(* mcs_in.c and glk.c agree.                                               *)
THEOREM Inductive == Spec => []IInv
<1>1. Init => IInv
  BY InitHolds
<1>2. IInv /\ [Next]_vars => IInv'
  BY StepKeeps
<1> QED
  BY <1>1, <1>2, PTL DEF Spec

(* Every pointer is null or points to a node, and every word has its type. *)
THEOREM TypeCorrect == Spec => []TypeOK
<1>1. IInv => TypeOK
  BY DEF IInv, Typed
<1> QED
  BY <1>1, Inductive, PTL

(* mcs_get_local_lock and mcs_get_local_unlock agree with the queues: a    *)
(* node is in use for a lock only while its thread has a place in the      *)
(* queue of that lock or is on its way to it, and it is the only one.      *)
THEOREM NodesInUse == Spec => []NodeUsed
<1>1. IInv => NodeUsed
  <2> SUFFICES ASSUME IInv, NEW n \in Nodes, head[n] # Null
               PROVE  /\ \/ n[1] \in Range(order[head[n]])
                         \/ pc[n[1]] \in {"swap", "try"} /\ node[n[1]] = n
                      /\ \A m \in Nodes : m[1] = n[1] /\ head[m] = head[n] => m = n
    BY DEF NodeUsed
  <2>1. PICK q \in [Locks -> Seq(Nodes)] : Typed /\ Shape(q)
    BY DEF IInv
  <2>2. PICK l : l = head[n]
    OBVIOUS
  <2>3. l \in Locks /\ NodeFit(q, n)
    BY <2>1, <2>2 DEF Typed, TypeOK, Shape
  <2>4. ASSUME \E i \in 1 .. Len(q[l]) : q[l][i] = n
        PROVE  n[1] \in Range(order[l])
    <3>1. PICK i \in 1 .. Len(q[l]) : q[l][i] = n
      BY <2>4
    <3>2. order[l][i] = n[1] /\ order[l] \in Seq(Threads) /\ Len(order[l]) = Len(q[l])
      BY <2>1, <2>3, <3>1 DEF Shape, EntryFit, QueuesFit
    <3>3. DOMAIN order[l] = 1 .. Len(order[l])
      BY <3>2
    <3>4. n[1] \in Range(order[l])
      BY <3>1, <3>2, <3>3 DEF Range
    <3> QED BY <3>4
  <2>5. ASSUME Busy(n, l) /\ pc[n[1]] \in Coming
        PROVE  pc[n[1]] \in {"swap", "try"} /\ node[n[1]] = n
    BY <2>5 DEF Busy, Coming
  <2>6. \A m \in Nodes : m[1] = n[1] /\ head[m] = head[n] => m = n
    <3>1. \A i \in 1 .. Slots : head[<<n[1], i>>] = l => i = n[2]
      BY <2>2, <2>3, Constants DEF NodeFit
    <3>2. ASSUME NEW m \in Nodes, m[1] = n[1], head[m] = l
          PROVE  m = n
      <4>1. m[2] \in 1 .. Slots /\ m = <<n[1], m[2]>> /\ n = <<n[1], n[2]>>
        BY <3>2, Constants
      <4>2. head[<<n[1], m[2]>>] = l
        BY <3>2, <4>1
      <4>3. m[2] = n[2]
        BY <3>1, <4>1, <4>2
      <4> QED BY <4>1, <4>3
    <3> QED BY <2>2, <3>2
  <2>7. (\E i \in 1 .. Len(q[l]) : q[l][i] = n) \/ (Busy(n, l) /\ pc[n[1]] \in Coming)
    BY <2>2, <2>3 DEF NodeFit
  <2>8. n[1] \in Range(order[l]) \/ (pc[n[1]] \in {"swap", "try"} /\ node[n[1]] = n)
    BY <2>2, <2>4, <2>5, <2>7
  <2> QED BY <2>2, <2>6, <2>8
<1> QED
  BY <1>1, Inductive, PTL

(* gls_adaptinve_mcs_lock_queue_length reads only nodes of threads that    *)
(* wait for the lock its thread holds.                                     *)
THEOREM WalkerStays == Spec => []WalkStaysInQueue
<1>1. IInv => WalkStaysInQueue
  <2> SUFFICES ASSUME IInv, NEW t \in Threads, pc[t] = "walk"
               PROVE  /\ head[other[t]] = lock[t]
                      /\ other[t][1] \in Range(Tail(order[lock[t]]))
    BY DEF WalkStaysInQueue
  <2>1. PICK q \in [Locks -> Seq(Nodes)] : Typed /\ Shape(q)
    BY DEF IInv
  <2>2. PICK l : l = lock[t]
    OBVIOUS
  <2>3. l \in Locks /\ Len(q[l]) \in Nat
    BY <2>1, <2>2, InCall
  <2>4. PICK i \in 2 .. Len(q[l]) : other[t] = q[l][i]
    BY <2>1, <2>2 DEF Shape, ThreadFit
  <2>5. i \in 1 .. Len(q[l]) /\ i > 1 /\ i - 1 \in 1 .. Len(q[l]) - 1 /\ i - 1 + 1 = i
    BY <2>3
  <2>6. PICK m : m = q[l][i]
    OBVIOUS
  <2>7. lock[m[1]] = l /\ node[m[1]] = m /\ pc[m[1]] \in Waiters /\ m[1] \in Threads
    BY <2>1, <2>3, <2>5, <2>6, Behind, Places
  <2>8. head[m] = l
    BY <2>1, <2>7 DEF Shape, ThreadFit
  <2>9. m[1] \in Range(Tail(order[l]))
    <3>1. order[l][i] = m[1] /\ order[l] \in Seq(Threads) /\ Len(order[l]) = Len(q[l])
      BY <2>1, <2>3, <2>5, <2>6 DEF Shape, EntryFit, QueuesFit
    <3>2. order[l] # <<>>
      BY <2>3, <2>5, <3>1
    <3>3. PICK p : p = Tail(order[l])
      OBVIOUS
    <3>4. p \in Seq(Threads) /\ Len(p) = Len(order[l]) - 1
      BY <3>1, <3>2, <3>3
    <3>5. \A j \in 1 .. Len(p) : p[j] = order[l][j + 1]
      BY <3>1, <3>2, <3>3
    <3>6. DOMAIN p = 1 .. Len(p) /\ i - 1 \in 1 .. Len(p)
      BY <2>5, <3>1, <3>4
    <3>7. p[i - 1] = m[1]
      BY <2>5, <3>1, <3>5, <3>6
    <3> QED BY <3>3, <3>6, <3>7 DEF Range
  <2> QED BY <2>2, <2>4, <2>6, <2>8, <2>9
<1> QED
  BY <1>1, Inductive, PTL

----------------------------------------------------------------------------
(* Mcs implements FifoLock.                                                *)

Holder == [l \in Locks |-> IF \E t \in Threads : Owns(t, l)
                           THEN CHOOSE t \in Threads : Owns(t, l) ELSE Null]

(* The first in the queue, and nobody else, may have the lock.             *)
FirstOwns ==
  \A l \in Locks, t \in Threads :
    Owns(t, l) => order[l] # <<>> /\ Head(order[l]) = t /\ Holder[l] = t

LEMMA OwnerFirst ==
  ASSUME Typed, NEW q, Shape(q), NEW l \in Locks, NEW t \in Threads, Owns(t, l)
  PROVE  1 \in 1 .. Len(q[l]) /\ q[l][1][1] = t
<1>1. CASE l \in Held(t)
  <2>1. PICK i \in 1 .. Slots : Holds(q, t, l, i)
    BY <1>1, HolderFirst
  <2>2. Len(q[l]) > 0 /\ Len(q[l]) \in Nat /\ q[l][1] = <<t, i>>
    BY <2>1, Places DEF Holds
  <2> QED BY <2>2
<1>2. CASE lock[t] = l /\ pc[t] \in {"unlock_cas", "find", "pass", "walk"}
  <2>1. pc[t] # "idle" /\ pc[t] \in Owners
    BY <1>2 DEF Owners, Leavers
  <2> QED BY <1>2, <2>1, InCall
<1> QED
  BY <1>1, <1>2 DEF Owns

LEMMA OwnersFirst == IInv => FirstOwns
<1> SUFFICES ASSUME IInv, NEW l \in Locks, NEW t \in Threads, Owns(t, l)
             PROVE  order[l] # <<>> /\ Head(order[l]) = t /\ Holder[l] = t
  BY DEF FirstOwns
<1>1. PICK q \in [Locks -> Seq(Nodes)] : Typed /\ Shape(q)
  BY DEF IInv
<1>2. 1 \in 1 .. Len(q[l]) /\ q[l][1][1] = t
  BY <1>1, OwnerFirst
<1>3. order[l] \in Seq(Threads) /\ Len(order[l]) = Len(q[l]) /\ order[l][1] = t
  BY <1>1, <1>2 DEF Shape, EntryFit, QueuesFit
<1>4. order[l] # <<>> /\ Head(order[l]) = t
  BY <1>2, <1>3
<1>5. \A u \in Threads : Owns(u, l) => u = t
  BY <1>1, <1>2, OwnerFirst
<1>6. Holder[l] = t
  <2>1. Holder[l] = CHOOSE u \in Threads : Owns(u, l)
    BY DEF Holder
  <2>2. Owns(CHOOSE u \in Threads : Owns(u, l), l)
    OBVIOUS
  <2>3. (CHOOSE u \in Threads : Owns(u, l)) \in Threads
    OBVIOUS
  <2> QED BY <1>5, <2>1, <2>2, <2>3
<1> QED
  BY <1>4, <1>6

(* What a step does to the locks that its thread has.                      *)
Same(t) == \A k \in Locks : Owns(t, k)' <=> Owns(t, k)
Also(t, l) == \A k \in Locks : Owns(t, k)' <=> (Owns(t, k) \/ k = l)
Less(t, l) == \A k \in Locks : Owns(t, k)' <=> (Owns(t, k) /\ k # l)

Stutters(t) == order' = order /\ Same(t)
Enqueues(t, l) == order' = [order EXCEPT ![l] = Append(@, t)] /\ Same(t)
Serves(t, l) ==
  /\ order' = order /\ Also(t, l)
  /\ order[l] # <<>> /\ Head(order[l]) = t /\ \A u \in Threads : ~Owns(u, l)
Takes(t, l) == order[l] = <<>> /\ order' = [order EXCEPT ![l] = Append(@, t)] /\ Also(t, l)
Releases(t, l) == Owns(t, l) /\ order' = [order EXCEPT ![l] = Tail(@)] /\ Less(t, l)

Changes(t, l) == Enqueues(t, l) \/ Serves(t, l) \/ Takes(t, l) \/ Releases(t, l)

LEMMA OthersOwn ==
  ASSUME NEW t, Alone(t), NEW u \in Threads \ {t}, NEW k
  PROVE  Owns(u, k)' <=> Owns(u, k)
<1>1. pc'[u] = pc[u] /\ lock'[u] = lock[u]
  BY DEF Alone
<1>2. \A i \in 1 .. Slots : head'[<<u, i>>] = head[<<u, i>>]
  BY Constants DEF Alone
<1> QED
  BY <1>1, <1>2 DEF Owns, Held

(* An owner by what the thread itself can see.                             *)
InUse(t, k) == \E i \in 1 .. Slots : head[<<t, i>>] = k

LEMMA OwnsIs ==
  ASSUME NEW t, NEW k \in Locks
  PROVE  Owns(t, k) <=> IF lock[t] = k THEN pc[t] \in Owners ELSE InUse(t, k)
  BY DEF Owns, Held, Owners, Leavers, InUse

LEMMA OwnsNext ==
  ASSUME NEW t, NEW k \in Locks
  PROVE  Owns(t, k)' <=> IF lock'[t] = k THEN pc'[t] \in Owners ELSE InUse(t, k)'
  BY DEF Owns, Held, Owners, Leavers, InUse

(* Where the table does not change.                                        *)
LEMMA TableStays ==
  ASSUME head' = head, NEW t, NEW k
  PROVE  InUse(t, k)' <=> InUse(t, k)
  BY DEF InUse

(* The empty tail says that the queue is empty.                            *)
LEMMA NullTail ==
  ASSUME Typed, NEW q, Shape(q), NEW l \in Locks, tail[l] = Null
  PROVE  order[l] = <<>>
<1>1. Len(q[l]) = 0
  <2> SUFFICES ASSUME Len(q[l]) # 0 PROVE FALSE
    OBVIOUS
  <2>1. PICK i : i = Len(q[l])
    OBVIOUS
  <2>2. i \in 1 .. Len(q[l]) /\ q[l] # <<>>
    BY <2>1, Places
  <2>3. q[l][i] # Null
    BY <2>2, Places, Constants
  <2> QED BY <2>1, <2>2, <2>3, Places
<1>2. order[l] \in Seq(Threads) /\ Len(order[l]) = 0
  BY <1>1 DEF Shape, QueuesFit
<1> QED
  BY <1>2

LEMMA JoinEffect ==
  ASSUME Typed, NEW q, Shape(q), NEW t \in Threads, NEW l, NEW n, Joins(t, l, n)
  PROVE  l \in Locks /\ Changes(t, l)
<1>1. l \in Locks /\ lock[t] = l /\ node[t] = n /\ pc[t] \in Coming /\ pc[t] \notin Owners /\ n \in Nodes
  BY InCall DEF Joins, Coming, Owners, Leavers
<1>2. order' = [order EXCEPT ![l] = Append(@, t)] /\ head' = head
  BY DEF Joins
<1>3. CASE tail[l] = Null
  <2>1. lock'[t] = Null
    BY <1>3 DEF Joins
  <2>2. InUse(t, l)
    <3>1. head[n] = l
      BY <1>1 DEF Shape, ThreadFit
    <3>2. n[2] \in 1 .. Slots /\ n = <<t, n[2]>>
      BY <1>1, InCall DEF Coming
    <3> QED BY <3>1, <3>2 DEF InUse
  <2>3. ASSUME NEW k \in Locks PROVE Owns(t, k)' <=> (Owns(t, k) \/ k = l)
    <3>1. Owns(t, k)' <=> InUse(t, k)
      BY <1>2, <2>1, OwnsNext, TableStays, Constants
    <3>2. Owns(t, k) <=> IF k = l THEN FALSE ELSE InUse(t, k)
      BY <1>1, OwnsIs
    <3> QED BY <2>2, <3>1, <3>2
  <2>4. order[l] = <<>>
    BY <1>1, <1>3, NullTail
  <2> QED BY <1>1, <1>2, <2>3, <2>4 DEF Also, Takes, Changes
<1>4. CASE tail[l] # Null
  <2>1. lock'[t] = l /\ pc'[t] \notin Owners
    BY <1>1, <1>4 DEF Joins, Owners, Leavers
  <2>2. ASSUME NEW k \in Locks PROVE Owns(t, k)' <=> Owns(t, k)
    <3>1. Owns(t, k)' <=> IF k = l THEN FALSE ELSE InUse(t, k)
      BY <1>2, <2>1, OwnsNext, TableStays
    <3>2. Owns(t, k) <=> IF k = l THEN FALSE ELSE InUse(t, k)
      BY <1>1, OwnsIs
    <3> QED BY <3>1, <3>2
  <2> QED BY <1>1, <1>2, <2>2 DEF Same, Enqueues, Changes
<1> QED
  BY <1>3, <1>4

LEMMA LeaveEffect ==
  ASSUME Typed, NEW q, Shape(q), NEW t \in Threads, NEW l, NEW n, Leaves(t, l, n, q)
  PROVE  l \in Locks /\ Changes(t, l)
<1>1. l \in Locks /\ lock[t] = l
  BY Leaver
<1>2. /\ pc[t] \in Owners /\ lock'[t] = Null /\ head' = head
      /\ order' = [order EXCEPT ![l] = Tail(@)]
  BY DEF Leaves, Owners
<1>3. ~InUse(t, l)
  <2>1. pc[t] \in Leavers
    BY DEF Leaves
  <2>2. \A i \in 1 .. Slots : head[<<t, i>>] # l
    BY <1>1, <2>1 DEF Shape, ThreadFit
  <2> QED BY <2>2 DEF InUse
<1>4. ASSUME NEW k \in Locks PROVE Owns(t, k)' <=> (Owns(t, k) /\ k # l)
  <2>1. Owns(t, k)' <=> InUse(t, k)
    BY <1>2, OwnsNext, TableStays, Constants
  <2>2. Owns(t, k) <=> IF k = l THEN TRUE ELSE InUse(t, k)
    BY <1>1, <1>2, OwnsIs
  <2> QED BY <1>3, <2>1, <2>2
<1>5. Owns(t, l)
  BY <1>1, <1>2, OwnsIs
<1> QED
  BY <1>1, <1>2, <1>4, <1>5 DEF Less, Releases, Changes

LEMMA SpinEndsEffect ==
  ASSUME Typed, NEW q, Shape(q), NEW t \in Threads, SpinEnds(t)
  PROVE  \E l \in Locks : Changes(t, l)
<1>1. /\ pc[t] = "spin" /\ waiting[node[t]] = 0 /\ lock'[t] = Null
      /\ head' = head /\ order' = order
  BY DEF SpinEnds, Return, Goto, Typed, TypeOK
<1>2. PICK l, n : l = lock[t] /\ n = node[t]
  OBVIOUS
<1>3. /\ l \in Locks /\ n \in Nodes /\ n[1] = t /\ n[2] \in 1 .. Slots /\ n = <<t, n[2]>>
      /\ Len(q[l]) \in Nat
  BY <1>1, <1>2, InCall
<1>4. head[n] = l /\ 1 \in 1 .. Len(q[l]) /\ q[l][1] = n
  <2>1. head[n] = l
    BY <1>1, <1>2 DEF Shape, ThreadFit, Waiters
  <2>2. PICK i \in 1 .. Len(q[l]) : q[l][i] = n /\ waiting[n] = IF i = 1 THEN 0 ELSE 1
    BY <1>1, <1>2 DEF Shape, ThreadFit
  <2>3. i = 1
    BY <1>1, <1>2, <2>2
  <2> QED BY <2>1, <2>2, <2>3
<1>5. order[l] # <<>> /\ Head(order[l]) = t
  <2>1. order[l] \in Seq(Threads) /\ Len(order[l]) = Len(q[l]) /\ order[l][1] = t
    BY <1>3, <1>4 DEF Shape, EntryFit, QueuesFit
  <2> QED BY <1>4, <2>1
<1>6. InUse(t, l) /\ pc[t] \notin Owners
  BY <1>1, <1>3, <1>4 DEF InUse, Owners, Leavers
<1>7. ASSUME NEW k \in Locks PROVE Owns(t, k)' <=> (Owns(t, k) \/ k = l)
  <2>1. Owns(t, k)' <=> InUse(t, k)
    BY <1>1, OwnsNext, TableStays, Constants
  <2>2. Owns(t, k) <=> IF k = l THEN FALSE ELSE InUse(t, k)
    BY <1>2, <1>6, OwnsIs
  <2> QED BY <1>6, <2>1, <2>2
<1>8. ASSUME NEW u \in Threads, Owns(u, l) PROVE FALSE
  <2>1. u = t
    BY <1>3, <1>4, <1>8, OwnerFirst
  <2> QED BY <1>2, <1>3, <1>6, <1>8, <2>1, OwnsIs
<1> QED
  BY <1>1, <1>3, <1>5, <1>7, <1>8 DEF Also, Serves, Changes

(* The node that a thread gets, or gives back, is not that of a lock it    *)
(* has.                                                                    *)
LEMMA GetEffect ==
  ASSUME Typed, NEW q, Shape(q), NEW t \in Threads, NEW l \in Uses[t],
         Call(t, l) \/ CallTry(t, l)
  PROVE  Stutters(t)
<1>2. /\ l \in Locks /\ pc[t] = "idle" /\ l \notin Held(t)
      /\ Gets(t, l, GetLocal(t, l), "swap") \/ Gets(t, l, GetLocal(t, l), "try")
  BY Constants DEF Call, CallTry, Goto, Gets
<1>3. PICK n, label : n = GetLocal(t, l) /\ label \in Coming /\ Gets(t, l, n, label)
  BY <1>2 DEF Coming
<1>4. /\ n \in Nodes /\ n[1] = t /\ head[n] = Null
      /\ \A i \in 1 .. Slots : head[<<t, i>>] # l
  BY <1>2, <1>3, GetsFree
<1>5. /\ lock[t] = Null /\ lock'[t] = l /\ pc'[t] \notin Owners /\ order' = order
      /\ head'[n] = l /\ \A m \in Nodes \ {n} : head'[m] = head[m]
  <2>1. lock[t] = Null
    BY <1>2 DEF Shape, ThreadFit
  <2> QED BY <1>3, <1>4, <2>1 DEF Typed, TypeOK, Gets, Coming, Owners, Leavers
<1>6. ASSUME NEW k \in Locks PROVE Owns(t, k)' <=> Owns(t, k)
  <2>1. Owns(t, k)' <=> IF k = l THEN FALSE ELSE InUse(t, k)'
    BY <1>5, OwnsNext
  <2>2. Owns(t, k) <=> InUse(t, k)
    BY <1>5, OwnsIs, Constants
  <2>3. ~InUse(t, l)
    BY <1>4 DEF InUse
  <2>4. ASSUME k # l PROVE InUse(t, k)' <=> InUse(t, k)
    <3>1. \A i \in 1 .. Slots : head'[<<t, i>>] = k <=> head[<<t, i>>] = k
      BY <1>4, <1>5, <2>4, Constants
    <3> QED BY <3>1 DEF InUse
  <2> QED BY <2>1, <2>2, <2>3, <2>4
<1> QED
  BY <1>5, <1>6 DEF Same, Stutters

LEMMA TryFailsEffect ==
  ASSUME Typed, NEW q, Shape(q), NEW t \in Threads, TryCas(t), tail[lock[t]] # Null
  PROVE  Stutters(t)
<1>1. /\ pc[t] = "try" /\ lock'[t] = Null /\ order' = order
      /\ head' = [head EXCEPT ![node[t]] = Null]
  BY DEF TryCas, Return, Goto, Typed, TypeOK
<1>2. PICK l, n : l = lock[t] /\ n = node[t]
  OBVIOUS
<1>3. l \in Locks /\ n \in Nodes /\ n[1] = t /\ pc[t] \notin Owners
  BY <1>1, <1>2, InCall DEF Owners, Leavers
<1>4. head[n] = l /\ head'[n] = Null /\ \A m \in Nodes \ {n} : head'[m] = head[m]
  BY <1>1, <1>2, <1>3 DEF Shape, ThreadFit, Coming, Typed, TypeOK
<1>5. \A i \in 1 .. Slots : head[<<t, i>>] = l => <<t, i>> = n
  <2>1. NodeFit(q, n) /\ l # Null
    BY <1>3, Constants DEF Shape
  <2> QED BY <1>3, <1>4, <2>1, Constants DEF NodeFit
<1>6. ASSUME NEW k \in Locks PROVE Owns(t, k)' <=> Owns(t, k)
  <2>1. Owns(t, k)' <=> InUse(t, k)'
    BY <1>1, OwnsNext, Constants
  <2>2. Owns(t, k) <=> IF k = l THEN FALSE ELSE InUse(t, k)
    BY <1>2, <1>3, OwnsIs
  <2>3. \A i \in 1 .. Slots : head'[<<t, i>>] = k <=> head[<<t, i>>] = k /\ k # l
    BY <1>3, <1>4, <1>5, Constants
  <2> QED BY <2>1, <2>2, <2>3 DEF InUse
<1> QED
  BY <1>1, <1>6 DEF Same, Stutters

LEMMA UnlockEffect ==
  ASSUME Typed, NEW q, Shape(q), NEW t \in Threads, NEW l \in Uses[t],
         Unlock(t, l) \/ Measure(t, l)
  PROVE  Stutters(t)
<1>1. PICK n : n = Local(t, l)
  OBVIOUS
<1>2. /\ l \in Locks /\ pc[t] = "idle" /\ l \in Held(t) /\ order' = order
      /\ lock'[t] = l /\ pc'[t] \in Owners
      /\ head' = head \/ head' = [head EXCEPT ![n] = Null]
  <2>1. l \in Locks
    BY Constants
  <2>2. CASE Unlock(t, l)
    BY <1>1, <2>1, <2>2 DEF Unlock, Goto, Typed, TypeOK, Owners, Leavers
  <2>3. CASE Measure(t, l)
    BY <1>1, <2>1, <2>3 DEF Measure, Goto, Typed, TypeOK, Owners
  <2> QED BY <2>2, <2>3
<1>3. /\ n \in Nodes /\ n[1] = t /\ head[n] = l
      /\ \A j \in 1 .. Slots : head[<<t, j>>] = l => j = n[2]
  BY <1>1, <1>2, FindsLocal
<1>4. \A m \in Nodes \ {n} : head'[m] = head[m]
  BY <1>2 DEF Typed, TypeOK
<1>5. head'[n] = l \/ head'[n] = Null
  BY <1>2, <1>3 DEF Typed, TypeOK
<1>6. lock[t] = Null
  BY <1>2 DEF Shape, ThreadFit
<1>7. ASSUME NEW k \in Locks PROVE Owns(t, k)' <=> Owns(t, k)
  <2>1. Owns(t, k)' <=> IF k = l THEN TRUE ELSE InUse(t, k)'
    BY <1>2, OwnsNext
  <2>2. Owns(t, k) <=> InUse(t, k)
    BY <1>6, OwnsIs, Constants
  <2>3. InUse(t, l)
    BY <1>3, Constants DEF InUse
  <2>4. ASSUME k # l PROVE InUse(t, k)' <=> InUse(t, k)
    <3>1. \A i \in 1 .. Slots : head'[<<t, i>>] = k <=> head[<<t, i>>] = k
      BY <1>3, <1>4, <1>5, <2>4, Constants
    <3> QED BY <3>1 DEF InUse
  <2> QED BY <2>1, <2>2, <2>3, <2>4
<1> QED
  BY <1>2, <1>7 DEF Same, Stutters

LEMMA InsideEffect ==
  ASSUME NEW t, head' = head, order' = order, lock'[t] = lock[t],
         pc[t] \in Owners <=> pc'[t] \in Owners
  PROVE  Stutters(t)
<1>1. ASSUME NEW k \in Locks PROVE Owns(t, k)' <=> Owns(t, k)
  BY OwnsIs, OwnsNext, TableStays
<1> QED
  BY <1>1 DEF Same, Stutters

LEMMA WalkEffect ==
  ASSUME Typed, NEW q, Shape(q), NEW t \in Threads, Walk(t)
  PROVE  Stutters(t)
<1>1. pc[t] = "walk" /\ pc[t] \in Owners /\ head' = head /\ order' = order
  BY DEF Walk, Owners
<1>2. CASE next[other[t]] # Null
  <2>1. pc' = pc /\ lock' = lock
    BY <1>2 DEF Walk
  <2> QED BY <1>1, <2>1, InsideEffect
<1>3. CASE next[other[t]] = Null
  <2>1. lock'[t] = Null
    BY <1>3 DEF Walk, Return, Goto, Typed, TypeOK
  <2>2. PICK l, n : l = lock[t] /\ n = node[t]
    OBVIOUS
  <2>3. l \in Locks /\ n[2] \in 1 .. Slots /\ n = <<t, n[2]>> /\ head[n] = l
    BY <1>1, <2>2, InCall DEF Shape, ThreadFit
  <2>4. InUse(t, l)
    BY <2>3 DEF InUse
  <2>5. ASSUME NEW k \in Locks PROVE Owns(t, k)' <=> Owns(t, k)
    <3>1. Owns(t, k)' <=> InUse(t, k)
      BY <1>1, <2>1, OwnsNext, TableStays, Constants
    <3>2. Owns(t, k) <=> IF k = l THEN TRUE ELSE InUse(t, k)
      BY <1>1, <2>2, OwnsIs
    <3> QED BY <2>4, <3>1, <3>2
  <2> QED BY <1>1, <2>5 DEF Same, Stutters
<1> QED
  BY <1>2, <1>3

LEMMA ActEffect ==
  ASSUME Typed, NEW q, Shape(q), NEW t \in Threads, Acts(t)
  PROVE  Stutters(t) \/ \E l \in Locks : Changes(t, l)
<1>1. CASE Swap(t)
  <2>1. Joins(t, lock[t], node[t])
    BY <1>1 DEF Swap, Return, Goto, Typed, TypeOK, Joins, Coming
  <2> QED BY <2>1, JoinEffect
<1>2. CASE RaiseWaiting(t) \/ LinkToPred(t) \/ FindSucc(t)
  <2>1. /\ head' = head /\ order' = order /\ lock'[t] = lock[t]
        /\ pc[t] \in Owners <=> pc'[t] \in Owners
    BY <1>2 DEF RaiseWaiting, LinkToPred, FindSucc, Goto, Typed, TypeOK, Owners, Leavers
  <2> QED BY <2>1, InsideEffect
<1>3. CASE SpinEnds(t)
  BY <1>3, SpinEndsEffect
<1>4. CASE TryCas(t)
  <2>1. CASE tail[lock[t]] # Null
    BY <1>4, <2>1, TryFailsEffect
  <2>2. CASE tail[lock[t]] = Null
    <3>1. Joins(t, lock[t], node[t])
      BY <1>4, <2>2 DEF TryCas, Return, Goto, Typed, TypeOK, Joins, Coming
    <3> QED BY <3>1, JoinEffect
  <2> QED BY <2>1, <2>2
<1>5. CASE UnlockCas(t)
  <2>1. CASE tail[lock[t]] # node[t]
    <3>1. /\ head' = head /\ order' = order /\ lock'[t] = lock[t]
          /\ pc[t] \in Owners <=> pc'[t] \in Owners
      BY <1>5, <2>1 DEF UnlockCas, Goto, Typed, TypeOK, Owners, Leavers
    <3> QED BY <3>1, InsideEffect
  <2>2. CASE tail[lock[t]] = node[t]
    <3>1. Leaves(t, lock[t], node[t], q)
      BY <1>5, <2>2, LastLeaves
    <3> QED BY <3>1, LeaveEffect
  <2> QED BY <2>1, <2>2
<1>6. CASE Pass(t)
  <2>1. Leaves(t, lock[t], node[t], q)
    BY <1>6, FirstLeaves
  <2> QED BY <2>1, LeaveEffect
<1>7. CASE Walk(t)
  BY <1>7, WalkEffect
<1>8. ASSUME NEW l \in Uses[t], Call(t, l) \/ CallTry(t, l)
      PROVE  Stutters(t)
  BY <1>8, GetEffect
<1>9. ASSUME NEW l \in Uses[t], Unlock(t, l) \/ Measure(t, l)
      PROVE  Stutters(t)
  BY <1>9, UnlockEffect
<1> QED
  BY <1>1, <1>2, <1>3, <1>4, <1>5, <1>6, <1>7, <1>8, <1>9 DEF Acts, Step

(* The holder by the locks that the threads have.                          *)
LEMMA HolderIs ==
  ASSUME FirstOwns, NEW l \in Locks
  PROVE  /\ \A u \in Threads : Owns(u, l) => Holder[l] = u
         /\ (\A u \in Threads : ~Owns(u, l)) => Holder[l] = Null
<1>1. \A u \in Threads : Owns(u, l) => Holder[l] = u
  BY DEF FirstOwns
<1>2. (\A u \in Threads : ~Owns(u, l)) => Holder[l] = Null
  BY DEF Holder
<1> QED
  BY <1>1, <1>2

LEMMA HolderNext ==
  ASSUME FirstOwns', NEW l \in Locks
  PROVE  /\ \A u \in Threads : Owns(u, l)' => Holder'[l] = u
         /\ (\A u \in Threads : ~Owns(u, l)') => Holder'[l] = Null
<1>1. \A u \in Threads : Owns(u, l)' => Holder'[l] = u
  BY DEF FirstOwns
<1>2. (\A u \in Threads : ~Owns(u, l)') => Holder'[l] = Null
  BY DEF Holder
<1> QED
  BY <1>1, <1>2

LEMMA HolderStays ==
  ASSUME FirstOwns, FirstOwns', NEW t \in Threads, Alone(t), NEW l \in Locks,
         Owns(t, l)' <=> Owns(t, l)
  PROVE  Holder'[l] = Holder[l]
<1>1. \A u \in Threads : Owns(u, l)' <=> Owns(u, l)
  BY OthersOwn
<1>2. CASE \E u \in Threads : Owns(u, l)
  BY <1>1, <1>2, HolderIs, HolderNext
<1>3. CASE \A u \in Threads : ~Owns(u, l)
  BY <1>1, <1>3, HolderIs, HolderNext
<1> QED
  BY <1>2, <1>3

LEMMA HolderMaps == /\ DOMAIN Holder = Locks /\ Holder = [l \in Locks |-> Holder[l]]
                    /\ DOMAIN Holder' = Locks /\ Holder' = [l \in Locks |-> Holder'[l]]
  BY DEF Holder

LEMMA SameHolder ==
  ASSUME FirstOwns, FirstOwns', NEW t \in Threads, Alone(t), Same(t)
  PROVE  Holder' = Holder
<1>1. \A l \in Locks : Holder'[l] = Holder[l]
  BY HolderStays DEF Same
<1> QED
  BY <1>1, HolderMaps

LEMMA NewHolder ==
  ASSUME FirstOwns, FirstOwns', NEW t \in Threads, Alone(t), NEW l \in Locks, Also(t, l)
  PROVE  Holder' = [Holder EXCEPT ![l] = t]
<1>1. \A k \in Locks \ {l} : Holder'[k] = Holder[k]
  BY HolderStays DEF Also
<1>2. Holder'[l] = t
  BY HolderNext DEF Also
<1> QED
  BY <1>1, <1>2, HolderMaps

LEMMA NoHolder ==
  ASSUME FirstOwns, FirstOwns', NEW t \in Threads, Alone(t), NEW l \in Locks,
         Owns(t, l), Less(t, l)
  PROVE  Holder' = [Holder EXCEPT ![l] = Null] /\ Holder[l] = t
<1>1. \A k \in Locks \ {l} : Holder'[k] = Holder[k]
  BY HolderStays DEF Less
<1>2. Holder[l] = t
  BY HolderIs
<1>3. \A u \in Threads : ~Owns(u, l)'
  <2> SUFFICES ASSUME NEW u \in Threads, Owns(u, l)' PROVE FALSE
    OBVIOUS
  <2>1. u # t
    BY DEF Less
  <2>2. Owns(u, l)
    BY <2>1, OthersOwn
  <2> QED BY <1>2, <2>1, <2>2, HolderIs
<1>4. Holder'[l] = Null
  BY <1>3, HolderNext
<1> QED
  BY <1>1, <1>2, <1>4, HolderMaps

LEMMA StepImplements ==
  ASSUME IInv, FirstOwns, FirstOwns', [Next]_vars
  PROVE  \/ order' = order /\ Holder' = Holder
         \/ \E t \in Threads, l \in Locks :
              \/ order' = [order EXCEPT ![l] = Append(@, t)] /\ Holder' = Holder
              \/ /\ order[l] # <<>> /\ Head(order[l]) = t /\ Holder[l] = Null
                 /\ Holder' = [Holder EXCEPT ![l] = t] /\ order' = order
              \/ /\ order[l] = <<>> /\ order' = [order EXCEPT ![l] = <<t>>]
                 /\ Holder' = [Holder EXCEPT ![l] = t]
              \/ /\ Holder[l] = t /\ order' = [order EXCEPT ![l] = Tail(@)]
                 /\ Holder' = [Holder EXCEPT ![l] = Null]
<1>1. PICK q \in [Locks -> Seq(Nodes)] : Typed /\ Shape(q)
  BY DEF IInv
<1>2. CASE Next
  <2>1. PICK t \in Threads : Acts(t)
    BY <1>2 DEF Next, Acts
  <2>2. Alone(t)
    BY <1>1, <2>1, LeavesAlone
  <2>3. Stutters(t) \/ \E l \in Locks : Changes(t, l)
    BY <1>1, <2>1, ActEffect
  <2>4. CASE Stutters(t)
    <3>1. order' = order /\ Holder' = Holder
      BY <2>2, <2>4, SameHolder DEF Stutters
    <3> QED BY <3>1
  <2>5. ASSUME NEW l \in Locks, Changes(t, l)
        PROVE  \/ order' = [order EXCEPT ![l] = Append(@, t)] /\ Holder' = Holder
               \/ /\ order[l] # <<>> /\ Head(order[l]) = t /\ Holder[l] = Null
                  /\ Holder' = [Holder EXCEPT ![l] = t] /\ order' = order
               \/ /\ order[l] = <<>> /\ order' = [order EXCEPT ![l] = <<t>>]
                  /\ Holder' = [Holder EXCEPT ![l] = t]
               \/ /\ Holder[l] = t /\ order' = [order EXCEPT ![l] = Tail(@)]
                  /\ Holder' = [Holder EXCEPT ![l] = Null]
    <3>1. CASE Enqueues(t, l)
      <4>1. order' = [order EXCEPT ![l] = Append(@, t)] /\ Holder' = Holder
        BY <2>2, <3>1, SameHolder DEF Enqueues
      <4> QED BY <4>1
    <3>2. CASE Serves(t, l)
      <4>1. Holder[l] = Null /\ Holder' = [Holder EXCEPT ![l] = t]
        BY <2>2, <3>2, NewHolder, HolderIs DEF Serves
      <4>2. order' = order /\ order[l] # <<>> /\ Head(order[l]) = t
        BY <3>2 DEF Serves
      <4> QED BY <4>1, <4>2
    <3>3. CASE Takes(t, l)
      <4>1. Holder' = [Holder EXCEPT ![l] = t] /\ order[l] = <<>>
        BY <2>2, <3>3, NewHolder DEF Takes
      <4>2. Append(<<>>, t) = <<t>>
        OBVIOUS
      <4>3. order' = [order EXCEPT ![l] = <<t>>]
        BY <3>3, <4>1, <4>2 DEF Takes
      <4> QED BY <4>1, <4>3
    <3>4. CASE Releases(t, l)
      <4>1. Holder[l] = t /\ Holder' = [Holder EXCEPT ![l] = Null]
        BY <2>2, <3>4, NoHolder DEF Releases
      <4>2. order' = [order EXCEPT ![l] = Tail(@)]
        BY <3>4 DEF Releases
      <4> QED BY <4>1, <4>2
    <3> QED BY <2>5, <3>1, <3>2, <3>3, <3>4 DEF Changes
  <2>6. CASE \E l \in Locks : Changes(t, l)
    BY <2>5, <2>6
  <2> QED BY <2>3, <2>4, <2>6
<1>3. CASE UNCHANGED vars
  <2>1. order' = order /\ Holder' = Holder
    BY <1>3 DEF vars, Holder, Owns, Held
  <2> QED BY <2>1
<1> QED
  BY <1>2, <1>3

(* mcs_lock_lock, _trylock and _unlock are a queue lock: the lock is given *)
(* in the order of the swaps on lock->next, to one thread at a time, and a *)
(* trylock gets it only when nobody is in the queue.                       *)
THEOREM Implements == Spec => ImplementsFifo
<1>1. Init => Fifo!Init
  <2> SUFFICES ASSUME Init PROVE Fifo!Init
    OBVIOUS
  <2>1. \A t \in Threads, l \in Locks : ~Owns(t, l)
    <3> SUFFICES ASSUME NEW t \in Threads, NEW l \in Locks PROVE ~Owns(t, l)
      OBVIOUS
    <3>1. lock[t] = Null /\ l # Null
      BY Constants DEF Init
    <3>2. \A i \in 1 .. Slots : head[<<t, i>>] # l
      BY <3>1, Constants DEF Init
    <3> QED BY <3>1, <3>2 DEF Owns, Held
  <2>2. order = [l \in Locks |-> <<>>]
    BY DEF Init
  <2> QED BY <2>1, <2>2 DEF Fifo!Init
<1>2. IInv => FirstOwns
  BY OwnersFirst
<1>3. IInv /\ FirstOwns /\ FirstOwns' /\ [Next]_vars => [Fifo!Next]_(Fifo!vars)
  <2> SUFFICES ASSUME IInv, FirstOwns, FirstOwns', [Next]_vars
               PROVE  [Fifo!Next]_(Fifo!vars)
    OBVIOUS
  <2> QED
    BY StepImplements
    DEF Holder, Fifo!Next, Fifo!vars, Fifo!Enqueue, Fifo!Serve, Fifo!Take, Fifo!Release
<1> QED
  BY <1>1, <1>2, <1>3, Inductive, PTL DEF Spec, ImplementsFifo, Fifo!Spec
=============================================================================
