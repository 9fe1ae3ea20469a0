------------------------------ MODULE GlkProofs ------------------------------
(***************************************************************************)
(* Proofs about Glk, for every finite set of threads and every period that *)
(* GlkAssumption admits: the invariant of GlkInvariant is inductive; one   *)
(* thread is in the critical section at a time; the sublock that           *)
(* glk_unlock releases is the one that was acquired; none is left locked   *)
(* by a thread that starts over; only the holder of the sublock in force   *)
(* switches; and the whole is a mutex.                                     *)
(*                                                                         *)
(* Each part of the invariant has a lemma that says that every action of a *)
(* thread keeps it.  In its proof the actions that leave the part alone    *)
(* come first, together, and the others have a step each.                  *)
(***************************************************************************)
EXTENDS GlkInvariant, FiniteSetTheorems, TLAPS

-----------------------------------------------------------------------------
(* Numbers and queues.                                                     *)

(* What the assumption on the constants says of the numbers of the model.  *)
LEMMA Numbers ==
  /\ AdaptEvery \in Nat \ {0} /\ NumAcqInit \in Nat
  /\ N \in Nat /\ N + NumAcqInit <= AdaptEvery /\ 2 * N <= AdaptEvery + 1
  /\ IsFiniteSet(Threads)
<1>1. /\ AdaptEvery \in Nat \ {0} /\ MeasureDiv \in Nat \ {0} /\ IsFiniteSet(Threads)
      /\ 2 * N <= AdaptEvery + 1 /\ N + NumAcqInit <= AdaptEvery
  BY GlkAssumption DEF N, NumAcqInit
<1>2. NumAcqInit \in Nat
  BY <1>1 DEF NumAcqInit
<1> QED
  BY <1>1, <1>2, FS_CardinalityType DEF N

(* A number strictly between two neighbouring multiples of the period, 0   *)
(* and p or p and 2p, is not one of those that adapt.                      *)
LEMMA NotMultiple ==
  ASSUME NEW p \in Nat \ {0}, NEW k \in Nat, (0 < k /\ k < p) \/ (p < k /\ k < 2 * p)
  PROVE  k % p # 0
<1>1. CASE 0 < k /\ k < p
  <2> k % p = k
    BY <1>1
  <2> QED BY <1>1
<1>2. CASE p < k /\ k < 2 * p
  <2> k % p = k - p
    BY <1>2
  <2> QED BY <1>2
<1> QED BY <1>1, <1>2

(* The ticket after k, modulo the period.                                  *)
LEMMA NextTicket ==
  ASSUME NEW p \in Nat \ {0}, NEW k \in 0 .. p - 1
  PROVE  (k + 1) % p = IF k = p - 1 THEN 0 ELSE k + 1
<1>1. CASE k = p - 1
  <2> (k + 1) = p BY <1>1
  <2> p % p = 0 OBVIOUS
  <2> QED BY <1>1
<1>2. CASE k < p - 1
  <2> QED BY <1>2
<1> QED BY <1>1, <1>2

(* Quotients of naturals are naturals.                                     *)
LEMMA ZeroOrMore ==
  ASSUME NEW p \in Nat \ {0}, NEW k \in Nat
  PROVE  k \div p \in Nat
  OBVIOUS

(* A thread that is not in the queue joins it at the end; nobody else      *)
(* moves.                                                                  *)
LEMMA QueueAppend ==
  ASSUME NEW q \in Seq(Threads), NEW t \in Threads,
         \A i \in 1 .. Len(q) : q[i] # t, Distinct(q)
  PROVE  LET r == Append(q, t) IN
         /\ r \in Seq(Threads) /\ Len(r) = Len(q) + 1
         /\ r # <<>> /\ Distinct(r)
         /\ \A i \in 1 .. Len(q) : r[i] = q[i]
         /\ r[Len(r)] = t
<1> DEFINE r == Append(q, t)
<1>1. /\ r \in Seq(Threads) /\ Len(r) = Len(q) + 1 /\ r # <<>>
      /\ \A i \in 1 .. Len(q) : r[i] = q[i]
      /\ r[Len(r)] = t /\ Len(q) \in Nat
  OBVIOUS
<1>2. Distinct(r)
  <2> HIDE DEF r
  <2> QED BY <1>1 DEF Distinct
<1> QED
  BY <1>1, <1>2

(* The first leaves the queue; everybody else moves up by one.             *)
LEMMA QueueTail ==
  ASSUME NEW q \in Seq(Threads), q # <<>>, Distinct(q)
  PROVE  LET r == Tail(q) IN
         /\ r \in Seq(Threads) /\ Len(r) = Len(q) - 1 /\ Distinct(r)
         /\ Len(q) \in Nat \ {0}
         /\ \A i \in 1 .. Len(r) : r[i] = q[i + 1] /\ r[i] # q[1]
  BY DEF Distinct

(* What unlock_lock may do to the words of the three sublocks.             *)
LEMMA UnlockedQueues ==
  ASSUME NEW t \in Threads, UnlockLock(t)
  PROVE  /\ (ticket_queue' # ticket_queue =>
            ticket_queue # <<>> /\ ticket_queue' = Tail(ticket_queue))
         /\ (mcs_queue' # mcs_queue =>
            mcs_queue # <<>> /\ mcs_queue' = Tail(mcs_queue))
         /\ mutex' \in {mutex, NoThread}
<1>1. CASE type[t] = "TICKET"
  BY <1>1 DEF UnlockLock
<1>2. CASE type[t] = "MCS"
  BY <1>2 DEF UnlockLock
<1>3. CASE type[t] = "MUTEX"
  BY <1>3 DEF UnlockLock
<1> QED
  BY <1>1, <1>2, <1>3 DEF UnlockLock

(* Without its first, each of the two queues is still a queue of threads.  *)
LEMMA BothTails ==
  ASSUME IInv
  PROVE  /\ ticket_queue # <<>> => Tail(ticket_queue) \in Seq(Threads)
         /\ mcs_queue # <<>> => Tail(mcs_queue) \in Seq(Threads)
  BY QueueTail DEF IInv, TypeOK, Places, TicketMembers, McsMembers, Queues

(* A queue without repetitions has no more places than it has threads.     *)
LEMMA QueueLength ==
  ASSUME NEW q \in Seq(Threads), Distinct(q), NEW S \in SUBSET Threads,
         \A i \in 1 .. Len(q) : q[i] \in S
  PROVE  Len(q) <= Cardinality(S)
<1>1. IsFiniteSet(S) /\ Cardinality(S) \in Nat
  BY Numbers, FS_Subset, FS_CardinalityType
<1>2. q \in [1 .. Len(q) -> S] /\ Len(q) \in Nat
  OBVIOUS
<1>3. q \in Injection(1 .. Len(q), S)
  BY <1>2 DEF Distinct, Injection, IsInjective
<1>4. Cardinality(1 .. Len(q)) <= Cardinality(S)
  BY <1>1, <1>3, FS_Injection
<1>5. Cardinality(1 .. Len(q)) = Len(q)
  <2>1. 1 \in Int /\ Len(q) \in Int
    BY <1>2
  <2>2. Cardinality(1 .. Len(q)) = IF 1 > Len(q) THEN 0 ELSE Len(q) - 1 + 1
    BY <2>1, FS_Interval
  <2> QED
    BY <1>2, <2>2
<1> QED
  BY <1>1, <1>2, <1>4, <1>5

-----------------------------------------------------------------------------
(* The queue of the ticket lock, the types and the calls.                  *)

(* The distance that LookAtHead computes is 0 exactly for the first of the *)
(* queue.                                                                  *)
LEMMA DistanceIsNat ==
  ASSUME IInv, NEW t \in Threads, pc[t] = "ticket_head"
  PROVE  LET distance == (CHOOSE i \in DOMAIN ticket_queue : ticket_queue[i] = t) - 1 IN
         /\ distance \in Nat
         /\ distance = 0 => ticket_queue # <<>> /\ ticket_queue[1] = t
         /\ ticket_queue # <<>> /\ ticket_queue[1] = t => distance = 0
<1>1. t \in InTicket /\ ticket_queue \in Seq(Threads) /\ Distinct(ticket_queue)
  BY DEF IInv, TypeOK, Places, TypeAt, TicketMembers, Queues, InTicket
<1>2. \E i \in 1 .. Len(ticket_queue) : ticket_queue[i] = t
  BY <1>1 DEF IInv, Places, TicketMembers, Queues
<1>3. DOMAIN ticket_queue = 1 .. Len(ticket_queue) /\ Len(ticket_queue) \in Nat
  BY <1>1
<1> QED
  BY <1>1, <1>2, <1>3 DEF Distinct

(* A decayed measure is still a natural number.                            *)
LEMMA Decay == ASSUME NEW k \in Nat PROVE k \div MeasureDiv \in Nat
  BY GlkAssumption, ZeroOrMore

(* Every action keeps the types.                                           *)
LEMMA TypeStep ==
  ASSUME IInv, NEW t \in Threads, Call(t) \/ Step(t)
  PROVE  TypeOK'
<1>1. CASE Call(t)
  BY <1>1, Numbers DEF IInv, TypeOK, Labels, Call, Goto, glk, queues
<1>2. CASE Reread(t)
  BY <1>2, Numbers DEF IInv, TypeOK, Labels, Reread, Goto, glk, queues
<1>3. CASE TakeTicket(t)
  BY <1>3, Numbers DEF IInv, TypeOK, Labels, TakeTicket, Goto, At, LockAt
<1>4. CASE LookAtHead(t)
  <2> DEFINE distance == (CHOOSE i \in DOMAIN ticket_queue : ticket_queue[i] = t) - 1
  <2>1. distance \in Nat
    BY <1>4, DistanceIsNat DEF LookAtHead
  <2>2. queue_total' \in {queue_total, queue_total + distance}
          /\ pc' \in [Threads -> Labels]
    BY <1>4 DEF IInv, TypeOK, Labels, LookAtHead, Goto, queues
  <2> HIDE DEF distance
  <2> QED
    BY <1>4, <2>1, <2>2 DEF IInv, TypeOK, LookAtHead, Goto, queues
<1>5. CASE TicketTurn(t)
  BY <1>5, Numbers DEF IInv, TypeOK, Labels, TicketTurn, Goto, glk, queues
<1>6. CASE TicketTry(t)
  <2>1. ticket_queue' \in Seq(Threads)
    <3>1. <<t>> \in Seq(Threads)
      OBVIOUS
    <3> QED
      BY <1>6, <3>1 DEF IInv, TypeOK, TicketTry
  <2>2. tail' \in 0 .. AdaptEvery - 1
    BY <1>6, Numbers DEF IInv, TypeOK, TicketTry
  <2> QED
    BY <1>6, <2>1, <2>2 DEF IInv, TypeOK, Labels, TicketTry, Goto, Back, At,
       TryAt
<1>7. CASE TicketAdapt(t)
  <2>1. queue_total' \in Nat /\ num_acquired' \in Nat
    <3>1. /\ queue_total' \in {queue_total, queue_total \div MeasureDiv, 0}
          /\ num_acquired' \in {num_acquired, NumAcqInit}
      BY <1>7 DEF TicketAdapt
    <3>2. queue_total \in Nat /\ num_acquired \in Nat
            /\ queue_total \div MeasureDiv \in Nat
      BY Decay DEF IInv, TypeOK
    <3> QED
      BY <3>1, <3>2, Numbers
  <2>2. pc' \in [Threads -> Labels] /\ target' \in [Threads -> Types \cup {"none"}]
    BY <1>7 DEF IInv, TypeOK, Types, Labels, TicketAdapt, Goto
  <2> QED
    BY <1>7, <2>1, <2>2 DEF IInv, TypeOK, TicketAdapt, queues
<1>8. CASE McsSwap(t)
  BY <1>8, Numbers DEF IInv, TypeOK, Labels, McsSwap, Goto, At, LockAt
<1>9. CASE McsCount(t)
  BY <1>9, Numbers DEF IInv, TypeOK, Labels, McsCount, Goto, queues
<1>10. CASE McsTurn(t)
  BY <1>10, Numbers DEF IInv, TypeOK, Labels, McsTurn, Goto, glk, queues
<1>11. CASE McsTry(t)
  <2>1. mcs_queue' \in Seq(Threads)
    <3>1. <<t>> \in Seq(Threads)
      OBVIOUS
    <3> QED
      BY <1>11, <3>1 DEF IInv, TypeOK, McsTry
  <2> QED
    BY <1>11, <2>1 DEF IInv, TypeOK, Labels, McsTry, Goto, Back, At, TryAt
<1>12. CASE McsAdapt(t)
  <2>1. queue_total' \in Nat /\ num_acquired' \in Nat
    <3>1. \A len \in 1 .. Len(mcs_queue) : queue_total + len \in Nat
      BY DEF IInv, TypeOK
    <3>2. /\ \/ queue_total' \in {queue_total, 0}
             \/ \E len \in 1 .. Len(mcs_queue) : 
                  queue_total' \in {queue_total + len, (queue_total + len) \div MeasureDiv}
          /\ num_acquired' \in {num_acquired, NumAcqInit}
      BY <1>12 DEF McsAdapt
    <3>3. \A len \in 1 .. Len(mcs_queue) : (queue_total + len) \div MeasureDiv \in Nat
      BY <3>1, Decay
    <3>4. queue_total \in Nat /\ num_acquired \in Nat
      BY DEF IInv, TypeOK
    <3> QED
      BY <3>1, <3>2, <3>3, <3>4, Numbers
  <2>2. pc' \in [Threads -> Labels] /\ target' \in [Threads -> Types \cup {"none"}]
    BY <1>12 DEF IInv, TypeOK, Types, Labels, McsAdapt, Goto
  <2> QED
    BY <1>12, <2>1, <2>2 DEF IInv, TypeOK, McsAdapt, queues
<1>13. CASE MutexLock(t)
  BY <1>13, Numbers DEF IInv, TypeOK, Labels, MutexLock, Goto, At, LockAt
<1>14. CASE MutexTry(t)
  BY <1>14, Numbers DEF IInv, TypeOK, Labels, MutexTry, Goto, Back, At, TryAt
<1>15. CASE MutexAdapt(t)
  <2>1. queue_total' \in Nat /\ num_acquired' \in Nat
    BY <1>15 DEF IInv, TypeOK, MutexAdapt
  <2>2. pc' \in [Threads -> Labels] /\ target' \in [Threads -> Types \cup {"none"}]
    BY <1>15 DEF IInv, TypeOK, Types, Labels, MutexAdapt, Goto
  <2> QED
    BY <1>15, <2>1, <2>2 DEF IInv, TypeOK, MutexAdapt, queues
<1>16. CASE WriteType(t)
  <2>1. target[t] \in Types
    BY <1>16 DEF IInv, Switching, WriteType
  <2> QED
    BY <1>16, <2>1 DEF IInv, TypeOK, Labels, WriteType, Goto, queues
<1>17. CASE Check(t)
  BY <1>17, Numbers DEF IInv, TypeOK, Labels, Check, Goto, glk, queues
<1>18. CASE Retry(t)
  <2>1. ticket_queue' \in Seq(Threads) /\ mcs_queue' \in Seq(Threads)
          /\ mutex' \in Threads \cup {NoThread}
    <3>1. /\ (ticket_queue' # ticket_queue =>
             ticket_queue # <<>> /\ ticket_queue' = Tail(ticket_queue))
          /\ (mcs_queue' # mcs_queue =>
             mcs_queue # <<>> /\ mcs_queue' = Tail(mcs_queue))
          /\ mutex' \in {mutex, NoThread}
      BY <1>18, UnlockedQueues DEF Retry
    <3> QED
      BY <3>1, BothTails DEF IInv, TypeOK
  <2>2. tail' = tail
    BY <1>18 DEF Retry, UnlockLock
  <2> QED
    BY <1>18, <2>1, <2>2 DEF IInv, TypeOK, Labels, Retry, Goto
<1>19. CASE UnlockRead(t)
  BY <1>19, Numbers DEF IInv, TypeOK, Labels, UnlockRead, Goto, glk, queues
<1>20. CASE Release(t)
  <2>1. ticket_queue' \in Seq(Threads) /\ mcs_queue' \in Seq(Threads)
          /\ mutex' \in Threads \cup {NoThread}
    <3>1. /\ (ticket_queue' # ticket_queue =>
             ticket_queue # <<>> /\ ticket_queue' = Tail(ticket_queue))
          /\ (mcs_queue' # mcs_queue =>
             mcs_queue # <<>> /\ mcs_queue' = Tail(mcs_queue))
          /\ mutex' \in {mutex, NoThread}
      BY <1>20, UnlockedQueues DEF Release
    <3> QED
      BY <3>1, BothTails DEF IInv, TypeOK
  <2>2. tail' = tail
    BY <1>20 DEF Release, UnlockLock
  <2> QED
    BY <1>20, <2>1, <2>2 DEF IInv, TypeOK, Labels, Release, Goto, Back
<1> QED
  BY <1>1, <1>2, <1>3, <1>4, <1>5, <1>6, <1>7, <1>8, <1>9, <1>10, <1>11,
     <1>12, <1>13, <1>14, <1>15, <1>16, <1>17, <1>18, <1>19, <1>20 DEF Step

(* Every action keeps the calls of the threads in step with where they     *)
(* are.                                                                    *)
LEMMA OpsStep ==
  ASSUME IInv, NEW t \in Threads, Call(t) \/ Step(t)
  PROVE  Ops'
<1>1. CASE Call(t)
  BY <1>1 DEF IInv, TypeOK, Ops, Call, Goto, glk, queues
<1>2. CASE Reread(t)
  BY <1>2 DEF IInv, TypeOK, Ops, Reread, Goto, glk, queues
<1>3. CASE TakeTicket(t)
  BY <1>3 DEF IInv, TypeOK, Ops, TakeTicket, Goto, LockAt, At
<1>4. CASE LookAtHead(t)
  BY <1>4 DEF IInv, TypeOK, Ops, LookAtHead, Goto, queues
<1>5. CASE TicketTurn(t)
  BY <1>5 DEF IInv, TypeOK, Ops, TicketTurn, Goto, glk, queues
<1>6. CASE TicketTry(t)
  BY <1>6 DEF IInv, TypeOK, Ops, TicketTry, Goto, Back, TryAt, At
<1>7. CASE TicketAdapt(t)
  BY <1>7 DEF IInv, TypeOK, Ops, TicketAdapt, Goto, At, queues
<1>8. CASE McsSwap(t)
  BY <1>8 DEF IInv, TypeOK, Ops, McsSwap, Goto, LockAt, At
<1>9. CASE McsCount(t)
  BY <1>9 DEF IInv, TypeOK, Ops, McsCount, Goto, queues
<1>10. CASE McsTurn(t)
  BY <1>10 DEF IInv, TypeOK, Ops, McsTurn, Goto, glk, queues
<1>11. CASE McsTry(t)
  BY <1>11 DEF IInv, TypeOK, Ops, McsTry, Goto, Back, TryAt, At
<1>12. CASE McsAdapt(t)
  BY <1>12 DEF IInv, TypeOK, Ops, McsAdapt, Goto, At, queues
<1>13. CASE MutexLock(t)
  BY <1>13 DEF IInv, TypeOK, Ops, MutexLock, Goto, LockAt, At
<1>14. CASE MutexTry(t)
  BY <1>14 DEF IInv, TypeOK, Ops, MutexTry, Goto, Back, TryAt, At
<1>15. CASE MutexAdapt(t)
  BY <1>15 DEF IInv, TypeOK, Ops, MutexAdapt, Goto, At, queues
<1>16. CASE WriteType(t)
  BY <1>16 DEF IInv, TypeOK, Ops, WriteType, Goto, queues
<1>17. CASE Check(t)
  BY <1>17 DEF IInv, TypeOK, Ops, Check, Goto, glk, queues
<1>18. CASE Retry(t)
  BY <1>18 DEF IInv, TypeOK, Ops, Retry, Goto, UnlockLock
<1>19. CASE UnlockRead(t)
  BY <1>19 DEF IInv, TypeOK, Ops, UnlockRead, Goto, glk, queues
<1>20. CASE Release(t)
  BY <1>20 DEF IInv, TypeOK, Ops, Release, Back, UnlockLock, Goto
<1> QED
  BY <1>1, <1>2, <1>3, <1>4, <1>5, <1>6, <1>7, <1>8, <1>9, <1>10, <1>11, <1>12,
     <1>13, <1>14, <1>15, <1>16, <1>17, <1>18, <1>19, <1>20 DEF Step

-----------------------------------------------------------------------------
(* The places of the threads.                                              *)

(* A queue of the threads of S to which t is appended has the threads of S *)
(* and t.                                                                  *)
LEMMA Join ==
  ASSUME NEW q \in Seq(Threads), NEW S, NEW t \in Threads, Queues(q, S), t \notin S
  PROVE  Queues(Append(q, t), S \cup {t})
<1> DEFINE r == Append(q, t)
<1>1. \A i \in 1 .. Len(q) : q[i] # t
  BY DEF Queues
<1>2. /\ r \in Seq(Threads) /\ Len(r) = Len(q) + 1 /\ Len(q) \in Nat
      /\ Distinct(r)
      /\ \A i \in 1 .. Len(q) : r[i] = q[i]
      /\ r[Len(r)] = t
  BY <1>1, QueueAppend DEF Queues
<1> HIDE DEF r
<1>3. ASSUME NEW u \in Threads
      PROVE u \in S \cup {t} <=> \E i \in 1 .. Len(r) : r[i] = u
  BY <1>2 DEF Queues
<1> QED
  BY <1>2, <1>3 DEF r, Queues

(* A queue of the threads of S without its first has the other threads of  *)
(* S.                                                                      *)
LEMMA Leave ==
  ASSUME NEW q \in Seq(Threads), NEW S, q # <<>>, Queues(q, S)
  PROVE  Queues(Tail(q), S \ {q[1]})
<1> DEFINE r == Tail(q)
<1>1. /\ r \in Seq(Threads) /\ Len(r) = Len(q) - 1 /\ Distinct(r)
      /\ Len(q) \in Nat \ {0}
      /\ \A i \in 1 .. Len(r) : r[i] = q[i + 1] /\ r[i] # q[1]
  BY QueueTail DEF Queues
<1> HIDE DEF r
<1>2. ASSUME NEW u \in Threads
      PROVE u \in S \ {q[1]} <=> \E i \in 1 .. Len(r) : r[i] = u
  <2>1. ASSUME NEW i \in 1 .. Len(q), q[i] = u, u # q[1]
        PROVE  r[i - 1] = u /\ i - 1 \in 1 .. Len(r)
    BY <1>1, <2>1
  <2>2. ASSUME NEW i \in 1 .. Len(r), r[i] = u
        PROVE  q[i + 1] = u /\ i + 1 \in 1 .. Len(q) /\ u # q[1]
    BY <1>1, <2>2
  <2> QED
    BY <2>1, <2>2 DEF Queues
<1> QED
  BY <1>1, <1>2 DEF r, Queues

(* Every action keeps what the place of a thread says of its type.         *)
LEMMA TypeAtStep ==
  ASSUME IInv, NEW t \in Threads, Call(t) \/ Step(t)
  PROVE  (\A u \in Threads : TypeAt(u))'
<1>1. CASE Call(t) \/ Reread(t) \/ TakeTicket(t) \/ LookAtHead(t)
           \/ TicketTurn(t) \/ TicketTry(t) \/ TicketAdapt(t) \/ McsSwap(t)
           \/ McsCount(t) \/ McsTurn(t) \/ McsTry(t) \/ McsAdapt(t)
           \/ MutexLock(t) \/ MutexTry(t) \/ MutexAdapt(t) \/ WriteType(t)
           \/ Check(t) \/ Retry(t) \/ UnlockRead(t) \/ Release(t)
  <2>1. CASE Call(t)
    BY <2>1 DEF IInv, TypeOK, Places, Types, TypeAt, Call, Goto, glk, queues
  <2>2. CASE Reread(t)
    BY <2>2 DEF IInv, TypeOK, Places, Types, TypeAt, Reread, Goto, glk, queues
  <2>3. CASE TakeTicket(t)
    BY <2>3 DEF IInv, TypeOK, Places, Types, TypeAt, TakeTicket, Goto, LockAt,
       At
  <2>4. CASE LookAtHead(t)
    BY <2>4 DEF IInv, TypeOK, Places, Types, TypeAt, LookAtHead, Goto, queues
  <2>5. CASE TicketTurn(t)
    BY <2>5 DEF IInv, TypeOK, Places, Types, TypeAt, TicketTurn, Goto, glk,
       queues
  <2>6. CASE TicketTry(t)
    BY <2>6 DEF IInv, TypeOK, Places, Types, TypeAt, TicketTry, Goto, Back,
       TryAt, At
  <2>7. CASE TicketAdapt(t)
    BY <2>7 DEF IInv, TypeOK, Places, Types, TypeAt, TicketAdapt, Goto, At,
       queues
  <2>8. CASE McsSwap(t)
    BY <2>8 DEF IInv, TypeOK, Places, Types, TypeAt, McsSwap, Goto, LockAt, At
  <2>9. CASE McsCount(t)
    BY <2>9 DEF IInv, TypeOK, Places, Types, TypeAt, McsCount, Goto, queues
  <2>10. CASE McsTurn(t)
    BY <2>10 DEF IInv, TypeOK, Places, Types, TypeAt, McsTurn, Goto, glk,
       queues
  <2>11. CASE McsTry(t)
    BY <2>11 DEF IInv, TypeOK, Places, Types, TypeAt, McsTry, Goto, Back,
       TryAt, At
  <2>12. CASE McsAdapt(t)
    BY <2>12 DEF IInv, TypeOK, Places, Types, TypeAt, McsAdapt, Goto, At,
       queues
  <2>13. CASE MutexLock(t)
    BY <2>13 DEF IInv, TypeOK, Places, Types, TypeAt, MutexLock, Goto, LockAt,
       At
  <2>14. CASE MutexTry(t)
    BY <2>14 DEF IInv, TypeOK, Places, Types, TypeAt, MutexTry, Goto, Back,
       TryAt, At
  <2>15. CASE MutexAdapt(t)
    BY <2>15 DEF IInv, TypeOK, Places, Types, TypeAt, MutexAdapt, Goto, At,
       queues
  <2>16. CASE WriteType(t)
    BY <2>16 DEF IInv, TypeOK, Places, Types, TypeAt, WriteType, Goto, queues
  <2>17. CASE Check(t)
    BY <2>17 DEF IInv, TypeOK, Places, Types, TypeAt, Check, Goto, glk, queues
  <2>18. CASE Retry(t)
    BY <2>18 DEF IInv, TypeOK, Places, Types, TypeAt, Retry, Goto, UnlockLock
  <2>19. CASE UnlockRead(t)
    BY <2>19 DEF IInv, TypeOK, Places, Types, TypeAt, UnlockRead, Goto, glk,
       queues
  <2>20. CASE Release(t)
    BY <2>20 DEF IInv, TypeOK, Places, Types, TypeAt, Release, Back,
       UnlockLock, Goto
  <2> QED
    BY <1>1, <2>1, <2>2, <2>3, <2>4, <2>5, <2>6, <2>7, <2>8, <2>9, <2>10,
       <2>11, <2>12, <2>13, <2>14, <2>15, <2>16, <2>17, <2>18, <2>19, <2>20
<1> QED
  BY <1>1 DEF Step

(* Every action keeps the members of the ticket queue: it changes only     *)
(* when a thread takes a ticket, or releases a ticket lock.                *)
LEMMA TicketMembersStep ==
  ASSUME IInv, NEW t \in Threads, Call(t) \/ Step(t)
  PROVE  TicketMembers'
<1>1. CASE Call(t) \/ Reread(t) \/ LookAtHead(t) \/ TicketTurn(t)
           \/ TicketAdapt(t) \/ McsSwap(t) \/ McsCount(t) \/ McsTurn(t)
           \/ McsTry(t) \/ McsAdapt(t) \/ MutexLock(t) \/ MutexTry(t)
           \/ MutexAdapt(t) \/ WriteType(t) \/ Check(t) \/ UnlockRead(t)
  <2>1. ticket_queue' = ticket_queue /\ InTicket' = InTicket
    BY <1>1 DEF IInv, TypeOK, Places, TypeAt, InCs, Switching, After,
       InTicket, Call, Reread, LookAtHead, TicketTurn, TicketAdapt, McsSwap,
       McsCount, McsTurn, McsTry, McsAdapt, MutexLock, MutexTry, MutexAdapt,
       WriteType, Check, UnlockRead, Goto, Back, At, LockAt, TryAt, glk,
       queues
  <2> QED
    BY <2>1 DEF IInv, Places, TicketMembers
<1>2. CASE Retry(t) \/ Release(t)
  <2>1. CASE type[t] = "TICKET"
    <3>1. ticket_queue' = Tail(ticket_queue) /\ ticket_queue # <<>>
            /\ ticket_queue[1] = t
      BY <1>2, <2>1 DEF IInv, Places, AfterIsFirst, After, Retry, Release,
         Goto, Back, UnlockLock
    <3>2. InTicket' = InTicket \ {t}
      BY <1>2, <2>1 DEF IInv, TypeOK, InTicket, Retry, Release, Goto, Back,
         UnlockLock
    <3> QED
      BY <3>1, <3>2, Leave DEF IInv, TypeOK, Places, TicketMembers
  <2>2. CASE type[t] # "TICKET"
    <3>1. ticket_queue' = ticket_queue /\ InTicket' = InTicket
      <4>1. CASE Retry(t)
        BY <4>1, <2>2 DEF IInv, TypeOK, InTicket, Retry, Goto, UnlockLock
      <4>2. CASE Release(t)
        BY <4>2, <2>2 DEF IInv, TypeOK, InTicket, Release, Back, UnlockLock,
           Goto
      <4> QED
        BY <1>2, <4>1, <4>2
    <3> QED
      BY <3>1 DEF IInv, Places, TicketMembers
  <2> QED
    BY <2>1, <2>2
<1>3. CASE TakeTicket(t)
  <2>1. ticket_queue' = Append(ticket_queue, t) /\ t \notin InTicket
          /\ InTicket' = InTicket \cup {t}
    BY <1>3 DEF IInv, TypeOK, After, InTicket, TakeTicket, Goto, At, LockAt
  <2> QED
    BY <2>1, Join DEF IInv, TypeOK, Places, TicketMembers
<1>4. CASE TicketTry(t)
  <2>1. CASE ticket_queue = <<>>
    <3>1. ticket_queue' = Append(ticket_queue, t)
      BY <1>4, <2>1 DEF TicketTry
    <3>2. t \notin InTicket /\ InTicket' = InTicket \cup {t}
      BY <1>4, <2>1 DEF IInv, TypeOK, After, InTicket, TicketTry, Goto, Back,
         At, TryAt
    <3> QED
      BY <3>1, <3>2, Join DEF IInv, TypeOK, Places, TicketMembers
  <2>2. CASE ticket_queue # <<>>
    <3>1. ticket_queue' = ticket_queue /\ InTicket' = InTicket
      BY <1>4, <2>2 DEF IInv, TypeOK, After, InTicket, TicketTry, Goto, Back,
         At, TryAt
    <3> QED
      BY <3>1 DEF IInv, Places, TicketMembers
  <2> QED
    BY <2>1, <2>2
<1> QED
  BY <1>1, <1>2, <1>3, <1>4 DEF Step

(* Every action keeps the members of the MCS queue: it changes only when a *)
(* thread swaps its node in, or releases an MCS lock.                      *)
LEMMA McsMembersStep ==
  ASSUME IInv, NEW t \in Threads, Call(t) \/ Step(t)
  PROVE  McsMembers'
<1>1. CASE Call(t) \/ Reread(t) \/ TakeTicket(t) \/ LookAtHead(t)
           \/ TicketTurn(t) \/ TicketTry(t) \/ TicketAdapt(t) \/ McsCount(t)
           \/ McsTurn(t) \/ McsAdapt(t) \/ MutexLock(t) \/ MutexTry(t)
           \/ MutexAdapt(t) \/ WriteType(t) \/ Check(t) \/ UnlockRead(t)
  <2>1. mcs_queue' = mcs_queue /\ InMcs' = InMcs
    BY <1>1 DEF IInv, TypeOK, Places, TypeAt, InCs, Switching, After, InMcs,
       Call, Reread, TakeTicket, LookAtHead, TicketTurn, TicketTry,
       TicketAdapt, McsCount, McsTurn, McsAdapt, MutexLock, MutexTry,
       MutexAdapt, WriteType, Check, UnlockRead, Goto, Back, At, LockAt,
       TryAt, glk, queues
  <2> QED
    BY <2>1 DEF IInv, Places, McsMembers
<1>2. CASE Retry(t) \/ Release(t)
  <2>1. CASE type[t] = "MCS"
    <3>1. mcs_queue' = Tail(mcs_queue) /\ mcs_queue # <<>> /\ mcs_queue[1] = t
      BY <1>2, <2>1 DEF IInv, AfterIsFirst, Retry, Release, Goto, Back,
         UnlockLock
    <3>2. InMcs' = InMcs \ {t}
      BY <1>2, <2>1 DEF IInv, TypeOK, InMcs, Retry, Release, Goto, Back,
         UnlockLock
    <3> QED
      BY <3>1, <3>2, Leave DEF IInv, TypeOK, Places, McsMembers
  <2>2. CASE type[t] # "MCS"
    <3>1. mcs_queue' = mcs_queue /\ InMcs' = InMcs
      <4>1. CASE Retry(t)
        BY <4>1, <2>2 DEF IInv, TypeOK, InMcs, Retry, Goto, UnlockLock
      <4>2. CASE Release(t)
        BY <4>2, <2>2 DEF IInv, TypeOK, InMcs, Release, Back, UnlockLock, Goto
      <4> QED
        BY <1>2, <4>1, <4>2
    <3> QED
      BY <3>1 DEF IInv, Places, McsMembers
  <2> QED
    BY <2>1, <2>2
<1>3. CASE McsSwap(t)
  <2>1. mcs_queue' = Append(mcs_queue, t) /\ t \notin InMcs /\ InMcs' = InMcs \cup {t}
    BY <1>3 DEF IInv, TypeOK, After, InMcs, McsSwap, Goto, At, LockAt
  <2> QED
    BY <2>1, Join DEF IInv, TypeOK, Places, McsMembers
<1>4. CASE McsTry(t)
  <2>1. CASE mcs_queue = <<>>
    <3>1. mcs_queue' = Append(mcs_queue, t)
      BY <1>4, <2>1 DEF McsTry
    <3>2. t \notin InMcs /\ InMcs' = InMcs \cup {t}
      BY <1>4, <2>1 DEF IInv, TypeOK, After, InMcs, McsTry, Goto, Back, At,
         TryAt
    <3> QED
      BY <3>1, <3>2, Join DEF IInv, TypeOK, Places, McsMembers
  <2>2. CASE mcs_queue # <<>>
    <3>1. mcs_queue' = mcs_queue /\ InMcs' = InMcs
      BY <1>4, <2>2 DEF IInv, TypeOK, After, InMcs, McsTry, Goto, Back, At,
         TryAt
    <3> QED
      BY <3>1 DEF IInv, Places, McsMembers
  <2> QED
    BY <2>1, <2>2
<1> QED
  BY <1>1, <1>2, <1>3, <1>4 DEF Step

(* Every action keeps the mutex in the hands of the thread that is past    *)
(* acquiring it.                                                           *)
LEMMA MutexMemberStep ==
  ASSUME IInv, NEW t \in Threads, Call(t) \/ Step(t)
  PROVE  MutexMember'
<1>1. CASE Call(t) \/ Reread(t) \/ TakeTicket(t) \/ LookAtHead(t)
           \/ TicketTurn(t) \/ TicketTry(t) \/ TicketAdapt(t) \/ McsSwap(t)
           \/ McsCount(t) \/ McsTurn(t) \/ McsTry(t) \/ McsAdapt(t)
           \/ MutexAdapt(t) \/ WriteType(t) \/ Check(t) \/ UnlockRead(t)
  <2>1. /\ mutex' = mutex
        /\ \A u \in Threads : type'[u] = "MUTEX" /\ pc'[u] \in After
                                <=> type[u] = "MUTEX" /\ pc[u] \in After
    BY <1>1 DEF IInv, TypeOK, Places, TypeAt, InCs, Switching, After, Call,
       Reread, TakeTicket, LookAtHead, TicketTurn, TicketTry, TicketAdapt,
       McsSwap, McsCount, McsTurn, McsTry, McsAdapt, MutexAdapt, WriteType,
       Check, UnlockRead, Goto, Back, At, LockAt, TryAt, glk, queues
  <2> QED
    BY <2>1 DEF IInv, Places, MutexMember
<1>2. CASE MutexLock(t) \/ MutexTry(t)
  <2>1. CASE mutex = NoThread
    BY <1>2, <2>1, GlkAssumption DEF IInv, TypeOK, Places, MutexMember, After,
       MutexLock, MutexTry, Goto, Back, At, LockAt, TryAt
  <2>2. CASE mutex # NoThread
    <3>1. CASE MutexLock(t)
      BY <3>1, <2>2 DEF IInv, TypeOK, Places, MutexMember, After, MutexLock,
         Goto, LockAt, At
    <3>2. CASE MutexTry(t)
      <4>1. mutex' = mutex /\ type[t] = "MUTEX" /\ pc[t] = "acquire"
        BY <3>2, <2>2 DEF MutexTry, TryAt, At
      <4>2. pc' = [pc EXCEPT ![t] = "idle"] /\ type' = [type EXCEPT ![t] = "none"]
        BY <3>2, <2>2 DEF MutexTry, Goto, Back
      <4>3. \A u \in Threads : type'[u] = "MUTEX" /\ pc'[u] \in After
                                <=> type[u] = "MUTEX" /\ pc[u] \in After
        BY <4>1, <4>2 DEF IInv, TypeOK, After
      <4> QED
        BY <4>1, <4>3 DEF IInv, Places, MutexMember
    <3> QED
      BY <1>2, <3>1, <3>2
  <2> QED
    BY <2>1, <2>2
<1>3. CASE Retry(t) \/ Release(t)
  <2>1. CASE type[t] = "MUTEX"
    <3>1. mutex = t /\ mutex' = NoThread
      BY <1>3, <2>1 DEF IInv, Places, MutexMember, After, Retry, Release,
         UnlockLock
    <3>2. \A u \in Threads : ~(type'[u] = "MUTEX" /\ pc'[u] \in After)
      BY <1>3, <2>1, <3>1 DEF IInv, TypeOK, Places, MutexMember, Retry,
         Release, Goto, Back
    <3> QED
      BY <3>1, <3>2, GlkAssumption DEF MutexMember
  <2>2. CASE type[t] # "MUTEX"
    <3>1. /\ mutex' = mutex
          /\ \A u \in Threads : type'[u] = "MUTEX" /\ pc'[u] \in After
                                  <=> type[u] = "MUTEX" /\ pc[u] \in After
      BY <1>3, <2>2 DEF IInv, TypeOK, Retry, Release, Goto, Back, UnlockLock
    <3> QED
      BY <3>1 DEF IInv, Places, MutexMember
  <2> QED
    BY <2>1, <2>2
<1> QED
  BY <1>1, <1>2, <1>3 DEF Step

(* Every action keeps the threads that are past acquiring a queue lock     *)
(* first in their queue.                                                   *)
LEMMA AfterIsFirstStep ==
  ASSUME IInv, NEW t \in Threads, Call(t) \/ Step(t)
  PROVE  AfterIsFirst'
<1>1. CASE Call(t) \/ Reread(t) \/ TicketAdapt(t) \/ McsCount(t)
           \/ McsAdapt(t) \/ MutexLock(t) \/ MutexTry(t) \/ MutexAdapt(t)
           \/ WriteType(t) \/ Check(t) \/ UnlockRead(t)
  <2>1. ticket_queue' = ticket_queue /\ mcs_queue' = mcs_queue
    BY <1>1 DEF Call, Reread, TicketAdapt, McsCount, McsAdapt, MutexLock,
       MutexTry, MutexAdapt, WriteType, Check, UnlockRead, Goto, Back, At,
       LockAt, TryAt, glk, queues
  <2>2. \A u \in Threads : pc'[u] \in After /\ type'[u] # "MUTEX" =>
                             pc[u] \in After /\ type'[u] = type[u]
    <3>1. CASE Call(t) \/ Reread(t) \/ McsCount(t)
      BY <3>1 DEF IInv, TypeOK, After, Call, Reread, McsCount, Goto
    <3>2. CASE MutexLock(t) \/ MutexTry(t)
      BY <3>2 DEF IInv, TypeOK, After, MutexLock, MutexTry, Goto, Back, At,
         LockAt, TryAt
    <3>3. CASE TicketAdapt(t) \/ McsAdapt(t) \/ MutexAdapt(t)
      BY <3>3 DEF IInv, TypeOK, After, TicketAdapt, McsAdapt, MutexAdapt,
         Goto, At
    <3>4. CASE WriteType(t) \/ Check(t) \/ UnlockRead(t)
      BY <3>4 DEF IInv, TypeOK, InCs, Switching, After, WriteType, Check,
         UnlockRead, Goto
    <3> QED
      BY <1>1, <3>1, <3>2, <3>3, <3>4
  <2> QED
    BY <2>1, <2>2 DEF IInv, Places, AfterIsFirst
<1>2. CASE TakeTicket(t)
  <2>1. ticket_queue # <<>> => ticket_queue' # <<>>
          /\ ticket_queue'[1] = ticket_queue[1]
    BY <1>2 DEF IInv, TakeTicket
  <2>2. mcs_queue' = mcs_queue
    BY <1>2 DEF TakeTicket
  <2> QED
    BY <1>2, <2>1, <2>2 DEF IInv, Places, AfterIsFirst, After, TakeTicket,
       Goto, At, LockAt
<1>3. CASE TicketTurn(t)
  BY <1>3 DEF IInv, Places, AfterIsFirst, TypeAt, TicketMembers, Queues,
     InTicket, TicketTurn, Goto, glk, queues
<1>4. CASE TicketTry(t)
  BY <1>4 DEF IInv, TypeOK, Places, AfterIsFirst, McsMembers, Queues, InMcs,
     TicketTry, Goto, Back, At, TryAt
<1>5. CASE McsSwap(t)
  <2>1. mcs_queue # <<>> => mcs_queue' # <<>> /\ mcs_queue'[1] = mcs_queue[1]
    BY <1>5 DEF IInv, McsSwap
  <2>2. ticket_queue' = ticket_queue
    BY <1>5 DEF McsSwap
  <2> QED
    BY <1>5, <2>1, <2>2 DEF IInv, Places, AfterIsFirst, After, McsSwap, Goto,
       At, LockAt
<1>6. CASE McsTurn(t)
  BY <1>6 DEF IInv, Places, AfterIsFirst, TypeAt, McsMembers, Queues, InMcs,
     McsTurn, Goto, glk, queues
<1>7. CASE McsTry(t)
  BY <1>7 DEF IInv, TypeOK, Places, AfterIsFirst, After, McsTry, Goto, Back,
     At, TryAt
<1>8. CASE Retry(t)
  BY <1>8 DEF IInv, TypeOK, Places, AfterIsFirst, After, Retry, Goto,
     UnlockLock
<1>9. CASE Release(t)
  BY <1>9 DEF IInv, TypeOK, Places, AfterIsFirst, After, Release, Goto, Back,
     UnlockLock
<1>10. CASE LookAtHead(t)
  BY <1>10 DEF IInv, Places, AfterIsFirst, TypeAt, After, TicketMembers,
     Queues, InTicket, LookAtHead, Goto, queues
<1> QED
  BY <1>1, <1>2, <1>3, <1>4, <1>5, <1>6, <1>7, <1>8, <1>9, <1>10 DEF Step

-----------------------------------------------------------------------------
(* Who switches.                                                           *)

(* Two threads that are past acquiring sublocks of the same type are one.  *)
LEMMA OneHolder ==
  ASSUME IInv, NEW t \in Threads, NEW u \in Threads,
         pc[t] \in After, pc[u] \in After, type[t] = type[u]
  PROVE  t = u
<1>1. type[t] \in Types
  BY DEF IInv, TypeOK, Places, TypeAt, After
<1> QED
  BY <1>1 DEF IInv, Places, AfterIsFirst, MutexMember, Types

(* Nobody adapts a lock that has moved on.                                 *)
LEMMA AdaptsInTime ==
  ASSUME IInv, NEW t \in Threads, pc[t] = "adapt", MustTryAdapt(num[t]),
         type[t] \in {"TICKET", "MCS"}
  PROVE  lock_type = type[t]
  BY DEF IInv, McsPart, CriticalRoom, MustTryAdapt, TicketPart, LateTickets,
     HasTicket, Critical

(* Every action keeps what a thread in the critical section, or about to   *)
(* store to lock_type, knows of lock_type.                                 *)
LEMMA SwitchingStep ==
  ASSUME IInv, NEW t \in Threads, Call(t) \/ Step(t)
  PROVE  Switching'
<1>1. CASE Call(t) \/ Reread(t) \/ TakeTicket(t) \/ LookAtHead(t)
           \/ TicketTurn(t) \/ TicketTry(t) \/ McsSwap(t) \/ McsCount(t)
           \/ McsTurn(t) \/ McsTry(t) \/ MutexLock(t) \/ MutexTry(t)
           \/ MutexAdapt(t) \/ Check(t) \/ Retry(t) \/ UnlockRead(t)
           \/ Release(t)
  BY <1>1 DEF IInv, TypeOK, Types, InCs, Switching, Call, Reread, TakeTicket,
     LookAtHead, TicketTurn, TicketTry, McsSwap, McsCount, McsTurn, McsTry,
     MutexLock, MutexTry, MutexAdapt, Check, Retry, UnlockRead, Release, Goto,
     Back, At, LockAt, TryAt, UnlockLock, glk, queues
<1>2. CASE TicketAdapt(t) \/ McsAdapt(t)
  <2>1. pc'[t] = "write" => type[t] = lock_type /\ target'[t] \in Types \ {lock_type}
    BY <1>2, AdaptsInTime DEF IInv, TypeOK, Types, TicketAdapt, McsAdapt,
       Goto, At
  <2>2. pc'[t] \in {"write", "check"} /\ type[t] \in {"TICKET", "MCS"}
          /\ lock_type' = lock_type /\ type' = type
    BY <1>2 DEF IInv, TypeOK, TicketAdapt, McsAdapt, Goto, At
  <2>3. \A u \in Threads \ {t} : pc'[u] = pc[u] /\ target'[u] = target[u]
    BY <1>2 DEF IInv, TypeOK, TicketAdapt, McsAdapt, Goto
  <2> QED
    BY <2>1, <2>2, <2>3 DEF IInv, InCs, Switching
<1>3. CASE WriteType(t)
  <2>1. /\ pc[t] = "write" /\ type[t] = lock_type /\ type' = type
        /\ pc'[t] = "check" /\ \A u \in Threads \ {t} : pc'[u] = pc[u]
    BY <1>3 DEF IInv, TypeOK, Switching, WriteType, Goto
  <2>2. \A u \in Threads \ {t} : ~(InCs(u) \/ pc[u] = "write")
    BY <2>1, OneHolder DEF IInv, InCs, Switching, After
  <2> QED
    BY <2>1, <2>2 DEF InCs, Switching
<1> QED
  BY <1>1, <1>2, <1>3 DEF Step

-----------------------------------------------------------------------------
(* The tickets.                                                            *)

(* The sizes of sets of threads: of a part, of a set that loses a thread,  *)
(* of what is left of all the threads.                                     *)
LEMMA Sizes ==
  ASSUME NEW S \in SUBSET Threads
  PROVE  /\ IsFiniteSet(S) /\ Cardinality(S) \in Nat /\ Cardinality(S) <= N
         /\ \A T \in SUBSET S : Cardinality(T) \in Nat
              /\ Cardinality(T) <= Cardinality(S)
         /\ \A t \in S : Cardinality(S \ {t}) = Cardinality(S) - 1
              /\ Cardinality(S) >= 1
         /\ Cardinality(Threads \ S) = N - Cardinality(S)
<1>1. IsFiniteSet(S) /\ Cardinality(S) <= N
  BY Numbers, FS_Subset DEF N
<1>2. Cardinality(S) \in Nat
  BY <1>1, FS_CardinalityType
<1>3. ASSUME NEW T \in SUBSET S
      PROVE  Cardinality(T) \in Nat /\ Cardinality(T) <= Cardinality(S)
  BY <1>1, FS_Subset, FS_CardinalityType
<1>4. ASSUME NEW t \in S
      PROVE  Cardinality(S \ {t}) = Cardinality(S) - 1 /\ Cardinality(S) >= 1
  <2>1. Cardinality(S \ {t}) = Cardinality(S) - 1
    BY <1>1, FS_RemoveElement
  <2>2. Cardinality(S) # 0
    BY <1>1, FS_EmptySet
  <2> QED
    BY <2>1, <2>2, <1>2
<1>5. Cardinality(Threads \ S) = N - Cardinality(S)
  <2>1. Threads \cap S = S
    OBVIOUS
  <2> QED
    BY <2>1, Numbers, FS_Difference DEF N
<1> QED
  BY <1>1, <1>2, <1>3, <1>4, <1>5

(* The threads in the ticket queue and those that have still to join it    *)
(* are different threads, so there are at most N of them.                  *)
LEMMA TicketRoomFor ==
  ASSUME IInv
  PROVE  /\ Len(ticket_queue) \in Nat
         /\ TicketPending \in SUBSET Threads /\ Cardinality(TicketPending) \in Nat
         /\ Len(ticket_queue) + Cardinality(TicketPending) <= N
<1>1. TicketPending \in SUBSET Threads
  BY DEF TicketPending
<1>2. \A i \in 1 .. Len(ticket_queue) : ticket_queue[i] \in Threads \ TicketPending
  <2> SUFFICES ASSUME NEW i \in 1 .. Len(ticket_queue)
               PROVE  ticket_queue[i] \in Threads \ TicketPending
    OBVIOUS
  <2>1. ticket_queue[i] \in Threads
    BY DEF IInv, TypeOK
  <2>2. ticket_queue[i] \in InTicket
    BY <2>1 DEF IInv, Places, TicketMembers, Queues
  <2> QED
    BY <2>1, <2>2 DEF TicketPending, After, InTicket
<1>3. Len(ticket_queue) <= Cardinality(Threads \ TicketPending)
  BY <1>2, QueueLength DEF IInv, TypeOK, Places, TicketMembers, Queues
<1>4. Len(ticket_queue) \in Nat
  BY DEF IInv
<1>5. Cardinality(TicketPending) \in Nat
        /\ Cardinality(Threads \ TicketPending) = N - Cardinality(TicketPending)
  BY <1>1, Sizes
<1> QED
  BY <1>1, <1>3, <1>4, <1>5, Numbers

(* A thread that takes a ticket while the lock has another type takes one  *)
(* below the end of the period.                                            *)
LEMMA NextNumber ==
  ASSUME IInv, NEW t \in Threads, t \in TicketPending
  PROVE  /\ lock_type # "TICKET" => tail + 1 < AdaptEvery
         /\ Cardinality(TicketPending \ {t}) = Cardinality(TicketPending) - 1
         /\ Len(ticket_queue) + 1 <= N
         /\ (tail + 1) % AdaptEvery = IF tail = AdaptEvery - 1 THEN 0 ELSE tail + 1
         /\ tail \in Nat /\ tail < AdaptEvery
<1>1. Cardinality(TicketPending \ {t}) = Cardinality(TicketPending) - 1
        /\ Cardinality(TicketPending) >= 1
  BY TicketRoomFor, Sizes
<1>2. tail \in 0 .. AdaptEvery - 1
  BY DEF IInv, TypeOK
<1>3. lock_type # "TICKET" => tail + Cardinality(TicketPending) < AdaptEvery
  BY DEF IInv, TicketPart, TicketRoom
<1>4. (tail + 1) % AdaptEvery = IF tail = AdaptEvery - 1 THEN 0 ELSE tail + 1
  BY <1>2, NextTicket, Numbers
<1>5. tail \in Nat /\ tail < AdaptEvery /\ AdaptEvery \in Nat /\ N \in Nat
  BY <1>2, Numbers
<1>6. lock_type # "TICKET" => tail + 1 < AdaptEvery
  BY <1>1, <1>3, <1>5, TicketRoomFor
<1>7. Len(ticket_queue) + 1 <= N
  BY <1>1, <1>5, TicketRoomFor
<1> QED
  BY <1>1, <1>4, <1>5, <1>6, <1>7

(* While a thread with a ticket is about to store to lock_type, nobody in  *)
(* the queue has a ticket that adapts: the next one comes a period later,  *)
(* and there are not that many threads.                                    *)
LEMMA WriterIsFirst ==
  ASSUME IInv, NEW t \in Threads, pc[t] = "write", type[t] = "TICKET",
         NEW u \in Threads, HasTicket(u)
  PROVE  num[u] % AdaptEvery # 0
<1>1. u # t /\ u \in InTicket /\ pc[u] # "adapt"
  BY OneHolder DEF After, HasTicket, InTicket
<1>2. PICK i \in 1 .. Len(ticket_queue) : ticket_queue[i] = u
  BY <1>1 DEF IInv, Places, TicketMembers, Queues
<1>3. ticket_queue[1] = t
  BY DEF IInv, Places, AfterIsFirst, After
<1>4. i >= 2 /\ i <= Len(ticket_queue) /\ i \in Nat
  BY <1>1, <1>2, <1>3, TicketRoomFor
<1>5. tail = Len(ticket_queue) - 1
  BY DEF IInv, TicketPart, TicketWriter
<1>6. num[u] = IF tail >= Len(ticket_queue) - i THEN tail - (Len(ticket_queue) - i)
               ELSE tail - (Len(ticket_queue) - i) + AdaptEvery
  BY <1>2 DEF IInv, TicketPart, TicketNumbers
<1>7. num[u] = i - 1
  BY <1>4, <1>5, <1>6, TicketRoomFor
<1>8. i - 1 \in Nat /\ 0 < i - 1 /\ i - 1 < AdaptEvery
  BY <1>4, TicketRoomFor, Numbers
<1> QED
  BY <1>7, <1>8, NotMultiple, Numbers

(* Every action keeps the late tickets from being among those that adapt.  *)
LEMMA LateTicketsStep ==
  ASSUME IInv, NEW t \in Threads, Call(t) \/ Step(t)
  PROVE  LateTickets'
<1>1. CASE Call(t) \/ Reread(t) \/ LookAtHead(t) \/ TicketTurn(t)
           \/ TicketTry(t) \/ TicketAdapt(t) \/ McsSwap(t) \/ McsCount(t)
           \/ McsTurn(t) \/ McsTry(t) \/ McsAdapt(t) \/ MutexLock(t)
           \/ MutexTry(t) \/ MutexAdapt(t) \/ Check(t) \/ Retry(t)
           \/ UnlockRead(t) \/ Release(t)
  <2>1. /\ lock_type' = lock_type
        /\ \A u \in Threads : HasTicket(u)' => HasTicket(u) /\ num'[u] = num[u]
    BY <1>1 DEF IInv, TypeOK, Places, TypeAt, HasTicket, Call, Reread,
       LookAtHead, TicketTurn, TicketTry, TicketAdapt, McsSwap, McsCount,
       McsTurn, McsTry, McsAdapt, MutexLock, MutexTry, MutexAdapt, Check,
       Retry, UnlockRead, Release, Goto, Back, At, LockAt, TryAt, glk
  <2> QED
    BY <2>1 DEF IInv, TicketPart, LateTickets
<1>2. CASE TakeTicket(t)
  <2>1. t \in TicketPending
    BY <1>2 DEF TicketPending, TakeTicket, At, LockAt
  <2>0. num'[t] = (tail + 1) % AdaptEvery
    BY <1>2 DEF IInv, TypeOK, TakeTicket
  <2>2. lock_type # "TICKET" => tail + 1 \in Nat /\ 0 < tail + 1
          /\ tail + 1 < AdaptEvery /\ num'[t] = tail + 1
    <3>1. AdaptEvery \in Nat
      BY Numbers
    <3>2. /\ lock_type # "TICKET" => tail + 1 < AdaptEvery
          /\ (tail + 1) % AdaptEvery = IF tail = AdaptEvery - 1 THEN 0 ELSE tail + 1
          /\ tail \in Nat
      BY <2>1, NextNumber
    <3> HIDE DEF IInv
    <3> QED
      BY <2>0, <3>1, <3>2
  <2>3. lock_type # "TICKET" => num'[t] % AdaptEvery # 0
    BY <2>2, NotMultiple, Numbers
  <2>4. /\ lock_type' = lock_type /\ type' = type
        /\ \A u \in Threads \ {t} : pc'[u] = pc[u] /\ num'[u] = num[u]
    BY <1>2 DEF IInv, TakeTicket, Goto
  <2> QED
    BY <2>3, <2>4 DEF IInv, TicketPart, LateTickets, HasTicket
<1>3. CASE WriteType(t)
  <2>1. type' = type /\ num' = num /\ pc'[t] = "check" /\ pc[t] = "write"
          /\ \A u \in Threads \ {t} : pc'[u] = pc[u]
    BY <1>3 DEF IInv, TypeOK, WriteType, Goto
  <2>2. \A u \in Threads : HasTicket(u)' => HasTicket(u)
    BY <2>1 DEF HasTicket
  <2>3. CASE lock_type = "TICKET"
    <3>1. type[t] = "TICKET"
      BY <2>1, <2>3 DEF IInv, Switching
    <3> QED
      BY <2>1, <2>2, <3>1, WriterIsFirst DEF LateTickets
  <2>4. CASE lock_type # "TICKET"
    BY <2>1, <2>2, <2>4 DEF IInv, TicketPart, LateTickets
  <2> QED
    BY <2>3, <2>4
<1> QED
  BY <1>1, <1>2, <1>3 DEF Step

(* The tickets still count down from tail after a step that gives none     *)
(* out.                                                                    *)
LEMMA SameNumbers ==
  ASSUME IInv, ticket_queue' = ticket_queue, tail' = tail,
         \A u \in Threads : HasTicket(u)' => HasTicket(u) /\ num'[u] = num[u]
  PROVE  TicketNumbers'
<1>1. \A i \in 1 .. Len(ticket_queue) : ticket_queue[i] \in Threads
  BY DEF IInv, TypeOK
<1> QED
  BY <1>1 DEF IInv, TicketPart, TicketNumbers

(* Every action keeps the tickets of the queue counting down from tail.    *)
LEMMA TicketNumbersStep ==
  ASSUME IInv, NEW t \in Threads, Call(t) \/ Step(t)
  PROVE  TicketNumbers'
<1>1. CASE Call(t) \/ Reread(t) \/ LookAtHead(t) \/ TicketTurn(t)
           \/ TicketAdapt(t) \/ McsSwap(t) \/ McsCount(t) \/ McsTurn(t)
           \/ McsTry(t) \/ McsAdapt(t) \/ MutexLock(t) \/ MutexTry(t)
           \/ MutexAdapt(t) \/ WriteType(t) \/ Check(t) \/ UnlockRead(t)
  <2>1. ticket_queue' = ticket_queue /\ tail' = tail
    BY <1>1 DEF Call, Reread, LookAtHead, TicketTurn, TicketAdapt, McsSwap,
       McsCount, McsTurn, McsTry, McsAdapt, MutexLock, MutexTry, MutexAdapt,
       WriteType, Check, UnlockRead, Goto, Back, At, LockAt, TryAt, glk,
       queues
  <2>2. \A u \in Threads : HasTicket(u)' => HasTicket(u) /\ num'[u] = num[u]
    BY <1>1 DEF IInv, TypeOK, Places, TypeAt, HasTicket, Call, Reread,
       LookAtHead, TicketTurn, TicketAdapt, McsSwap, McsCount, McsTurn,
       McsTry, McsAdapt, MutexLock, MutexTry, MutexAdapt, WriteType, Check,
       UnlockRead, Goto, Back, At, LockAt, TryAt, glk, queues
  <2> QED
    BY <2>1, <2>2, SameNumbers
<1>2. CASE Retry(t) \/ Release(t)
  <2>1. CASE type[t] = "TICKET"
    <3>1. ticket_queue' = Tail(ticket_queue) /\ ticket_queue # <<>>
            /\ tail' = tail /\ num' = num
      BY <1>2, <2>1 DEF Retry, Release, UnlockLock
    <3>2. \A u \in Threads : HasTicket(u)' => HasTicket(u)
      BY <1>2 DEF IInv, TypeOK, HasTicket, Retry, Release, Goto, Back,
         UnlockLock
    <3>3. /\ Len(ticket_queue') = Len(ticket_queue) - 1 /\ Len(ticket_queue) \in Nat
          /\ \A i \in 1 .. Len(ticket_queue') :
               ticket_queue'[i] = ticket_queue[i + 1]
                 /\ i + 1 \in 1 .. Len(ticket_queue)
                                                 /\ ticket_queue[i + 1] \in Threads
      BY <3>1 DEF IInv, TypeOK
    <3>4. ASSUME NEW i \in 1 .. Len(ticket_queue'), HasTicket(ticket_queue[i + 1])
          PROVE  LET behind == Len(ticket_queue') - i IN
                 num[ticket_queue[i + 1]] = IF tail >= behind THEN tail - behind ELSE tail - behind + AdaptEvery
      <4>1. /\ i + 1 \in 1 .. Len(ticket_queue)
            /\ Len(ticket_queue) - (i + 1) = Len(ticket_queue') - i
        BY <3>3
      <4> QED
        BY <3>4, <4>1 DEF IInv, TicketPart, TicketNumbers
    <3> QED
      BY <3>1, <3>2, <3>3, <3>4 DEF TicketNumbers
  <2>2. CASE type[t] # "TICKET"
    <3>1. ticket_queue' = ticket_queue /\ tail' = tail
      BY <1>2, <2>2 DEF Retry, Release, UnlockLock
    <3>2. \A u \in Threads : HasTicket(u)' => HasTicket(u) /\ num'[u] = num[u]
      BY <1>2 DEF IInv, TypeOK, HasTicket, Retry, Release, Goto, Back,
         UnlockLock
    <3> QED
      BY <3>1, <3>2, SameNumbers
  <2> QED
    BY <2>1, <2>2
<1>3. CASE TakeTicket(t)
  <2>1. t \in TicketPending
    BY <1>3 DEF TicketPending, TakeTicket, At, LockAt
  <2>2. /\ tail' = IF tail = AdaptEvery - 1 THEN 0 ELSE tail + 1
        /\ num'[t] = tail' /\ \A u \in Threads \ {t} : num'[u] = num[u]
        /\ \A u \in Threads \ {t} : HasTicket(u)' => HasTicket(u)
    BY <1>3, <2>1, NextNumber DEF IInv, TypeOK, HasTicket, TakeTicket, Goto,
       At, LockAt
  <2>3. /\ ticket_queue' = Append(ticket_queue, t)
        /\ \A i \in 1 .. Len(ticket_queue) : ticket_queue[i] \in Threads \ {t}
    <3>1. t \notin InTicket
      BY <2>1 DEF TicketPending, After, InTicket
    <3>2. \A i \in 1 .. Len(ticket_queue) : ticket_queue[i] \in Threads
      BY DEF IInv, TypeOK
    <3> QED
      BY <1>3, <3>1, <3>2 DEF IInv, Places, TicketMembers, Queues, TakeTicket
  <2>4. /\ Len(ticket_queue') = Len(ticket_queue) + 1
        /\ ticket_queue'[Len(ticket_queue) + 1] = t
        /\ \A i \in 1 .. Len(ticket_queue) : ticket_queue'[i] = ticket_queue[i]
    BY <2>3 DEF IInv
  <2>5. /\ Len(ticket_queue) \in Nat /\ tail \in Nat /\ tail < AdaptEvery
             /\ Len(ticket_queue) < AdaptEvery
        /\ AdaptEvery \in Nat
    <3>1. Len(ticket_queue) + 1 <= N /\ tail \in Nat /\ tail < AdaptEvery
      BY <2>1, NextNumber
    <3>2. Len(ticket_queue) \in Nat
      BY TicketRoomFor
    <3> QED
      BY <3>1, <3>2, Numbers
  <2> SUFFICES ASSUME NEW i \in 1 .. Len(ticket_queue'), HasTicket(ticket_queue[i])'
               PROVE  num'[ticket_queue'[i]] =
                        IF tail' >= Len(ticket_queue') - i THEN tail' - (Len(ticket_queue') - i)
                        ELSE tail' - (Len(ticket_queue') - i) + AdaptEvery
    BY DEF TicketNumbers
  <2>6. CASE i = Len(ticket_queue) + 1
    BY <2>2, <2>4, <2>5, <2>6
  <2>7. CASE i \in 1 .. Len(ticket_queue)
    <3> DEFINE u == ticket_queue[i]
    <3>1. HasTicket(u) /\ num'[ticket_queue'[i]] = num[u]
      <4>1. u \in Threads \ {t} /\ ticket_queue'[i] = u
        BY <2>3, <2>4, <2>7
      <4>2. type'[u] = "TICKET" /\ pc'[u] \in {"ticket_head", "ticket_wait", "adapt"}
        BY <4>1 DEF HasTicket
      <4> HIDE DEF u
      <4> QED
        BY <2>2, <4>1, <4>2
    <3>2. num[ticket_queue[i]] = IF tail >= Len(ticket_queue) - i THEN tail - (Len(ticket_queue) - i)
                                 ELSE tail - (Len(ticket_queue) - i) + AdaptEvery
      BY <3>1, <2>7 DEF IInv, TicketPart, TicketNumbers
    <3> QED
      BY <2>2, <2>4, <2>5, <2>7, <3>1, <3>2
  <2> QED
    BY <2>4, <2>5, <2>6, <2>7
<1>4. CASE TicketTry(t)
  <2>1. \A u \in Threads : HasTicket(u)' => HasTicket(u) /\ num'[u] = num[u]
    BY <1>4 DEF IInv, TypeOK, HasTicket, TicketTry, Goto, Back, At, TryAt
  <2>2. CASE ticket_queue = <<>>
    <3>1. ticket_queue' = <<t>> /\ ~HasTicket(t)'
      BY <1>4, <2>2 DEF IInv, TypeOK, HasTicket, TicketTry, Goto, Back, At,
         TryAt
    <3>2. Len(<<t>>) = 1 /\ <<t>>[1] = t
      OBVIOUS
    <3> QED
      BY <3>1, <3>2 DEF TicketNumbers
  <2>3. CASE ticket_queue # <<>>
    <3>1. ticket_queue' = ticket_queue /\ tail' = tail
      BY <1>4, <2>3 DEF TicketTry
    <3> QED
      BY <2>1, <3>1, SameNumbers
  <2> QED
    BY <2>2, <2>3
<1> QED
  BY <1>1, <1>2, <1>3, <1>4 DEF Step

(* Every action keeps ticket 0 with the thread that switches from a ticket *)
(* lock.                                                                   *)
LEMMA TicketWriterStep ==
  ASSUME IInv, NEW t \in Threads, Call(t) \/ Step(t)
  PROVE  TicketWriter'
<1>1. CASE Call(t) \/ Reread(t) \/ LookAtHead(t) \/ TicketTurn(t)
           \/ McsSwap(t) \/ McsCount(t) \/ McsTurn(t) \/ McsTry(t)
           \/ McsAdapt(t) \/ MutexLock(t) \/ MutexTry(t) \/ MutexAdapt(t)
           \/ WriteType(t) \/ Check(t) \/ UnlockRead(t)
  <2>1. ticket_queue' = ticket_queue /\ tail' = tail
    BY <1>1 DEF Call, Reread, LookAtHead, TicketTurn, McsSwap, McsCount,
       McsTurn, McsTry, McsAdapt, MutexLock, MutexTry, MutexAdapt, WriteType,
       Check, UnlockRead, Goto, Back, At, LockAt, TryAt, glk, queues
  <2>2. \A u \in Threads : pc'[u] = "write" /\ type'[u] = "TICKET"
          => pc[u] = "write" /\ type[u] = "TICKET"
    BY <1>1 DEF IInv, TypeOK, Call, Reread, LookAtHead, TicketTurn, McsSwap,
       McsCount, McsTurn, McsTry, McsAdapt, MutexLock, MutexTry, MutexAdapt,
       WriteType, Check, UnlockRead, Goto, Back, At, LockAt, TryAt, glk,
       queues
  <2> QED
    BY <2>1, <2>2 DEF IInv, TicketPart, TicketWriter
<1>2. CASE Retry(t) \/ Release(t)
  <2>1. \A u \in Threads \ {t} : pc'[u] = pc[u] /\ type'[u] = type[u]
    BY <1>2 DEF IInv, TypeOK, Retry, Release, Goto, Back
  <2>2. pc'[t] # "write" /\ pc[t] \in After
    BY <1>2 DEF IInv, TypeOK, After, Retry, Release, Goto, Back
  <2>3. CASE type[t] = "TICKET"
    <3>1. \A u \in Threads \ {t} : ~(pc[u] = "write" /\ type[u] = "TICKET")
      BY <2>2, <2>3, OneHolder DEF After
    <3> QED
      BY <2>1, <2>2, <3>1 DEF TicketWriter
  <2>4. CASE type[t] # "TICKET"
    <3>1. ticket_queue' = ticket_queue /\ tail' = tail
      BY <1>2, <2>4 DEF Retry, Release, UnlockLock
    <3> QED
      BY <2>1, <2>2, <3>1 DEF IInv, TicketPart, TicketWriter
  <2> QED
    BY <2>3, <2>4
<1>3. CASE TakeTicket(t)
  <2>1. t \in TicketPending
    BY <1>3 DEF TicketPending, TakeTicket, At, LockAt
  <2>2. \A u \in Threads : pc'[u] = "write" /\ type'[u] = "TICKET"
          => pc[u] = "write" /\ type[u] = "TICKET"
    BY <1>3 DEF IInv, TakeTicket, Goto, At, LockAt
  <2>3. Len(ticket_queue) + 1 <= N /\ tail \in Nat
          /\ tail' = IF tail = AdaptEvery - 1 THEN 0 ELSE tail + 1
    BY <1>3, <2>1, NextNumber DEF TakeTicket
  <2>4. Len(ticket_queue) \in Nat /\ Len(ticket_queue') = Len(ticket_queue) + 1
    BY <1>3 DEF IInv, TakeTicket
  <2>5. N <= AdaptEvery /\ N \in Nat /\ AdaptEvery \in Nat
    BY Numbers
  <2>6. tail = Len(ticket_queue) - 1 => tail' = Len(ticket_queue') - 1
    BY <2>3, <2>4, <2>5
  <2> QED
    BY <2>2, <2>6 DEF IInv, TicketPart, TicketWriter
<1>4. CASE TicketTry(t)
  <2>1. \A u \in Threads : pc'[u] = "write" /\ type'[u] = "TICKET"
          => pc[u] = "write" /\ type[u] = "TICKET"
    BY <1>4 DEF IInv, TypeOK, TicketTry, Goto, Back, At, TryAt
  <2>2. CASE ticket_queue = <<>>
    BY <2>1, <2>2 DEF IInv, Places, AfterIsFirst, After, TicketWriter
  <2>3. CASE ticket_queue # <<>>
    <3>1. ticket_queue' = ticket_queue /\ tail' = tail
      BY <1>4, <2>3 DEF TicketTry
    <3> QED
      BY <2>1, <3>1 DEF IInv, TicketPart, TicketWriter
  <2> QED
    BY <2>2, <2>3
<1>5. CASE TicketAdapt(t)
  <2>1. ticket_queue' = ticket_queue /\ tail' = tail
    BY <1>5 DEF TicketAdapt, queues
  <2>2. \A u \in Threads \ {t} : pc'[u] = pc[u] /\ type'[u] = type[u]
    BY <1>5 DEF IInv, TypeOK, TicketAdapt, Goto
  <2>3. pc'[t] = "write" => num[t] % AdaptEvery = 0
    BY <1>5 DEF IInv, TypeOK, MustTryAdapt, TicketAdapt, Goto
  <2>4. HasTicket(t) /\ ticket_queue[1] = t /\ ticket_queue # <<>>
    BY <1>5 DEF IInv, Places, AfterIsFirst, After, HasTicket, TicketAdapt, At
  <2>5. /\ Len(ticket_queue) \in Nat /\ 1 \in 1 .. Len(ticket_queue)
        /\ tail \in Nat /\ tail < AdaptEvery
    <3>1. Len(ticket_queue) \in Nat /\ 1 \in 1 .. Len(ticket_queue)
      BY <2>4 DEF IInv
    <3>2. tail \in Nat /\ tail < AdaptEvery
      BY Numbers DEF IInv, TypeOK
    <3> QED
      BY <3>1, <3>2
  <2>6. num[t] = IF tail >= Len(ticket_queue) - 1 THEN tail - (Len(ticket_queue) - 1)
                 ELSE tail - (Len(ticket_queue) - 1) + AdaptEvery
    BY <2>4, <2>5 DEF IInv, TicketPart, TicketNumbers
  <2>7. Len(ticket_queue) <= AdaptEvery /\ AdaptEvery \in Nat
    BY TicketRoomFor, Numbers
  <2>8. num[t] \in Nat /\ num[t] < AdaptEvery
          /\ (num[t] = 0 => tail = Len(ticket_queue) - 1)
    BY <2>5, <2>6, <2>7
  <2>9. num[t] % AdaptEvery = 0 => tail = Len(ticket_queue) - 1
    BY <2>8, NotMultiple, Numbers
  <2> QED
    BY <2>1, <2>2, <2>3, <2>9 DEF IInv, TicketPart, TicketWriter
<1> QED
  BY <1>1, <1>2, <1>3, <1>4, <1>5 DEF Step

(* The late tickets keep their room in a step by which no more threads are *)
(* to take one.                                                            *)
LEMMA FewerPending ==
  ASSUME IInv, tail' = tail, lock_type' = lock_type,
         lock_type # "TICKET" => TicketPending' \in SUBSET TicketPending
  PROVE  TicketRoom'
<1> SUFFICES ASSUME lock_type # "TICKET"
             PROVE  tail + Cardinality(TicketPending') < AdaptEvery
  BY DEF TicketRoom
<1>1. tail + Cardinality(TicketPending) < AdaptEvery
  BY DEF IInv, TicketPart, TicketRoom
<1>2. Cardinality(TicketPending') \in Nat
        /\ Cardinality(TicketPending') <= Cardinality(TicketPending)
  BY TicketRoomFor, Sizes
<1>3. tail \in Nat /\ Cardinality(TicketPending) \in Nat /\ AdaptEvery \in Nat
  BY TicketRoomFor, Numbers DEF IInv, TypeOK
<1> QED
  BY <1>1, <1>2, <1>3

(* A late ticket that is taken takes no more room than was left for it.    *)
LEMMA OnePendingLess ==
  ASSUME IInv, NEW t \in Threads, t \in TicketPending, lock_type' = lock_type,
         tail' = (tail + 1) % AdaptEvery, TicketPending' = TicketPending \ {t}
  PROVE  TicketRoom'
<1> SUFFICES ASSUME lock_type # "TICKET"
             PROVE  tail' + Cardinality(TicketPending') < AdaptEvery
  BY DEF TicketRoom
<1>1. tail + Cardinality(TicketPending) < AdaptEvery
  BY DEF IInv, TicketPart, TicketRoom
<1>2. /\ tail + 1 < AdaptEvery /\ tail \in Nat
      /\ (tail + 1) % AdaptEvery = IF tail = AdaptEvery - 1 THEN 0 ELSE tail + 1
      /\ Cardinality(TicketPending \ {t}) = Cardinality(TicketPending) - 1
  BY NextNumber
<1>3. Cardinality(TicketPending) \in Nat /\ AdaptEvery \in Nat
  BY TicketRoomFor, Numbers
<1> QED
  BY <1>1, <1>2, <1>3

(* Every action leaves the late tickets room below the end of the period.  *)
LEMMA TicketRoomStep ==
  ASSUME IInv, NEW t \in Threads, Call(t) \/ Step(t)
  PROVE  TicketRoom'
<1>1. CASE Call(t) \/ Reread(t) \/ LookAtHead(t) \/ TicketTurn(t)
           \/ TicketAdapt(t) \/ McsSwap(t) \/ McsCount(t) \/ McsTurn(t)
           \/ McsTry(t) \/ McsAdapt(t) \/ MutexLock(t) \/ MutexTry(t)
           \/ MutexAdapt(t) \/ Check(t) \/ Retry(t) \/ UnlockRead(t)
           \/ Release(t)
  <2>1. tail' = tail /\ lock_type' = lock_type
    BY <1>1 DEF Call, Reread, LookAtHead, TicketTurn, TicketAdapt, McsSwap,
       McsCount, McsTurn, McsTry, McsAdapt, MutexLock, MutexTry, MutexAdapt,
       Check, Retry, UnlockRead, Release, Goto, Back, At, LockAt, TryAt,
       UnlockLock, glk, queues
  <2>2. lock_type # "TICKET" => TicketPending' \in SUBSET TicketPending
    BY <1>1 DEF IInv, TypeOK, TicketPending, Call, Reread, LookAtHead,
       TicketTurn, TicketAdapt, McsSwap, McsCount, McsTurn, McsTry, McsAdapt,
       MutexLock, MutexTry, MutexAdapt, Check, Retry, UnlockRead, Release,
       Goto, Back, At, LockAt, TryAt, UnlockLock, glk, queues
  <2> QED
    BY <2>1, <2>2, FewerPending
<1>2. CASE TakeTicket(t)
  <2>1. t \in TicketPending
    BY <1>2 DEF TicketPending, TakeTicket, At, LockAt
  <2>2. lock_type' = lock_type /\ tail' = (tail + 1) % AdaptEvery
    BY <1>2 DEF TakeTicket
  <2>3. TicketPending' = TicketPending \ {t}
    BY <1>2 DEF IInv, TypeOK, TicketPending, TakeTicket, Goto, At, LockAt
  <2> QED
    BY <2>1, <2>2, <2>3, OnePendingLess
<1>3. CASE TicketTry(t)
  <2>1. t \in TicketPending
    BY <1>3 DEF TicketPending, TicketTry, At, TryAt
  <2>2. lock_type' = lock_type /\ tail' \in {tail, (tail + 1) % AdaptEvery}
    BY <1>3 DEF TicketTry
  <2>3. TicketPending' = TicketPending \ {t}
    BY <1>3 DEF IInv, TypeOK, TicketPending, TicketTry, Goto, Back, At, TryAt
  <2>4. CASE tail' = tail
    <3>1. TicketPending' \in SUBSET TicketPending
      BY <2>3
    <3> QED
      BY <2>2, <2>4, <3>1, FewerPending
  <2>5. CASE tail' = (tail + 1) % AdaptEvery
    BY <2>1, <2>2, <2>3, <2>5, OnePendingLess
  <2> QED
    BY <2>2, <2>4, <2>5
<1>4. CASE WriteType(t)
  <2>1. tail' = tail
    BY <1>4 DEF WriteType, queues
  <2>2. TicketPending' = TicketPending
    BY <1>4 DEF IInv, TicketPending, WriteType, Goto, queues
  <2>3. pc[t] = "write" /\ type[t] = lock_type
    BY <1>4 DEF IInv, Switching, WriteType
  <2>4. CASE lock_type = "TICKET"
    <3>1. tail = Len(ticket_queue) - 1
      BY <2>3, <2>4 DEF IInv, TicketPart, TicketWriter
    <3>2. N <= AdaptEvery /\ N \in Nat /\ AdaptEvery \in Nat
      BY Numbers
    <3>3. tail + Cardinality(TicketPending) < AdaptEvery
      BY <3>1, <3>2, TicketRoomFor
    <3> QED
      BY <2>1, <2>2, <3>3 DEF TicketRoom
  <2>5. CASE lock_type # "TICKET"
    BY <2>1, <2>2, <2>5 DEF IInv, TicketPart, TicketRoom
  <2> QED
    BY <2>4, <2>5
<1> QED
  BY <1>1, <1>2, <1>3, <1>4 DEF Step

-----------------------------------------------------------------------------
(* The MCS queue.                                                          *)

(* The sizes of the sets that bound num_acquired.                          *)
LEMMA McsSizes ==
  ASSUME IInv, NEW t \in Threads
  PROVE  /\ Once(t) \in SUBSET (Threads \ {t}) /\ Twice(t) \in SUBSET (Threads \ {t})
         /\ Cardinality(Once(t)) \in 0 .. N - 1 /\ Cardinality(Twice(t)) \in 0 .. N - 1
         /\ Pending \in SUBSET Threads /\ Cardinality(Pending) \in 0 .. N
         /\ t \notin Pending => Cardinality(Pending) <= N - 1
         /\ N >= 1
<1>1. /\ Once(t) \in SUBSET (Threads \ {t}) /\ Twice(t) \in SUBSET (Threads \ {t})
      /\ Pending \in SUBSET Threads
  BY DEF Once, Twice, Pending
<1>2. /\ Cardinality(Threads \ {t}) = N - 1 /\ N >= 1 /\ N \in Nat
      /\ Threads \ {t} \in SUBSET Threads
  <2>1. Cardinality(Threads \ {t}) = Cardinality(Threads) - 1
          /\ Cardinality(Threads) >= 1
    BY Sizes
  <2> QED
    BY <2>1, Numbers DEF N
<1>3. /\ Cardinality(Once(t)) \in Nat /\ Cardinality(Once(t)) <= N - 1
      /\ Cardinality(Twice(t)) \in Nat /\ Cardinality(Twice(t)) <= N - 1
  BY <1>1, <1>2, Sizes
<1>4. Cardinality(Pending) \in Nat /\ Cardinality(Pending) <= N
  BY <1>1, Sizes
<1>5. t \notin Pending => Cardinality(Pending) <= N - 1
  <2>1. t \notin Pending => Pending \in SUBSET (Threads \ {t})
    BY <1>1
  <2> QED
    BY <2>1, <1>2, Sizes
<1> QED
  BY <1>1, <1>2, <1>3, <1>4, <1>5

(* Of two threads in the MCS queue, one is in front of the other.          *)
LEMMA InOrder ==
  ASSUME IInv, NEW t \in InMcs, NEW u \in InMcs, t # u
  PROVE  /\ Before(t, u) \/ Before(u, t)
         /\ ~(Before(t, u) /\ Before(u, t))
<1>1. PICK i \in 1 .. Len(mcs_queue) : mcs_queue[i] = t
  BY DEF IInv, Places, McsMembers, Queues, InMcs
<1>2. PICK j \in 1 .. Len(mcs_queue) : mcs_queue[j] = u
  BY DEF IInv, Places, McsMembers, Queues, InMcs
<1>3. Len(mcs_queue) \in Nat /\ Distinct(mcs_queue)
  BY DEF IInv, Places, McsMembers, Queues
<1>4. i < j \/ j < i
  BY <1>1, <1>2, <1>3
<1> QED
  BY <1>1, <1>2, <1>3, <1>4 DEF Before, Distinct

(* The first of the queue is behind nobody.                                *)
LEMMA FirstIsFirst ==
  ASSUME IInv, NEW t \in Threads, NEW u \in Threads, type[t] = "MCS", pc[t] \in After
  PROVE  ~Before(u, t)
<1>1. mcs_queue # <<>> /\ mcs_queue[1] = t /\ mcs_queue \in Seq(Threads)
        /\ Distinct(mcs_queue)
  BY DEF IInv, TypeOK, Places, AfterIsFirst, McsMembers, Queues
<1> QED
  BY <1>1 DEF Before, Distinct

(* What a thread may still do before t adapts only gets less, in steps     *)
(* that do not change the order of the queue in front of t and behind it.  *)
LEMMA Kept ==
  ASSUME NEW t \in Threads,
         \A u \in Threads : Before(u, t)' => Before(u, t),
         \A u \in Threads : Before(t, u) => Before(t, u)',
         \A u \in Threads : Before(u, t) /\ pc'[u] = "mcs_count" => pc[u] = "mcs_count",
         \A u \in Threads : Before(t, u) /\ pc[u] = "mcs_wait" => pc'[u] = "mcs_wait"
  PROVE  Once(t) \in SUBSET Once(t)' /\ Twice(t) \in SUBSET Twice(t)'
  BY DEF Once, Twice

(* The order of the MCS queue is the same if the queue is.                 *)
LEMMA SameOrder ==
  ASSUME mcs_queue' = mcs_queue, NEW t, NEW u
  PROVE  Before(t, u)' <=> Before(t, u)
  BY DEF Before

(* A thread that joins the MCS queue changes the order of no two others.   *)
LEMMA AppendOrder ==
  ASSUME IInv, NEW t \in InMcs, NEW v \in Threads, v \notin InMcs,
         mcs_queue' = Append(mcs_queue, v), NEW u \in Threads
  PROVE  (Before(u, t)' => Before(u, t)) /\ (Before(t, u) => Before(t, u)')
<1>1. /\ Len(mcs_queue) \in Nat /\ Len(mcs_queue') = Len(mcs_queue) + 1
      /\ \A i \in 1 .. Len(mcs_queue) : mcs_queue'[i] = mcs_queue[i]
           /\ mcs_queue[i] \in Threads
      /\ mcs_queue'[Len(mcs_queue) + 1] = v
  BY DEF IInv, TypeOK
<1>2. t # v
  OBVIOUS
<1>3. ASSUME NEW i \in 1 .. Len(mcs_queue'), NEW j \in 1 .. Len(mcs_queue'), i < j,
             mcs_queue'[i] = u, mcs_queue'[j] = t
      PROVE  i \in 1 .. Len(mcs_queue) /\ j \in 1 .. Len(mcs_queue)
  <2>1. j # Len(mcs_queue) + 1
    BY <1>1, <1>2, <1>3
  <2> QED
    BY <1>1, <1>3, <2>1
<1>4. \A i \in 1 .. Len(mcs_queue) : i \in 1 .. Len(mcs_queue')
  BY <1>1
<1> QED
  BY <1>1, <1>3, <1>4 DEF Before

(* A thread that leaves the MCS queue as its first is in front of t no     *)
(* longer, and changes no other order.                                     *)
LEMMA TailOrder ==
  ASSUME IInv, NEW t \in Threads, mcs_queue # <<>>, mcs_queue[1] # t,
         mcs_queue' = Tail(mcs_queue), NEW u \in Threads
  PROVE  (Before(u, t)' => Before(u, t)) /\ (Before(t, u) => Before(t, u)')
<1>1. /\ Len(mcs_queue) \in Nat \ {0} /\ Len(mcs_queue') = Len(mcs_queue) - 1
      /\ \A i \in 1 .. Len(mcs_queue') : mcs_queue'[i] = mcs_queue[i + 1]
  BY DEF IInv
<1>2. ASSUME NEW i \in 1 .. Len(mcs_queue'), NEW j \in 1 .. Len(mcs_queue'), i < j,
             mcs_queue'[i] = u, mcs_queue'[j] = t
      PROVE  Before(u, t)
  <2>1. /\ i + 1 \in 1 .. Len(mcs_queue) /\ j + 1 \in 1 .. Len(mcs_queue)
             /\ i + 1 < j + 1
        /\ mcs_queue[i + 1] = u /\ mcs_queue[j + 1] = t
    BY <1>1, <1>2
  <2> QED
    BY <2>1 DEF Before
<1>3. ASSUME NEW i \in 1 .. Len(mcs_queue), NEW j \in 1 .. Len(mcs_queue), i < j,
             mcs_queue[i] = t, mcs_queue[j] = u
      PROVE  Before(t, u)'
  <2>1. i # 1
    BY <1>3
  <2>2. /\ i - 1 \in 1 .. Len(mcs_queue') /\ j - 1 \in 1 .. Len(mcs_queue')
             /\ i - 1 < j - 1
        /\ mcs_queue'[i - 1] = t /\ mcs_queue'[j - 1] = u
    BY <1>1, <1>3, <2>1
  <2> QED
    BY <2>2 DEF Before
<1> QED
  BY <1>2, <1>3 DEF Before

-----------------------------------------------------------------------------
(* The count of the MCS lock.                                              *)

(* A set of threads without two given threads has at most N - 2 of them.   *)
LEMMA OneLess ==
  ASSUME NEW u \in Threads, NEW t \in Threads, t # u,
         NEW S \in SUBSET (Threads \ {u}), t \notin S
  PROVE  Cardinality(S) \in Nat /\ Cardinality(S) <= N - 2
<1>1. S \in SUBSET ((Threads \ {u}) \ {t})
        /\ Threads \ {u} \in SUBSET Threads /\ Threads \in SUBSET Threads
  OBVIOUS
<1>2. Cardinality(Threads \ {u}) = N - 1
  BY <1>1, Sizes DEF N
<1>3. Cardinality((Threads \ {u}) \ {t}) = N - 2
  <2>1. Cardinality((Threads \ {u}) \ {t}) = Cardinality(Threads \ {u}) - 1
    BY <1>1, Sizes
  <2> QED
    BY <2>1, <1>2, Numbers
<1>4. (Threads \ {u}) \ {t} \in SUBSET Threads
  OBVIOUS
<1> QED
  BY <1>1, <1>3, <1>4, Sizes

(* The number a thread gets when it counts itself.                         *)
LEMMA CountCases ==
  ASSUME IInv, NEW t \in Threads, pc[t] = "mcs_count"
  PROVE  \/ (num_acquired + 1) % AdaptEvery # 0
         \/ /\ num_acquired + 1 = AdaptEvery /\ lock_type = "MCS"
            /\ \A u \in Threads : ~Critical(u) /\ ~Writing(u)
<1>1. /\ num_acquired \in Nat /\ AdaptEvery \in Nat \ {0} /\ N \in Nat
           /\ NumAcqInit \in Nat
      /\ 2 * N <= AdaptEvery + 1 /\ N + NumAcqInit <= AdaptEvery
  BY Numbers DEF IInv, TypeOK
<1>2. t \in Pending /\ t \in InMcs
  BY DEF IInv, Places, TypeAt, InMcs, Pending
<1>3. Cardinality(Pending) >= 1 /\ Cardinality(Pending) \in Nat
  BY <1>2, McsSizes, Sizes
<1>4. ASSUME \/ num_acquired + 1 < AdaptEvery
             \/ AdaptEvery < num_acquired + 1 /\ num_acquired + 1 < 2 * AdaptEvery
      PROVE  (num_acquired + 1) % AdaptEvery # 0
  <2>1. num_acquired + 1 \in Nat /\ 0 < num_acquired + 1
    BY <1>1
  <2> QED
    BY <1>1, <1>4, <2>1, NotMultiple
<1>5. CASE lock_type # "MCS"
  <2>1. \/ num_acquired + Cardinality(Pending) < AdaptEvery
        \/ AdaptEvery <= num_acquired
             /\ num_acquired + Cardinality(Pending) < 2 * AdaptEvery
    <3>1. lock_type = "TICKET" \/ lock_type = "MUTEX"
      BY <1>5 DEF IInv, TypeOK, Types
    <3>2. lock_type = "TICKET" => num_acquired + Cardinality(Pending) < AdaptEvery
      BY DEF IInv, McsPart, LateCounts, LateRoom
    <3>3. lock_type = "MUTEX" =>
            \/ num_acquired + Cardinality(Pending) < AdaptEvery
            \/ AdaptEvery <= num_acquired
                 /\ num_acquired + Cardinality(Pending) < 2 * AdaptEvery
      BY DEF IInv, McsPart, LateCounts, LateRoom
    <3> QED
      BY <3>1, <3>2, <3>3
  <2> QED
    BY <1>1, <1>3, <1>4, <2>1
<1>6. ASSUME NEW u \in Threads, Critical(u), lock_type = "MCS"
      PROVE  AdaptEvery < num_acquired + 1 /\ num_acquired + 1 < 2 * AdaptEvery
  <2>1. t # u /\ u \in InMcs
    BY <1>6 DEF After, InMcs, Critical
  <2>2. t \notin Once(u) \/ t \notin Twice(u)
    BY <2>1 DEF Once, Twice
  <2>3. AdaptEvery <= num_acquired
        /\ num_acquired <= AdaptEvery + Cardinality(Once(u)) + Cardinality(Twice(u))
    BY <1>6 DEF IInv, McsPart, CriticalRoom
  <2>4. Cardinality(Once(u)) \in 0 .. N - 1 /\ Cardinality(Twice(u)) \in 0 .. N - 1
    BY McsSizes
  <2>5. (\E S \in SUBSET (Threads \ {u}) : t \notin S /\ S = Once(u))
          => Cardinality(Once(u)) <= N - 2
    BY <2>1, OneLess, McsSizes
  <2>6. (\E S \in SUBSET (Threads \ {u}) : t \notin S /\ S = Twice(u))
          => Cardinality(Twice(u)) <= N - 2
    BY <2>1, OneLess, McsSizes
  <2>7. Cardinality(Once(u)) <= N - 2 \/ Cardinality(Twice(u)) <= N - 2
    BY <2>2, <2>5, <2>6, McsSizes
  <2> HIDE DEF IInv
  <2> QED
    BY <1>1, <2>3, <2>4, <2>7
<1>7. ASSUME NEW u \in Threads, Writing(u)
      PROVE  \/ num_acquired + 1 < AdaptEvery
             \/ AdaptEvery < num_acquired + 1 /\ num_acquired + 1 < 2 * AdaptEvery
  <2>1. t # u
    BY <1>7 DEF Writing
  <2>2. t \notin Twice(u)
    BY <2>1 DEF Twice
  <2>3. Cardinality(Twice(u)) <= N - 2 /\ Cardinality(Twice(u)) \in Nat
    BY <2>1, <2>2, OneLess, McsSizes
  <2>4. \/ AdaptEvery <= num_acquired
             /\ num_acquired <= AdaptEvery + N - 1 + Cardinality(Twice(u))
        \/ num_acquired <= NumAcqInit + Cardinality(Twice(u))
    BY <1>7 DEF IInv, McsPart, WriterRoom
  <2> QED
    BY <1>1, <2>3, <2>4
<1>8. CASE lock_type = "MCS" /\ \A u \in Threads : ~Critical(u) /\ ~Writing(u)
  <2>1. num_acquired < AdaptEvery
    BY <1>8 DEF IInv, McsPart, QuietRoom
  <2>2. num_acquired + 1 < AdaptEvery \/ num_acquired + 1 = AdaptEvery
    BY <1>1, <2>1
  <2>3. num_acquired + 1 < AdaptEvery => (num_acquired + 1) % AdaptEvery # 0
    BY <1>4
  <2> QED
    BY <1>8, <2>2, <2>3
<1>9. CASE lock_type = "MCS" /\ \E u \in Threads : Critical(u)
  <2>1. AdaptEvery < num_acquired + 1 /\ num_acquired + 1 < 2 * AdaptEvery
    BY <1>6, <1>9
  <2> QED
    BY <1>4, <2>1
<1>10. CASE \E u \in Threads : Writing(u)
  <2>1. \/ num_acquired + 1 < AdaptEvery
        \/ AdaptEvery < num_acquired + 1 /\ num_acquired + 1 < 2 * AdaptEvery
    BY <1>7, <1>10
  <2> QED
    BY <1>4, <2>1
<1> QED
  BY <1>5, <1>8, <1>9, <1>10

(* Steps that change neither the count, nor what the invariant says of it. *)
(* A step that leaves num_acquired and lock_type alone, and takes no       *)
(* thread to a number that adapts, to the store, or, unless the lock is of *)
(* type MCS, to a count that is still to come.                             *)
McsQuiet ==
  /\ num_acquired' = num_acquired /\ lock_type' = lock_type
  /\ \A t \in Threads : Critical(t)' => Critical(t)
  /\ \A t \in Threads : Writing(t)' => Writing(t) /\ target'[t] = target[t]
  /\ \A t \in Threads : Critical(t) \/ Writing(t) => Critical(t)' \/ Writing(t)'
  /\ lock_type # "MCS" => Pending' \in SUBSET Pending
  /\ \A t \in Threads : pc'[t] = "write" /\ type'[t] = "MUTEX"
                          => pc[t] = "write" /\ type[t] = "MUTEX"

(* A quiet step keeps the bounds, if no thread gets a count back that it   *)
(* had used up.                                                            *)
LEMMA Undisturbed ==
  ASSUME IInv, McsQuiet,
         \A t \in Threads : Critical(t)' \/ Writing(t)' =>
                              Once(t) \in SUBSET Once(t)'
                                /\ Twice(t) \in SUBSET Twice(t)'
  PROVE  McsPart'
<1> USE DEF McsQuiet
<1>1. /\ num_acquired \in Nat /\ AdaptEvery \in Nat /\ N \in Nat /\ NumAcqInit \in Nat
  BY Numbers DEF IInv, TypeOK
<1>2. ASSUME NEW t \in Threads, Critical(t)' \/ Writing(t)'
      PROVE  /\ Cardinality(Once(t)) \in Nat /\ Cardinality(Once(t))' \in Nat
             /\ Cardinality(Twice(t)) \in Nat /\ Cardinality(Twice(t))' \in Nat
             /\ Cardinality(Once(t)) <= Cardinality(Once(t))'
             /\ Cardinality(Twice(t)) <= Cardinality(Twice(t))'
  <2>1. Once(t)' \in SUBSET Threads /\ Twice(t)' \in SUBSET Threads
    BY DEF Once, Twice
  <2>2. Once(t) \in SUBSET Once(t)' /\ Twice(t) \in SUBSET Twice(t)'
    BY <1>2
  <2> QED
    BY <2>1, <2>2, Sizes
<1>3. CriticalRoom'
  <2> SUFFICES ASSUME NEW t \in Threads, Critical(t)'
               PROVE  /\ lock_type' = "MCS" /\ AdaptEvery <= num_acquired'
                      /\ num_acquired' <= AdaptEvery + Cardinality(Once(t))' + Cardinality(Twice(t))'
    BY DEF CriticalRoom
  <2>1. /\ lock_type = "MCS" /\ AdaptEvery <= num_acquired
        /\ num_acquired <= AdaptEvery + Cardinality(Once(t)) + Cardinality(Twice(t))
    BY DEF IInv, McsPart, CriticalRoom
  <2> HIDE DEF IInv
  <2> QED
    BY <1>1, <1>2, <2>1
<1>4. CriticalAlone'
  BY DEF IInv, McsPart, CriticalAlone
<1>5. WriterRoom'
  <2> SUFFICES ASSUME NEW t \in Threads, Writing(t)'
               PROVE  \/ target'[t] = "MUTEX" /\ AdaptEvery <= num_acquired'
                           /\ num_acquired' <= AdaptEvery + N - 1 + Cardinality(Twice(t))'
                      \/ target'[t] = "TICKET"
                           /\ num_acquired' <= NumAcqInit + Cardinality(Twice(t))'
    BY DEF WriterRoom
  <2>1. \/ target[t] = "MUTEX" /\ AdaptEvery <= num_acquired
             /\ num_acquired <= AdaptEvery + N - 1 + Cardinality(Twice(t))
        \/ target[t] = "TICKET" /\ num_acquired <= NumAcqInit + Cardinality(Twice(t))
    BY DEF IInv, McsPart, WriterRoom
  <2> HIDE DEF IInv
  <2> QED
    BY <1>1, <1>2, <2>1
<1>6. QuietRoom'
  BY DEF IInv, McsPart, QuietRoom
<1>7. LateCounts'
  <2>1. lock_type # "MCS" => /\ Cardinality(Pending)' \in Nat
                                  /\ Cardinality(Pending) \in Nat
                             /\ Cardinality(Pending)' <= Cardinality(Pending)
    <3>1. Pending \in SUBSET Threads
      BY DEF Pending
    <3> QED
      BY <3>1, Sizes
  <2>2. lock_type # "MCS" => /\ LateRoom => LateRoom'
                             /\ num_acquired + Cardinality(Pending) < 2 * AdaptEvery =>
                                  num_acquired' + Cardinality(Pending)' < 2 * AdaptEvery
    BY <1>1, <2>1 DEF LateRoom
  <2>3. \A t \in Threads : pc[t] = "write" /\ type[t] = "MUTEX" => lock_type = "MUTEX"
    BY DEF IInv, Switching
  <2> QED
    BY <2>2, <2>3 DEF IInv, McsPart, LateCounts
<1> QED
  BY <1>3, <1>4, <1>5, <1>6, <1>7 DEF McsPart

(* While the lock is not an MCS lock, only the late counts matter.         *)
LEMMA Late ==
  ASSUME lock_type' # "MCS", \A t \in Threads : ~Critical(t)' /\ ~Writing(t)',
         LateCounts'
  PROVE  McsPart'
  BY DEF McsPart, CriticalRoom, CriticalAlone, WriterRoom, QuietRoom

(* The count starts again, by a thread that is not about to count itself.  *)
LEMMA Restart ==
  ASSUME IInv, NEW t \in Threads, t \notin Pending, Pending' \in SUBSET Pending,
         num_acquired' \in {0, NumAcqInit}
  PROVE  LateRoom'
<1>1. /\ Cardinality(Pending) <= N - 1 /\ Cardinality(Pending) \in Nat
           /\ Pending \in SUBSET Threads
  BY McsSizes
<1>2. Cardinality(Pending)' \in Nat /\ Cardinality(Pending)' <= Cardinality(Pending)
  BY <1>1, Sizes
<1>3. /\ AdaptEvery \in Nat /\ N \in Nat /\ NumAcqInit \in Nat
      /\ N + NumAcqInit <= AdaptEvery
  BY Numbers
<1> QED
  BY <1>1, <1>2, <1>3 DEF LateRoom

(* Multiples of s leave no remainder.                                      *)
LEMMA MultMod == ASSUME NEW s \in Nat \ {0}, NEW m \in Nat PROVE (s * m) % s = 0
<1>1. /\ s * m = (s * ((s * m) \div s)) + ((s * m) % s)
      /\ (s * m) % s \in 0 .. s - 1 /\ (s * m) \div s \in Nat
      /\ s * m \in Nat
  BY Z3
<1> DEFINE q == (s * m) \div s
           r == (s * m) % s
<1>2. q \in Nat /\ r \in 0 .. s - 1 /\ s * m = s * q + r
  BY <1>1
<1> HIDE DEF q, r
<1>3. s * (m - q) = r
  BY <1>2, Z3
<1>4. m - q >= 1 => s * (m - q) >= s
  BY <1>2, Z3
<1>5. m - q <= -1 => s * (m - q) <= -s
  BY <1>2, Z3
<1>6. r = 0
  BY <1>2, <1>3, <1>4, <1>5
<1> QED BY <1>6 DEF r

(* A number that makes a thread adapt also makes it sample: the sample     *)
(* period divides the adaptation period.                                   *)
LEMMA Divides ==
  ASSUME NEW s \in Nat \ {0}, NEW p \in Nat \ {0}, NEW n \in Nat, p % s = 0, n % p = 0
  PROVE  n % s = 0
<1>1. n = p * (n \div p) /\ n \div p \in Nat
  BY Z3
<1>2. p = s * (p \div s) /\ p \div s \in Nat
  BY Z3
<1> DEFINE k == p \div s
           q == n \div p
<1>3. n = p * q /\ p = s * k /\ q \in Nat /\ k \in Nat
  BY <1>1, <1>2
<1> HIDE DEF k, q
<1>4. n = s * (k * q) /\ k * q \in Nat
  BY <1>3, Z3
<1> QED
  BY <1>4, MultMod

(* Counting an acquisition keeps the bounds. It is where a number that     *)
(* adapts comes from, and the bounds say that only one is in use.          *)
LEMMA McsCountKeeps == ASSUME IInv, NEW t \in Threads, McsCount(t) PROVE McsPart'
<1>1. /\ pc[t] = "mcs_count" /\ type[t] = "MCS" /\ pc'[t] = "mcs_wait"
           /\ type' = type /\ num'[t] = num_acquired + 1
      /\ num_acquired' = num_acquired + 1 /\ lock_type' = lock_type
           /\ mcs_queue' = mcs_queue /\ target' = target
      /\ \A u \in Threads \ {t} : pc'[u] = pc[u] /\ num'[u] = num[u]
  BY DEF IInv, TypeOK, Places, TypeAt, McsCount, Goto, queues
<1>2. /\ Pending' = Pending \ {t} /\ t \in Pending /\ ~Critical(t)
           /\ ~Writing(t) /\ t \in InMcs
      /\ \A u \in Threads \ {t} : (Critical(u)' <=> Critical(u))
           /\ (Writing(u)' <=> Writing(u))
      /\ Critical(t)' <=> (num_acquired + 1) % AdaptEvery = 0
      /\ ~Writing(t)'
  BY <1>1 DEF InMcs, Critical, Writing, Pending
<1>3. /\ num_acquired \in Nat /\ AdaptEvery \in Nat /\ N \in Nat /\ NumAcqInit \in Nat
  BY Numbers DEF IInv, TypeOK
<1>4. Cardinality(Pending)' = Cardinality(Pending) - 1 /\ Cardinality(Pending) \in Nat
  BY <1>2, McsSizes, Sizes
<1>5. LateCounts'
  <2>1. num_acquired' + Cardinality(Pending)' = num_acquired + Cardinality(Pending)
    BY <1>1, <1>3, <1>4
  <2>2. AdaptEvery <= num_acquired => AdaptEvery <= num_acquired'
    BY <1>1, <1>3
  <2>3. \A u \in Threads : pc'[u] = "write" => pc[u] = "write"
    BY <1>1
  <2> QED
    BY <1>1, <2>1, <2>2, <2>3 DEF IInv, McsPart, LateCounts, LateRoom
<1>6. \A u \in Threads : \A v \in Threads : Before(u, v)' <=> Before(u, v)
  BY <1>1, SameOrder
<1>7. ASSUME NEW u \in Threads, u # t
      PROVE  /\ Once(u)' = IF Before(t, u) THEN Once(u) \cup {t} ELSE Once(u)
             /\ Twice(u)' = IF Before(u, t) THEN Twice(u) \cup {t} ELSE Twice(u)
             /\ Before(t, u) => t \notin Once(u)
             /\ t \notin Twice(u)
  BY <1>1, <1>6, <1>7 DEF Once, Twice
<1>8. ASSUME NEW u \in Threads, u # t
      PROVE  /\ Cardinality(Once(u))' = IF Before(t, u) THEN Cardinality(Once(u)) + 1 ELSE Cardinality(Once(u))
             /\ Cardinality(Twice(u))' = IF Before(u, t) THEN Cardinality(Twice(u)) + 1 ELSE Cardinality(Twice(u))
             /\ Cardinality(Once(u)) \in Nat /\ Cardinality(Twice(u)) \in Nat
  <2>1. Once(u) \in SUBSET Threads /\ Twice(u) \in SUBSET Threads
    BY DEF Once, Twice
  <2>2. IsFiniteSet(Once(u)) /\ IsFiniteSet(Twice(u))
          /\ Cardinality(Once(u)) \in Nat /\ Cardinality(Twice(u)) \in Nat
    BY <2>1, Sizes
  <2>3. Before(t, u) => Cardinality(Once(u) \cup {t}) = Cardinality(Once(u)) + 1
    BY <1>7, <1>8, <2>2, FS_AddElement
  <2>4. Cardinality(Twice(u) \cup {t}) = Cardinality(Twice(u)) + 1
    BY <1>7, <1>8, <2>2, FS_AddElement
  <2> QED
    BY <1>7, <1>8, <2>2, <2>3, <2>4
<1>9. CriticalRoom'
  <2> SUFFICES ASSUME NEW u \in Threads, Critical(u)'
               PROVE  /\ lock_type' = "MCS" /\ AdaptEvery <= num_acquired'
                      /\ num_acquired' <= AdaptEvery + Cardinality(Once(u))' + Cardinality(Twice(u))'
    BY DEF CriticalRoom
  <2>1. CASE u = t
    <3>1. num_acquired + 1 = AdaptEvery /\ lock_type = "MCS"
      BY <1>1, <1>2, <2>1, CountCases
    <3>2. Cardinality(Once(u))' \in Nat /\ Cardinality(Twice(u))' \in Nat
      <4>1. Once(u)' \in SUBSET Threads /\ Twice(u)' \in SUBSET Threads
        BY DEF Once, Twice
      <4> QED
        BY <4>1, Sizes
    <3> QED
      BY <1>1, <1>3, <3>1, <3>2
  <2>2. CASE u # t
    <3>1. Critical(u)
      BY <1>2, <2>2
    <3>2. /\ lock_type = "MCS" /\ AdaptEvery <= num_acquired
          /\ num_acquired <= AdaptEvery + Cardinality(Once(u)) + Cardinality(Twice(u))
      BY <3>1 DEF IInv, McsPart, CriticalRoom
    <3>3. Before(t, u) \/ Before(u, t)
      <4>1. u \in InMcs
        BY <3>1 DEF After, InMcs, Critical
      <4> QED
        BY <1>2, <2>2, <4>1, InOrder
    <3> HIDE DEF IInv
    <3> QED
      BY <1>1, <1>3, <1>8, <2>2, <3>2, <3>3
  <2> QED
    BY <2>1, <2>2
<1>10. CriticalAlone'
  <2>1. Critical(t)' => \A u \in Threads : ~Critical(u) /\ ~Writing(u)
    BY <1>1, <1>2, <1>3, CountCases
  <2> QED
    BY <1>2, <2>1 DEF IInv, McsPart, CriticalAlone
<1>11. WriterRoom'
  <2> SUFFICES ASSUME NEW u \in Threads, Writing(u)'
               PROVE  \/ target'[u] = "MUTEX" /\ AdaptEvery <= num_acquired'
                           /\ num_acquired' <= AdaptEvery + N - 1 + Cardinality(Twice(u))'
                      \/ target'[u] = "TICKET"
                           /\ num_acquired' <= NumAcqInit + Cardinality(Twice(u))'
    BY DEF WriterRoom
  <2>1. u # t /\ Writing(u)
    BY <1>2
  <2>2. \/ target[u] = "MUTEX" /\ AdaptEvery <= num_acquired
             /\ num_acquired <= AdaptEvery + N - 1 + Cardinality(Twice(u))
        \/ target[u] = "TICKET" /\ num_acquired <= NumAcqInit + Cardinality(Twice(u))
    BY <2>1 DEF IInv, McsPart, WriterRoom
  <2>3. Before(u, t)
    <3>1. u \in InMcs /\ type[u] = "MCS" /\ pc[u] \in After
      BY <2>1 DEF After, InMcs, Writing
    <3> QED
      BY <1>2, <2>1, <3>1, InOrder, FirstIsFirst
  <2>4. Cardinality(Twice(u))' = Cardinality(Twice(u)) + 1
          /\ Cardinality(Twice(u)) \in Nat
    BY <1>8, <2>1, <2>3
  <2> QED
    BY <1>1, <1>3, <2>2, <2>4
<1>12. QuietRoom'
  <2> SUFFICES ASSUME lock_type = "MCS",
                      \A u \in Threads : ~Critical(u)' /\ ~Writing(u)'
               PROVE  num_acquired' < AdaptEvery
    BY <1>1 DEF QuietRoom
  <2>1. \A u \in Threads : ~Critical(u) /\ ~Writing(u)
    BY <1>2
  <2>2. num_acquired < AdaptEvery
    BY <2>1 DEF IInv, McsPart, QuietRoom
  <2>3. num_acquired + 1 # AdaptEvery
    <3>1. AdaptEvery % AdaptEvery = 0
      BY Numbers
    <3> QED
      BY <1>2, <3>1
  <2> QED
    BY <1>1, <1>3, <2>2, <2>3
<1> QED
  BY <1>5, <1>9, <1>10, <1>11, <1>12 DEF McsPart

(* Every action keeps the bounds on num_acquired.                          *)
LEMMA McsPartStep ==
  ASSUME IInv, NEW t \in Threads, Call(t) \/ Step(t)
  PROVE  McsPart'
<1>1. CASE Call(t) \/ Reread(t) \/ TakeTicket(t) \/ LookAtHead(t)
           \/ TicketTurn(t) \/ TicketTry(t) \/ MutexLock(t) \/ MutexTry(t)
           \/ Check(t) \/ UnlockRead(t)
  <2>1. McsQuiet
    BY <1>1 DEF IInv, TypeOK, Places, McsQuiet, TypeAt, Critical, Writing,
       Pending, Call, Reread, TakeTicket, LookAtHead, TicketTurn, TicketTry,
       MutexLock, MutexTry, Check, UnlockRead, Goto, Back, At, LockAt, TryAt,
       glk, queues
  <2>2. /\ mcs_queue' = mcs_queue
        /\ \A u \in Threads : pc'[u] = "mcs_count" => pc[u] = "mcs_count"
        /\ \A u \in Threads : pc[u] = "mcs_wait" => pc'[u] = "mcs_wait"
    BY <1>1 DEF IInv, TypeOK, Call, Reread, TakeTicket, LookAtHead,
       TicketTurn, TicketTry, MutexLock, MutexTry, Check, UnlockRead, Goto,
       Back, At, LockAt, TryAt, glk, queues
  <2>3. \A u \in Threads : Once(u) \in SUBSET Once(u)' /\ Twice(u) \in SUBSET Twice(u)'
    BY <2>2, SameOrder, Kept
  <2> QED
    BY <2>1, <2>3, Undisturbed DEF McsQuiet
<1>2. CASE Retry(t) \/ Release(t)
  <2>1. McsQuiet
    BY <1>2 DEF IInv, TypeOK, McsQuiet, Critical, Writing, Pending, Retry,
       Release, Goto, Back, UnlockLock
  <2>2. /\ \A u \in Threads : pc'[u] = "mcs_count" => pc[u] = "mcs_count"
        /\ \A u \in Threads : pc[u] = "mcs_wait" => pc'[u] = "mcs_wait"
        /\ pc[t] \in After /\ ~Critical(t) /\ ~Writing(t)
    BY <1>2 DEF IInv, TypeOK, After, Critical, Writing, Retry, Release, Goto,
       Back, UnlockLock
  <2>3. CASE type[t] = "MCS"
    <3>1. mcs_queue # <<>> /\ mcs_queue[1] = t /\ mcs_queue' = Tail(mcs_queue)
      BY <1>2, <2>2, <2>3 DEF IInv, AfterIsFirst, Retry, Release, UnlockLock
    <3>2. ASSUME NEW u \in Threads, u # t
          PROVE  Once(u) \in SUBSET Once(u)' /\ Twice(u) \in SUBSET Twice(u)'
      <4>1. \A v \in Threads : (Before(v, u)' => Before(v, u))
              /\ (Before(u, v) => Before(u, v)')
        BY <3>1, <3>2, TailOrder
      <4> QED
        BY <2>2, <4>1, Kept
    <3> QED
      BY <2>1, <2>2, <3>2, Undisturbed DEF McsQuiet
  <2>4. CASE type[t] # "MCS"
    <3>1. mcs_queue' = mcs_queue
      BY <1>2, <2>4 DEF Retry, Release, UnlockLock
    <3>2. \A u \in Threads : Once(u) \in SUBSET Once(u)'
            /\ Twice(u) \in SUBSET Twice(u)'
      BY <2>2, <3>1, SameOrder, Kept
    <3> QED
      BY <2>1, <3>2, Undisturbed
  <2> QED
    BY <2>3, <2>4
<1>3. CASE TicketAdapt(t)
  <2>1. /\ mcs_queue' = mcs_queue /\ lock_type' = lock_type
             /\ Pending' = Pending /\ t \notin Pending
        /\ \A u \in Threads : pc'[u] = "mcs_count" => pc[u] = "mcs_count"
        /\ \A u \in Threads : pc[u] = "mcs_wait" => pc'[u] = "mcs_wait"
        /\ \A u \in Threads : Critical(u)' <=> Critical(u)
        /\ \A u \in Threads : (Writing(u)' <=> Writing(u))
             /\ (Writing(u) => target'[u] = target[u])
        /\ \A u \in Threads : pc'[u] = "write" /\ type'[u] = "MUTEX"
             => pc[u] = "write" /\ type[u] = "MUTEX"
        /\ pc[t] = "adapt" /\ type[t] = "TICKET"
    BY <1>3 DEF IInv, TypeOK, Critical, Writing, Pending, TicketAdapt, Goto,
       At, queues
  <2>2. CASE MustTryAdapt(num[t])
    <3>1. lock_type = "TICKET"
      BY <2>1, <2>2, AdaptsInTime
    <3>2. \A u \in Threads : ~Critical(u) /\ ~Writing(u)
      BY <3>1 DEF IInv, McsPart, CriticalRoom, Switching, Writing
    <3>3. num_acquired' = num_acquired \/ num_acquired' = NumAcqInit
      BY <1>3 DEF TicketAdapt
    <3>4. LateRoom'
      <4>1. CASE num_acquired' = num_acquired
        BY <2>1, <3>1, <4>1 DEF IInv, McsPart, LateCounts, LateRoom
      <4>2. CASE num_acquired' = NumAcqInit
        BY <2>1, <4>2, Restart
      <4> QED
        BY <3>3, <4>1, <4>2
    <3>5. LateCounts'
      BY <2>1, <3>1, <3>4 DEF LateCounts
    <3> QED
      BY <2>1, <3>1, <3>2, <3>5, Late
  <2>3. CASE ~MustTryAdapt(num[t])
    <3>1. num_acquired' = num_acquired
      BY <1>3, <2>3 DEF TicketAdapt
    <3>2. \A u \in Threads : Once(u) \in SUBSET Once(u)'
            /\ Twice(u) \in SUBSET Twice(u)'
      BY <2>1, SameOrder, Kept
    <3> QED
      BY <2>1, <3>1, <3>2, Undisturbed DEF McsQuiet
  <2> QED
    BY <2>2, <2>3
<1>4. CASE McsSwap(t)
  <2>1. McsQuiet
    BY <1>4 DEF IInv, McsQuiet, Critical, Writing, Pending, McsSwap, Goto, At,
       LockAt
  <2>2. /\ mcs_queue' = Append(mcs_queue, t) /\ t \notin InMcs
        /\ \A u \in Threads \ {t} : pc'[u] = pc[u]
    BY <1>4 DEF IInv, After, InMcs, McsSwap, Goto, At, LockAt
  <2>3. ASSUME NEW u \in Threads, Critical(u) \/ Writing(u)
        PROVE  Once(u) \in SUBSET Once(u)' /\ Twice(u) \in SUBSET Twice(u)'
    <3>1. u \in InMcs
      BY <2>3 DEF After, InMcs, Critical, Writing
    <3>2. \A v \in Threads : (Before(v, u)' => Before(v, u))
            /\ (Before(u, v) => Before(u, v)')
      BY <2>2, <3>1, AppendOrder
    <3>3. ~Before(t, u) /\ ~Before(u, t)
      BY <2>2 DEF IInv, Places, Before, McsMembers, Queues
    <3> QED
      BY <2>2, <3>2, <3>3, Kept
  <2> QED
    BY <2>1, <2>3, Undisturbed DEF McsQuiet
<1>5. CASE McsCount(t)
  BY <1>5, McsCountKeeps
<1>6. CASE McsTurn(t)
  <2>1. McsQuiet
    BY <1>6 DEF IInv, McsQuiet, Critical, Writing, Pending, McsTurn, Goto,
       glk, queues
  <2>2. /\ mcs_queue' = mcs_queue
        /\ \A u \in Threads : pc'[u] = "mcs_count" => pc[u] = "mcs_count"
        /\ \A u \in Threads \ {t} : pc[u] = "mcs_wait" => pc'[u] = "mcs_wait"
        /\ Head(mcs_queue) = t /\ t \in InMcs
    BY <1>6 DEF IInv, Places, TypeAt, InMcs, McsTurn, Goto, glk, queues
  <2>3. \A u \in Threads : ~Before(u, t)
    <3>1. mcs_queue \in Seq(Threads) /\ Distinct(mcs_queue)
            /\ \E i \in 1 .. Len(mcs_queue) : mcs_queue[i] = t
      BY <2>2 DEF IInv, TypeOK, Places, McsMembers, Queues
    <3>2. mcs_queue[1] = t
      BY <2>2, <3>1
    <3> QED
      BY <3>1, <3>2 DEF Before, Distinct
  <2>4. \A u \in Threads : Once(u) \in SUBSET Once(u)' /\ Twice(u) \in SUBSET Twice(u)'
    BY <2>2, <2>3, SameOrder, Kept
  <2> QED
    BY <2>1, <2>4, Undisturbed
<1>7. CASE McsTry(t)
  <2>1. McsQuiet
    BY <1>7 DEF IInv, TypeOK, McsQuiet, Critical, Writing, Pending, McsTry,
       Goto, Back, At, TryAt
  <2>2. CASE mcs_queue = <<>>
    <3>1. \A u \in Threads : ~Critical(u) /\ ~Writing(u)
      <4>1. \A u \in Threads : u \notin InMcs
        BY <2>2 DEF IInv, Places, McsMembers, Queues
      <4> QED
        BY <4>1 DEF After, InMcs, Critical, Writing
    <3> QED
      BY <2>1, <3>1, Undisturbed DEF McsQuiet
  <2>3. CASE mcs_queue # <<>>
    <3>1. /\ mcs_queue' = mcs_queue
          /\ \A u \in Threads : pc'[u] = "mcs_count" => pc[u] = "mcs_count"
          /\ \A u \in Threads : pc[u] = "mcs_wait" => pc'[u] = "mcs_wait"
      BY <1>7, <2>3 DEF IInv, TypeOK, McsTry, Goto, Back, At, TryAt
    <3>2. \A u \in Threads : Once(u) \in SUBSET Once(u)'
            /\ Twice(u) \in SUBSET Twice(u)'
      BY <3>1, SameOrder, Kept
    <3> QED
      BY <2>1, <3>2, Undisturbed
  <2> QED
    BY <2>2, <2>3
<1>8. CASE McsAdapt(t)
  <2>1. /\ mcs_queue' = mcs_queue /\ lock_type' = lock_type
             /\ Pending' = Pending /\ type' = type
        /\ pc[t] = "adapt" /\ type[t] = "MCS"
        /\ \A u \in Threads \ {t} : pc'[u] = pc[u] /\ num'[u] = num[u]
             /\ target'[u] = target[u]
        /\ pc'[t] \in {"check", "write"}
    BY <1>8 DEF IInv, TypeOK, Pending, McsAdapt, Goto, At, queues
  <2>2. \A u \in Threads : (Critical(u)' <=> Critical(u) /\ u # t)
          /\ (u # t => (Writing(u)' <=> Writing(u))) /\ ~Writing(t)
    BY <2>1 DEF Critical, Writing
  <2>3. CASE MustTryAdapt(num[t])
    <3>1. Critical(t) /\ lock_type = "MCS"
      BY <2>1, <2>3 DEF IInv, MustTryAdapt, McsPart, CriticalRoom, Critical
    <3>2. \A u \in Threads : ~Critical(u)' /\ (Writing(u)' => u = t)
      BY <2>2, <3>1 DEF IInv, McsPart, CriticalAlone
    <3>3. \A u \in Threads : pc'[u] = "write" => type'[u] = "MCS"
      BY <2>1, <3>1 DEF IInv, Switching
    <3>0. MustUpdateQueueLength(num[t])
      <4>1. /\ AdaptEvery \in Nat \ {0} /\ SampleEvery \in Nat \ {0}
                 /\ AdaptEvery % SampleEvery = 0
            /\ num[t] \in Nat /\ num[t] % AdaptEvery = 0
        BY <2>3, GlkAssumption DEF IInv, TypeOK, MustTryAdapt
      <4> QED
        BY <4>1, Divides DEF MustUpdateQueueLength
    <3>4. \/ pc'[t] = "write" /\ target'[t] = "MUTEX" /\ num_acquired' = num_acquired
          \/ pc'[t] = "write" /\ target'[t] = "TICKET" /\ num_acquired' = NumAcqInit
          \/ pc'[t] = "check" /\ num_acquired' = NumAcqInit
      BY <1>8, <2>3, <3>0 DEF IInv, TypeOK, McsAdapt, Goto, At, queues
    <3>5. Twice(t)' = Twice(t)
      <4>1. \A u \in Threads : Before(t, u)' <=> Before(t, u)
        BY <2>1, SameOrder
      <4> QED
        BY <2>1, <4>1 DEF Twice
    <3>6. /\ AdaptEvery <= num_acquired
          /\ num_acquired <= AdaptEvery + Cardinality(Once(t)) + Cardinality(Twice(t))
      BY <3>1 DEF IInv, McsPart, CriticalRoom
    <3>7. /\ Cardinality(Once(t)) \in 0 .. N - 1
               /\ Cardinality(Twice(t)) \in 0 .. N - 1 /\ N >= 1
      BY McsSizes
    <3>8. /\ AdaptEvery \in Nat /\ N \in Nat /\ NumAcqInit \in Nat
               /\ N + NumAcqInit <= AdaptEvery
          /\ num_acquired \in Nat
      BY Numbers DEF IInv, TypeOK
    <3>9. WriterRoom'
      <4> SUFFICES ASSUME pc'[t] = "write"
                   PROVE  \/ target'[t] = "MUTEX" /\ AdaptEvery <= num_acquired'
                               /\ num_acquired' <= AdaptEvery + N - 1 + Cardinality(Twice(t))
                          \/ target'[t] = "TICKET"
                               /\ num_acquired' <= NumAcqInit + Cardinality(Twice(t))
        BY <3>2, <3>5 DEF WriterRoom, Writing
      <4>1. num_acquired <= AdaptEvery + N - 1 + Cardinality(Twice(t))
              /\ NumAcqInit <= NumAcqInit + Cardinality(Twice(t))
        BY <3>6, <3>7, <3>8
      <4> QED
        BY <3>4, <3>6, <4>1
    <3>10. QuietRoom'
      <4>1. NumAcqInit < AdaptEvery
        BY <3>7, <3>8
      <4>2. pc'[t] = "write" => Writing(t)'
        BY <2>1 DEF Writing
      <4> QED
        BY <3>4, <4>1, <4>2 DEF QuietRoom
    <3>11. LateCounts'
      BY <2>1, <3>1, <3>3 DEF LateCounts
    <3> QED
      BY <3>2, <3>9, <3>10, <3>11 DEF McsPart, CriticalRoom, CriticalAlone
  <2>4. CASE ~MustTryAdapt(num[t])
    <3>1. num_acquired' = num_acquired /\ pc'[t] = "check"
      BY <1>8, <2>4 DEF IInv, TypeOK, McsAdapt, Goto, At, queues
    <3>2. ~Critical(t) /\ ~Writing(t)'
      BY <2>4, <3>1 DEF MustTryAdapt, Critical, Writing
    <3>3. \A u \in Threads : Once(u) \in SUBSET Once(u)'
            /\ Twice(u) \in SUBSET Twice(u)'
      <4>1. /\ \A u \in Threads : pc'[u] = "mcs_count" => pc[u] = "mcs_count"
            /\ \A u \in Threads : pc[u] = "mcs_wait" => pc'[u] = "mcs_wait"
        BY <2>1
      <4> QED
        BY <2>1, <4>1, SameOrder, Kept
    <3> QED
      BY <2>1, <2>2, <3>1, <3>2, <3>3, Undisturbed DEF McsQuiet
  <2> QED
    BY <2>3, <2>4
<1>9. CASE MutexAdapt(t)
  <2>1. /\ mcs_queue' = mcs_queue /\ lock_type' = lock_type
             /\ Pending' = Pending /\ t \notin Pending
        /\ \A u \in Threads : pc'[u] = "mcs_count" => pc[u] = "mcs_count"
        /\ \A u \in Threads : pc[u] = "mcs_wait" => pc'[u] = "mcs_wait"
        /\ \A u \in Threads : Critical(u)' <=> Critical(u)
        /\ \A u \in Threads : (Writing(u)' <=> Writing(u))
             /\ (Writing(u) => target'[u] = target[u])
        /\ pc[t] = "adapt" /\ type[t] = "MUTEX"
    BY <1>9 DEF IInv, TypeOK, Critical, Writing, Pending, MutexAdapt, Goto,
       At, queues
  <2>2. CASE ~multiprogramming /\ lock_type = "MUTEX"
    <3>1. num_acquired' = 0
      BY <1>9, <2>2 DEF MutexAdapt
    <3>2. \A u \in Threads : ~Critical(u) /\ ~Writing(u)
      BY <2>2 DEF IInv, McsPart, CriticalRoom, Switching, Writing
    <3>3. LateRoom'
      BY <2>1, <3>1, Restart
    <3>4. LateCounts'
      BY <2>1, <2>2, <3>3 DEF LateCounts
    <3> QED
      BY <2>1, <2>2, <3>2, <3>4, Late
  <2>3. CASE ~(~multiprogramming /\ lock_type = "MUTEX")
    <3>1. num_acquired' = num_acquired /\ \A u \in Threads : pc'[u] = "write"
            => pc[u] = "write" /\ type'[u] = type[u]
      BY <1>9, <2>3 DEF IInv, TypeOK, MutexAdapt, Goto, At, queues
    <3>2. \A u \in Threads : Once(u) \in SUBSET Once(u)'
            /\ Twice(u) \in SUBSET Twice(u)'
      BY <2>1, SameOrder, Kept
    <3> QED
      BY <2>1, <3>1, <3>2, Undisturbed DEF McsQuiet
  <2> QED
    BY <2>2, <2>3
<1>10. CASE WriteType(t)
  <2>1. /\ num_acquired' = num_acquired /\ lock_type' = target[t] /\ Pending' = Pending
        /\ pc[t] = "write" /\ type[t] = lock_type /\ t \notin Pending
        /\ target[t] \in Types \ {lock_type}
             /\ (type[t] = "MUTEX" => target[t] = "TICKET")
        /\ \A u \in Threads : Critical(u)' <=> Critical(u)
        /\ \A u \in Threads : Writing(u)' => Writing(u) /\ u # t
        /\ \A u \in Threads : pc'[u] = "write"
             => pc[u] = "write" /\ type'[u] = type[u] /\ u # t
    BY <1>10 DEF IInv, TypeOK, Switching, Critical, Writing, Pending,
       WriteType, Goto, queues
  <2>2. \A u \in Threads : pc'[u] # "write"
    BY <2>1, OneHolder DEF IInv, Switching, After
  <2>3. \A u \in Threads : ~Writing(u)'
    BY <2>2 DEF Writing
  <2>4. \A u \in Threads : ~Critical(u)'
    <3>1. CASE lock_type = "MCS"
      BY <2>1, <3>1 DEF IInv, McsPart, CriticalAlone, Critical, Writing
    <3>2. CASE lock_type # "MCS"
      BY <2>1, <3>2 DEF IInv, McsPart, CriticalRoom
    <3> QED
      BY <3>1, <3>2
  <2>5. /\ AdaptEvery \in Nat /\ N \in Nat /\ NumAcqInit \in Nat
             /\ N + NumAcqInit <= AdaptEvery
        /\ 2 * N <= AdaptEvery + 1 /\ num_acquired \in Nat
             /\ Cardinality(Pending) \in Nat
    BY Numbers, McsSizes DEF IInv, TypeOK
  <2>6. CASE lock_type # "MCS"
    <3>1. LateRoom
      BY <2>1, <2>6 DEF IInv, TypeOK, McsPart, LateCounts, Types
    <3>2. LateRoom' /\ num_acquired' < AdaptEvery
      BY <2>1, <2>5, <3>1 DEF LateRoom
    <3> QED
      BY <2>3, <2>4, <3>2 DEF McsPart, CriticalRoom, CriticalAlone,
         WriterRoom, QuietRoom, LateCounts
  <2>7. CASE lock_type = "MCS"
    <3>1. Writing(t) /\ lock_type' \in {"TICKET", "MUTEX"}
      BY <2>1, <2>7 DEF Types, Writing
    <3>2. \/ target[t] = "MUTEX" /\ AdaptEvery <= num_acquired
               /\ num_acquired <= AdaptEvery + N - 1 + Cardinality(Twice(t))
          \/ target[t] = "TICKET" /\ num_acquired <= NumAcqInit + Cardinality(Twice(t))
      BY <3>1 DEF IInv, McsPart, WriterRoom
    <3>3. Cardinality(Twice(t)) \in Nat
            /\ Cardinality(Twice(t)) + Cardinality(Pending) <= N - 1
      <4>1. /\ Twice(t) \in SUBSET Threads
                 /\ Twice(t) \cup Pending \in SUBSET (Threads \ {t})
            /\ Pending \in SUBSET Threads
        BY <2>1 DEF Twice, Pending
      <4>2. Twice(t) \cap Pending = {}
        BY DEF Twice, Pending
      <4>3. IsFiniteSet(Twice(t)) /\ IsFiniteSet(Pending)
        BY <4>1, Sizes
      <4>4. Cardinality(Twice(t) \cup Pending) = Cardinality(Twice(t)) + Cardinality(Pending) - 0
        BY <4>2, <4>3, FS_Union, FS_EmptySet
      <4>5. Cardinality(Threads \ {t}) = N - 1
        BY Sizes DEF N
      <4>6. Cardinality(Twice(t) \cup Pending) <= N - 1
        BY <4>1, <4>5, Sizes
      <4>7. Cardinality(Twice(t)) \in Nat
        BY <4>1, Sizes
      <4> QED
        BY <2>5, <4>4, <4>6, <4>7
    <3>4. \/ target[t] = "MUTEX" /\ AdaptEvery <= num_acquired'
               /\ num_acquired' + Cardinality(Pending) < 2 * AdaptEvery
          \/ target[t] = "TICKET" /\ num_acquired' + Cardinality(Pending) < AdaptEvery
      <4>1. target[t] = "MUTEX" /\ AdaptEvery <= num_acquired
              /\ num_acquired <= AdaptEvery + N - 1 + Cardinality(Twice(t))
              => num_acquired + Cardinality(Pending) < 2 * AdaptEvery
        BY <2>5, <3>3
      <4>2. num_acquired <= NumAcqInit + Cardinality(Twice(t))
              => num_acquired + Cardinality(Pending) < AdaptEvery
        BY <2>5, <3>3
      <4> QED
        BY <2>1, <3>2, <4>1, <4>2
    <3>5. LateCounts'
      BY <2>1, <2>2, <3>4 DEF LateCounts, LateRoom
    <3> QED
      BY <2>3, <2>4, <3>1, <3>5, Late
  <2> QED
    BY <2>6, <2>7
<1> QED
  BY <1>1, <1>2, <1>3, <1>4, <1>5, <1>6, <1>7, <1>8, <1>9, <1>10 DEF Step

-----------------------------------------------------------------------------
(* The invariant, and what follows from it.                                *)

(* A lock that was just initialised satisfies the invariant.               *)
LEMMA InitHolds == Init => IInv
<1> SUFFICES ASSUME Init PROVE IInv
  OBVIOUS
<1>1. TypeOK /\ Ops
  <2>1. lock_type \in Types /\ mutex \in Threads \cup {NoThread}
    BY DEF Init, Types
  <2>2. ticket_queue \in Seq(Threads) /\ mcs_queue \in Seq(Threads)
          /\ tail \in 0 .. AdaptEvery - 1
    BY Numbers DEF Init
  <2> QED
    BY <2>1, <2>2 DEF TypeOK, Init, Labels, Ops
<1>2. Places
  <2>1. \A t \in Threads : pc[t] = "idle" /\ type[t] = "none" /\ mutex # t
    BY GlkAssumption DEF Init
  <2>2. Len(ticket_queue) = 0 /\ Len(mcs_queue) = 0
    BY DEF Init
  <2> QED
    BY <2>1, <2>2 DEF Places, MutexMember, AfterIsFirst, Distinct, TypeAt,
       TicketMembers, McsMembers, Queues, InTicket, InMcs
<1>3. Switching
  BY DEF Init, InCs, Switching
<1>4. TicketPending = {} /\ Pending = {}
  BY DEF Init, TicketPending, Pending
<1>5. Cardinality(TicketPending) = 0 /\ Cardinality(Pending) = 0
  BY <1>4, FS_EmptySet
<1>6. TicketPart
  BY <1>5, Numbers DEF Init, TicketPart, TicketNumbers, TicketWriter,
     TicketRoom, LateTickets, HasTicket
<1>7. McsPart
  BY <1>5, Numbers DEF Init, McsPart, CriticalRoom, CriticalAlone, WriterRoom,
     QuietRoom, LateCounts, LateRoom, Critical, Writing
<1> QED
  BY <1>1, <1>2, <1>3, <1>6, <1>7 DEF IInv

(* Every action of a thread keeps the invariant.                           *)
LEMMA ActionKeeps ==
  ASSUME IInv, NEW t \in Threads, Call(t) \/ Step(t)
  PROVE  IInv'
<1>1. TypeOK' /\ Ops'
  BY TypeStep, OpsStep
<1>2. Places'
  BY TypeAtStep, TicketMembersStep, McsMembersStep, MutexMemberStep,
     AfterIsFirstStep DEF Places
<1>3. TicketPart'
  BY LateTicketsStep, TicketNumbersStep, TicketWriterStep, TicketRoomStep DEF
     TicketPart
<1> QED
  BY <1>1, <1>2, <1>3, SwitchingStep, McsPartStep DEF IInv

(* Every step keeps the invariant; the load that changes disturbs no part  *)
(* of it.                                                                  *)
LEMMA StepKeeps == IInv /\ [Next]_vars => IInv'
<1> SUFFICES ASSUME IInv, [Next]_vars PROVE IInv'
  OBVIOUS
<1>1. ASSUME NEW t \in Threads, Call(t) \/ Step(t) PROVE IInv'
  BY <1>1, ActionKeeps
<1>2. CASE MpCheck \/ UNCHANGED vars
  <2>1. UNCHANGED <<glk, local>> /\ multiprogramming' \in BOOLEAN
    BY <1>2 DEF IInv, TypeOK, MpCheck, vars
  <2>2. TypeOK' /\ Ops' /\ Places' /\ Switching'
    BY <2>1 DEF IInv, TypeOK, Places, MutexMember, AfterIsFirst, TypeAt, InCs,
       Switching, Ops, TicketMembers, McsMembers, InTicket, InMcs, glk,
       queues, local
  <2>3. TicketPart'
    BY <2>1 DEF IInv, TicketPending, TicketPart, TicketNumbers, TicketWriter,
       TicketRoom, LateTickets, HasTicket, glk, queues, local
  <2>4. McsPart'
    BY <2>1 DEF IInv, McsPart, CriticalRoom, CriticalAlone, WriterRoom,
       QuietRoom, LateRoom, LateCounts, Before, Once, Twice, Critical,
       Writing, Pending, glk, queues, local
  <2> QED
    BY <2>2, <2>3, <2>4 DEF IInv
<1> QED
  BY <1>1, <1>2 DEF Next

(* The invariant holds in every reachable state, for every finite set of   *)
(* threads that is small enough for the period.                            *)
THEOREM Inductive == Spec => []IInv
  BY InitHolds, StepKeeps, PTL DEF Spec

(* Every field of glk_t and every local variable of its functions has a    *)
(* value of its type; lock_type always names a sublock.                    *)
THEOREM TypeCorrect == Spec => []TypeOK
<1>1. IInv => TypeOK
  BY DEF IInv
<1> QED
  BY <1>1, Inductive, PTL

(* The invariant lets one thread at a time be in the critical section: two *)
(* would be past acquiring the same sublock, the one in force.             *)
LEMMA OneInside == IInv => MutualExclusion
<1> SUFFICES ASSUME IInv, NEW t \in Threads, NEW u \in Threads, InCs(t), InCs(u)
             PROVE  t = u
  BY DEF MutualExclusion
<1>1. type[t] = lock_type /\ type[u] = lock_type /\ pc[t] \in After /\ pc[u] \in After
  BY DEF IInv, InCs, Switching, After
<1> QED
  BY <1>1, OneHolder

(* glk_lock and glk_trylock let one thread in at a time, however often the *)
(* type of the lock changes.                                               *)
THEOREM Exclusion == Spec => []MutualExclusion
  BY OneInside, Inductive, PTL

(* The holder of a sublock, by the queue or the field that says so.        *)
LEMMA AfterHolds ==
  ASSUME IInv, NEW t \in Threads, pc[t] \in After, type[t] = lock_type
  PROVE  Holds(t, lock_type)
<1>1. lock_type \in Types
  BY DEF IInv, TypeOK
<1>2. CASE lock_type = "TICKET"
  BY <1>2 DEF IInv, Places, AfterIsFirst, Holds
<1>3. CASE lock_type = "MCS"
  BY <1>3 DEF IInv, Places, AfterIsFirst, Holds
<1>4. CASE lock_type = "MUTEX"
  BY <1>4 DEF IInv, Places, MutexMember, Holds
<1> QED
  BY <1>1, <1>2, <1>3, <1>4 DEF Types

(* glk_unlock, which reads lock_type again, always releases the sublock    *)
(* that its thread acquired.                                               *)
THEOREM UnlockIsRight == Spec => []UnlockMatchesLock
<1>1. IInv => UnlockMatchesLock
  <2> SUFFICES ASSUME IInv, NEW t \in Threads, InCs(t)
               PROVE  type[t] = lock_type /\ Holds(t, lock_type)
    BY DEF UnlockMatchesLock
  <2>1. type[t] = lock_type /\ pc[t] \in After
    BY DEF IInv, InCs, Switching, After
  <2> QED
    BY <2>1, AfterHolds
<1> QED
  BY <1>1, Inductive, PTL

(* A thread that finds that the type has changed leaves no sublock locked  *)
(* behind it.                                                              *)
THEOREM NoLeak == Spec => []NoSublockLeaked
<1>1. IInv => NoSublockLeaked
  <2> SUFFICES ASSUME IInv, NEW t \in Threads
               PROVE  /\ t \in Range(ticket_queue) => type[t] = "TICKET"
                      /\ t \in Range(mcs_queue) => type[t] = "MCS"
                      /\ mutex = t => type[t] = "MUTEX"
    BY DEF NoSublockLeaked
  <2>1. DOMAIN ticket_queue = 1 .. Len(ticket_queue)
          /\ DOMAIN mcs_queue = 1 .. Len(mcs_queue)
    BY DEF IInv
  <2>2. t \in Range(ticket_queue) => t \in InTicket
    BY <2>1 DEF IInv, Places, Range, TicketMembers, Queues
  <2>3. t \in Range(mcs_queue) => t \in InMcs
    BY <2>1 DEF IInv, Places, Range, McsMembers, Queues
  <2>4. mutex = t => type[t] = "MUTEX"
    BY DEF IInv, Places, MutexMember
  <2> QED
    BY <2>2, <2>3, <2>4 DEF InTicket, InMcs
<1> QED
  BY <1>1, Inductive, PTL

(* Only a thread that holds the sublock in force stores to lock_type,      *)
(* although two of the three adapt functions do not look at it.            *)
THEOREM SwitchIsByHolder == Spec => SwitchOnlyByHolder
<1> DEFINE Q == lock_type' # lock_type
      => \E t \in Threads : pc[t] = "write" /\ Holds(t, lock_type)
<1>1. IInv /\ [Next]_vars => [Q]_vars
  <2> SUFFICES ASSUME IInv, Next, lock_type' # lock_type
               PROVE  \E t \in Threads : pc[t] = "write" /\ Holds(t, lock_type)
    BY DEF Q
  <2>1. PICK t \in Threads : WriteType(t)
    BY DEF Next, Step, Call, Reread, TakeTicket, LookAtHead, TicketTurn,
       TicketTry, TicketAdapt, McsSwap, McsCount, McsTurn, McsTry, McsAdapt,
       MutexLock, MutexTry, MutexAdapt, Check, Retry, UnlockRead, Release,
       MpCheck, glk
  <2>2. pc[t] = "write" /\ pc[t] \in After /\ type[t] = lock_type
    BY <2>1 DEF IInv, Switching, After, WriteType
  <2> QED
    BY <2>2, AfterHolds
<1>2. [][Q]_vars => SwitchOnlyByHolder
  BY PTL DEF SwitchOnlyByHolder
<1> QED
  BY <1>1, <1>2, Inductive, PTL DEF Spec

----------------------------------------------------------------------------
(* The mode of each thread, as the abstract mutex sees it.                 *)
Mode == [t \in Threads |-> IF InCs(t) THEN "owner"
                           ELSE IF op[t] = "lock" THEN "waiting"
                           ELSE IF op[t] = "try" THEN "trying" ELSE "idle"]

(* A lock that was just initialised is free.                               *)
LEMMA InitMaps == Init => Lock!Init
  BY DEF Init, Lock!Init, InCs

(* A thread keeps its mode in a step that neither changes the call it is   *)
(* in nor takes it into the critical section or out of it.                 *)
LEMMA SameMode ==
  ASSUME \A u \in Threads : op'[u] = op[u] /\ (InCs(u)' <=> InCs(u))
  PROVE  Mode' = Mode
  BY DEF Mode

(* A step that changes the call or the place of one thread changes the     *)
(* mode of that thread only.                                               *)
LEMMA NewMode ==
  ASSUME NEW t \in Threads, NEW m,
         \A u \in Threads \ {t} : op'[u] = op[u] /\ (InCs(u)' <=> InCs(u)),
         m = IF InCs(t)' THEN "owner" ELSE IF op'[t] = "lock" THEN "waiting"
             ELSE IF op'[t] = "try" THEN "trying" ELSE "idle"
  PROVE  Mode' = [Mode EXCEPT ![t] = m]
  BY DEF Mode

(* Every action of a thread is a step of the abstract mutex, or none.      *)
LEMMA ActionMaps ==
  ASSUME IInv, IInv', NEW t \in Threads, Call(t) \/ Step(t)
  PROVE  Lock!Next \/ Mode' = Mode
<1> USE DEF InCs
<1>1. CASE Reread(t) \/ TakeTicket(t) \/ LookAtHead(t) \/ TicketTurn(t)
           \/ TicketAdapt(t) \/ McsSwap(t) \/ McsCount(t) \/ McsTurn(t)
           \/ McsAdapt(t) \/ MutexLock(t) \/ MutexAdapt(t) \/ WriteType(t)
           \/ Retry(t) \/ UnlockRead(t)
  <2>1. \A u \in Threads : op'[u] = op[u] /\ (InCs(u)' <=> InCs(u))
    <3>1. CASE Reread(t)
      BY <3>1 DEF IInv, TypeOK, Reread, Goto, glk, queues
    <3>2. CASE TakeTicket(t)
      BY <3>2 DEF IInv, TypeOK, TakeTicket, Goto, LockAt, At
    <3>3. CASE LookAtHead(t)
      BY <3>3 DEF IInv, TypeOK, LookAtHead, Goto, queues
    <3>4. CASE TicketTurn(t)
      BY <3>4 DEF IInv, TypeOK, TicketTurn, Goto, glk, queues
    <3>5. CASE TicketAdapt(t)
      BY <3>5 DEF IInv, TypeOK, TicketAdapt, Goto, At, queues
    <3>6. CASE McsSwap(t)
      BY <3>6 DEF IInv, TypeOK, McsSwap, Goto, LockAt, At
    <3>7. CASE McsCount(t)
      BY <3>7 DEF IInv, TypeOK, McsCount, Goto, queues
    <3>8. CASE McsTurn(t)
      BY <3>8 DEF IInv, TypeOK, McsTurn, Goto, glk, queues
    <3>9. CASE McsAdapt(t)
      BY <3>9 DEF IInv, TypeOK, McsAdapt, Goto, At, queues
    <3>10. CASE MutexLock(t)
      BY <3>10 DEF IInv, TypeOK, MutexLock, Goto, LockAt, At
    <3>11. CASE MutexAdapt(t)
      BY <3>11 DEF IInv, TypeOK, MutexAdapt, Goto, At, queues
    <3>12. CASE WriteType(t)
      BY <3>12 DEF IInv, TypeOK, WriteType, Goto, queues
    <3>13. CASE Retry(t)
      BY <3>13 DEF IInv, TypeOK, Retry, Goto, UnlockLock
    <3>14. CASE UnlockRead(t)
      BY <3>14 DEF IInv, TypeOK, UnlockRead, Goto, glk, queues
    <3> QED
      BY <1>1, <3>1, <3>2, <3>3, <3>4, <3>5, <3>6, <3>7, <3>8, <3>9, <3>10,
         <3>11, <3>12, <3>13, <3>14
  <2> QED
    BY <2>1, SameMode
<1>2. CASE Call(t)
  <2>1. PICK o \in {"lock", "try"} : op' = [op EXCEPT ![t] = o]
    BY <1>2 DEF Call
  <2>2. /\ op'[t] = o /\ ~InCs(t) /\ ~InCs(t)' /\ op[t] = "none"
        /\ \A u \in Threads \ {t} : op'[u] = op[u] /\ (InCs(u)' <=> InCs(u))
    BY <1>2, <2>1 DEF IInv, TypeOK, Ops, Call, Goto
  <2>3. Mode[t] = "idle"
    BY <2>2 DEF Mode
  <2>4. \E m \in {"waiting", "trying"} : Mode' = [Mode EXCEPT ![t] = m]
    <3>1. CASE o = "lock"
      BY <2>2, <3>1, NewMode
    <3>2. CASE o = "try"
      BY <2>2, <3>2, NewMode
    <3> QED
      BY <3>1, <3>2
  <2> QED
    BY <2>3, <2>4 DEF Lock!Next, Lock!Ask, Mode
<1>3. CASE TicketTry(t)
  <2>1. CASE ticket_queue = <<>>
    <3>1. \A u \in Threads : op'[u] = op[u] /\ (InCs(u)' <=> InCs(u))
      BY <1>3, <2>1 DEF IInv, TypeOK, TicketTry, Goto, Back, At, TryAt
    <3> QED
      BY <3>1, SameMode
  <2>2. CASE ~(ticket_queue = <<>>)
    <3>1. /\ op[t] = "try" /\ op'[t] = "none" /\ ~InCs(t) /\ ~InCs(t)'
          /\ \A u \in Threads \ {t} : op'[u] = op[u] /\ (InCs(u)' <=> InCs(u))
      BY <1>3, <2>2 DEF IInv, TypeOK, TicketTry, Goto, Back, At, TryAt
    <3>2. Mode[t] = "trying" /\ Mode' = [Mode EXCEPT ![t] = "idle"]
      BY <3>1, NewMode DEF Mode
    <3> QED
      BY <3>2 DEF Lock!Next, Lock!Busy, Mode
  <2> QED
    BY <2>1, <2>2
<1>4. CASE McsTry(t)
  <2>1. CASE mcs_queue = <<>>
    <3>1. \A u \in Threads : op'[u] = op[u] /\ (InCs(u)' <=> InCs(u))
      BY <1>4, <2>1 DEF IInv, TypeOK, McsTry, Goto, Back, At, TryAt
    <3> QED
      BY <3>1, SameMode
  <2>2. CASE ~(mcs_queue = <<>>)
    <3>1. /\ op[t] = "try" /\ op'[t] = "none" /\ ~InCs(t) /\ ~InCs(t)'
          /\ \A u \in Threads \ {t} : op'[u] = op[u] /\ (InCs(u)' <=> InCs(u))
      BY <1>4, <2>2 DEF IInv, TypeOK, McsTry, Goto, Back, At, TryAt
    <3>2. Mode[t] = "trying" /\ Mode' = [Mode EXCEPT ![t] = "idle"]
      BY <3>1, NewMode DEF Mode
    <3> QED
      BY <3>2 DEF Lock!Next, Lock!Busy, Mode
  <2> QED
    BY <2>1, <2>2
<1>5. CASE MutexTry(t)
  <2>1. CASE mutex = NoThread
    <3>1. \A u \in Threads : op'[u] = op[u] /\ (InCs(u)' <=> InCs(u))
      BY <1>5, <2>1 DEF IInv, TypeOK, MutexTry, Goto, Back, At, TryAt
    <3> QED
      BY <3>1, SameMode
  <2>2. CASE ~(mutex = NoThread)
    <3>1. /\ op[t] = "try" /\ op'[t] = "none" /\ ~InCs(t) /\ ~InCs(t)'
          /\ \A u \in Threads \ {t} : op'[u] = op[u] /\ (InCs(u)' <=> InCs(u))
      BY <1>5, <2>2 DEF IInv, TypeOK, MutexTry, Goto, Back, At, TryAt
    <3>2. Mode[t] = "trying" /\ Mode' = [Mode EXCEPT ![t] = "idle"]
      BY <3>1, NewMode DEF Mode
    <3> QED
      BY <3>2 DEF Lock!Next, Lock!Busy, Mode
  <2> QED
    BY <2>1, <2>2
<1>6. CASE Check(t)
  <2>1. CASE lock_type = type[t]
    <3>1. /\ op[t] \in {"lock", "try"} /\ ~InCs(t) /\ InCs(t)'
          /\ \A u \in Threads \ {t} : op'[u] = op[u] /\ (InCs(u)' <=> InCs(u))
      <4>1. pc[t] = "check" /\ op[t] \in {"lock", "try"}
        BY <1>6 DEF IInv, TypeOK, Ops, Check
      <4>2. pc' = [pc EXCEPT ![t] = "cs"] /\ op' = [op EXCEPT ![t] = "none"]
        BY <1>6, <2>1 DEF Check, Goto
      <4> QED
        BY <4>1, <4>2 DEF IInv, TypeOK
    <3>2. Mode[t] \in {"waiting", "trying"} /\ Mode' = [Mode EXCEPT ![t] = "owner"]
      BY <3>1, NewMode DEF Mode
    <3>3. \A u \in Threads : Mode[u] # "owner"
      <4> SUFFICES ASSUME NEW u \in Threads, InCs(u) PROVE FALSE
        BY DEF Mode
      <4>1. InCs(u)'
        BY <3>1
      <4>2. MutualExclusion'
        BY OneInside, PTL
      <4>3. u = t
        BY <3>1, <4>1, <4>2 DEF MutualExclusion
      <4> QED
        BY <3>1, <4>3
    <3> QED
      BY <3>2, <3>3 DEF Lock!Next, Lock!Grant, Lock!Unowned, Mode
  <2>2. CASE lock_type # type[t]
    <3>1. \A u \in Threads : op'[u] = op[u] /\ (InCs(u)' <=> InCs(u))
      BY <1>6, <2>2 DEF IInv, TypeOK, Check, Goto, glk, queues
    <3> QED
      BY <3>1, SameMode
  <2> QED
    BY <2>1, <2>2
<1>7. CASE Release(t)
  <2>1. /\ op'[t] = "none" /\ InCs(t) /\ ~InCs(t)'
        /\ \A u \in Threads \ {t} : op'[u] = op[u] /\ (InCs(u)' <=> InCs(u))
    BY <1>7 DEF IInv, TypeOK, Release, Goto, Back
  <2>2. Mode[t] = "owner" /\ Mode' = [Mode EXCEPT ![t] = "idle"]
    BY <2>1, NewMode DEF Mode
  <2> QED
    BY <2>2 DEF Lock!Next, Lock!Unlock, Mode
<1> QED
  BY <1>1, <1>2, <1>3, <1>4, <1>5, <1>6, <1>7 DEF Step

(* Every step is a step of the abstract mutex, or none.                    *)
LEMMA StepMaps == IInv /\ IInv' /\ [Next]_vars => [Lock!Next]_Mode
<1> SUFFICES ASSUME IInv, IInv', [Next]_vars PROVE Lock!Next \/ Mode' = Mode
  OBVIOUS
<1>1. ASSUME NEW t \in Threads, Call(t) \/ Step(t) PROVE Lock!Next \/ Mode' = Mode
  BY <1>1, ActionMaps
<1>2. CASE MpCheck \/ UNCHANGED vars
  BY <1>2, SameMode DEF InCs, MpCheck, vars, glk, local
<1> QED
  BY <1>1, <1>2 DEF Next

(* GLK is a mutex: what its callers see of it, the abstract mutex could    *)
(* do.                                                                     *)
THEOREM Refinement == Spec => ImplementsMutex
<1>1. Init => Lock!Init
  BY InitMaps
<1>2. IInv /\ IInv' /\ [Next]_vars => [Lock!Next]_Mode
  BY StepMaps
<1> QED
  BY <1>1, <1>2, Inductive, PTL DEF Spec, ImplementsMutex, Lock!Spec, Mode
=============================================================================
