--------------------------- MODULE SpinLocksProofs ---------------------------
(***************************************************************************)
(* Proofs about SpinLocks, for any finite number of threads, any choice of *)
(* the locks that are compiled in, and any number of tickets above that of *)
(* the threads: whichever lock it is, the thread in the critical section   *)
(* is the first of those that drew a place, no transaction runs beside it, *)
(* and no two threads come to have one node.                               *)
(*                                                                         *)
(* The invariant says of each kind of lock how its words spell out the     *)
(* line: one word that is 1 when somebody is in line; tickets that count   *)
(* from the head, round and round; nodes of which everybody in line has    *)
(* the one before.                                                         *)
(***************************************************************************)
EXTENDS SpinLocks, FiniteSetTheorems, TLAPS

N == Cardinality(Threads)

(* What the profiles of the three kinds of locks have in common.           *)
TasRight(c) ==
  /\ c.kind = "tas"
  /\ c.enters \in {"test", "swap", "begin"} /\ c.lost \in {"test", "swap", "begin"}
  /\ c.looks \in BOOLEAN /\ c.hle \in BOOLEAN /\ c.tries \in 0 .. 3
  /\ (c.enters = "begin" => c.tries > 0) /\ (c.lost = "begin" => c.hle)
TicketRight(c) ==
  /\ c.kind = "ticket"
  /\ c.packed \in BOOLEAN /\ c.sleeps \in BOOLEAN /\ c.guarded \in BOOLEAN
  /\ ~(c.packed /\ c.guarded)

TasLabels == {"test", "swap", "try_swap", "begin", "tx", "try_begin", "try_tx"}
Queueing == {"look", "spin", "wait", "asleep"}
TicketLabels == Queueing \cup {"draw", "try_head", "try_cas", "wake"}
ClhLabels == {"enqueue", "await"}
InLine == Queueing \cup {"await", "cs"}

(* A thread is where the lock it was compiled with sends it, and a         *)
(* transaction is one of the attempts that were left.                      *)
LabelsFit ==
  \A t \in Threads :
    /\ pc[t] \in TasLabels => Tas
    /\ pc[t] \in TicketLabels => Tickets
    /\ pc[t] \in ClhLabels => Clh
    /\ pc[t] = "try" => ~Clh
    /\ pc[t] = "try_head" => ~Packed
    /\ pc[t] \in {"begin", "tx", "try_begin", "try_tx"} => tries[t] > 0

Distinct(s) == \A i, j \in 1 .. Len(s) : i # j => s[i] # s[j]

(* Who is in line, and that the first may be in the critical section.      *)
LineFit ==
  /\ line \in Seq(Threads) /\ Distinct(line)
  /\ \A t \in Threads : pc[t] \in InLine <=> \E i \in 1 .. Len(line) : line[i] = t
  /\ \A t \in Threads : pc[t] = "cs" => line # <<>> /\ line[1] = t

(* Test-and-set: the word is 1 when somebody is in line, and it alone.     *)
TasFit ==
  Tas =>
    /\ Len(line) <= 1 /\ (lock = 0 <=> line = <<>>)
    /\ \A t \in Threads : InTx(t) => lock = 0

(* The i-th ticket after h.                                                *)
After(h, i) == IF h + i < Width THEN h + i ELSE h + i - Width

(* Tickets: those in line have the tickets from head on, the next to come  *)
(* will have the one after them, and a trylock that has seen the lock free *)
(* gets it only if nobody has drawn a ticket since.                        *)
TicketsFit ==
  Tickets =>
    /\ MyTicket = After(head, Len(line))
    /\ \A i \in 1 .. Len(line) :
         pc[line[i]] # "cs" => ticket[line[i]] = After(head, i - 1)
    /\ \A t \in Threads : pc[t] = "try_cas" =>
         IF Packed THEN seen[t] = ticket[t] ELSE tail = ticket[t] => line = <<>>

(* The threads that may yet draw a ticket.                                 *)
Drawing == {t \in Threads : pc[t] \in {"draw", "try", "try_head", "try_cas"}}

(* A guarded lock has tickets for all of them, and is renewed in time.     *)
GuardedFit ==
  Tickets /\ copy.guarded =>
    /\ tail + Cardinality(Drawing) < Width
    /\ line # <<>> => head <= tail

(* CLH: one node is nobody's; it is the one that the first in line has     *)
(* before it, or the last in the queue when nobody is in line.             *)
Spare == IF line = <<>> THEN last ELSE pred[line[1]]

ClhFit ==
  /\ Clh /\ last = Null => line = <<>>
  /\ ~Clh \/ last = Null => \A t \in Threads : local[t] = Null /\ pred[t] = Null
  /\ Clh /\ last # Null => Spare # Null /\ \A t \in Threads : local[t] # Spare
  /\ Clh => \A t \in Threads :
       /\ pc[t] \in InLine => local[t] \in raised
       /\ pc[t] \in InLine <=> pred[t] # Null
  /\ \A t, u \in Threads : t # u /\ local[t] # Null => local[t] # local[u]
  /\ Clh => \A i \in 1 .. Len(line) :
       /\ i = Len(line) => last = local[line[i]]
       /\ i > 1 => pred[line[i]] = local[line[i - 1]]

IInv ==
  /\ TypeOK /\ LabelsFit /\ LineFit
  /\ TasFit /\ TicketsFit /\ GuardedFit /\ ClhFit

----------------------------------------------------------------------------
(* The constants.                                                          *)

LEMMA Numbers ==
  /\ N \in Nat /\ Width \in Nat \ {0, 1} /\ N < Width
  /\ IsFiniteSet(Threads) /\ IsFiniteSet(Nodes) /\ Null \notin Nodes
  /\ Cardinality(Nodes) \in Nat /\ N < Cardinality(Nodes)
  /\ Variants \subseteq DOMAIN Profile
  BY SpinAssumption, FS_CardinalityType DEF N

(* Every profile is one of the three kinds.                                *)
LEMMA ProfilesRight ==
  ASSUME NEW v \in DOMAIN Profile
  PROVE  TasRight(Profile[v]) \/ TicketRight(Profile[v]) \/ Profile[v].kind = "clh"
<1>1. TasRight(TasLock) /\ TasRight(TasHle) /\ TasRight(TasRtm) /\ TasRight(TasRtmOpt)
  BY DEF TasRight, TasLock, TasHle, TasRtm, TasRtmOpt
<1>2. TasRight(TtasLock) /\ TasRight(TtasHle) /\ TasRight(TtasRtm) /\ TasRight(TtasRtmOpt)
  BY DEF TasRight, TasLock, TtasLock, TtasHle, TtasRtm, TtasRtmOpt
<1>3. TasRight(TtasGlkLock)
  BY DEF TasRight, TasLock, TtasLock, TtasGlkLock
<1>4. /\ TicketRight(TicketLock) /\ TicketRight(TicketFuLock) /\ TicketRight(TicketLinuxLock)
      /\ TicketRight(LockProfLock)
  BY DEF TicketRight, TicketLock, TicketFuLock, TicketLinuxLock, LockProfLock
<1>5. ClhLock.kind = "clh"
  BY DEF ClhLock
<1>6. /\ TasGlkLock = TasLock /\ TasGlkHle = TasHle /\ TasGlkRtm = TasRtm
      /\ TasGlkRtmOpt = TasRtmOpt /\ TtasGlkHle = TtasHle /\ TtasGlkRtm = TtasRtm
      /\ TtasGlkRtmOpt = TtasRtmOpt /\ TasMwaitLock = TasLock /\ TasMwaitHle = TasHle
      /\ TasMwaitRtm = TasRtm /\ TasMwaitRtmOpt = TasRtmOpt /\ TtasMwaitLock = TasLock
      /\ TtasMwaitHle = TasHle /\ TtasMwaitRtm = TasRtm /\ TtasMwaitRtmOpt = TasRtmOpt
      /\ TicketGlkLock = TicketLock /\ TicketDvfsLock = TicketLock
      /\ LadapTickLock = LockProfLock /\ ClhGlkLock = ClhLock
  BY DEF TasGlkLock, TasGlkHle, TasGlkRtm, TasGlkRtmOpt, TtasGlkHle, TtasGlkRtm,
         TtasGlkRtmOpt, TasMwaitLock, TasMwaitHle, TasMwaitRtm, TasMwaitRtmOpt, TtasMwaitLock,
         TtasMwaitHle, TtasMwaitRtm, TtasMwaitRtmOpt, TicketGlkLock, TicketDvfsLock,
         LadapTickLock, ClhGlkLock
<1>7. Profile[v] \in
        {TasLock, TasHle, TasRtm, TasRtmOpt, TtasLock, TtasHle, TtasRtm, TtasRtmOpt, TtasGlkLock,
         TicketLock, TicketFuLock, TicketLinuxLock, LockProfLock, ClhLock}
  BY <1>6 DEF Profile
<1> QED
  BY <1>1, <1>2, <1>3, <1>4, <1>5, <1>7


(* A number up to a turn below, within or above the range of tickets.      *)
LEMMA Wraps ==
  \A k \in Int : 0 - Width <= k /\ k < 2 * Width =>
    k % Width = IF k < 0 THEN k + Width ELSE IF k < Width THEN k ELSE k - Width
<1> SUFFICES ASSUME NEW k \in Int, 0 - Width <= k, k < 2 * Width
             PROVE  k % Width = IF k < 0 THEN k + Width ELSE IF k < Width THEN k ELSE k - Width
  OBVIOUS
<1>0. Width \in Nat \ {0}
  BY Numbers
<1>1. CASE k < 0
  <2>1. k % Width = k + Width
    BY <1>0, <1>1
  <2> QED BY <1>1, <2>1
<1>2. CASE 0 <= k /\ k < Width
  <2>1. k % Width = k
    BY <1>0, <1>2
  <2> QED BY <1>2, <2>1
<1>3. CASE Width <= k
  <2>1. k % Width = k - Width
    BY <1>0, <1>3
  <2> QED BY <1>0, <1>3, <2>1
<1> QED
  BY <1>0, <1>1, <1>2, <1>3

(* The counters: the next ticket, and how far one is after another.        *)
LEMMA Counting ==
  ASSUME NEW m \in 0 .. Width - 1, NEW n \in 0 .. Width - 1
  PROVE  /\ Succ(n) = After(n, 1) /\ Succ(n) \in 0 .. Width - 1
         /\ Minus(m, n) = IF m >= n THEN m - n ELSE m - n + Width
<1>1. Width \in Nat \ {0}
  BY Numbers
<1>2. n + 1 \in Int /\ 0 - Width <= n + 1 /\ n + 1 < 2 * Width /\ ~(n + 1 < 0)
  BY <1>1
<1>3. m - n \in Int /\ 0 - Width <= m - n /\ m - n < 2 * Width /\ m - n < Width
  BY <1>1
<1>4. (n + 1) % Width = IF n + 1 < Width THEN n + 1 ELSE n + 1 - Width
  <2> DEFINE k == n + 1
  <2>1. k \in Int /\ 0 - Width <= k /\ k < 2 * Width /\ ~(k < 0)
    BY <1>2
  <2> HIDE DEF k
  <2>2. k % Width = IF k < Width THEN k ELSE k - Width
    BY <2>1, Wraps
  <2> QED BY <1>1, <1>2, <2>2 DEF k
<1>5. (m - n) % Width = IF m - n < 0 THEN m - n + Width ELSE m - n
  <2> DEFINE k == m - n
  <2>1. k \in Int /\ 0 - Width <= k /\ k < 2 * Width /\ k < Width
    BY <1>3
  <2> HIDE DEF k
  <2>2. k % Width = IF k < 0 THEN k + Width ELSE k
    BY <2>1, Wraps
  <2> QED BY <2>2 DEF k
<1>6. Succ(n) = After(n, 1)
  BY <1>4 DEF Succ, After
<1>7. Minus(m, n) = IF m >= n THEN m - n ELSE m - n + Width
  BY <1>1, <1>5 DEF Minus
<1>8. After(n, 1) \in 0 .. Width - 1
  BY <1>1 DEF After
<1> QED
  BY <1>6, <1>7, <1>8

----------------------------------------------------------------------------
(* The line.                                                               *)

LEMMA LineAppend ==
  ASSUME NEW q \in Seq(Threads), NEW t \in Threads,
         \A i \in 1 .. Len(q) : q[i] # t, Distinct(q)
  PROVE  /\ Append(q, t) \in Seq(Threads) /\ Distinct(Append(q, t)) /\ Append(q, t) # <<>>
         /\ Len(q) \in Nat /\ Len(Append(q, t)) = Len(q) + 1
         /\ \A i \in 1 .. Len(q) : Append(q, t)[i] = q[i]
         /\ Append(q, t)[Len(q) + 1] = t
<1> DEFINE r == Append(q, t)
<1>1. r \in Seq(Threads) /\ Len(q) \in Nat /\ Len(r) = Len(q) + 1
  OBVIOUS
<1>2. \A i \in 1 .. Len(q) : r[i] = q[i]
  OBVIOUS
<1>3. r[Len(r)] = t
  OBVIOUS
<1> HIDE DEF r
<1>4. r # <<>> /\ r[Len(q) + 1] = t
  BY <1>1, <1>3
<1>5. Distinct(r)
  BY <1>1, <1>2, <1>4 DEF Distinct
<1> QED
  BY <1>1, <1>2, <1>4, <1>5 DEF r

LEMMA LineTail ==
  ASSUME NEW q \in Seq(Threads), q # <<>>, Distinct(q)
  PROVE  /\ Tail(q) \in Seq(Threads) /\ Distinct(Tail(q))
         /\ Len(q) \in Nat \ {0} /\ Len(Tail(q)) = Len(q) - 1
         /\ \A i \in 1 .. Len(Tail(q)) : Tail(q)[i] = q[i + 1] /\ Tail(q)[i] # q[1]
  BY DEF Distinct

(* No more threads are in line than there are.                             *)
LEMMA LineLength ==
  ASSUME NEW q \in Seq(Threads), Distinct(q)
  PROVE  Len(q) \in Nat /\ Len(q) <= N
<1>1. q \in [1 .. Len(q) -> Threads] /\ Len(q) \in Nat
  OBVIOUS
<1>2. q \in Injection(1 .. Len(q), Threads)
  BY <1>1 DEF Distinct, Injection, IsInjective
<1>3. Cardinality(1 .. Len(q)) <= N
  BY <1>2, Numbers, FS_Injection DEF N
<1>4. Cardinality(1 .. Len(q)) = IF 1 > Len(q) THEN 0 ELSE Len(q) - 1 + 1
  <2>1. 1 \in Int /\ Len(q) \in Int
    BY <1>1
  <2> QED BY <2>1, FS_Interval
<1> QED
  BY <1>1, <1>3, <1>4

----------------------------------------------------------------------------
(* What the actions have in common.                                        *)

Moves(t) == Call(t) \/ Step(t) \/ Abort(t) \/ Interrupted(t)

LEMMA Kinds ==
  ASSUME TypeOK
  PROVE  /\ Tas => TasRight(copy)
         /\ Tickets => TicketRight(copy)
         /\ ~(Tas /\ Tickets) /\ ~(Tas /\ Clh) /\ ~(Tickets /\ Clh)
         /\ Tas \/ Tickets \/ Clh
<1>1. PICK v \in DOMAIN Profile : copy = Profile[v]
  BY Numbers DEF TypeOK
<1>2. TasRight(copy) \/ TicketRight(copy) \/ copy.kind = "clh"
  BY <1>1, ProfilesRight
<1> QED
  BY <1>2 DEF TasRight, TicketRight, Tas, Tickets, Clh

LEMMA CopyStays ==
  ASSUME NEW t \in Threads, Moves(t)
  PROVE  /\ copy' = copy
         /\ Tas' <=> Tas
         /\ Tickets' <=> Tickets
         /\ Clh' <=> Clh
         /\ Packed' <=> Packed
         /\ Sleeps' <=> Sleeps
<1>1. copy' = copy
  BY DEF Moves, Call, Step, Abort, Interrupted, Test, Swap, TryTest, TrySwap, Begin, TryBegin,
         Commit, Draw, Look, Spin, FutexWait, TryTail, TryHead, TryCas, Enqueue, Await,
         UnlockTas, UnlockTicket, WakeAll, UnlockClh
<1> QED
  BY <1>1 DEF Tas, Tickets, Clh, Packed, Sleeps

(* Where a thread goes whose transaction has failed, and that it goes on   *)
(* trying only as long as it has attempts left.                            *)
LEMMA AbortGoes ==
  ASSUME TypeOK, LabelsFit, NEW u \in Threads,
         pc[u] \in {"begin", "tx", "try_begin", "try_tx"}
  PROVE  /\ Tas /\ tries[u] \in 1 .. 3
         /\ AfterAbort(u) \in {"test", "swap", "begin", "try_begin", "try_swap"}
         /\ AfterAbort(u) \in {"begin", "try_begin"} => tries[u] > 1
<1>1. Tas /\ tries[u] \in 1 .. 3
  BY DEF LabelsFit, TasLabels, TypeOK
<1>2. copy.lost \in {"test", "swap", "begin"} /\ (copy.lost = "begin" => copy.hle)
  BY <1>1, Kinds DEF TasRight
<1> QED
  BY <1>1, <1>2 DEF AfterAbort

(* A write of the lock moves the thread and the transactions.              *)
LEMMA WriteIs ==
  ASSUME TypeOK, LabelsFit, NEW t \in Threads, NEW label, NEW n, WriteAndGo(t, label, n)
  PROVE  /\ lock' = 1 /\ pc'[t] = label /\ tries'[t] = n
         /\ DOMAIN pc' = Threads /\ DOMAIN tries' = Threads
         /\ \A u \in Threads \ {t} :
              \/ ~InTx(u) /\ pc'[u] = pc[u] /\ tries'[u] = tries[u]
              \/ /\ InTx(u) /\ Tas
                 /\ pc'[u] \in {"test", "swap", "begin", "try_begin", "try_swap"}
                 /\ tries'[u] \in 0 .. 2
                 /\ (pc'[u] \in {"begin", "try_begin"} => tries'[u] > 0)
<1>1. \A u \in Threads : InTx(u) =>
        /\ Tas /\ tries[u] \in 1 .. 3
        /\ AfterAbort(u) \in {"test", "swap", "begin", "try_begin", "try_swap"}
        /\ AfterAbort(u) \in {"begin", "try_begin"} => tries[u] > 1
  BY AbortGoes DEF InTx
<1> QED
  BY <1>1 DEF WriteAndGo

(* What a step of one thread does to another.                              *)
LEMMA Others ==
  ASSUME TypeOK, LabelsFit, NEW t \in Threads, Moves(t), NEW u \in Threads \ {t}
  PROVE  \/ pc'[u] = pc[u] /\ tries'[u] = tries[u]
         \/ /\ Tas /\ InTx(u) /\ lock' = 1
            /\ pc'[u] \in {"test", "swap", "begin", "try_begin", "try_swap"}
            /\ tries'[u] \in 0 .. 2
            /\ (pc'[u] \in {"begin", "try_begin"} => tries'[u] > 0)
         \/ pc[u] = "asleep" /\ pc'[u] = "look" /\ tries'[u] = tries[u]
<1>0. pc = [v \in Threads |-> pc[v]] /\ tries \in [Threads -> 0 .. 3]
  BY DEF TypeOK
<1>1. CASE Call(t) \/ Test(t) \/ TryTest(t)
  BY <1>0, <1>1 DEF Call, Test, TryTest, Goto, tas
<1>2. CASE Swap(t)
  BY <1>2, WriteIs DEF Swap
<1>3. CASE TrySwap(t)
  BY <1>3, WriteIs DEF TrySwap
<1>4. CASE Begin(t) \/ TryBegin(t) \/ Abort(t) \/ Commit(t)
  BY <1>0, <1>4 DEF Begin, TryBegin, Abort, Commit, Goto
<1>5. CASE Draw(t) \/ Look(t) \/ Spin(t) \/ FutexWait(t) \/ Interrupted(t)
  BY <1>0, <1>5 DEF Draw, Look, Spin, FutexWait, Interrupted, Goto, tas
<1>6. CASE TryTail(t) \/ TryHead(t) \/ TryCas(t)
  BY <1>0, <1>6 DEF TryTail, TryHead, TryCas, Goto, tas
<1>7. CASE Enqueue(t) \/ Await(t) \/ UnlockTas(t) \/ UnlockTicket(t) \/ UnlockClh(t)
  BY <1>0, <1>7 DEF Enqueue, Await, UnlockTas, UnlockTicket, UnlockClh, Goto, tas
<1>8. CASE WakeAll(t)
  BY <1>0, <1>8 DEF WakeAll, Asleep, tas
<1> QED
  BY <1>1, <1>2, <1>3, <1>4, <1>5, <1>6, <1>7, <1>8 DEF Moves, Step

(* Where the thread itself is, before and after its step, by kind of lock. *)
LEMMA Edges ==
  ASSUME TypeOK, LabelsFit, NEW t \in Threads, Moves(t)
  PROVE  \/ /\ Call(t) /\ pc[t] = "idle"
            /\ \/ Tas /\ pc'[t] \in TasLabels \cup {"try"}
                      /\ (pc'[t] \in {"begin", "tx", "try_begin", "try_tx"} => tries'[t] > 0)
               \/ Tickets /\ pc'[t] \in {"draw", "try"}
               \/ Clh /\ pc'[t] = "enqueue"
         \/ /\ Tas /\ pc[t] \in TasLabels \cup {"try", "cs"}
            /\ pc'[t] \in TasLabels \cup {"idle", "cs"}
            /\ (pc'[t] \in {"begin", "tx", "try_begin", "try_tx"} => tries'[t] > 0)
         \/ /\ Tickets /\ pc[t] \in TicketLabels \cup {"try", "cs"}
            /\ pc'[t] \in TicketLabels \cup {"idle", "cs"}
            /\ (pc'[t] = "try_head" => ~Packed)
         \/ /\ Clh /\ pc[t] \in ClhLabels \cup {"cs"}
            /\ pc'[t] \in {"await", "idle", "cs"}
<1>0. pc = [v \in Threads |-> pc[v]] /\ tries \in [Threads -> 0 .. 3]
  BY DEF TypeOK
<1>a. /\ Tas => /\ copy.enters \in {"test", "swap", "begin"} /\ copy.lost \in {"test", "swap", "begin"}
                /\ copy.looks \in BOOLEAN /\ copy.hle \in BOOLEAN /\ copy.tries \in 0 .. 3
                /\ (copy.enters = "begin" => copy.tries > 0) /\ (copy.lost = "begin" => copy.hle)
      /\ ~(Tas /\ Tickets) /\ ~(Tas /\ Clh) /\ ~(Tickets /\ Clh)
      /\ Tas \/ Tickets \/ Clh
  BY Kinds DEF TasRight
<1>b. /\ pc[t] \in TasLabels => Tas
      /\ pc[t] \in TicketLabels => Tickets
      /\ pc[t] \in ClhLabels => Clh
      /\ pc[t] \in {"begin", "tx", "try_begin", "try_tx"} => tries[t] > 0
  BY DEF LabelsFit
<1>1. CASE Call(t)
  BY <1>0, <1>1, <1>a DEF Call, Goto, TasLabels
<1>2. CASE Swap(t) \/ TrySwap(t)
  <2>1. PICK label, n : WriteAndGo(t, label, n) /\ label \in {"cs", "idle", copy.lost}
                        /\ (label = copy.lost => n = IF copy.hle THEN 1 ELSE 0)
                        /\ pc[t] \in {"swap", "try_swap"}
    BY <1>2, <1>a, <1>b DEF Swap, TrySwap, TasLabels
  <2> QED BY <2>1, <1>a, <1>b, WriteIs DEF TasLabels
<1>3. CASE Test(t) \/ TryTest(t)
  BY <1>0, <1>3, <1>a, <1>b DEF Test, TryTest, Goto, TasLabels, tas
<1>4. CASE Begin(t) \/ TryBegin(t) \/ Commit(t)
  BY <1>0, <1>4, <1>a, <1>b DEF Begin, TryBegin, Commit, InTx, Goto, TasLabels
<1>5. CASE Abort(t)
  <2>1. /\ pc[t] \in {"begin", "tx", "try_begin", "try_tx"}
        /\ pc'[t] = AfterAbort(t) /\ tries'[t] = tries[t] - 1
    BY <1>0, <1>5 DEF Abort, InTx, Goto
  <2> QED BY <2>1, AbortGoes DEF TasLabels
<1>6. CASE Draw(t) \/ Look(t) \/ Spin(t) \/ FutexWait(t) \/ Interrupted(t)
  BY <1>0, <1>6, <1>b DEF Draw, Look, Spin, FutexWait, Interrupted, Goto, TicketLabels, Queueing
<1>7. CASE TryTail(t) \/ TryHead(t) \/ TryCas(t)
  BY <1>0, <1>7, <1>b DEF TryTail, TryHead, TryCas, Goto, TicketLabels, Queueing
<1>8. CASE Enqueue(t) \/ Await(t) \/ UnlockClh(t)
  BY <1>0, <1>8, <1>b DEF Enqueue, Await, UnlockClh, Goto, ClhLabels
<1>9. CASE UnlockTas(t) \/ UnlockTicket(t) \/ WakeAll(t)
  BY <1>0, <1>9, <1>b DEF UnlockTas, UnlockTicket, WakeAll, Goto, TicketLabels, TasLabels
<1> QED
  BY <1>1, <1>2, <1>3, <1>4, <1>5, <1>6, <1>7, <1>8, <1>9 DEF Moves, Step

LEMMA LabelsStep ==
  ASSUME TypeOK, LabelsFit, NEW t \in Threads, Moves(t)
  PROVE  LabelsFit'
<1> DEFINE Fits(u) ==
             /\ pc'[u] \in TasLabels => Tas
             /\ pc'[u] \in TicketLabels => Tickets
             /\ pc'[u] \in ClhLabels => Clh
             /\ pc'[u] = "try" => ~Clh
             /\ pc'[u] = "try_head" => ~Packed
             /\ pc'[u] \in {"begin", "tx", "try_begin", "try_tx"} => tries'[u] > 0
<1> SUFFICES ASSUME NEW u \in Threads
             PROVE  Fits(u)
  <2>1. (Tas' <=> Tas) /\ (Tickets' <=> Tickets) /\ (Clh' <=> Clh) /\ (Packed' <=> Packed)
    BY CopyStays
  <2> QED BY <2>1 DEF LabelsFit
<1>0. ~(Tas /\ Tickets) /\ ~(Tas /\ Clh) /\ ~(Tickets /\ Clh)
  BY Kinds
<1>1. CASE u = t
  BY <1>0, <1>1, Edges DEF TasLabels, TicketLabels, Queueing, ClhLabels
<1>2. CASE u # t
  BY <1>0, <1>2, Others DEF LabelsFit, TasLabels, TicketLabels, Queueing, ClhLabels, InTx
<1> QED
  BY <1>1, <1>2

----------------------------------------------------------------------------
(* malloc finds a node: one is spare, and each of the others that are used *)
(* is the node of a thread, which the caller of malloc is not among.       *)
LEMMA UsedNodes ==
  ASSUME IInv, Clh, last # Null, NEW t \in Threads, local[t] = Null
  PROVE  Used \subseteq {local[u] : u \in Threads \ {t}} \cup {Spare}
<1>0. line \in Seq(Threads) /\ Len(line) \in Nat /\ (line # <<>> => Len(line) >= 1)
  BY DEF IInv, LineFit
<1>1. \A i \in 1 .. Len(line) : line[i] \in Threads /\ local[line[i]] # Null
  <2> TAKE i \in 1 .. Len(line)
  <2>1. line[i] \in Threads
    BY <1>0
  <2>2. pc[line[i]] \in InLine
    BY <2>1 DEF IInv, LineFit
  <2> QED BY <2>1, <2>2, Numbers DEF IInv, ClhFit, TypeOK
<1>2. last \in {local[u] : u \in Threads \ {t}} \cup {Spare}
  <2>1. CASE line = <<>>
    BY <2>1 DEF Spare
  <2>2. CASE line # <<>>
    <3>1. last = local[line[Len(line)]] /\ Len(line) \in 1 .. Len(line)
      BY <1>0, <2>2 DEF IInv, ClhFit
    <3> QED BY <3>1, <1>1
  <2> QED BY <2>1, <2>2
<1>3. ASSUME NEW u \in Threads, pred[u] # Null
      PROVE  pred[u] \in {local[v] : v \in Threads \ {t}} \cup {Spare}
  <2>1. pc[u] \in InLine
    BY <1>3 DEF IInv, ClhFit
  <2>2. PICK i \in 1 .. Len(line) : line[i] = u
    BY <2>1 DEF IInv, LineFit
  <2>3. CASE i = 1
    BY <1>0, <2>2, <2>3 DEF Spare
  <2>4. CASE i # 1
    <3>1. i > 1 /\ i - 1 \in 1 .. Len(line)
      BY <1>0, <2>4
    <3>2. pred[u] = local[line[i - 1]]
      BY <2>2, <3>1 DEF IInv, ClhFit
    <3> QED BY <1>1, <3>1, <3>2
  <2> QED BY <2>3, <2>4
<1>4. ASSUME NEW u \in Threads, local[u] # Null
      PROVE  local[u] \in {local[v] : v \in Threads \ {t}}
  BY <1>4
<1> QED
  BY <1>2, <1>3, <1>4 DEF Used

LEMMA Mallocs ==
  ASSUME IInv, Clh, NEW t \in Threads, NEW n, local[t] = Null \/ last = Null,
         last = Null \/ n = Null
  PROVE  Malloc(n) \in Nodes /\ Malloc(n) \notin Used /\ Malloc(n) # n
<1>0. /\ IsFiniteSet(Threads) /\ IsFiniteSet(Nodes) /\ Null \notin Nodes
      /\ Cardinality(Threads) \in Nat /\ Cardinality(Nodes) > Cardinality(Threads)
      /\ Cardinality(Nodes) \in Nat
  BY Numbers DEF N
<1> SUFFICES \E p \in Nodes : p \notin Used \cup {n}
  BY DEF Malloc
<1>1. CASE last = Null
  <2>1. Used = {}
    BY <1>1 DEF Used, IInv, ClhFit
  <2>2. SUFFICES ASSUME Nodes \subseteq {n} PROVE FALSE
    BY <2>1
  <2>3. Cardinality({n}) = 1 /\ IsFiniteSet({n})
    BY FS_Singleton
  <2>4. Cardinality(Nodes) <= 1
    BY <2>2, <2>3, FS_Subset
  <2>5. Cardinality({t}) = 1
    BY FS_Singleton
  <2>6. 1 <= Cardinality(Threads)
    <3>1. {t} \subseteq Threads
      OBVIOUS
    <3> QED BY <1>0, <2>5, <3>1, FS_Subset
  <2> QED BY <1>0, <2>4, <2>6
<1>2. CASE last # Null
  <2> DEFINE Rest == Threads \ {t}
             S == {local[u] : u \in Rest}
  <2>1. /\ IsFiniteSet(Rest) /\ Cardinality(Rest) \in Nat
        /\ Cardinality(Rest) = Cardinality(Threads) - 1
    BY <1>0, FS_RemoveElement, FS_CardinalityType
  <2>2. IsFiniteSet(S) /\ Cardinality(S) \in Nat /\ Cardinality(S) <= Cardinality(Rest)
    <3> DEFINE f == [u \in Rest |-> local[u]]
    <3>1. f \in Surjection(Rest, S)
      BY DEF Surjection
    <3>2. IsFiniteSet(S) /\ Cardinality(S) <= Cardinality(Rest)
      BY <2>1, <3>1, FS_Surjection
    <3> QED BY <3>2, FS_CardinalityType
  <2>3. /\ IsFiniteSet(S \cup {Spare}) /\ Cardinality(S \cup {Spare}) \in Nat
        /\ Cardinality(S \cup {Spare}) <= Cardinality(S) + 1
    <3> HIDE DEF S
    <3>1. /\ IsFiniteSet(S \cup {Spare})
          /\ Cardinality(S \cup {Spare}) = IF Spare \in S THEN Cardinality(S) ELSE Cardinality(S) + 1
      BY <2>2, FS_AddElement
    <3>2. Cardinality(S \cup {Spare}) \in Nat
      BY <3>1, FS_CardinalityType
    <3> QED BY <2>2, <3>1, <3>2
  <2>4. Used \subseteq S \cup {Spare}
    BY <1>2, UsedNodes
  <2>5. SUFFICES ASSUME Nodes \subseteq S \cup {Spare} PROVE FALSE
    BY <1>0, <1>2, <2>4
  <2> HIDE DEF S, Rest
  <2>6. Cardinality(Nodes) <= Cardinality(S \cup {Spare})
    BY <2>3, <2>5, FS_Subset
  <2> QED BY <1>0, <2>1, <2>2, <2>3, <2>6
<1> QED
  BY <1>1, <1>2

LEMMA TypeStep ==
  ASSUME IInv, NEW t \in Threads, Moves(t)
  PROVE  TypeOK'
<1> DEFINE Labels == {"idle", "test", "swap", "try", "try_swap", "begin", "tx",
                      "try_begin", "try_tx", "draw", "look", "spin", "wait", "asleep", "try_head",
                      "try_cas", "enqueue", "await", "cs", "wake"}
<1> USE DEF Goto, Forget
<1>0. TypeOK /\ LabelsFit
  BY DEF IInv
<1>1. /\ lock \in {0, 1} /\ tries \in [Threads -> 0 .. 3] /\ pc \in [Threads -> Labels]
      /\ head \in 0 .. Width - 1 /\ tail \in 0 .. Width - 1
      /\ ticket \in [Threads -> 0 .. Width - 1] /\ seen \in [Threads -> 0 .. Width - 1]
      /\ last \in Nodes \cup {Null} /\ raised \subseteq Nodes
      /\ local \in [Threads -> Nodes \cup {Null}] /\ pred \in [Threads -> Nodes \cup {Null}]
  BY <1>0 DEF TypeOK
<1>2. 0 \in 0 .. Width - 1
  BY Numbers
<1>3. Succ(head) \in 0 .. Width - 1 /\ Succ(tail) \in 0 .. Width - 1 /\ MyTicket \in 0 .. Width - 1
  BY <1>1, Counting DEF MyTicket
<1>4. copy' \in {Profile[v] : v \in Variants}
  BY <1>0, CopyStays DEF TypeOK
<1>5. pc' \in [Threads -> Labels]
  <2>1. pc' = [u \in Threads |-> pc'[u]]
    <3>1. CASE Swap(t) \/ TrySwap(t)
      BY <3>1 DEF Swap, TrySwap, WriteAndGo
    <3>2. CASE WakeAll(t)
      BY <3>2 DEF WakeAll
    <3>3. CASE \/ Call(t) \/ Test(t) \/ TryTest(t) \/ Begin(t) \/ TryBegin(t) \/ Abort(t)
               \/ Commit(t) \/ Draw(t) \/ Look(t) \/ Spin(t) \/ FutexWait(t) \/ Interrupted(t)
      BY <1>1, <3>3 DEF Call, Test, TryTest, Begin, TryBegin, Abort, Commit, Draw, Look, Spin,
                        FutexWait, Interrupted
    <3>4. CASE \/ TryTail(t) \/ TryHead(t) \/ TryCas(t) \/ Enqueue(t) \/ Await(t)
               \/ UnlockTas(t) \/ UnlockTicket(t) \/ UnlockClh(t)
      BY <1>1, <3>4 DEF TryTail, TryHead, TryCas, Enqueue, Await, UnlockTas, UnlockTicket, UnlockClh
    <3> QED BY <3>1, <3>2, <3>3, <3>4 DEF Moves, Step
  <2>2. \A u \in Threads : pc'[u] \in Labels
    <3> TAKE u \in Threads
    <3>1. CASE u = t
      BY <1>0, <3>1, Edges DEF TasLabels, TicketLabels, Queueing, ClhLabels
    <3>2. CASE u # t
      BY <1>0, <1>1, <3>2, Others
    <3> QED BY <3>1, <3>2
  <2> HIDE DEF Labels
  <2> QED BY <2>1, <2>2
<1>6. lock' \in {0, 1} /\ tries' \in [Threads -> 0 .. 3]
  <2>1. CASE Swap(t) \/ TrySwap(t)
    <3>1. PICK label, n : WriteAndGo(t, label, n) /\ n \in 0 .. 1
      BY <2>1 DEF Swap, TrySwap
    <3>2. tries' = [u \in Threads |-> tries'[u]]
      BY <3>1 DEF WriteAndGo
    <3>3. \A u \in Threads : tries'[u] \in 0 .. 3
      BY <1>0, <1>1, <3>1, WriteIs
    <3>4. lock' = 1
      BY <3>1 DEF WriteAndGo
    <3> QED BY <3>2, <3>3, <3>4
  <2>2. CASE Call(t)
    <3>1. Tas => copy.tries \in 0 .. 3
      BY <1>0, Kinds DEF TasRight
    <3> QED BY <1>1, <2>2, <3>1 DEF Call
  <2>3. CASE Begin(t) \/ TryBegin(t) \/ Commit(t)
    BY <1>1, <2>3 DEF Begin, TryBegin, Commit
  <2>4. CASE Abort(t)
    <3>1. tries[t] \in 1 .. 3
      BY <1>0, <2>4, AbortGoes DEF Abort, InTx
    <3> QED BY <1>1, <2>4, <3>1 DEF Abort
  <2>5. CASE UnlockTas(t)
    BY <1>1, <2>5 DEF UnlockTas
  <2>6. CASE \/ Test(t) \/ TryTest(t) \/ Draw(t) \/ Look(t) \/ Spin(t) \/ FutexWait(t)
             \/ Interrupted(t) \/ TryTail(t) \/ TryHead(t) \/ TryCas(t) \/ Enqueue(t) \/ Await(t)
             \/ UnlockTicket(t) \/ WakeAll(t) \/ UnlockClh(t)
    <3>1. UNCHANGED tas
      BY <2>6 DEF Test, TryTest, Draw, Look, Spin, FutexWait, Interrupted, TryTail, TryHead,
                  TryCas, Enqueue, Await, UnlockTicket, WakeAll, UnlockClh
    <3> QED BY <1>1, <3>1 DEF tas
  <2> QED BY <2>1, <2>2, <2>3, <2>4, <2>5, <2>6 DEF Moves, Step
<1>7. /\ head' \in 0 .. Width - 1 /\ tail' \in 0 .. Width - 1
      /\ ticket' \in [Threads -> 0 .. Width - 1] /\ seen' \in [Threads -> 0 .. Width - 1]
  <2>1. CASE Draw(t) \/ TryCas(t) \/ UnlockTicket(t)
    <3>1. head' \in {head, Succ(head)} /\ tail' \in {tail, Succ(tail)}
      BY <2>1 DEF Draw, TryCas, UnlockTicket
    <3>2. /\ ticket' \in {ticket, [ticket EXCEPT ![t] = MyTicket], [ticket EXCEPT ![t] = 0]}
          /\ seen' \in {seen, [seen EXCEPT ![t] = 0]}
      BY <2>1 DEF Draw, TryCas, UnlockTicket
    <3> QED BY <1>1, <1>2, <1>3, <3>1, <3>2
  <2>2. CASE Look(t) \/ Spin(t) \/ TryTail(t) \/ TryHead(t)
    BY <1>1, <1>2, <2>2 DEF Look, Spin, TryTail, TryHead
  <2>3. CASE \/ Call(t) \/ Abort(t) \/ Test(t) \/ Swap(t) \/ TryTest(t) \/ TrySwap(t) \/ Begin(t)
             \/ TryBegin(t) \/ Commit(t) \/ FutexWait(t) \/ Interrupted(t) \/ Enqueue(t) \/ Await(t)
             \/ UnlockTas(t) \/ WakeAll(t) \/ UnlockClh(t)
    <3>1. UNCHANGED <<head, tail, ticket, seen>>
      BY <2>3 DEF Call, Abort, Test, Swap, TryTest, TrySwap, Begin, TryBegin, Commit, FutexWait,
                  Interrupted, Enqueue, Await, UnlockTas, WakeAll, UnlockClh
    <3> QED BY <1>1, <3>1
  <2> QED BY <2>1, <2>2, <2>3 DEF Moves, Step
<1>8. /\ last' \in Nodes \cup {Null} /\ raised' \subseteq Nodes
      /\ local' \in [Threads -> Nodes \cup {Null}] /\ pred' \in [Threads -> Nodes \cup {Null}]
  <2>1. CASE Enqueue(t)
    <3> DEFINE n == IF local[t] = Null THEN Malloc(Null) ELSE local[t]
    <3>1. Clh
      BY <1>0, <2>1 DEF Enqueue, LabelsFit, ClhLabels
    <3>2. n \in Nodes
      BY <1>1, <3>1, Mallocs
    <3>3. last = Null => Malloc(n) \in Nodes
      BY <3>1, Mallocs
    <3>4. /\ local' = [local EXCEPT ![t] = n] /\ raised' = raised \cup {n} /\ last' = n
          /\ pred' = [pred EXCEPT ![t] = IF last = Null THEN Malloc(n) ELSE last]
      BY <2>1 DEF Enqueue
    <3> HIDE DEF n
    <3> QED BY <1>1, <3>2, <3>3, <3>4
  <2>2. CASE UnlockClh(t)
    BY <1>1, <2>2 DEF UnlockClh
  <2>3. CASE ~Enqueue(t) /\ ~UnlockClh(t)
    <3>1. UNCHANGED clh
      BY <2>3 DEF Moves, Step, Call, Abort, Test, Swap, TryTest, TrySwap, Begin, TryBegin, Commit,
                  Draw, Look, Spin, FutexWait, Interrupted, TryTail, TryHead, TryCas, Await,
                  UnlockTas, UnlockTicket, WakeAll
    <3> QED BY <1>1, <3>1 DEF clh
  <2> QED BY <2>1, <2>2, <2>3
<1> QED
  BY <1>4, <1>5, <1>6, <1>7, <1>8 DEF TypeOK

----------------------------------------------------------------------------
(* The line: who may join it, move in it and leave it.                     *)

LEMMA Numbered ==
  ASSUME IInv
  PROVE  /\ line \in Seq(Threads) /\ Distinct(line) /\ Len(line) \in Nat /\ Len(line) < Width
         /\ \A i \in 1 .. Len(line) : line[i] \in Threads
         /\ line = <<>> <=> Len(line) = 0
         /\ head \in 0 .. Width - 1 /\ tail \in 0 .. Width - 1 /\ MyTicket \in 0 .. Width - 1
<1>1. line \in Seq(Threads) /\ Distinct(line) /\ head \in 0 .. Width - 1 /\ tail \in 0 .. Width - 1
  BY DEF IInv, LineFit, TypeOK
<1>2. Len(line) \in Nat /\ Len(line) <= N
  BY <1>1, LineLength
<1>3. MyTicket \in 0 .. Width - 1
  BY <1>1, Counting DEF MyTicket
<1>4. Len(line) < Width
  BY <1>2, Numbers
<1> QED
  BY <1>1, <1>2, <1>3, <1>4

(* The first in line is the one whose ticket the head is at.               *)
LEMMA FirstByTicket ==
  ASSUME IInv, Tickets, NEW t \in Threads, pc[t] \in Queueing, Minus(ticket[t], head) = 0
  PROVE  line # <<>> /\ line[1] = t
<1>1. PICK i \in 1 .. Len(line) : line[i] = t
  BY DEF IInv, LineFit, InLine
<1>2. ticket[t] = After(head, i - 1)
  BY <1>1 DEF IInv, TicketsFit, Queueing
<1>3. ticket[t] = head
  <2>1. ticket[t] \in 0 .. Width - 1 /\ head \in 0 .. Width - 1
    BY DEF IInv, TypeOK
  <2>2. Minus(ticket[t], head) = IF ticket[t] >= head THEN ticket[t] - head ELSE ticket[t] - head + Width
    BY <2>1, Counting
  <2> QED BY <2>1, <2>2, Numbers
<1>4. i = 1
  BY <1>2, <1>3, Numbered, Numbers DEF After
<1> QED
  BY <1>1, <1>4, Numbered

(* It is the one whose predecessor's node is not locked.                   *)
LEMMA FirstByNode ==
  ASSUME IInv, Clh, NEW t \in Threads, pc[t] = "await", pred[t] \notin raised
  PROVE  line # <<>> /\ line[1] = t
<1>1. PICK i \in 1 .. Len(line) : line[i] = t
  BY DEF IInv, LineFit, InLine
<1>2. CASE i > 1
  <2>1. i - 1 \in 1 .. Len(line) /\ line[i - 1] \in Threads
    BY <1>2, Numbered
  <2>2. pc[line[i - 1]] \in InLine
    BY <2>1 DEF IInv, LineFit
  <2>3. local[line[i - 1]] \in raised
    BY <2>1, <2>2 DEF IInv, ClhFit
  <2>4. pred[t] = local[line[i - 1]]
    BY <1>1, <1>2 DEF IInv, ClhFit
  <2> QED BY <2>3, <2>4
<1>3. CASE ~(i > 1)
  <2>1. i = 1
    BY <1>3
  <2> QED BY <1>1, <2>1, Numbered
<1> QED
  BY <1>2, <1>3

(* A trylock gets its ticket only if nobody is in line.                    *)
Got(t) == tail = ticket[t] /\ (Packed => head = seen[t])

LEMMA AloneByTry ==
  ASSUME IInv, Tickets, NEW t \in Threads, pc[t] = "try_cas", Got(t)
  PROVE  line = <<>>
<1>1. CASE Packed
  <2>1. seen[t] = ticket[t]
    BY <1>1 DEF IInv, TicketsFit
  <2>2. head = tail
    BY <1>1, <2>1 DEF Got
  <2>3. head = After(head, Len(line))
    BY <1>1, <2>2 DEF IInv, TicketsFit, MyTicket
  <2> QED BY <2>3, Numbered, Numbers DEF After
<1>2. CASE ~Packed
  BY <1>2 DEF IInv, TicketsFit, Got
<1> QED
  BY <1>1, <1>2

Joins(t) ==
  /\ Join(t) /\ pc[t] \notin InLine /\ pc'[t] \in InLine
  /\ pc'[t] = "cs" => line = <<>>
Leaves(t) == Leave /\ pc[t] = "cs" /\ pc'[t] \notin InLine
Stays(t) ==
  /\ line' = line
  /\ pc'[t] \in InLine <=> pc[t] \in InLine
  /\ pc'[t] = "cs" => line # <<>> /\ line[1] = t

(* Which of the three a step is.                                           *)
Joining(t) ==
  \/ (Swap(t) \/ TrySwap(t)) /\ lock = 0
  \/ Draw(t)
  \/ TryCas(t) /\ Got(t)
  \/ Enqueue(t)
Leaving(t) == UnlockTas(t) \/ UnlockTicket(t) \/ UnlockClh(t)

LEMMA LineMoves ==
  ASSUME IInv, NEW t \in Threads, Moves(t)
  PROVE  /\ Joining(t) => Joins(t)
         /\ Leaving(t) => Leaves(t)
         /\ Joining(t) \/ Leaving(t) \/ Stays(t)
<1> USE DEF Goto, Joining, Leaving
<1>0. /\ TypeOK /\ LabelsFit
      /\ pc = [u \in Threads |-> pc[u]]
  BY DEF IInv, TypeOK
<1>a. /\ pc[t] \in TasLabels => Tas
      /\ pc[t] \in TicketLabels => Tickets
      /\ pc[t] \in ClhLabels => Clh
  BY <1>0 DEF LabelsFit
<1>b. /\ Swap(t) => pc[t] = "swap"
      /\ TrySwap(t) => pc[t] = "try_swap"
      /\ Draw(t) => pc[t] = "draw"
      /\ TryCas(t) => pc[t] = "try_cas"
      /\ Enqueue(t) => pc[t] = "enqueue"
      /\ UnlockTas(t) \/ UnlockTicket(t) \/ UnlockClh(t) => pc[t] = "cs"
  BY DEF Swap, TrySwap, Draw, TryCas, Enqueue, UnlockTas, UnlockTicket, UnlockClh
<1>1. CASE Swap(t) \/ TrySwap(t)
  <2>1. Tas /\ pc[t] \in {"swap", "try_swap"}
    BY <1>1, <1>a DEF Swap, TrySwap, TasLabels
  <2>2. CASE lock = 0
    <3>1. line = <<>>
      BY <2>1, <2>2 DEF IInv, TasFit
    <3>2. WriteAndGo(t, "cs", 0) /\ Join(t)
      BY <1>1, <2>2 DEF Swap, TrySwap
    <3>3. pc'[t] = "cs"
      BY <3>2 DEF WriteAndGo
    <3>4. Joins(t)
      BY <2>1, <3>1, <3>2, <3>3 DEF Joins, InLine, Queueing
    <3> QED BY <1>b, <1>1, <2>2, <3>4
  <2>3. CASE lock # 0
    <3>1. PICK label, n : WriteAndGo(t, label, n) /\ label \in {"idle", copy.lost} /\ line' = line
      BY <1>1, <2>3 DEF Swap, TrySwap
    <3>2. pc'[t] = label
      BY <3>1 DEF WriteAndGo
    <3>3. copy.lost \in {"test", "swap", "begin"}
      BY <1>0, <2>1, Kinds DEF TasRight
    <3>4. Stays(t)
      BY <2>1, <3>1, <3>2, <3>3 DEF Stays, InLine, Queueing
    <3> QED BY <1>b, <1>1, <2>3, <3>4
  <2> QED BY <2>2, <2>3
<1>2. CASE Draw(t)
  <2>1. Joins(t)
    BY <1>0, <1>2 DEF Draw, Joins, InLine, Queueing
  <2> QED BY <1>b, <1>2, <2>1
<1>3. CASE TryCas(t)
  <2>1. Tickets /\ pc[t] = "try_cas"
    BY <1>3, <1>a DEF TryCas, TicketLabels
  <2>2. CASE Got(t)
    <3>1. line = <<>>
      BY <2>1, <2>2, AloneByTry
    <3>2. Joins(t)
      BY <1>0, <1>3, <2>2, <3>1 DEF TryCas, Got, Joins, Join, InLine, Queueing
    <3> QED BY <1>b, <1>3, <2>2, <3>2
  <2>3. CASE ~Got(t)
    <3>1. Stays(t)
      BY <1>0, <1>3, <2>3 DEF TryCas, Got, Stays, InLine, Queueing
    <3> QED BY <1>b, <1>3, <2>3, <3>1
  <2> QED BY <2>2, <2>3
<1>4. CASE Enqueue(t)
  <2>1. Clh /\ pc[t] = "enqueue"
    BY <1>4, <1>a DEF Enqueue, ClhLabels
  <2>2. last = Null => line = <<>>
    BY <2>1 DEF IInv, ClhFit
  <2>3. Joins(t)
    BY <1>0, <1>4, <2>2 DEF Enqueue, Joins, InLine, Queueing
  <2> QED BY <1>b, <1>4, <2>3
<1>5. CASE UnlockTas(t) \/ UnlockTicket(t) \/ UnlockClh(t)
  <2>1. Leaves(t)
    BY <1>0, <1>5 DEF UnlockTas, UnlockTicket, UnlockClh, Leaves, InLine, Queueing
  <2> QED BY <1>b, <1>5, <2>1
<1>6. CASE /\ ~(Swap(t) \/ TrySwap(t) \/ Draw(t) \/ TryCas(t) \/ Enqueue(t))
           /\ ~(UnlockTas(t) \/ UnlockTicket(t) \/ UnlockClh(t))
  <2> SUFFICES Stays(t)
    BY <1>6
  <2>1. CASE Look(t) \/ Spin(t)
    <3>1. Tickets /\ pc[t] \in Queueing /\ line' = line /\ pc'[t] \in Queueing \cup {"cs"}
      BY <1>0, <1>a, <2>1 DEF Look, Spin, TicketLabels, Queueing
    <3>2. pc'[t] = "cs" => Minus(ticket[t], head) = 0
      BY <1>0, <2>1 DEF Look, Spin
    <3> QED BY <3>1, <3>2, FirstByTicket DEF Stays, InLine, Queueing
  <2>2. CASE Await(t)
    <3>1. Clh /\ pc[t] = "await" /\ pred[t] \notin raised /\ line' = line /\ pc'[t] = "cs"
      BY <1>0, <1>a, <2>2 DEF Await, ClhLabels
    <3> QED BY <3>1, FirstByNode DEF Stays, InLine
  <2>3. CASE FutexWait(t) \/ Interrupted(t) \/ WakeAll(t)
    BY <1>0, <2>3 DEF FutexWait, Interrupted, WakeAll, Stays, InLine, Queueing
  <2>4. CASE Abort(t)
    <3>1. /\ pc[t] \in {"begin", "tx", "try_begin", "try_tx"} /\ line' = line
          /\ pc'[t] = AfterAbort(t)
      BY <1>0, <2>4 DEF Abort, InTx
    <3> QED BY <1>0, <3>1, AbortGoes DEF Stays, InLine, Queueing
  <2>5. CASE TryTail(t) \/ TryHead(t) \/ Test(t) \/ TryTest(t) \/ Commit(t)
    BY <1>0, <2>5 DEF TryTail, TryHead, Test, TryTest, Commit, InTx, Stays, InLine, Queueing
  <2>6. CASE Call(t) \/ Begin(t) \/ TryBegin(t)
    <3>1. /\ line' = line
          /\ pc[t] \in {"idle", "begin", "try_begin"}
          /\ Begin(t) \/ TryBegin(t) => Tas
      BY <1>a, <2>6 DEF Call, Begin, TryBegin, TasLabels
    <3>2. Tas => copy.enters \in {"test", "swap", "begin"} /\ copy.lost \in {"test", "swap", "begin"}
      BY <1>0, Kinds DEF TasRight
    <3>3. CASE Call(t)
      <4>1. Tas \/ Tickets \/ Clh
        BY <1>0, Kinds
      <4> QED BY <1>0, <3>1, <3>2, <3>3, <4>1 DEF Call, Stays, InLine, Queueing
    <3>4. CASE Begin(t) \/ TryBegin(t)
      BY <1>0, <3>1, <3>2, <3>4 DEF Begin, TryBegin, Stays, InLine, Queueing
    <3> QED BY <2>6, <3>3, <3>4
  <2> QED BY <1>6, <2>1, <2>2, <2>3, <2>4, <2>5, <2>6 DEF Moves, Step
<1> QED
  BY <1>1, <1>2, <1>3, <1>4, <1>5, <1>6

(* Nobody else comes into the line, or to its end.                         *)
LEMMA OthersInLine ==
  ASSUME IInv, NEW t \in Threads, Moves(t), NEW u \in Threads \ {t}
  PROVE  /\ pc'[u] \in InLine <=> pc[u] \in InLine
         /\ pc'[u] = "cs" <=> pc[u] = "cs"
<1>1. TypeOK /\ LabelsFit
  BY DEF IInv
<1> QED
  BY <1>1, Others DEF InTx, InLine, Queueing

LEMMA Joined ==
  ASSUME IInv, NEW t \in Threads, Joins(t)
  PROVE  /\ line' \in Seq(Threads) /\ Distinct(line') /\ line' # <<>>
         /\ Len(line') = Len(line) + 1
         /\ \A i \in 1 .. Len(line) : line'[i] = line[i] /\ line[i] # t
         /\ line'[Len(line) + 1] = t
<1>1. \A i \in 1 .. Len(line) : line[i] # t
  BY DEF Joins, IInv, LineFit
<1> QED
  BY <1>1, Numbered, LineAppend DEF Joins, Join

LEMMA Left ==
  ASSUME IInv, NEW t \in Threads, Leaves(t)
  PROVE  /\ line # <<>> /\ line[1] = t /\ Len(line) \in Nat \ {0}
         /\ line' \in Seq(Threads) /\ Distinct(line')
         /\ Len(line') = Len(line) - 1
         /\ \A i \in 1 .. Len(line') : line'[i] = line[i + 1] /\ line'[i] # t
<1>1. line # <<>> /\ line[1] = t
  BY DEF Leaves, IInv, LineFit
<1> QED
  BY <1>1, Numbered, LineTail DEF Leaves, Leave

LEMMA LineStep ==
  ASSUME IInv, NEW t \in Threads, Moves(t)
  PROVE  LineFit'
<1>0. /\ \A u \in Threads : pc[u] \in InLine <=> \E i \in 1 .. Len(line) : line[i] = u
      /\ \A u \in Threads : pc[u] = "cs" => line # <<>> /\ line[1] = u
  BY DEF IInv, LineFit
<1>a. \A u \in Threads \ {t} : /\ pc'[u] \in InLine <=> pc[u] \in InLine
                               /\ pc'[u] = "cs" <=> pc[u] = "cs"
  BY OthersInLine
<1>b. line \in Seq(Threads) /\ Distinct(line) /\ Len(line) \in Nat /\ (line # <<>> => 1 \in 1 .. Len(line))
  BY Numbered
<1> SUFFICES /\ line' \in Seq(Threads) /\ Distinct(line')
             /\ \A u \in Threads : pc'[u] \in InLine <=> \E i \in 1 .. Len(line') : line'[i] = u
             /\ \A u \in Threads : pc'[u] = "cs" => line' # <<>> /\ line'[1] = u
  BY DEF LineFit, Distinct
<1>1. CASE Joins(t)
  <2>1. /\ line' \in Seq(Threads) /\ Distinct(line') /\ line' # <<>>
        /\ Len(line') = Len(line) + 1
        /\ \A i \in 1 .. Len(line) : line'[i] = line[i] /\ line[i] # t
        /\ line'[Len(line) + 1] = t
    BY <1>1, Joined
  <2>2. /\ pc'[t] \in InLine /\ (pc'[t] = "cs" => line = <<>>)
    BY <1>1 DEF Joins
  <2>3. ASSUME NEW u \in Threads
        PROVE  pc'[u] \in InLine <=> \E i \in 1 .. Len(line') : line'[i] = u
    <3>1. CASE u = t
      BY <1>b, <2>1, <2>2, <3>1
    <3>2. CASE u # t
      BY <1>0, <1>a, <1>b, <2>1, <3>2
    <3> QED BY <3>1, <3>2
  <2>4. ASSUME NEW u \in Threads, pc'[u] = "cs"
        PROVE  line'[1] = u
    <3>1. CASE u = t
      BY <1>b, <2>1, <2>2, <2>4, <3>1
    <3>2. CASE u # t
      BY <1>0, <1>a, <1>b, <2>1, <2>4, <3>2
    <3> QED BY <3>1, <3>2
  <2> QED BY <2>1, <2>3, <2>4
<1>2. CASE Leaves(t)
  <2>1. /\ line # <<>> /\ line[1] = t /\ Len(line) \in Nat \ {0}
        /\ line' \in Seq(Threads) /\ Distinct(line')
        /\ Len(line') = Len(line) - 1
        /\ \A i \in 1 .. Len(line') : line'[i] = line[i + 1] /\ line'[i] # t
    BY <1>2, Left
  <2>2. pc'[t] \notin InLine /\ pc'[t] # "cs"
    BY <1>2 DEF Leaves, InLine
  <2>3. ASSUME NEW u \in Threads
        PROVE  pc'[u] \in InLine <=> \E i \in 1 .. Len(line') : line'[i] = u
    <3>1. CASE u = t
      BY <2>1, <2>2, <3>1
    <3>2. CASE u # t
      <4>1. ASSUME NEW i \in 1 .. Len(line), line[i] = u
            PROVE  i - 1 \in 1 .. Len(line') /\ line'[i - 1] = u
        BY <2>1, <3>2, <4>1
      <4>2. ASSUME NEW i \in 1 .. Len(line'), line'[i] = u
            PROVE  i + 1 \in 1 .. Len(line) /\ line[i + 1] = u
        BY <2>1, <4>2
      <4> QED BY <1>0, <1>a, <3>2, <4>1, <4>2
    <3> QED BY <3>1, <3>2
  <2>4. \A u \in Threads : pc'[u] # "cs"
    BY <1>0, <1>a, <2>1, <2>2
  <2> QED BY <2>1, <2>3, <2>4
<1>3. CASE Stays(t)
  BY <1>0, <1>a, <1>b, <1>3 DEF Stays
<1> QED
  BY <1>1, <1>2, <1>3, LineMoves

----------------------------------------------------------------------------
(* Test-and-set.                                                           *)

LEMMA TasStep ==
  ASSUME IInv, NEW t \in Threads, Moves(t)
  PROVE  TasFit'
<1> SUFFICES ASSUME Tas
             PROVE  /\ Len(line') <= 1
                    /\ lock' = 0 <=> line' = <<>>
                    /\ \A u \in Threads : pc'[u] \in {"tx", "try_tx"} => lock' = 0
  BY CopyStays DEF TasFit, InTx
<1>0. /\ TypeOK /\ LabelsFit /\ line \in Seq(Threads) /\ lock \in {0, 1}
      /\ ~Tickets /\ ~Clh /\ Len(line) \in Nat
      /\ pc = [u \in Threads |-> pc[u]]
  BY Kinds, Numbered DEF IInv, TypeOK
<1>1. /\ Len(line) <= 1 /\ (lock = 0 <=> line = <<>>)
      /\ \A u \in Threads : pc[u] \in {"tx", "try_tx"} => lock = 0
  BY DEF IInv, TasFit, InTx
<1>2. CASE Swap(t) \/ TrySwap(t)
  <2>1. PICK label, n : WriteAndGo(t, label, n) /\ label \in {"cs", "idle", copy.lost}
    BY <1>2 DEF Swap, TrySwap
  <2>2. lock' = 1 /\ pc'[t] = label
    BY <2>1 DEF WriteAndGo
  <2>3. copy.lost \in {"test", "swap", "begin"}
    BY <1>0, Kinds DEF TasRight
  <2>4. \A u \in Threads : pc'[u] \notin {"tx", "try_tx"}
    <3> TAKE u \in Threads
    <3>1. CASE u = t
      BY <2>1, <2>2, <2>3, <3>1
    <3>2. CASE u # t
      BY <1>0, <2>1, <3>2, WriteIs DEF InTx
    <3> QED BY <3>1, <3>2
  <2>5. CASE lock = 0
    <3>1. Joins(t) /\ line = <<>>
      BY <1>1, <1>2, <2>5, LineMoves DEF Joining
    <3>2. Len(line') = 1 /\ line' # <<>>
      BY <3>1, Joined
    <3> QED BY <2>2, <2>4, <3>2
  <2>6. CASE lock # 0
    <3>1. line' = line
      BY <1>2, <2>6 DEF Swap, TrySwap
    <3> QED BY <1>1, <2>2, <2>4, <2>6, <3>1
  <2> QED BY <2>5, <2>6
<1>3. CASE UnlockTas(t)
  <2>1. Leaves(t)
    BY <1>3, LineMoves DEF Leaving
  <2>2. Len(line') = 0 /\ line' \in Seq(Threads)
    BY <1>1, <2>1, Left
  <2>3. lock' = 0
    BY <1>3 DEF UnlockTas
  <2> QED BY <2>2, <2>3
<1>4. CASE ~Swap(t) /\ ~TrySwap(t) /\ ~UnlockTas(t)
  <2>1. ~Leaving(t) /\ ~Joining(t)
    BY <1>0, <1>4 DEF Leaving, Joining, UnlockTicket, UnlockClh, Draw, TryCas, Enqueue, LabelsFit,
                      TicketLabels, ClhLabels
  <2>2. line' = line
    BY <2>1, LineMoves DEF Stays
  <2>3. lock' = lock
    BY <1>4 DEF Moves, Step, Call, Abort, Test, TryTest, Begin, TryBegin, Commit, Draw, Look, Spin,
                FutexWait, Interrupted, TryTail, TryHead, TryCas, Enqueue, Await, UnlockTicket,
                WakeAll, UnlockClh, tas
  <2>4. ASSUME NEW u \in Threads, pc'[u] \in {"tx", "try_tx"}
        PROVE  lock = 0
    <3>1. CASE pc[u] \in {"tx", "try_tx"}
      BY <1>1, <3>1
    <3>2. CASE u # t /\ pc[u] \notin {"tx", "try_tx"}
      BY <1>0, <2>4, <3>2, Others
    <3>3. CASE u = t /\ pc[u] \notin {"tx", "try_tx"}
      <4>1. copy.enters \in {"test", "swap", "begin"} /\ copy.lost \in {"test", "swap", "begin"}
        BY <1>0, Kinds DEF TasRight
      <4>2. Call(t) => pc'[t] \notin {"tx", "try_tx"}
        BY <1>0, <4>1 DEF Call, Goto
      <4>3. Abort(t) => pc'[t] \notin {"tx", "try_tx"}
        <5>1. ASSUME Abort(t)
              PROVE  /\ pc[t] \in {"begin", "tx", "try_begin", "try_tx"}
                     /\ pc'[t] = AfterAbort(t)
          BY <1>0, <5>1 DEF Abort, InTx, Goto
        <5> QED BY <1>0, <5>1, AbortGoes
      <4>4. Begin(t) \/ TryBegin(t) => lock = 0 \/ pc'[t] \notin {"tx", "try_tx"}
        BY <1>0, <4>1 DEF Begin, TryBegin, Goto
      <4>5. Test(t) \/ TryTest(t) \/ Commit(t) => pc'[t] \notin {"tx", "try_tx"}
        BY <1>0 DEF Test, TryTest, Commit, Goto
      <4>6. \/ Call(t) \/ Abort(t) \/ Begin(t) \/ TryBegin(t)
            \/ Test(t) \/ TryTest(t) \/ Commit(t)
        <5>1. pc[t] \notin TicketLabels \cup ClhLabels
          BY <1>0 DEF LabelsFit
        <5> QED BY <1>0, <1>4, <5>1 DEF Moves, Step, Draw, Look, Spin, FutexWait, Interrupted, TryTail, TryHead,
                   TryCas, Enqueue, Await, UnlockTicket, WakeAll, UnlockClh, TicketLabels, Queueing,
                   ClhLabels
      <4> QED BY <2>4, <3>3, <4>2, <4>3, <4>4, <4>5, <4>6
    <3> QED BY <3>1, <3>2, <3>3
  <2> QED BY <1>1, <2>2, <2>3, <2>4
<1> QED
  BY <1>2, <1>3, <1>4

----------------------------------------------------------------------------
(* Tickets.                                                                *)

(* One more ticket, and one more served.                                   *)
LEMMA AfterMoves ==
  \A h \in 0 .. Width - 1 :
    /\ After(h, 1) \in 0 .. Width - 1
    /\ \A i \in 0 .. Width - 1 :
         /\ After(h, i) \in 0 .. Width - 1
         /\ After(After(h, i), 1) = After(h, i + 1)
         /\ i > 0 => After(After(h, 1), i - 1) = After(h, i)
         /\ After(h, i) = h => i = 0
  BY Numbers DEF After

LEMMA DrawsTicket ==
  ASSUME IInv, Tickets, Packed' <=> Packed, head' = head, tail' = Succ(tail)
  PROVE  MyTicket' = After(MyTicket, 1) /\ MyTicket' = After(head, Len(line) + 1)
<1>1. tail \in 0 .. Width - 1 /\ Len(line) \in 0 .. Width - 1 /\ head \in 0 .. Width - 1
  BY Numbered, Numbers
<1>2. Succ(tail) = After(tail, 1) /\ Succ(tail) \in 0 .. Width - 1
  BY <1>1, Counting
<1>3. ASSUME NEW k, k = tail'
      PROVE  MyTicket' = IF Packed THEN k ELSE Succ(k)
  BY <1>3 DEF MyTicket
<1>4. ASSUME NEW k \in 0 .. Width - 1, k = tail'
      PROVE  MyTicket' = IF Packed THEN k ELSE After(k, 1)
  <2>1. MyTicket' = IF Packed THEN k ELSE Succ(k)
    BY <1>3, <1>4
  <2>2. Succ(k) = After(k, 1)
    BY Counting
  <2> QED BY <2>1, <2>2
<1>5. MyTicket' = After(MyTicket, 1)
  <2>1. MyTicket' = IF Packed THEN Succ(tail) ELSE After(Succ(tail), 1)
    BY <1>2, <1>4
  <2> QED BY <1>2, <2>1 DEF MyTicket
<1>6. MyTicket = After(head, Len(line))
  BY DEF IInv, TicketsFit
<1>7. After(After(head, Len(line)), 1) = After(head, Len(line) + 1)
  BY <1>1, AfterMoves
<1> QED
  BY <1>5, <1>6, <1>7

(* A guarded lock is not unlocked in vain.                                 *)
LEMMA HeadMoves ==
  ASSUME IInv, NEW t \in Threads, UnlockTicket(t)
  PROVE  head' = After(head, 1)
<1>1. line # <<>> /\ Tickets
  BY DEF UnlockTicket, IInv, LineFit
<1>2. head \in 0 .. Width - 1 /\ tail \in 0 .. Width - 1
  BY Numbered
<1>3. ~(copy.guarded /\ tail < head)
  BY <1>1, <1>2, Numbers DEF IInv, GuardedFit
<1>4. head' = Succ(head)
  BY <1>3 DEF UnlockTicket
<1> QED
  BY <1>2, <1>4, Counting

LEMMA TicketsStep ==
  ASSUME IInv, NEW t \in Threads, Moves(t)
  PROVE  TicketsFit'
<1> DEFINE Served(h) == \A i \in 1 .. Len(line') :
             pc'[line'[i]] # "cs" => ticket'[line'[i]] = After(h, i - 1)
           Seen(u) == IF Packed THEN seen'[u] = ticket'[u] ELSE tail' = ticket'[u] => line' = <<>>
           Untried == \A u \in Threads : pc'[u] = "try_cas" => Seen(u)
<1>s. SUFFICES ASSUME Tickets
               PROVE  \E h : h = head' /\ MyTicket' = After(h, Len(line')) /\ Served(h) /\ Untried
  <2>1. (Tickets' <=> Tickets) /\ (Packed' <=> Packed)
    BY CopyStays
  <2>2. ASSUME NEW h, h = head', MyTicket' = After(h, Len(line')), Served(h), Untried
        PROVE  TicketsFit'
    BY <2>1, <2>2 DEF TicketsFit, After
  <2>3. ~Tickets => TicketsFit'
    BY <2>1 DEF TicketsFit
  <2> QED BY <2>2, <2>3
<1>0. /\ TypeOK /\ LabelsFit /\ ~Tas /\ ~Clh
      /\ pc = [u \in Threads |-> pc[u]]
      /\ ticket = [u \in Threads |-> ticket[u]] /\ seen = [u \in Threads |-> seen[u]]
  BY <1>s, Kinds DEF IInv, TypeOK
<1>1. /\ MyTicket = After(head, Len(line))
      /\ \A i \in 1 .. Len(line) : pc[line[i]] # "cs" => ticket[line[i]] = After(head, i - 1)
      /\ \A u \in Threads : pc[u] = "try_cas" =>
           IF Packed THEN seen[u] = ticket[u] ELSE tail = ticket[u] => line = <<>>
  BY <1>s DEF IInv, TicketsFit
<1>2. /\ Len(line) \in Nat /\ Len(line) < Width /\ line \in Seq(Threads)
      /\ \A i \in 1 .. Len(line) : line[i] \in Threads /\ pc[line[i]] \in InLine
      /\ line = <<>> <=> Len(line) = 0
      /\ head \in 0 .. Width - 1
  BY Numbered DEF IInv, LineFit
<1>c. Packed' <=> Packed
  BY CopyStays
<1>o. \A u \in Threads \ {t} : \/ pc'[u] = pc[u]
                               \/ pc[u] = "asleep" /\ pc'[u] = "look"
  BY <1>0, Others
<1>p. Succ(tail) = After(tail, 1) /\ Len(line) \in 0 .. Width - 1
  BY <1>2, Numbered, Numbers, Counting
<1>3. CASE Draw(t)
  <2>1. Joins(t)
    BY <1>3, LineMoves DEF Joining
  <2>2. /\ Len(line') = Len(line) + 1
        /\ \A i \in 1 .. Len(line) : line'[i] = line[i] /\ line[i] # t
        /\ line'[Len(line) + 1] = t
    BY <2>1, Joined
  <2>3. /\ head' = head /\ tail' = Succ(tail) /\ pc'[t] = "look" /\ seen' = seen
        /\ ticket'[t] = MyTicket /\ \A u \in Threads \ {t} : ticket'[u] = ticket[u]
    BY <1>0, <1>3 DEF Draw, Goto
  <2>4. MyTicket' = After(head, Len(line'))
    BY <1>c, <1>s, <2>2, <2>3, DrawsTicket
  <2>5. Served(head)
    <3> SUFFICES ASSUME NEW i \in 1 .. Len(line'), pc'[line'[i]] # "cs"
                 PROVE  ticket'[line'[i]] = After(head, i - 1)
      OBVIOUS
    <3>1. CASE i = Len(line) + 1
      <4>1. i - 1 = Len(line)
        BY <1>2, <3>1
      <4> QED BY <1>1, <2>2, <2>3, <3>1, <4>1
    <3>2. CASE i # Len(line) + 1
      <4>1. i \in 1 .. Len(line)
        BY <1>2, <2>2, <3>2
      <4>2. line'[i] = line[i] /\ line[i] \in Threads \ {t}
        BY <1>2, <2>2, <4>1
      <4> QED BY <1>1, <1>o, <2>3, <4>1, <4>2
    <3> QED BY <3>1, <3>2
  <2>6. Untried
    <3> SUFFICES ASSUME NEW u \in Threads, pc'[u] = "try_cas"
                 PROVE  Seen(u)
      OBVIOUS
    <3>1. u # t /\ pc[u] = "try_cas" /\ ticket'[u] = ticket[u]
      BY <1>o, <2>3
    <3>2. ~Packed => Succ(tail) # ticket[u]
      BY <1>3, <3>1 DEF Draw, NotLapped
    <3> QED BY <1>1, <2>3, <3>1, <3>2
  <2> QED BY <2>3, <2>4, <2>5, <2>6
<1>4. CASE TryCas(t) /\ Got(t)
  <2>1. Joins(t)
    BY <1>4, LineMoves DEF Joining
  <2>2. /\ Len(line') = Len(line) + 1
        /\ line'[Len(line) + 1] = t
    BY <2>1, Joined
  <2>3. line = <<>> /\ Len(line) = 0
    BY <1>2, <1>4, <1>s, AloneByTry DEF TryCas
  <2>4. /\ head' = head /\ tail' = Succ(tail) /\ pc'[t] = "cs" /\ NotLapped(t)
        /\ \A u \in Threads \ {t} : ticket'[u] = ticket[u] /\ seen'[u] = seen[u]
    BY <1>0, <1>4 DEF TryCas, Got, Goto, Forget
  <2>5. MyTicket' = After(head, Len(line'))
    BY <1>c, <1>s, <2>2, <2>4, DrawsTicket
  <2>6. Served(head)
    BY <2>2, <2>3, <2>4
  <2>7. Untried
    <3> SUFFICES ASSUME NEW u \in Threads, pc'[u] = "try_cas"
                 PROVE  Seen(u)
      OBVIOUS
    <3>1. u # t /\ pc[u] = "try_cas" /\ ticket'[u] = ticket[u] /\ seen'[u] = seen[u]
      BY <1>o, <2>4
    <3>2. ~Packed => Succ(tail) # ticket[u]
      BY <2>4, <3>1 DEF NotLapped
    <3> QED BY <1>1, <2>4, <3>1, <3>2
  <2> QED BY <2>4, <2>5, <2>6, <2>7
<1>5. CASE UnlockTicket(t)
  <2>1. Leaves(t)
    BY <1>5, LineMoves DEF Leaving
  <2>2. /\ line # <<>> /\ Len(line) \in Nat \ {0}
        /\ Len(line') = Len(line) - 1
        /\ \A i \in 1 .. Len(line') : line'[i] = line[i + 1] /\ line'[i] # t
    BY <2>1, Left
  <2>3. /\ tail' = tail /\ ticket' = ticket /\ seen' = seen /\ pc'[t] \in {"wake", "idle"}
    BY <1>0, <1>5 DEF UnlockTicket, Goto
  <2>4. head' = After(head, 1)
    BY <1>5, HeadMoves
  <2>5. MyTicket' = After(After(head, 1), Len(line'))
    <3>1. MyTicket' = MyTicket
      BY <1>c, <2>3 DEF MyTicket, Succ
    <3>2. After(After(head, 1), Len(line) - 1) = After(head, Len(line))
      BY <1>2, <1>p, <2>2, AfterMoves
    <3> QED BY <1>1, <2>2, <3>1, <3>2
  <2>6. Served(After(head, 1))
    <3> SUFFICES ASSUME NEW i \in 1 .. Len(line'), pc'[line'[i]] # "cs"
                 PROVE  ticket'[line'[i]] = After(After(head, 1), i - 1)
      OBVIOUS
    <3>1. i + 1 \in 1 .. Len(line) /\ line'[i] = line[i + 1] /\ line[i + 1] \in Threads \ {t}
      BY <1>2, <2>2
    <3>2. ticket[line[i + 1]] = After(head, i + 1 - 1)
      BY <1>1, <1>o, <3>1
    <3>3. i \in 0 .. Width - 1 /\ i > 0 /\ i + 1 - 1 = i
      BY <1>2, <3>1, Numbers
    <3>4. After(After(head, 1), i - 1) = After(head, i)
      BY <1>2, <3>3, AfterMoves
    <3> QED BY <2>3, <3>1, <3>2, <3>3, <3>4
  <2>7. Untried
    <3> SUFFICES ASSUME NEW u \in Threads, pc'[u] = "try_cas"
                 PROVE  Seen(u)
      OBVIOUS
    <3>1. pc[u] = "try_cas"
      BY <1>o, <2>3
    <3> QED BY <1>1, <2>2, <2>3, <3>1
  <2> QED BY <2>4, <2>5, <2>6, <2>7
<1>6. CASE ~Draw(t) /\ ~(TryCas(t) /\ Got(t)) /\ ~UnlockTicket(t)
  <2>1. ~Leaving(t) /\ ~Joining(t)
    BY <1>0, <1>6 DEF Leaving, Joining, UnlockTas, UnlockClh, Swap, TrySwap, Enqueue, LabelsFit,
                      TasLabels, ClhLabels
  <2>2. Stays(t) /\ line' = line
    BY <2>1, LineMoves DEF Stays
  <2>3. head' = head /\ tail' = tail
    BY <1>6 DEF Moves, Step, Call, Abort, Test, Swap, TrySwap, TryTest, Begin, TryBegin, Commit,
                Look, Spin, FutexWait, Interrupted, TryTail, TryHead, TryCas, Got, Enqueue, Await,
                UnlockTas, WakeAll, UnlockClh
  <2>4. MyTicket' = After(head, Len(line'))
    BY <1>1, <1>c, <2>2, <2>3 DEF MyTicket, Succ
  <2>5. \A u \in Threads \ {t} : ticket'[u] = ticket[u] /\ seen'[u] = seen[u]
    BY <1>0, <1>6 DEF Moves, Step, Call, Abort, Test, Swap, TrySwap, TryTest, Begin, TryBegin, Commit,
                Look, Spin, FutexWait, Interrupted, TryTail, TryHead, TryCas, Got, Enqueue, Await,
                UnlockTas, WakeAll, UnlockClh, Forget
  <2>6. /\ pc[t] \in InLine /\ pc'[t] # "cs" => pc[t] # "cs" /\ ticket'[t] = ticket[t]
        /\ pc'[t] = "try_cas" =>
             IF Packed THEN seen'[t] = ticket'[t]
             ELSE Minus(head, ticket[t]) = 1 /\ ticket'[t] = ticket[t]
    <3> USE DEF Goto
    <3>1. CASE Look(t) \/ Spin(t) \/ FutexWait(t) \/ Interrupted(t) \/ WakeAll(t)
      BY <1>0, <3>1 DEF Look, Spin, FutexWait, Interrupted, WakeAll, InLine, Queueing
    <3>2. CASE TryTail(t) \/ TryHead(t)
      BY <1>0, <3>2 DEF TryTail, TryHead, LabelsFit, InLine, Queueing
    <3>3. CASE TryCas(t) \/ Call(t)
      BY <1>0, <1>s, <3>3 DEF TryCas, Call, InLine, Queueing
    <3>4. Look(t) \/ Spin(t) \/ FutexWait(t) \/ Interrupted(t) \/ WakeAll(t)
          \/ TryTail(t) \/ TryHead(t) \/ TryCas(t) \/ Call(t)
      <4>1. pc[t] \notin TasLabels \cup ClhLabels
        BY <1>0 DEF LabelsFit
      <4> QED BY <1>0, <1>6, <4>1 DEF Moves, Step, Test, Swap, TrySwap, TryTest, Begin, TryBegin, Commit,
                Abort, InTx, Enqueue, Await, UnlockTas, UnlockClh, TasLabels, ClhLabels
    <3> QED BY <3>1, <3>2, <3>3, <3>4
  <2>7. Served(head)
    <3> SUFFICES ASSUME NEW i \in 1 .. Len(line'), pc'[line'[i]] # "cs"
                 PROVE  ticket'[line'[i]] = After(head, i - 1)
      OBVIOUS
    <3>1. line'[i] = line[i] /\ line[i] \in Threads /\ pc[line[i]] \in InLine /\ i \in 1 .. Len(line)
      BY <1>2, <2>2
    <3>2. pc[line[i]] # "cs" /\ ticket'[line[i]] = ticket[line[i]]
      BY <1>o, <2>5, <2>6, <3>1
    <3> QED BY <1>1, <3>1, <3>2
  <2>8. Untried
    <3> SUFFICES ASSUME NEW u \in Threads, pc'[u] = "try_cas"
                 PROVE  Seen(u)
      OBVIOUS
    <3>1. CASE u # t
      BY <1>1, <1>o, <2>2, <2>3, <2>5, <3>1
    <3>2. CASE u = t /\ Packed
      BY <2>6, <3>2
    <3>3. CASE u = t /\ ~Packed
      <4>1. Minus(head, ticket[t]) = 1 /\ ticket'[t] = ticket[t]
        BY <2>6, <3>3
      <4>2. ASSUME tail = ticket[t] PROVE line = <<>>
        <5>1. tail \in 0 .. Width - 1
          BY Numbered
        <5>2. Minus(head, tail) = IF head >= tail THEN head - tail ELSE head - tail + Width
          BY <1>2, <5>1, Counting
        <5>3. head = After(tail, 1)
          BY <1>2, <4>1, <4>2, <5>1, <5>2, Numbers DEF After
        <5>4. head = After(head, Len(line))
          BY <1>1, <1>p, <3>3, <5>3 DEF MyTicket
        <5> QED BY <1>2, <1>p, <5>4, AfterMoves
      <4> QED BY <2>2, <2>3, <3>3, <4>1, <4>2
    <3> QED BY <3>1, <3>2, <3>3
  <2> QED BY <2>3, <2>4, <2>7, <2>8
<1> QED
  BY <1>3, <1>4, <1>5, <1>6

----------------------------------------------------------------------------
(* Guarded tickets.                                                        *)

(* Who may come to draw a ticket, and who has.                             *)
LEMMA DrawingMoves ==
  ASSUME IInv, NEW t \in Threads, Moves(t)
  PROVE  /\ Call(t) => Drawing' \subseteq Drawing \cup {t}
         /\ ~Call(t) => Drawing' \subseteq Drawing
         /\ Draw(t) \/ TryCas(t) => t \in Drawing /\ Drawing' \subseteq Drawing \ {t}
<1>0. /\ TypeOK /\ LabelsFit
      /\ pc = [u \in Threads |-> pc[u]]
  BY DEF IInv, TypeOK
<1>1. \A u \in Threads \ {t} : u \in Drawing' => u \in Drawing
  BY <1>0, Others DEF Drawing
<1>2. Drawing' \subseteq Threads
  BY DEF Drawing
<1>3. Draw(t) \/ TryCas(t) => t \in Drawing /\ t \notin Drawing'
  BY <1>0 DEF Draw, TryCas, Drawing, Goto
<1>4. ASSUME ~Call(t), pc'[t] \in {"draw", "try", "try_head", "try_cas"}
      PROVE  t \in Drawing
  <2> USE DEF Goto
  <2>1. Tickets
    BY <1>0, <1>4, Edges DEF TasLabels
  <2>2. pc[t] \in TicketLabels \cup {"try", "cs"}
    BY <1>0, <1>4, <2>1, Kinds, Edges
  <2>3. ~Tas
    BY <1>0, <2>1, Kinds
  <2>4. CASE Look(t) \/ Spin(t) \/ FutexWait(t) \/ Interrupted(t) \/ WakeAll(t) \/ UnlockTicket(t)
    BY <1>0, <1>4, <2>4 DEF Look, Spin, FutexWait, Interrupted, WakeAll, UnlockTicket
  <2>5. CASE Draw(t) \/ TryTail(t) \/ TryHead(t) \/ TryCas(t)
    BY <2>5 DEF Draw, TryTail, TryHead, TryCas, Drawing
  <2>6. \/ Look(t) \/ Spin(t) \/ FutexWait(t) \/ Interrupted(t) \/ WakeAll(t) \/ UnlockTicket(t)
        \/ Draw(t) \/ TryTail(t) \/ TryHead(t) \/ TryCas(t)
    <3>1. ~Clh
      BY <1>0, <2>1, Kinds
    <3> QED BY <1>4, <2>2, <2>3, <3>1 DEF Moves, Step, Test, Swap, TrySwap, TryTest, Begin, TryBegin,
              Commit, Abort, InTx, Enqueue, Await, UnlockTas, UnlockClh, TicketLabels, Queueing
  <2> QED BY <2>4, <2>5, <2>6
<1> QED
  BY <1>1, <1>2, <1>3, <1>4 DEF Drawing

LEMMA GuardedStep ==
  ASSUME IInv, NEW t \in Threads, Moves(t)
  PROVE  GuardedFit'
<1>s. SUFFICES ASSUME Tickets, copy.guarded
               PROVE  /\ tail' + Cardinality(Drawing') < Width
                      /\ line' # <<>> => head' <= tail'
  BY CopyStays DEF GuardedFit
<1>0. /\ TypeOK /\ LabelsFit /\ ~Packed /\ ~Tas /\ ~Clh
  BY <1>s, Kinds DEF IInv, TicketRight, Packed
<1>1. /\ tail + Cardinality(Drawing) < Width
      /\ line # <<>> => head <= tail
  BY <1>s DEF IInv, GuardedFit
<1>2. /\ head \in 0 .. Width - 1 /\ tail \in 0 .. Width - 1
      /\ Len(line) \in Nat /\ Len(line) < Width
      /\ line = <<>> <=> Len(line) = 0
  BY Numbered
<1>3. Succ(tail) = After(tail, 1) /\ Succ(tail) = After(head, Len(line))
  BY <1>0, <1>2, <1>s, Counting DEF IInv, TicketsFit, MyTicket
<1>w. Width \in Nat \ {0, 1}
  BY Numbers
<1>d. /\ IsFiniteSet(Drawing) /\ Cardinality(Drawing) \in Nat
      /\ \A D \in SUBSET Drawing : Cardinality(D) \in Nat /\ Cardinality(D) <= Cardinality(Drawing)
  <2>1. IsFiniteSet(Drawing)
    BY Numbers, FS_Subset DEF Drawing
  <2> QED BY <2>1, FS_Subset, FS_CardinalityType
<1>4. CASE Draw(t) \/ (TryCas(t) /\ Got(t))
  <2>1. tail' = Succ(tail) /\ head' = head
    BY <1>4 DEF Draw, TryCas, Got
  <2>2. t \in Drawing /\ Drawing' \subseteq Drawing \ {t}
    BY <1>4, DrawingMoves
  <2>3. /\ Cardinality(Drawing') \in Nat
        /\ Cardinality(Drawing') <= Cardinality(Drawing) - 1
    <3> DEFINE D == Drawing \ {t}
    <3>1. IsFiniteSet(D) /\ Cardinality(D) = Cardinality(Drawing) - 1
      BY <1>d, <2>2, FS_RemoveElement
    <3> HIDE DEF D
    <3>2. \A E \in SUBSET D : Cardinality(E) \in Nat /\ Cardinality(E) <= Cardinality(D)
      BY <3>1, FS_Subset, FS_CardinalityType
    <3> QED BY <2>2, <3>1, <3>2 DEF D
  <2>4. tail' = tail + 1
    BY <1>1, <1>2, <1>3, <1>d, <1>w, <2>1, <2>3 DEF After
  <2>5. head <= tail + 1
    <3>1. CASE line = <<>>
      BY <1>2, <1>3, <1>w, <2>1, <2>4, <3>1 DEF After
    <3>2. CASE line # <<>>
      BY <1>1, <1>2, <3>2
    <3> QED BY <3>1, <3>2
  <2>6. tail + 1 + Cardinality(Drawing') < Width
    BY <1>1, <1>2, <1>d, <1>w, <2>3
  <2> QED BY <2>1, <2>4, <2>5, <2>6
<1>5. CASE UnlockTicket(t)
  <2>1. head' = After(head, 1) /\ tail' = tail
    BY <1>5, HeadMoves DEF UnlockTicket
  <2>2. Leaves(t)
    BY <1>5, LineMoves DEF Leaving
  <2>3. line # <<>> /\ Len(line') = Len(line) - 1
    BY <2>2, Left
  <2>4. ~Call(t)
    BY <1>5 DEF UnlockTicket, Call
  <2>5. Cardinality(Drawing') \in Nat /\ Cardinality(Drawing') <= Cardinality(Drawing)
    BY <1>d, <2>4, DrawingMoves
  <2>6. ASSUME line' # <<>> PROVE After(head, 1) <= tail
    <3>1. Len(line) > 1
      <4>1. Len(line') # 0
        BY <2>2, <2>6, Left
      <4> QED BY <1>2, <2>3, <4>1
    <3>2. head # tail
      BY <1>2, <1>3, <1>w, <3>1 DEF After
    <3>3. head <= tail
      BY <1>1, <2>3
    <3>4. head + 1 <= tail /\ head + 1 < Width
      BY <1>2, <1>w, <3>2, <3>3
    <3> QED BY <3>4 DEF After
  <2>7. tail + Cardinality(Drawing') < Width
    BY <1>1, <1>2, <1>d, <1>w, <2>5
  <2> QED BY <2>1, <2>6, <2>7
<1>6. CASE ~Draw(t) /\ ~(TryCas(t) /\ Got(t)) /\ ~UnlockTicket(t)
  <2>1. ~Leaving(t) /\ ~Joining(t)
    BY <1>0, <1>6 DEF Leaving, Joining, UnlockTas, UnlockClh, Swap, TrySwap, Enqueue, LabelsFit,
                      TasLabels, ClhLabels
  <2>2. line' = line
    BY <2>1, LineMoves DEF Stays
  <2>3. head' = head /\ tail' = tail
    BY <1>6 DEF Moves, Step, Call, Abort, Test, Swap, TrySwap, TryTest, Begin, TryBegin, Commit,
                Look, Spin, FutexWait, Interrupted, TryTail, TryHead, TryCas, Got, Enqueue, Await,
                UnlockTas, WakeAll, UnlockClh
  <2>4. tail + Cardinality(Drawing') < Width
    <3>1. CASE ~Call(t)
      <4>1. Cardinality(Drawing') \in Nat /\ Cardinality(Drawing') <= Cardinality(Drawing)
        BY <1>d, <3>1, DrawingMoves
      <4> QED BY <1>1, <1>2, <1>d, <1>w, <4>1
    <3>2. CASE Call(t)
      <4> DEFINE Busy == {u \in Threads : pc[u] # "idle"}
                 D == Drawing \cup {t}
      <4>1. tail + Cardinality(Busy) < Width - 1
        BY <1>s, <3>2 DEF Call, NotSpent
      <4>2. IsFiniteSet(Busy) /\ Cardinality(Busy) \in Nat
        BY Numbers, FS_Subset, FS_CardinalityType
      <4>3. Drawing \subseteq Busy
        BY DEF Drawing
      <4> HIDE DEF Busy
      <4>4. Cardinality(Drawing) <= Cardinality(Busy)
        BY <4>2, <4>3, FS_Subset
      <4>5. IsFiniteSet(D) /\ Cardinality(D) <= Cardinality(Drawing) + 1 /\ Cardinality(D) \in Nat
        <5>1. /\ IsFiniteSet(D)
              /\ Cardinality(D) = IF t \in Drawing THEN Cardinality(Drawing) ELSE Cardinality(Drawing) + 1
          BY <1>d, FS_AddElement
        <5> QED BY <1>d, <5>1
      <4>6. Drawing' \subseteq D
        BY <3>2, DrawingMoves
      <4> HIDE DEF D
      <4>7. Cardinality(Drawing') <= Cardinality(D) /\ Cardinality(Drawing') \in Nat
        BY <4>5, <4>6, FS_Subset, FS_CardinalityType
      <4> QED BY <1>2, <1>d, <1>w, <4>1, <4>2, <4>4, <4>5, <4>7
    <3> QED BY <3>1, <3>2
  <2> QED BY <1>1, <2>2, <2>3, <2>4
<1> QED
  BY <1>4, <1>5, <1>6

----------------------------------------------------------------------------
(* CLH.                                                                    *)

(* ClhFit as the three facts that the steps preserve.                      *)
Unused == last = Null => line = <<>> /\ \A t \in Threads : local[t] = Null /\ pred[t] = Null
Owned ==
  /\ last # Null => Spare # Null /\ \A t \in Threads : local[t] # Spare
  /\ \A t \in Threads :
       /\ pc[t] \in InLine => local[t] \in raised
       /\ pc[t] \in InLine <=> pred[t] # Null
  /\ \A t, u \in Threads : t # u /\ local[t] # Null => local[t] # local[u]
Linked ==
  \A i \in 1 .. Len(line) :
    /\ i = Len(line) => last = local[line[i]]
    /\ i > 1 => pred[line[i]] = local[line[i - 1]]

LEMMA ClhParts == Clh => (ClhFit <=> Unused /\ Owned /\ Linked)
  BY DEF ClhFit, Unused, Owned, Linked

LEMMA EnqueueStep ==
  ASSUME IInv, NEW t \in Threads, Enqueue(t), Moves(t), Clh
  PROVE  (Unused /\ Owned /\ Linked)'
<1>0. /\ Unused /\ Owned /\ Linked
      /\ local \in [Threads -> Nodes \cup {Null}] /\ pred \in [Threads -> Nodes \cup {Null}]
      /\ Null \notin Nodes /\ pc[t] \notin InLine
  BY ClhParts, Numbers DEF IInv, TypeOK, Enqueue, InLine, Queueing
<1>1. PICK n, p : /\ n = (IF local[t] = Null THEN Malloc(Null) ELSE local[t])
                  /\ p = (IF last = Null THEN Malloc(n) ELSE last)
                  /\ local' = [local EXCEPT ![t] = n]
                  /\ pred' = [pred EXCEPT ![t] = p]
                  /\ raised' = raised \cup {n} /\ last' = n
  BY DEF Enqueue
<1>2. Joins(t)
  BY LineMoves DEF Joining
<1>3. /\ line' # <<>> /\ Len(line') = Len(line) + 1
      /\ \A i \in 1 .. Len(line) : line'[i] = line[i] /\ line[i] # t
      /\ line'[Len(line) + 1] = t
      /\ Len(line) \in Nat /\ \A i \in 1 .. Len(line) : line[i] \in Threads
      /\ line = <<>> <=> Len(line) = 0
  BY <1>2, Joined, Numbered
<1>4. \A u \in Threads \ {t} : pc'[u] \in InLine <=> pc[u] \in InLine
  BY OthersInLine
<1>5. pc'[t] \in InLine
  BY <1>2 DEF Joins
<1>6. local[t] = Null => n \in Nodes /\ n \notin Used
  BY <1>1, <1>0, Mallocs
<1>7. n \in Nodes /\ n # Null
  BY <1>0, <1>1, <1>6
<1>8. last = Null => p \in Nodes /\ p # n
  BY <1>1, Mallocs
<1>9. \A u \in Threads \ {t} : local[u] # n
  <2>1. \A u \in Threads : local[u] # Null => local[u] \in Used
    BY DEF Used
  <2> QED BY <1>0, <1>1, <1>6, <1>7, <2>1 DEF Owned
<1>10. ASSUME last # Null PROVE Spare # n /\ Spare # Null
  <2>1. Spare # Null /\ \A u \in Threads : local[u] # Spare
    BY <1>0, <1>10 DEF Owned
  <2>2. Spare \in Used
    <3>1. CASE line = <<>>
      BY <1>10, <3>1 DEF Spare, Used
    <3>2. CASE line # <<>>
      <4>1. line[1] \in Threads
        BY <1>3, <3>2
      <4> QED BY <2>1, <3>2, <4>1 DEF Spare, Used
    <3> QED BY <3>1, <3>2
  <2> QED BY <1>1, <1>6, <2>1, <2>2
<1>11. \E s : /\ s = Spare' /\ s # Null /\ s # n
              /\ \A u \in Threads \ {t} : local[u] # s
  <2>1. CASE last = Null
    <3>1. line = <<>> /\ \A u \in Threads : local[u] = Null
      BY <1>0, <2>1 DEF Unused
    <3>2. line'[1] = t
      BY <1>3, <3>1
    <3>3. Spare' = p
      BY <1>0, <1>1, <1>3, <3>2 DEF Spare
    <3> QED BY <1>0, <1>8, <2>1, <3>1, <3>3
  <2>2. CASE last # Null
    <3>1. Spare' = Spare
      <4>1. CASE line = <<>>
        <5>1. line'[1] = t
          BY <1>3, <4>1
        <5>2. Spare' = p
          BY <1>0, <1>1, <1>3, <5>1 DEF Spare
        <5> QED BY <1>1, <2>2, <4>1, <5>2 DEF Spare
      <4>2. CASE line # <<>>
        <5>1. line'[1] = line[1] /\ line[1] # t /\ line[1] \in Threads
          BY <1>3, <4>2
        <5>2. Spare' = pred[line[1]]
          BY <1>0, <1>1, <1>3, <5>1 DEF Spare
        <5> QED BY <4>2, <5>2 DEF Spare
      <4> QED BY <4>1, <4>2
    <3>2. \A u \in Threads : local[u] # Spare
      BY <1>0, <2>2 DEF Owned
    <3> QED BY <1>10, <2>2, <3>1, <3>2
  <2> QED BY <2>1, <2>2
<1>12. Unused'
  BY <1>1, <1>7 DEF Unused
<1>13. Owned'
  <2>1. local'[t] = n /\ \A u \in Threads \ {t} : local'[u] = local[u]
    BY <1>0, <1>1
  <2>2. pred'[t] = p /\ p # Null /\ \A u \in Threads \ {t} : pred'[u] = pred[u]
    BY <1>0, <1>1, <1>8
  <2>3. Spare' # Null /\ \A u \in Threads : local'[u] # Spare'
    BY <1>11, <2>1
  <2>4. \A u \in Threads : /\ pc'[u] \in InLine => local'[u] \in raised'
                           /\ pc'[u] \in InLine <=> pred'[u] # Null
    BY <1>0, <1>1, <1>4, <1>5, <2>1, <2>2 DEF Owned
  <2>5. \A v, u \in Threads : v # u /\ local'[v] # Null => local'[v] # local'[u]
    BY <1>0, <1>7, <1>9, <2>1 DEF Owned
  <2> QED BY <2>3, <2>4, <2>5 DEF Owned
<1>14. Linked'
  <2>1. ASSUME NEW i \in 1 .. Len(line')
        PROVE  /\ i = Len(line') => last' = local'[line'[i]]
               /\ i > 1 => pred'[line'[i]] = local'[line'[i - 1]]
    <3>1. CASE i = Len(line) + 1
      <4>1. line'[i] = t /\ last' = n /\ local'[t] = n /\ pred'[t] = p
        BY <1>0, <1>1, <1>3, <3>1
      <4>2. ASSUME i > 1 PROVE p = local'[line'[i - 1]]
        <5>1. i - 1 = Len(line) /\ Len(line) \in 1 .. Len(line) /\ line # <<>>
          BY <1>3, <3>1, <4>2
        <5>2. last = local[line[Len(line)]]
          BY <1>0, <5>1 DEF Linked
        <5>3. last # Null
          BY <1>0, <5>1 DEF Unused
        <5>4. line'[i - 1] = line[Len(line)] /\ line[Len(line)] \in Threads \ {t}
          BY <1>3, <5>1
        <5> QED BY <1>0, <1>1, <5>2, <5>3, <5>4
      <4> QED BY <4>1, <4>2
    <3>2. CASE i # Len(line) + 1
      <4>1. i \in 1 .. Len(line) /\ i # Len(line')
        BY <1>3, <3>2
      <4>2. line'[i] = line[i] /\ line[i] \in Threads \ {t}
        BY <1>3, <4>1
      <4>3. ASSUME i > 1 PROVE pred'[line'[i]] = local'[line'[i - 1]]
        <5>1. i - 1 \in 1 .. Len(line)
          BY <1>3, <4>1, <4>3
        <5>2. line'[i - 1] = line[i - 1] /\ line[i - 1] \in Threads \ {t}
          BY <1>3, <5>1
        <5>3. pred[line[i]] = local[line[i - 1]]
          BY <1>0, <4>1, <4>3 DEF Linked
        <5> QED BY <1>0, <1>1, <4>2, <5>2, <5>3
      <4> QED BY <4>1, <4>3
    <3> QED BY <3>1, <3>2
  <2> QED BY <2>1 DEF Linked
<1> QED
  BY <1>12, <1>13, <1>14

LEMMA UnlockClhStep ==
  ASSUME IInv, NEW t \in Threads, UnlockClh(t), Moves(t), Clh
  PROVE  (Unused /\ Owned /\ Linked)'
<1>0. /\ Unused /\ Owned /\ Linked
      /\ local \in [Threads -> Nodes \cup {Null}] /\ pred \in [Threads -> Nodes \cup {Null}]
      /\ raised \subseteq Nodes /\ Null \notin Nodes /\ pc[t] \in InLine
  BY ClhParts, Numbers DEF IInv, TypeOK, UnlockClh, InLine
<1>1. /\ local' = [local EXCEPT ![t] = pred[t]] /\ pred' = [pred EXCEPT ![t] = Null]
      /\ raised' = raised \ {local[t]} /\ last' = last
  BY DEF UnlockClh
<1>2. Leaves(t)
  BY LineMoves DEF Leaving
<1>3. /\ line # <<>> /\ line[1] = t /\ Len(line) \in Nat \ {0}
      /\ Len(line') = Len(line) - 1
      /\ \A i \in 1 .. Len(line') : line'[i] = line[i + 1] /\ line'[i] # t
      /\ line' \in Seq(Threads)
  BY <1>2, Left
<1>4. \A u \in Threads \ {t} : pc'[u] \in InLine <=> pc[u] \in InLine
  BY OthersInLine
<1>5. pc'[t] \notin InLine
  BY <1>2 DEF Leaves
<1>6. last # Null /\ local[t] # Null /\ local[t] \in raised
  BY <1>0, <1>3 DEF Unused, Owned
<1>7. pred[t] = Spare /\ Spare # Null /\ \A u \in Threads : local[u] # Spare
  BY <1>0, <1>3, <1>6 DEF Spare, Owned
<1>8. local'[t] = Spare /\ \A u \in Threads \ {t} : local'[u] = local[u]
  BY <1>0, <1>1, <1>7
<1>9. pred'[t] = Null /\ \A u \in Threads \ {t} : pred'[u] = pred[u]
  BY <1>0, <1>1
<1>10. \A i \in 1 .. Len(line') : line'[i] \in Threads \ {t}
  BY <1>3
<1>11. Spare' = local[t]
  <2>1. CASE Len(line) = 1
    <3>1. line' = <<>>
      BY <1>3, <2>1
    <3>2. last = local[t]
      BY <1>0, <1>3, <2>1 DEF Linked
    <3> QED BY <1>1, <3>1, <3>2 DEF Spare
  <2>2. CASE Len(line) # 1
    <3>1. /\ 2 \in 1 .. Len(line) /\ 1 \in 1 .. Len(line') /\ line' # <<>>
          /\ line'[1] = line[2] /\ line[2] \in Threads \ {t}
      BY <1>3, <1>10, <2>2
    <3>2. pred[line[2]] = local[line[1]]
      BY <1>0, <3>1 DEF Linked
    <3>3. Spare' = pred'[line'[1]]
      BY <3>1 DEF Spare
    <3> QED BY <1>3, <1>9, <3>1, <3>2, <3>3
  <2> QED BY <2>1, <2>2
<1>12. Unused'
  BY <1>1, <1>6 DEF Unused
<1>13. Owned'
  <2>1. Spare' # Null /\ \A u \in Threads : local'[u] # Spare'
    BY <1>0, <1>6, <1>7, <1>8, <1>11 DEF Owned
  <2>2. \A u \in Threads : /\ pc'[u] \in InLine => local'[u] \in raised'
                           /\ pc'[u] \in InLine <=> pred'[u] # Null
    BY <1>0, <1>1, <1>4, <1>5, <1>6, <1>8, <1>9 DEF Owned
  <2>3. \A v, u \in Threads : v # u /\ local'[v] # Null => local'[v] # local'[u]
    BY <1>0, <1>7, <1>8 DEF Owned
  <2> QED BY <2>1, <2>2, <2>3 DEF Owned
<1>14. Linked'
  <2>1. ASSUME NEW i \in 1 .. Len(line')
        PROVE  /\ i = Len(line') => last' = local'[line'[i]]
               /\ i > 1 => pred'[line'[i]] = local'[line'[i - 1]]
    <3>1. i + 1 \in 1 .. Len(line) /\ line'[i] = line[i + 1] /\ i + 1 > 1 /\ i + 1 - 1 = i
      BY <1>3
    <3>2. line[i + 1] \in Threads \ {t}
      BY <1>10, <3>1
    <3>3. i = Len(line') => last = local[line[i + 1]]
      BY <1>0, <1>3, <3>1 DEF Linked
    <3>4. pred[line[i + 1]] = local[line[i]]
      BY <1>0, <3>1 DEF Linked
    <3>5. ASSUME i > 1 PROVE line'[i - 1] = line[i] /\ line[i] \in Threads \ {t}
      <4>1. i - 1 \in 1 .. Len(line') /\ i - 1 + 1 = i
        BY <1>3, <3>5
      <4> QED BY <1>3, <1>10, <4>1
    <3> QED BY <1>1, <1>8, <1>9, <3>1, <3>2, <3>3, <3>4, <3>5
  <2> QED BY <2>1 DEF Linked
<1> QED
  BY <1>12, <1>13, <1>14

LEMMA ClhStep ==
  ASSUME IInv, NEW t \in Threads, Moves(t)
  PROVE  ClhFit'
<1>0. TypeOK /\ LabelsFit /\ ClhFit
  BY DEF IInv
<1>c. Clh' <=> Clh
  BY CopyStays
<1>1. CASE Enqueue(t) \/ UnlockClh(t)
  <2>1. Clh
    BY <1>0, <1>1 DEF Enqueue, UnlockClh, LabelsFit, ClhLabels
  <2>2. (Unused /\ Owned /\ Linked)'
    BY <1>1, <2>1, EnqueueStep, UnlockClhStep
  <2> QED BY <1>c, <2>1, <2>2 DEF ClhFit, Unused, Owned, Linked
<1>2. CASE ~Enqueue(t) /\ ~UnlockClh(t)
  <2>1. last' = last /\ raised' = raised /\ local' = local /\ pred' = pred
    BY <1>2 DEF Moves, Step, Call, Abort, Test, Swap, TryTest, TrySwap, Begin, TryBegin, Commit,
                Draw, Look, Spin, FutexWait, Interrupted, TryTail, TryHead, TryCas, Await,
                UnlockTas, UnlockTicket, WakeAll, clh
  <2>2. CASE Clh
    <3>1. Unused /\ Owned /\ Linked
      BY <1>0, <2>2, ClhParts
    <3>2. ~Joining(t) /\ ~Leaving(t)
      BY <1>0, <1>2, <2>2, Kinds DEF Joining, Leaving, Swap, TrySwap, Draw, TryCas, UnlockTas, UnlockTicket,
                              LabelsFit, TasLabels, TicketLabels
    <3>3. Stays(t)
      BY <3>2, LineMoves
    <3>4. line' = line /\ \A u \in Threads : pc'[u] \in InLine <=> pc[u] \in InLine
      BY <3>3, OthersInLine DEF Stays
    <3>5. (Unused /\ Owned /\ Linked)'
      BY <2>1, <3>1, <3>4 DEF Unused, Owned, Linked, Spare
    <3> QED BY <1>c, <2>2, <3>5 DEF ClhFit, Unused, Owned, Linked
  <2>3. CASE ~Clh
    BY <1>0, <1>c, <2>1, <2>3 DEF ClhFit
  <2> QED BY <2>2, <2>3
<1> QED
  BY <1>1, <1>2

----------------------------------------------------------------------------
(* The other steps, and the theorems.                                      *)

(* All are idle, so that nobody is in line.                                *)
LEMMA RenewStep ==
  ASSUME IInv, Renew
  PROVE  IInv'
<1>0. /\ Tickets /\ copy.guarded /\ \A t \in Threads : pc[t] = "idle"
      /\ head' = 1 /\ tail' = 0
      /\ UNCHANGED <<copy, tas, ticket, seen, clh, pc, line>>
  BY DEF Renew
<1>1. /\ copy' = copy /\ lock' = lock /\ tries' = tries /\ ticket' = ticket /\ seen' = seen
      /\ last' = last /\ raised' = raised /\ local' = local /\ pred' = pred /\ pc' = pc
      /\ line' = line
  BY <1>0 DEF tas, clh
<1>2. TypeOK /\ ~Tas /\ ~Clh /\ ~Packed
  BY <1>0, Kinds DEF IInv, TicketRight, Packed
<1>3. line = <<>> /\ Len(line) = 0
  <2>1. \A i \in 1 .. Len(line) : line[i] \in Threads /\ pc[line[i]] \in InLine
    BY Numbered DEF IInv, LineFit
  <2>2. \A i \in 1 .. Len(line) : FALSE
    BY <1>0, <2>1 DEF InLine, Queueing
  <2> QED BY <2>2, Numbered
<1>w. Width \in Nat \ {0, 1}
  BY Numbers
<1>4. TypeOK'
  BY <1>0, <1>1, <1>2, <1>w DEF TypeOK
<1>5. LabelsFit' /\ LineFit' /\ ClhFit'
  BY <1>1 DEF IInv, LabelsFit, LineFit, ClhFit, Spare, Tas, Tickets, Clh, Packed
<1>6. TasFit'
  BY <1>1, <1>2 DEF TasFit, Tas
<1>7. TicketsFit'
  <2>1. Succ(0) = 1
    <3>1. 0 \in 0 .. Width - 1
      BY <1>w
    <3>2. Succ(0) = After(0, 1)
      BY <3>1, Counting
    <3> QED BY <1>w, <3>2 DEF After
  <2>2. ASSUME NEW k, k = tail' PROVE MyTicket' = Succ(k)
    BY <1>1, <1>2, <2>2 DEF MyTicket, Packed, Tickets
  <2>3. MyTicket' = 1
    BY <1>0, <2>1, <2>2
  <2>4. ASSUME NEW h, h = head' PROVE After(h, 0) = 1
    BY <1>0, <1>w, <2>4 DEF After
  <2>5. MyTicket' = After(head, Len(line))'
    BY <1>1, <1>3, <2>3, <2>4
  <2> QED BY <1>0, <1>1, <1>3, <2>5 DEF TicketsFit
<1>8. GuardedFit'
  <2>1. Drawing' = {}
    BY <1>0, <1>1 DEF Drawing
  <2>2. Cardinality({}) = 0
    BY FS_EmptySet
  <2> QED BY <1>0, <1>1, <1>3, <1>w, <2>1, <2>2 DEF GuardedFit
<1> QED
  BY <1>4, <1>5, <1>6, <1>7, <1>8 DEF IInv

LEMMA InitHolds == Init => IInv
<1> SUFFICES ASSUME Init PROVE IInv
  OBVIOUS
<1>w. Width \in Nat \ {0, 1}
  BY Numbers
<1>0. /\ lock = 0 /\ tries = [t \in Threads |-> 0]
      /\ head = (IF Packed THEN 0 ELSE 1) /\ tail = 0
      /\ ticket = [t \in Threads |-> 0] /\ seen = [t \in Threads |-> 0]
      /\ last = Null /\ raised = {}
      /\ local = [t \in Threads |-> Null] /\ pred = [t \in Threads |-> Null]
      /\ pc = [t \in Threads |-> "idle"]
      /\ line = <<>> /\ Len(line) = 0
  BY DEF Init
<1>1. TypeOK
  <2>1. copy \in {Profile[v] : v \in Variants}
    BY DEF Init
  <2> QED BY <1>0, <1>w, <2>1 DEF TypeOK
<1>2. LabelsFit
  BY <1>0 DEF LabelsFit, TasLabels, TicketLabels, Queueing, ClhLabels
<1>3. LineFit
  BY <1>0 DEF LineFit, Distinct, InLine, Queueing
<1>4. TasFit /\ ClhFit
  BY <1>0 DEF TasFit, ClhFit, InTx, InLine, Queueing
<1>5. TicketsFit
  <2>1. MyTicket = After(head, 0)
    <3>1. tail \in 0 .. Width - 1 /\ Succ(tail) = After(tail, 1)
      BY <1>0, <1>w, Counting
    <3> QED BY <1>0, <1>w, <3>1 DEF MyTicket, After
  <2> QED BY <1>0, <2>1 DEF TicketsFit
<1>6. GuardedFit
  <2>1. Drawing = {}
    BY <1>0 DEF Drawing
  <2>2. Cardinality({}) = 0
    BY FS_EmptySet
  <2> QED BY <1>0, <1>w, <2>1, <2>2 DEF GuardedFit
<1> QED
  BY <1>1, <1>2, <1>3, <1>4, <1>5, <1>6 DEF IInv

LEMMA StepKeeps == IInv /\ [Next]_vars => IInv'
<1> SUFFICES ASSUME IInv, [Next]_vars PROVE IInv'
  OBVIOUS
<1>1. CASE Renew
  BY <1>1, RenewStep
<1>2. ASSUME NEW t \in Threads, Moves(t)
      PROVE  IInv'
  <2>1. LabelsFit'
    BY <1>2, LabelsStep DEF IInv
  <2> QED BY <1>2, <2>1, TypeStep, LineStep, TasStep, TicketsStep, GuardedStep, ClhStep DEF IInv
<1>3. CASE UNCHANGED vars
  BY <1>3 DEF vars, tas, clh, IInv, TypeOK, LabelsFit, LineFit, TasFit, TicketsFit, GuardedFit,
              ClhFit, Spare, Drawing, MyTicket, Succ, After, Distinct, InTx, Tas, Tickets, Clh, Packed
<1> QED
  BY <1>1, <1>2, <1>3 DEF Next, Moves

(* The invariant holds in every state, for any number of threads, any of   *)
(* the locks and any width of the counters above the number of threads.    *)
THEOREM Inductive == Spec => []IInv
  BY InitHolds, StepKeeps, PTL DEF Spec

(* Every variable keeps its type: head and tail stay below Width, and      *)
(* malloc never runs out of nodes, since those that leave CLH's queue take *)
(* over the node of the one before.                                        *)
THEOREM TypeCorrect == Spec => []TypeOK
<1>1. IInv => TypeOK
  BY DEF IInv
<1> QED
  BY <1>1, Inductive, PTL

(* Whichever lock it is: the thread that comes out of the loop of lock, or *)
(* of trylock with success, is the first of those that drew a ticket or    *)
(* swapped in a node and have not unlocked yet, and there is no other; and *)
(* no transaction lives beside a thread that has the lock itself.          *)
THEOREM FirstIsServed == Spec => []ServedInOrder
<1>1. IInv => ServedInOrder
  <2> SUFFICES ASSUME IInv PROVE ServedInOrder
    OBVIOUS
  <2>1. \A t \in Owner : line # <<>> /\ line[1] = t
    BY DEF IInv, LineFit, Owner
  <2>2. ASSUME Tas PROVE Len(line) <= 1 /\ (Owner # {} => \A t \in Threads : ~InTx(t))
    <3>1. /\ Len(line) <= 1 /\ (lock = 0 <=> line = <<>>)
          /\ \A t \in Threads : InTx(t) => lock = 0
      BY <2>2 DEF IInv, TasFit
    <3> QED BY <2>1, <3>1
  <2> QED BY <2>1, <2>2 DEF ServedInOrder
<1> QED
  BY <1>1, Inductive, PTL

(* CLH: however often the nodes have changed hands, no two threads have    *)
(* one node, and the node a thread spins on is that of the thread just     *)
(* before it in line, or of nobody.                                        *)
THEOREM NodesStayApart == Spec => []NodesApart
<1>1. IInv => NodesApart
  <2> SUFFICES ASSUME IInv, NEW t \in Threads, NEW u \in Threads
               PROVE  /\ t # u /\ local[t] # Null => local[t] # local[u]
                      /\ pc[t] = "await" /\ pred[t] = local[u] =>
                           \E i \in 1 .. Len(line) - 1 : line[i] = u /\ line[i + 1] = t
    BY DEF NodesApart
  <2>1. t # u /\ local[t] # Null => local[t] # local[u]
    BY DEF IInv, ClhFit
  <2>2. ASSUME pc[t] = "await", pred[t] = local[u]
        PROVE  \E i \in 1 .. Len(line) - 1 : line[i] = u /\ line[i + 1] = t
    <3>1. Clh
      BY <2>2 DEF IInv, LabelsFit, ClhLabels
    <3>2. Unused /\ Owned /\ Linked
      BY <3>1, ClhParts DEF IInv
    <3>3. PICK i \in 1 .. Len(line) : line[i] = t
      BY <2>2 DEF IInv, LineFit, InLine
    <3>4. Len(line) \in Nat /\ line # <<>> /\ \A j \in 1 .. Len(line) : line[j] \in Threads
      BY <3>3, Numbered
    <3>5. i # 1
      <4>1. last # Null
        BY <3>2, <3>4 DEF Unused
      <4>2. i = 1 => Spare = local[u]
        BY <2>2, <3>3, <3>4 DEF Spare
      <4> QED BY <3>2, <4>1, <4>2 DEF Owned
    <3>6. i - 1 \in 1 .. Len(line) - 1 /\ i - 1 \in 1 .. Len(line) /\ i - 1 + 1 = i
      BY <3>4, <3>5
    <3>7. pred[t] = local[line[i - 1]]
      BY <3>2, <3>3, <3>5, <3>4 DEF Linked
    <3>8. line[i - 1] = u
      <4>1. pc[line[i - 1]] \in InLine /\ line[i - 1] \in Threads
        BY <3>4, <3>6 DEF IInv, LineFit
      <4>2. local[line[i - 1]] # Null
        BY <3>2, <4>1, Numbers DEF Owned, IInv, TypeOK
      <4> QED BY <2>2, <3>2, <3>7, <4>1, <4>2 DEF Owned
    <3> QED BY <3>3, <3>6, <3>8
  <2> QED BY <2>1, <2>2
<1> QED
  BY <1>1, Inductive, PTL
=============================================================================
