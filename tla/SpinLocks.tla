----------------------------- MODULE SpinLocks -----------------------------
(***************************************************************************)
(* The locks of include/*_in.h that are one or two words: test-and-set,    *)
(* test-and-test-and-set, the ticket lock, its variant that sleeps on a    *)
(* futex while it is not next, the 16-bit ticket lock of the Linux kernel, *)
(* and the CLH queue lock.  A program is compiled with one of them in the  *)
(* place of its pthread mutexes.  Most of the headers are copies of a few, *)
(* and those of the test-and-set locks have four sections each, of which   *)
(* USE_HLE chooses one: the plain lock, and three that try to run the      *)
(* critical section as a hardware transaction and leave the lock free.     *)
(*                                                                         *)
(* Tickets are numbers modulo Width, which is 2^32 in the code and 2^16 in *)
(* the lock from Linux.                                                    *)
(***************************************************************************)
EXTENDS Integers, Sequences, FiniteSets

CONSTANTS
  Threads,       \* the threads that share the lock
  Variants,      \* the locks that are compiled in
  Width,         \* tickets wrap round at Width
  Nodes,         \* CLH: the nodes malloc can return
  Null           \* CLH: no node

----------------------------------------------------------------------------
(* Test-and-set.  enters: where a lock begins.  lost: where a thread goes  *)
(* that swaps in vain.  looks: trylock reads before it swaps.  tries: how  *)
(* many transactions are begun before the lock is taken.  hle: begin is a  *)
(* swap that the processor repeats, for real, when it gives up.            *)

TasLock ==
  [kind |-> "tas", enters |-> "swap", lost |-> "swap", looks |-> FALSE,
   tries |-> 0, hle |-> FALSE]
TasHle == [TasLock EXCEPT !.enters = "begin", !.lost = "begin", !.tries = 1, !.hle = TRUE]
TasRtm == [TasLock EXCEPT !.enters = "begin", !.tries = 1]
TasRtmOpt == [TasRtm EXCEPT !.tries = 3]

TtasLock == [TasLock EXCEPT !.enters = "test", !.lost = "test", !.looks = TRUE]
TtasHle == [TtasLock EXCEPT !.tries = 1, !.hle = TRUE]
TtasRtm == [TtasLock EXCEPT !.tries = 1]
TtasRtmOpt == [TtasLock EXCEPT !.tries = 3]

TasGlkLock == TasLock
TasGlkHle == TasHle
TasGlkRtm == TasRtm
TasGlkRtmOpt == TasRtmOpt

(* The copy in GLK swaps first and looks only when that was in vain.       *)
TtasGlkLock == [TtasLock EXCEPT !.enters = "swap"]
TtasGlkHle == TtasHle
TtasGlkRtm == TtasRtm
TtasGlkRtmOpt == TtasRtmOpt

(* These wait for the next swap in the kernel, reading from a device.      *)
TasMwaitLock == TasLock
TasMwaitHle == TasHle
TasMwaitRtm == TasRtm
TasMwaitRtmOpt == TasRtmOpt
TtasMwaitLock == TasLock
TtasMwaitHle == TasHle
TtasMwaitRtm == TasRtm
TtasMwaitRtmOpt == TasRtmOpt

(* Tickets.  packed: head and tail are halves of one word.  sleeps: there  *)
(* is a futex.  guarded: unlock advances head only if tail is not behind   *)
(* it.                                                                     *)
TicketLock == [kind |-> "ticket", packed |-> FALSE, sleeps |-> FALSE, guarded |-> FALSE]
TicketGlkLock == TicketLock
TicketDvfsLock == TicketLock
TicketFuLock == [TicketLock EXCEPT !.sleeps = TRUE]
TicketLinuxLock == [TicketLock EXCEPT !.packed = TRUE]
LockProfLock == [TicketLock EXCEPT !.guarded = TRUE]
LadapTickLock == LockProfLock

ClhLock == [kind |-> "clh"]
ClhGlkLock == ClhLock

Profile ==
  [TAS |-> TasLock, TAS_HLE |-> TasHle, TAS_RTM |-> TasRtm, TAS_RTM_OPT |-> TasRtmOpt,
   TAS_GLK |-> TasGlkLock, TAS_GLK_HLE |-> TasGlkHle, TAS_GLK_RTM |-> TasGlkRtm,
   TAS_GLK_RTM_OPT |-> TasGlkRtmOpt,
   TAS_MWAIT |-> TasMwaitLock, TAS_MWAIT_HLE |-> TasMwaitHle,
   TAS_MWAIT_RTM |-> TasMwaitRtm, TAS_MWAIT_RTM_OPT |-> TasMwaitRtmOpt,
   TTAS |-> TtasLock, TTAS_HLE |-> TtasHle, TTAS_RTM |-> TtasRtm, TTAS_RTM_OPT |-> TtasRtmOpt,
   TTAS_GLK |-> TtasGlkLock, TTAS_GLK_HLE |-> TtasGlkHle, TTAS_GLK_RTM |-> TtasGlkRtm,
   TTAS_GLK_RTM_OPT |-> TtasGlkRtmOpt,
   TTAS_MWAIT |-> TtasMwaitLock, TTAS_MWAIT_HLE |-> TtasMwaitHle,
   TTAS_MWAIT_RTM |-> TtasMwaitRtm, TTAS_MWAIT_RTM_OPT |-> TtasMwaitRtmOpt,
   TICKET |-> TicketLock, TICKET_GLK |-> TicketGlkLock, TICKET_DVFS |-> TicketDvfsLock,
   TICKET_FU |-> TicketFuLock, LINUX |-> TicketLinuxLock, LOCK_PROF |-> LockProfLock,
   LADAP_TICK |-> LadapTickLock, CLH |-> ClhLock, CLH_GLK |-> ClhGlkLock]

(* There are tickets for all threads at once, and malloc does not fail: a  *)
(* thread takes one node, and the first of all a second.                   *)
ASSUME SpinAssumption ==
  /\ Variants \subseteq DOMAIN Profile
  /\ IsFiniteSet(Threads) /\ IsFiniteSet(Nodes) /\ Null \notin Nodes
  /\ Width \in Nat \ {0, 1} /\ Width > Cardinality(Threads)
  /\ Cardinality(Nodes) > Cardinality(Threads)

----------------------------------------------------------------------------
VARIABLES
  copy,          \* the profile of the lock in use, fixed at compile time
  lock,          \* test-and-set: lock->lock
  tries,         \* transactional locks: attempts that the thread has left
  head, tail,    \* ticket locks: lock->head, lock->tail
  ticket,        \* my_ticket in lock(), `to' in trylock()
  seen,          \* the head that the thread has read
  last,          \* CLH: lock->head, the node of the last in the queue
  raised,        \* CLH: the nodes with locked = 1
  local, pred,   \* CLH: lock->local and the pred field of that node
  pc,            \* where each thread is
  line           \* history: the threads in the order they drew their places

tas == <<lock, tries>>
clh == <<last, raised, local, pred>>
vars == <<copy, tas, head, tail, ticket, seen, clh, pc, line>>

Tas == copy.kind = "tas"
Tickets == copy.kind = "ticket"
Clh == copy.kind = "clh"
Packed == Tickets /\ copy.packed
Sleeps == Tickets /\ copy.sleeps

Init ==
  /\ copy \in {Profile[v] : v \in Variants}
  /\ lock = 0 /\ tries = [t \in Threads |-> 0]
  /\ head = (IF Packed THEN 0 ELSE 1) /\ tail = 0
  /\ ticket = [t \in Threads |-> 0] /\ seen = [t \in Threads |-> 0]
  /\ last = Null /\ raised = {}
  /\ local = [t \in Threads |-> Null] /\ pred = [t \in Threads |-> Null]
  /\ pc = [t \in Threads |-> "idle"]
  /\ line = <<>>

Goto(t, label) == pc' = [pc EXCEPT ![t] = label]

(* Broken: the counter is wider than the ticket.                           *)
SuccWide(n) == n + 1

Succ(n) == (n + 1) % Width

Minus(a, b) == (a - b) % Width

Join(t) == line' = Append(line, t)

(* The first in line leaves: ServedInOrder says that it is the owner.      *)
Leave == line' = Tail(line)

(* The registers of the thread are of no use any more.                     *)
Forget(t) ==
  /\ ticket' = [ticket EXCEPT ![t] = 0]
  /\ seen' = [seen EXCEPT ![t] = 0]

----------------------------------------------------------------------------
(* Bound: a guarded lock, which is not unlocked any more once tail is 0    *)
(* again and head is not, is used while it has tickets for all callers.    *)
NotSpent ==
  Tickets /\ copy.guarded =>
    tail + Cardinality({u \in Threads : pc[u] # "idle"}) < Width - 1

(* lock() or trylock() of any of the locks is called.  That of CLH,        *)
(* clh_lock_trylock, is the one that nobody calls here: it is not          *)
(* implemented and returns busy.                                           *)
Call(t) ==
  /\ pc[t] = "idle" /\ NotSpent
  /\ \/ Goto(t, CASE Tickets -> "draw" [] Clh -> "enqueue" [] Tas -> copy.enters)
     \/ Tickets /\ Goto(t, "try")
     \/ Tas /\ Goto(t, IF copy.looks THEN "try"
                      ELSE IF copy.tries > 0 THEN "try_begin" ELSE "try_swap")
  /\ tries' = [tries EXCEPT ![t] = IF Tas THEN copy.tries ELSE 0]
  /\ UNCHANGED <<copy, lock, head, tail, ticket, seen, clh, line>>

(* A guarded lock that nobody uses is initialised again.                   *)
Renew ==
  /\ Tickets /\ copy.guarded /\ head # 1
  /\ \A t \in Threads : pc[t] = "idle"
  /\ head' = 1 /\ tail' = 0
  /\ UNCHANGED <<copy, tas, ticket, seen, clh, pc, line>>

----------------------------------------------------------------------------
(* Test-and-set.                                                           *)

(* Spins until it reads that the lock is free.                             *)
Test(t) ==
  /\ pc[t] = "test" /\ lock = 0
  /\ Goto(t, IF tries[t] > 0 THEN "begin" ELSE "swap")
  /\ UNCHANGED <<copy, tas, head, tail, ticket, seen, clh, line>>

InTx(u) == pc[u] \in {"tx", "try_tx"}

(* Where thread u is after its attempt at a transaction has failed.        *)
AfterAbort(u) ==
  CASE pc[u] \in {"try_begin", "try_tx"} -> IF tries[u] > 1 THEN "try_begin" ELSE "try_swap"
    [] pc[u] \in {"begin", "tx"} -> IF tries[u] > 1 THEN "begin"
                                   ELSE IF copy.hle THEN "swap" ELSE copy.lost

(* Thread t writes the lock, which is in the read set of every transaction,*)
(* and so puts an end to them; t itself goes on at label with n attempts.  *)
WriteAndGo(t, label, n) ==
  /\ lock' = 1
  /\ pc' = [u \in Threads |-> IF u = t THEN label ELSE IF InTx(u) THEN AfterAbort(u) ELSE pc[u]]
  /\ tries' = [u \in Threads |-> IF u = t THEN n ELSE IF InTx(u) THEN tries[u] - 1 ELSE tries[u]]

Swap(t) ==
  /\ pc[t] = "swap"
  /\ IF lock = 0
     THEN WriteAndGo(t, "cs", 0) /\ Join(t)
     ELSE WriteAndGo(t, copy.lost, IF copy.hle THEN 1 ELSE 0) /\ UNCHANGED line
  /\ UNCHANGED <<copy, head, tail, ticket, seen, clh>>

TryTest(t) ==
  /\ Tas /\ pc[t] = "try"
  /\ Goto(t, IF lock = 1 THEN "idle" ELSE IF tries[t] > 0 THEN "try_begin" ELSE "try_swap")
  /\ UNCHANGED <<copy, tas, head, tail, ticket, seen, clh, line>>

TrySwap(t) ==
  /\ pc[t] = "try_swap"
  /\ IF lock = 0
     THEN WriteAndGo(t, "cs", 0) /\ Join(t)
     ELSE WriteAndGo(t, "idle", 0) /\ UNCHANGED line
  /\ UNCHANGED <<copy, head, tail, ticket, seen, clh>>

(* Broken: the transaction begins without a look at the lock.              *)
BeginBlind(t) ==
  /\ pc[t] = "begin"
  /\ Goto(t, "tx")
  /\ UNCHANGED <<copy, tas, head, tail, ticket, seen, clh, line>>

(* The lock is read in the transaction.  If it is taken, the thread aborts *)
(* and knows better than to try again; with HLE, the swap is repeated.     *)
Begin(t) ==
  /\ pc[t] = "begin"
  /\ IF lock = 0
     THEN Goto(t, "tx") /\ UNCHANGED tries
     ELSE Goto(t, IF copy.hle THEN "swap" ELSE copy.lost) /\ tries' = [tries EXCEPT ![t] = 0]
  /\ UNCHANGED <<copy, lock, head, tail, ticket, seen, clh, line>>

(* trylock ends the transaction and returns busy.                          *)
TryBegin(t) ==
  /\ pc[t] = "try_begin"
  /\ IF lock = 0
     THEN Goto(t, "try_tx") /\ UNCHANGED tries
     ELSE Goto(t, IF copy.hle THEN "try_swap" ELSE "idle") /\ tries' = [tries EXCEPT ![t] = 0]
  /\ UNCHANGED <<copy, lock, head, tail, ticket, seen, clh, line>>

(* The processor gives up, for its own reasons, or for a conflict over     *)
(* what the critical section reads and writes.                             *)
Abort(t) ==
  /\ pc[t] \in {"begin", "try_begin"} \/ InTx(t)
  /\ Goto(t, AfterAbort(t))
  /\ tries' = [tries EXCEPT ![t] = @ - 1]
  /\ UNCHANGED <<copy, lock, head, tail, ticket, seen, clh, line>>

(* The unlock of a transaction finds the lock free, and commits.           *)
Commit(t) ==
  /\ InTx(t) /\ lock = 0
  /\ Goto(t, "idle")
  /\ tries' = [tries EXCEPT ![t] = 0]
  /\ UNCHANGED <<copy, lock, head, tail, ticket, seen, clh, line>>

----------------------------------------------------------------------------
(* Tickets.                                                                *)

(* No other thread is stopped inside trylock for as long as it takes to    *)
(* hand out Width tickets: its compare-and-swap would take a tail that has *)
(* gone all the way round for the one it read.  The lock from Linux needs  *)
(* no such assumption, since it compares head as well.                     *)
NotLapped(t) ==
  ~Packed =>
    \A u \in Threads \ {t} :
      pc[u] \in {"try_head", "try_cas"} => Succ(tail) # ticket[u]

(* The ticket that somebody who comes now gets.                            *)
MyTicket == IF Packed THEN tail ELSE Succ(tail)

Draw(t) ==
  /\ pc[t] = "draw"
  /\ NotLapped(t)
  /\ ticket' = [ticket EXCEPT ![t] = MyTicket]
  /\ tail' = Succ(tail)
  /\ Join(t)
  /\ Goto(t, "look")
  /\ UNCHANGED <<copy, tas, head, seen, clh>>

(* distance = my_ticket - lock->head, an int.  TICKET-FU compares it with  *)
(* one and sleeps, at first; the others spin until it is zero.             *)
Look(t) ==
  /\ pc[t] = "look"
  /\ LET distance == Minus(ticket[t], head)
     IN  \/ distance = 0 /\ Goto(t, "cs") /\ Forget(t)
         \/ /\ Sleeps /\ distance = 1
            /\ Goto(t, "spin") /\ UNCHANGED <<ticket, seen>>
         \/ /\ Sleeps /\ distance \in 2 .. (Width \div 2) - 1
            /\ Goto(t, "wait")
            /\ seen' = [seen EXCEPT ![t] = head] /\ UNCHANGED ticket
  /\ UNCHANGED <<copy, tas, head, tail, clh, line>>

Spin(t) ==
  /\ pc[t] = "spin" /\ Minus(ticket[t], head) = 0
  /\ Goto(t, "cs") /\ Forget(t)
  /\ UNCHANGED <<copy, tas, head, tail, clh, line>>

(* FUTEX_WAIT on head, for the value that was read.                        *)
FutexWait(t) ==
  /\ pc[t] = "wait"
  /\ Goto(t, IF head = seen[t] THEN "asleep" ELSE "look")
  /\ UNCHANGED <<copy, tas, head, tail, ticket, seen, clh, line>>

(* FUTEX_WAIT returns because of a signal.                                 *)
Interrupted(t) ==
  /\ pc[t] = "asleep"
  /\ Goto(t, "look")
  /\ UNCHANGED <<copy, tas, head, tail, ticket, seen, clh, line>>

(* trylock reads tail and then head; the lock from Linux reads both in one *)
(* word, and tells its caller of success with 1, where the others use 0.   *)
TryTail(t) ==
  /\ Tickets /\ pc[t] = "try"
  /\ \/ /\ Packed /\ head # tail
        /\ Goto(t, "idle")
        /\ UNCHANGED <<ticket, seen>>
     \/ /\ Packed => head = tail
        /\ Goto(t, IF Packed THEN "try_cas" ELSE "try_head")
        /\ ticket' = [ticket EXCEPT ![t] = tail]
        /\ seen' = [seen EXCEPT ![t] = IF Packed THEN head ELSE 0]
  /\ UNCHANGED <<copy, tas, head, tail, clh, line>>

TryHead(t) ==
  /\ pc[t] = "try_head"
  /\ IF Minus(head, ticket[t]) = 1
     THEN Goto(t, "try_cas") /\ UNCHANGED <<ticket, seen>>
     ELSE Goto(t, "idle") /\ Forget(t)
  /\ UNCHANGED <<copy, tas, head, tail, clh, line>>

(* Broken: a store in the place of the compare-and-swap.                   *)
TryStore(t) ==
  /\ pc[t] = "try_cas"
  /\ tail' = Succ(ticket[t])
  /\ Join(t)
  /\ Goto(t, "cs")
  /\ Forget(t)
  /\ UNCHANGED <<copy, tas, head, clh>>

TryCas(t) ==
  /\ pc[t] = "try_cas"
  /\ LET got == tail = ticket[t] /\ (Packed => head = seen[t])
     IN  /\ got => NotLapped(t)
         /\ tail' = (IF got THEN Succ(tail) ELSE tail)
         /\ line' = (IF got THEN Append(line, t) ELSE line)
         /\ Goto(t, IF got THEN "cs" ELSE "idle")
  /\ Forget(t)
  /\ UNCHANGED <<copy, tas, head, clh>>

----------------------------------------------------------------------------
(* CLH.                                                                    *)

(* The nodes that somebody has a pointer to.                               *)
Used == ({last} \cup {local[t] : t \in Threads} \cup {pred[t] : t \in Threads}) \ {Null}

(* malloc, but for the node n that the caller has.                         *)
Malloc(n) == CHOOSE p \in Nodes : p \notin Used \cup {n}

(* clh_get_local: a thread that comes to the lock for the first time gets  *)
(* a node.  The node, locked, is swapped into the queue.  The first thread *)
(* of all finds none before it and makes a node to take away with it.      *)
Enqueue(t) ==
  /\ pc[t] = "enqueue"
  /\ LET n == IF local[t] = Null THEN Malloc(Null) ELSE local[t]
     IN  /\ local' = [local EXCEPT ![t] = n]
         /\ raised' = raised \cup {n}
         /\ last' = n
         /\ pred' = [pred EXCEPT ![t] = IF last = Null THEN Malloc(n) ELSE last]
  /\ Goto(t, IF last = Null THEN "cs" ELSE "await")
  /\ Join(t)
  /\ UNCHANGED <<copy, tas, head, tail, ticket, seen>>

Await(t) ==
  /\ pc[t] = "await" /\ pred[t] \notin raised
  /\ Goto(t, "cs")
  /\ UNCHANGED <<copy, tas, head, tail, ticket, seen, clh, line>>

----------------------------------------------------------------------------
(* unlock().                                                               *)

UnlockTas(t) ==
  /\ Tas /\ pc[t] = "cs"
  /\ lock' = 0
  /\ Leave
  /\ Goto(t, "idle")
  /\ UNCHANGED <<copy, tries, head, tail, ticket, seen, clh>>

(* Broken: the sleepers are left asleep.                                   *)
UnlockTicketOnly(t) ==
  /\ Tickets /\ pc[t] = "cs"
  /\ head' = Succ(head)
  /\ Leave
  /\ Goto(t, "idle")
  /\ UNCHANGED <<copy, tas, tail, ticket, seen, clh>>

(* head++, which only the owner does.  TICKET-FU then wakes everybody.     *)
UnlockTicket(t) ==
  /\ Tickets /\ pc[t] = "cs"
  /\ head' = (IF copy.guarded /\ tail < head THEN head ELSE Succ(head))
  /\ Leave
  /\ Goto(t, IF Sleeps THEN "wake" ELSE "idle")
  /\ UNCHANGED <<copy, tas, tail, ticket, seen, clh>>

Asleep == {u \in Threads : pc[u] = "asleep"}

WakeAll(t) ==
  /\ pc[t] = "wake"
  /\ pc' = [u \in Threads |-> IF u = t THEN "idle"
                              ELSE IF u \in Asleep THEN "look" ELSE pc[u]]
  /\ UNCHANGED <<copy, tas, head, tail, ticket, seen, clh, line>>

(* Broken: the thread keeps its own node.                                  *)
UnlockClhKeepsNode(t) ==
  /\ Clh /\ pc[t] = "cs"
  /\ raised' = raised \ {local[t]}
  /\ Leave
  /\ Goto(t, "idle")
  /\ UNCHANGED <<copy, tas, head, tail, ticket, seen, last, local, pred>>

(* The thread leaves its node to its successor and takes the one of its    *)
(* predecessor.                                                            *)
UnlockClh(t) ==
  /\ Clh /\ pc[t] = "cs"
  /\ raised' = raised \ {local[t]}
  /\ local' = [local EXCEPT ![t] = pred[t]]
  /\ pred' = [pred EXCEPT ![t] = Null]
  /\ Leave
  /\ Goto(t, "idle")
  /\ UNCHANGED <<copy, tas, head, tail, ticket, seen, last>>

----------------------------------------------------------------------------
Step(t) ==
  \/ Test(t) \/ Swap(t) \/ TryTest(t) \/ TrySwap(t)
  \/ Begin(t) \/ TryBegin(t) \/ Commit(t)
  \/ Draw(t) \/ Look(t) \/ Spin(t) \/ FutexWait(t)
  \/ TryTail(t) \/ TryHead(t) \/ TryCas(t)
  \/ Enqueue(t) \/ Await(t)
  \/ UnlockTas(t) \/ UnlockTicket(t) \/ WakeAll(t) \/ UnlockClh(t)

Next == Renew \/ \E t \in Threads : Call(t) \/ Step(t) \/ Abort(t) \/ Interrupted(t)

Spec == Init /\ [][Next]_vars

(* A thread in a call runs, and so does one in the critical section.  To   *)
(* draw a ticket is one instruction, which the assumption NotLapped may    *)
(* disable for a while but not put off for ever.                           *)
FairSpec ==
  Spec /\ \A t \in Threads : WF_vars(Step(t)) /\ SF_vars(Draw(t))

----------------------------------------------------------------------------
(* Properties.                                                             *)

TypeOK ==
  /\ copy \in {Profile[v] : v \in Variants}
  /\ lock \in {0, 1} /\ tries \in [Threads -> 0 .. 3]
  /\ head \in 0 .. Width - 1 /\ tail \in 0 .. Width - 1
  /\ ticket \in [Threads -> 0 .. Width - 1] /\ seen \in [Threads -> 0 .. Width - 1]
  /\ last \in Nodes \cup {Null} /\ raised \subseteq Nodes
  /\ local \in [Threads -> Nodes \cup {Null}] /\ pred \in [Threads -> Nodes \cup {Null}]
  /\ pc \in [Threads -> {"idle", "test", "swap", "try", "try_swap", "begin", "tx",
                         "try_begin", "try_tx", "draw", "look", "spin", "wait", "asleep", "try_head", "try_cas", "enqueue",
                         "await", "cs", "wake"}]

Owner == {t \in Threads : pc[t] = "cs"}

(* There is one owner at a time.  Of the ticket locks and of CLH, it is    *)
(* the first of those that have drawn a ticket or swapped in a node; of    *)
(* the others nobody is in line but the owner, and no transaction lives    *)
(* while somebody has the lock itself.  The order in line is that of the   *)
(* swaps, which no variable of the lock records: the counters have wrapped *)
(* round, and the nodes have changed hands.                                *)
ServedInOrder ==
  /\ \A t \in Owner : line # <<>> /\ line[1] = t
  /\ Tas => Len(line) <= 1 /\ (Owner # {} => \A t \in Threads : ~InTx(t))

(* CLH: nodes change hands at every unlock, and still every thread has one *)
(* of its own, which nobody else will lock, and the node a thread spins on *)
(* belongs to the one before it in line, or to nobody.                     *)
NodesApart ==
  \A t, u \in Threads :
    /\ t # u /\ local[t] # Null => local[t] # local[u]
    /\ pc[t] = "await" /\ pred[t] = local[u] =>
         \E i \in 1 .. Len(line) - 1 : line[i] = u /\ line[i + 1] = t

Waiting(t) ==
  pc[t] \in {"test", "swap", "begin", "draw", "look", "spin", "wait", "asleep", "enqueue", "await"}

(* With a queue everybody that calls lock() gets it; with test-and-set,    *)
(* somebody does, or runs as a transaction.                                *)
EveryCallReturns ==
  /\ \A t \in Threads : (~Tas /\ Waiting(t)) ~> pc[t] = "cs"
  /\ (\E t \in Threads : Waiting(t)) ~> \E t \in Threads : InTx(t) \/ t \in Owner
============================================================================
