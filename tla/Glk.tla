-------------------------------- MODULE Glk --------------------------------
(***************************************************************************)
(* GLK, the adaptive lock of src/glk.c: one lock made of a ticket lock, an *)
(* MCS lock and a futex mutex, and a field lock_type that says which of    *)
(* the three is in force.  A thread reads lock_type, acquires that         *)
(* sublock, may change lock_type while it holds it, and is in the critical *)
(* section only if lock_type is still what it read; otherwise it releases  *)
(* the sublock and starts over.  glk_unlock reads lock_type again and      *)
(* releases the sublock it names then.                                     *)
(*                                                                         *)
(* The sublocks are at the level of what each of them guarantees: the      *)
(* ticket lock and the MCS lock serve threads in the order in which they   *)
(* changed its tail (modules SpinLocks and Mcs have the counters and the   *)
(* nodes), and the mutex has one holder (module FutexMutex has the word    *)
(* and the futex).  Of a ticket, only the low bits that the adaptation     *)
(* looks at are kept besides the order.                                    *)
(***************************************************************************)
EXTENDS Integers, Sequences, FiniteSets, Functions

CONSTANTS
  Threads,      \* the threads that share the lock
  NoThread,     \* no holder of the mutex
  AdaptEvery,   \* GLK_ADAPT_LOCK_EVERY + 1: acquisitions between adaptations
  SampleEvery,  \* GLK_SAMPLE_LOCK_EVERY + 1: acquisitions between samples
  RatioHigh,    \* GLK_CONTENTION_RATIO_HIGH
  RatioLow,     \* GLK_CONTENTION_RATIO_LOW
  MeasureDiv    \* 2 ^ GLK_MEASURE_SHIFT: how much a measure decays

(* The last two conjuncts are what keeps a late waiter of a sublock that   *)
(* is no longer in force from being one that adapts.  They hold up to 2048 *)
(* threads for the period of 4096 the code ships with, and are as weak as  *)
(* possible: three threads with a period of four break the lock.           *)
ASSUME GlkAssumption ==
  /\ IsFiniteSet(Threads) /\ NoThread \notin Threads
  /\ {AdaptEvery, SampleEvery, MeasureDiv} \subseteq Nat \ {0}
  /\ {RatioHigh, RatioLow} \subseteq Nat
  /\ AdaptEvery % SampleEvery = 0
  /\ 2 * Cardinality(Threads) <= AdaptEvery + 1
  /\ Cardinality(Threads) + (AdaptEvery \div MeasureDiv) <= AdaptEvery

VARIABLES
  lock_type,        \* the sublock in force
  multiprogramming, \* the flag the background thread sets and clears
  ticket_queue,     \* the ticket lock: the threads from head to tail
  tail,             \* its last ticket taken, modulo AdaptEvery
  mcs_queue,        \* the MCS lock: the threads in the order of their swaps
  mutex,            \* the mutex: the thread that holds it
  num_acquired,     \* MCS acquisitions since the last adaptation
  queue_total,      \* sum of the sampled queue lengths
  pc, op,           \* where each thread is, in which call
  type,             \* its current_lock_type
  num,              \* its ticket or num_acq
  target            \* the type it has decided to switch to

queues == <<ticket_queue, tail, mcs_queue, mutex>>
glk == <<lock_type, queues, num_acquired, queue_total>>
local == <<pc, op, type, num, target>>
vars == <<glk, multiprogramming, local>>

Types == {"TICKET", "MCS", "MUTEX"}
SampleNum == AdaptEvery \div SampleEvery
(* Broken: the count restarts just below the next adaptation.              *)
NumAcqInitLate == AdaptEvery - 1
NumAcqInit == AdaptEvery \div MeasureDiv

MustTryAdapt(n) == n % AdaptEvery = 0
MustUpdateQueueLength(n) == n % SampleEvery = 0

(* glk_init: a free lock, of the type that suits the load.                 *)
Init ==
  /\ multiprogramming \in BOOLEAN
  /\ lock_type = IF multiprogramming THEN "MUTEX" ELSE "TICKET"
  /\ ticket_queue = <<>> /\ tail = 0
  /\ mcs_queue = <<>>
  /\ mutex = NoThread
  /\ num_acquired = 0 /\ queue_total = 0
  /\ pc = [t \in Threads |-> "idle"]
  /\ op = [t \in Threads |-> "none"]
  /\ type = [t \in Threads |-> "none"]
  /\ num = [t \in Threads |-> 0]
  /\ target = [t \in Threads |-> "none"]

Goto(t, label) == pc' = [pc EXCEPT ![t] = label]

(* A local variable that is out of scope is "none", or 0, so that states   *)
(* differ only in what the code can still read.                            *)
Back(t) ==
  /\ Goto(t, "idle")
  /\ op' = [op EXCEPT ![t] = "none"]
  /\ type' = [type EXCEPT ![t] = "none"]
At(t, label, ty) == pc[t] = label /\ type[t] = ty
LockAt(t, label, ty) == At(t, label, ty) /\ op[t] = "lock"
TryAt(t, label, ty) == At(t, label, ty) /\ op[t] = "try"

(* The background thread notices more, or fewer, runnable threads.         *)
MpCheck ==
  /\ multiprogramming' = ~multiprogramming
  /\ UNCHANGED <<glk, local>>

(* glk_lock or glk_trylock is called, and reads lock_type.                 *)
Call(t) ==
  /\ pc[t] = "idle"
  /\ \E o \in {"lock", "try"} : op' = [op EXCEPT ![t] = o]
  /\ type' = [type EXCEPT ![t] = lock_type]
  /\ Goto(t, "acquire")
  /\ UNCHANGED <<glk, multiprogramming, num, target>>

(* The loop goes round: lock_type is read again.                           *)
Reread(t) ==
  /\ pc[t] = "read"
  /\ type' = [type EXCEPT ![t] = lock_type]
  /\ Goto(t, "acquire")
  /\ UNCHANGED <<glk, multiprogramming, op, num, target>>

----------------------------------------------------------------------------
(* The ticket lock.                                                        *)

TakeTicket(t) ==
  /\ LockAt(t, "acquire", "TICKET")
  /\ ticket_queue' = Append(ticket_queue, t)
  /\ tail' = (tail + 1) % AdaptEvery
  /\ num' = [num EXCEPT ![t] = tail']
  /\ Goto(t, "ticket_head")
  /\ UNCHANGED <<lock_type, mcs_queue, mutex, num_acquired, queue_total,
                 multiprogramming, op, type, target>>

(* The first look at head: done if it is my turn, else the distance is     *)
(* sampled by one ticket in SampleEvery.                                   *)
LookAtHead(t) ==
  LET distance == (CHOOSE i \in DOMAIN ticket_queue : ticket_queue[i] = t) - 1 IN
  /\ pc[t] = "ticket_head"
  /\ Goto(t, IF distance = 0 THEN "adapt" ELSE "ticket_wait")
  /\ queue_total' = IF MustUpdateQueueLength(num[t])
                    THEN queue_total + distance ELSE queue_total
  /\ UNCHANGED <<lock_type, queues, num_acquired, multiprogramming,
                 op, type, num, target>>

TicketTurn(t) ==
  /\ pc[t] = "ticket_wait"
  /\ Head(ticket_queue) = t
  /\ Goto(t, "adapt")
  /\ UNCHANGED <<glk, multiprogramming, op, type, num, target>>

(* Broken: the result of the compare-and-swap is returned the wrong way    *)
(* round.                                                                  *)
TicketTryInverted(t) ==
  /\ TryAt(t, "acquire", "TICKET")
  /\ IF ticket_queue = <<>>
     THEN /\ ticket_queue' = <<t>> /\ tail' = (tail + 1) % AdaptEvery
          /\ Back(t)
     ELSE Goto(t, "check") /\ UNCHANGED <<op, type, ticket_queue, tail>>
  /\ UNCHANGED <<lock_type, mcs_queue, mutex, num_acquired, queue_total,
                 multiprogramming, num, target>>

(* glk_ticket_lock_trylock: its compare-and-swap on tail succeeds exactly  *)
(* when the lock is free at that moment.                                   *)
TicketTry(t) ==
  /\ TryAt(t, "acquire", "TICKET")
  /\ IF ticket_queue = <<>>
     THEN /\ ticket_queue' = <<t>> /\ tail' = (tail + 1) % AdaptEvery
          /\ Goto(t, "check")
          /\ UNCHANGED <<op, type>>
     ELSE Back(t) /\ UNCHANGED <<ticket_queue, tail>>
  /\ UNCHANGED <<lock_type, mcs_queue, mutex, num_acquired, queue_total,
                 multiprogramming, num, target>>

(* glk_ticket_adap, by the holder of the ticket lock.                      *)
TicketAdapt(t) ==
  /\ At(t, "adapt", "TICKET")
  /\ \/ /\ ~MustTryAdapt(num[t])
        /\ Goto(t, "check")
        /\ UNCHANGED <<queue_total, num_acquired, target>>
     \/ /\ MustTryAdapt(num[t]) /\ multiprogramming
        /\ target' = [target EXCEPT ![t] = "MUTEX"]
        /\ Goto(t, "write")
        /\ UNCHANGED <<queue_total, num_acquired>>
     \/ /\ MustTryAdapt(num[t]) /\ ~multiprogramming
        /\ num_acquired' = NumAcqInit
        /\ \/ /\ queue_total >= RatioHigh * SampleNum
              /\ queue_total' = queue_total \div MeasureDiv
              /\ target' = [target EXCEPT ![t] = "MCS"]
              /\ Goto(t, "write")
           \/ /\ queue_total < RatioHigh * SampleNum
              /\ queue_total' = 0
              /\ Goto(t, "check")
              /\ UNCHANGED target
  /\ num' = [num EXCEPT ![t] = 0]
  /\ UNCHANGED <<lock_type, queues, multiprogramming, op, type>>

----------------------------------------------------------------------------
(* The MCS lock.                                                           *)

McsSwap(t) ==
  /\ LockAt(t, "acquire", "MCS")
  /\ mcs_queue' = Append(mcs_queue, t)
  /\ Goto(t, "mcs_count")
  /\ UNCHANGED <<lock_type, ticket_queue, tail, mutex, num_acquired, queue_total,
                 multiprogramming, op, type, num, target>>

(* The acquisition is counted after the swap, so not in queue order.       *)
McsCount(t) ==
  /\ pc[t] = "mcs_count"
  /\ num_acquired' = num_acquired + 1
  /\ num' = [num EXCEPT ![t] = num_acquired']
  /\ Goto(t, "mcs_wait")
  /\ UNCHANGED <<lock_type, queues, queue_total, multiprogramming, op, type, target>>

McsTurn(t) ==
  /\ pc[t] = "mcs_wait"
  /\ Head(mcs_queue) = t
  /\ Goto(t, "adapt")
  /\ UNCHANGED <<glk, multiprogramming, op, type, num, target>>

McsTry(t) ==
  /\ TryAt(t, "acquire", "MCS")
  /\ IF mcs_queue = <<>>
     THEN mcs_queue' = <<t>> /\ Goto(t, "check") /\ UNCHANGED <<op, type>>
     ELSE Back(t) /\ UNCHANGED mcs_queue
  /\ UNCHANGED <<lock_type, ticket_queue, tail, mutex, num_acquired, queue_total,
                 multiprogramming, num, target>>

(* glk_mcs_adap: the length that is added is that of the part of the queue *)
(* whose nodes are linked by now.                                          *)
McsAdapt(t) ==
  /\ At(t, "adapt", "MCS")
  /\ \/ /\ ~MustUpdateQueueLength(num[t])
        /\ Goto(t, "check")
        /\ UNCHANGED <<queue_total, num_acquired, target>>
     \/ /\ MustUpdateQueueLength(num[t])
        /\ \E len \in 1 .. Len(mcs_queue) :
           LET total == queue_total + len IN
           \/ /\ ~MustTryAdapt(num[t])
              /\ queue_total' = total
              /\ Goto(t, "check")
              /\ UNCHANGED <<num_acquired, target>>
           \/ /\ MustTryAdapt(num[t]) /\ multiprogramming
              /\ queue_total' = total
              /\ target' = [target EXCEPT ![t] = "MUTEX"]
              /\ Goto(t, "write")
              /\ UNCHANGED num_acquired
           \/ /\ MustTryAdapt(num[t]) /\ ~multiprogramming
              /\ num_acquired' = NumAcqInit
              /\ \/ /\ total < RatioLow * SampleNum
                    /\ queue_total' = 0
                    /\ target' = [target EXCEPT ![t] = "TICKET"]
                    /\ Goto(t, "write")
                 \/ /\ total >= RatioLow * SampleNum
                    /\ queue_total' = total \div MeasureDiv
                    /\ Goto(t, "check")
                    /\ UNCHANGED target
  /\ num' = [num EXCEPT ![t] = 0]
  /\ UNCHANGED <<lock_type, queues, multiprogramming, op, type>>

----------------------------------------------------------------------------
(* The mutex.                                                              *)

MutexLock(t) ==
  /\ LockAt(t, "acquire", "MUTEX")
  /\ mutex = NoThread
  /\ mutex' = t
  /\ Goto(t, "adapt")
  /\ UNCHANGED <<lock_type, ticket_queue, tail, mcs_queue, num_acquired,
                 queue_total, multiprogramming, op, type, num, target>>

MutexTry(t) ==
  /\ TryAt(t, "acquire", "MUTEX")
  /\ IF mutex = NoThread
     THEN mutex' = t /\ Goto(t, "check") /\ UNCHANGED <<op, type>>
     ELSE Back(t) /\ UNCHANGED mutex
  /\ UNCHANGED <<lock_type, ticket_queue, tail, mcs_queue, num_acquired,
                 queue_total, multiprogramming, num, target>>

(* Broken: switches without looking at lock_type again.                    *)
MutexAdaptBlind(t) ==
  /\ At(t, "adapt", "MUTEX")
  /\ IF ~multiprogramming
     THEN /\ queue_total' = 0 /\ num_acquired' = 0
          /\ target' = [target EXCEPT ![t] = "TICKET"]
          /\ Goto(t, "write")
     ELSE /\ Goto(t, "check")
          /\ UNCHANGED <<queue_total, num_acquired, target>>
  /\ UNCHANGED <<lock_type, queues, multiprogramming, op, type, num>>

(* Broken: switches without having chosen what to switch to.               *)
MutexAdaptNoTarget(t) ==
  /\ At(t, "adapt", "MUTEX")
  /\ queue_total' = 0 /\ num_acquired' = 0
  /\ Goto(t, IF ~multiprogramming /\ lock_type = "MUTEX" THEN "write" ELSE "check")
  /\ UNCHANGED <<lock_type, queues, multiprogramming, op, type, num, target>>

(* glk_mutex_adap, the only one of the three to look at lock_type before   *)
(* it switches.                                                            *)
MutexAdapt(t) ==
  /\ At(t, "adapt", "MUTEX")
  /\ IF ~multiprogramming /\ lock_type = "MUTEX"
     THEN /\ queue_total' = 0 /\ num_acquired' = 0
          /\ target' = [target EXCEPT ![t] = "TICKET"]
          /\ Goto(t, "write")
     ELSE /\ Goto(t, "check")
          /\ UNCHANGED <<queue_total, num_acquired, target>>
  /\ UNCHANGED <<lock_type, queues, multiprogramming, op, type, num>>

----------------------------------------------------------------------------
(* The end of an adaptation: the one store to lock_type.                   *)
WriteType(t) ==
  /\ pc[t] = "write"
  /\ lock_type' = target[t]
  /\ Goto(t, "check")
  /\ target' = [target EXCEPT ![t] = "none"]
  /\ UNCHANGED <<queues, num_acquired, queue_total, multiprogramming, op, type, num>>

(* Broken: lock_type is not validated after the sublock is acquired.       *)
CheckNothing(t) ==
  /\ pc[t] = "check"
  /\ Goto(t, "cs") /\ op' = [op EXCEPT ![t] = "none"]
  /\ UNCHANGED <<glk, multiprogramming, type, num, target>>

(* The validation that ends glk_lock and glk_trylock.                      *)
Check(t) ==
  /\ pc[t] = "check"
  /\ IF lock_type = type[t]
     THEN Goto(t, "cs") /\ op' = [op EXCEPT ![t] = "none"]
     ELSE Goto(t, "retry") /\ UNCHANGED op
  /\ UNCHANGED <<glk, multiprogramming, type, num, target>>

(* unlock_lock: the sublock of one type is released.                       *)
UnlockLock(t) ==
  /\ \/ /\ type[t] = "TICKET" /\ ticket_queue # <<>>
        /\ ticket_queue' = Tail(ticket_queue)
        /\ UNCHANGED <<mcs_queue, mutex>>
     \/ /\ type[t] = "MCS" /\ mcs_queue # <<>> /\ Head(mcs_queue) = t
        /\ mcs_queue' = Tail(mcs_queue)
        /\ UNCHANGED <<ticket_queue, mutex>>
     \/ /\ type[t] = "MUTEX"
        /\ mutex' = NoThread
        /\ UNCHANGED <<ticket_queue, mcs_queue>>
  /\ UNCHANGED tail

(* Broken: the loop goes round with the old sublock still locked.          *)
RetryKeepsSublock(t) ==
  /\ pc[t] = "retry"
  /\ Goto(t, "read")
  /\ type' = [type EXCEPT ![t] = "none"]
  /\ UNCHANGED <<glk, multiprogramming, op, num, target>>

Retry(t) ==
  /\ pc[t] = "retry"
  /\ UnlockLock(t)
  /\ Goto(t, "read")
  /\ type' = [type EXCEPT ![t] = "none"]
  /\ UNCHANGED <<lock_type, num_acquired, queue_total,
                 multiprogramming, op, num, target>>

(* glk_unlock: lock_type is read again, then that sublock is released.     *)
UnlockRead(t) ==
  /\ pc[t] = "cs"
  /\ type' = [type EXCEPT ![t] = lock_type]
  /\ Goto(t, "release")
  /\ UNCHANGED <<glk, multiprogramming, op, num, target>>

Release(t) ==
  /\ pc[t] = "release"
  /\ UnlockLock(t)
  /\ Back(t)
  /\ UNCHANGED <<lock_type, num_acquired, queue_total,
                 multiprogramming, num, target>>

----------------------------------------------------------------------------
(* What a thread does once it has called; only the call itself is optional *)
Step(t) ==
  \/ Reread(t)
  \/ TakeTicket(t) \/ LookAtHead(t) \/ TicketTurn(t) \/ TicketTry(t)
  \/ TicketAdapt(t)
  \/ McsSwap(t) \/ McsCount(t) \/ McsTurn(t) \/ McsTry(t) \/ McsAdapt(t)
  \/ MutexLock(t) \/ MutexTry(t) \/ MutexAdapt(t)
  \/ WriteType(t) \/ Check(t) \/ Retry(t)
  \/ UnlockRead(t) \/ Release(t)

Next == MpCheck \/ \E t \in Threads : Call(t) \/ Step(t)

Spec == Init /\ [][Next]_vars

(* Every thread that has called keeps running, inside the critical section *)
(* too; it need not call again, and the load need not change.              *)
FairSpec == Spec /\ \A t \in Threads : WF_vars(Step(t))

----------------------------------------------------------------------------
(* Properties.                                                             *)

Labels == {"idle", "read", "acquire", "ticket_head", "ticket_wait",
           "mcs_count", "mcs_wait", "adapt", "write", "check", "retry",
           "cs", "release"}

(* Every field of glk_t and every local variable has a value of its type;  *)
(* lock_type always names one of the three sublocks, so that the switches  *)
(* of glk_lock and glk_unlock never fall through.                          *)
TypeOK ==
  /\ lock_type \in Types
  /\ multiprogramming \in BOOLEAN
  /\ ticket_queue \in Seq(Threads) /\ mcs_queue \in Seq(Threads)
  /\ tail \in 0 .. AdaptEvery - 1
  /\ mutex \in Threads \cup {NoThread}
  /\ num_acquired \in Nat /\ queue_total \in Nat
  /\ pc \in [Threads -> Labels]
  /\ op \in [Threads -> {"none", "lock", "try"}]
  /\ type \in [Threads -> Types \cup {"none"}]
  /\ num \in [Threads -> Nat]
  /\ target \in [Threads -> Types \cup {"none"}]

(* Thread t holds the sublock of type ty.                                  *)
Holds(t, ty) ==
  \/ ty = "TICKET" /\ ticket_queue # <<>> /\ Head(ticket_queue) = t
  \/ ty = "MCS" /\ mcs_queue # <<>> /\ Head(mcs_queue) = t
  \/ ty = "MUTEX" /\ mutex = t

InCs(t) == pc[t] \in {"cs", "release"}

(* glk_lock and glk_trylock let one thread in at a time, however the type  *)
(* of the lock changes under the threads that are on their way.            *)
MutualExclusion == \A t, u \in Threads : InCs(t) /\ InCs(u) => t = u

(* glk_unlock trusts lock_type to name the sublock that this thread        *)
(* acquired: it does, from the validation in glk_lock to the release.      *)
UnlockMatchesLock ==
  \A t \in Threads : InCs(t) => type[t] = lock_type /\ Holds(t, lock_type)

(* lock_type is stored only by a holder of the sublock in force, never by  *)
(* a thread that queued on a sublock before the type changed and got it    *)
(* afterwards: neither glk_ticket_adap nor glk_mcs_adap looks at lock_type *)
(* before it stores.                                                       *)
SwitchOnlyByHolder ==
  [][lock_type' # lock_type =>
       \E t \in Threads : pc[t] = "write" /\ Holds(t, lock_type)]_vars

(* A thread that finds that the type has changed leaves nothing locked     *)
(* behind: with no thread in a call all three sublocks are free, and a     *)
(* thread holds or waits for at most the sublock that it last read.        *)
NoSublockLeaked ==
  \A t \in Threads :
    /\ t \in Range(ticket_queue) => type[t] = "TICKET"
    /\ t \in Range(mcs_queue) => type[t] = "MCS"
    /\ mutex = t => type[t] = "MUTEX"

(* GLK is a lock.                                                          *)
Lock == INSTANCE Mutex WITH mode <-
  [t \in Threads |-> IF InCs(t) THEN "owner"
                     ELSE IF op[t] = "lock" THEN "waiting"
                     ELSE IF op[t] = "try" THEN "trying" ELSE "idle"]
ImplementsMutex == Lock!Spec

(* Switching back and forth never keeps everybody out: while a thread is   *)
(* in glk_lock, some thread enters the critical section.                   *)
SomeoneEnters ==
  (\E t \in Threads : op[t] = "lock") ~> (\E t \in Threads : InCs(t))

(* When the type settles on one of the two queue locks, every glk_lock     *)
(* returns.                                                                *)
NoStarvation ==
  (<>[](lock_type = "TICKET") \/ <>[](lock_type = "MCS"))
    => \A t \in Threads : (op[t] = "lock") ~> InCs(t)
============================================================================
