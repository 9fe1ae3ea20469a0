---------------------------- MODULE FutexMutex ----------------------------
(***************************************************************************)
(* The spin-then-sleep mutexes of the library: the mutex of GLK (src/glk.c)*)
(* and its copy in GLS, MUTEXEE, and the six LADAP locks.  The lock word   *)
(* has two bytes, locked and contended, that are written one at a time,    *)
(* together (as 257), or by a compare-and-swap of the whole word.  A       *)
(* thread that cannot get the lock by spinning sleeps on the word, if it   *)
(* is marked contended; a thread that unlocks a contended word frees the   *)
(* lock first and then, if nobody has taken it meanwhile, clears the mark  *)
(* and wakes one sleeper.                                                  *)
(*                                                                         *)
(* The copies differ in what is tried in which order, which their profiles *)
(* tell.  How long a thread spins, and what the statistics advise, is left *)
(* open: a decision that hangs on them may be taken either way.            *)
(***************************************************************************)
EXTENDS Integers

CONSTANTS
  Threads,      \* the threads that share the mutex
  Variants      \* which of the copies are compiled in

VARIABLES
  copy,         \* the profile of the copy in use, fixed at compile time
  locked,       \* l.b.locked
  contended,    \* l.b.contended
  pc            \* where each thread is

vars == <<copy, locked, contended, pc>>

Labels == {"idle", "try", "spin", "slow", "wait", "asleep", "woken", "insist", "cs",
           "unlock_cas", "store", "check", "clear", "wake", "nudge", "rouse"}

----------------------------------------------------------------------------
(* The copies.  enters: where a lock begins.  tired: what a thread does    *)
(* that has spun long enough.  missed: what it does if it has slept and    *)
(* does not get the lock then.  expired: what it does when a bounded sleep *)
(* is over.  taken: what an unlock may do that finds the lock taken again. *)
(* after: what it may do when it has woken one.                            *)

GlkMutex ==
  [enters |-> {"spin"}, tired |-> "slow", missed |-> "wait", expired |-> {},
   taken |-> {"idle"}, after |-> {"idle"}]

Mutexee == GlkMutex
MutexeeFair == [GlkMutex EXCEPT !.expired = {"insist"}]
MutexGlk == GlkMutex

(* Sleeps before it has marked the word, and spins again after a sleep.    *)
SleepsFirst == [GlkMutex EXCEPT !.tired = "wait", !.missed = "spin"]

Ladap == [SleepsFirst EXCEPT !.taken = {"idle", "clear"}]
Ladap1 == GlkMutex
Ladap2 == [SleepsFirst EXCEPT !.taken = {"idle", "rouse"}, !.after = {"idle", "rouse"}]
Ladap3 == [SleepsFirst EXCEPT !.taken = {"idle", "nudge"}]
Ladap4 == Ladap3
Ladap5 ==
  [GlkMutex EXCEPT !.enters = {"spin", "slow"}, !.missed = "spin", !.taken = {"idle", "clear"}]

(* A lock without a futex: it spins for as long as it takes.               *)
SpinLock == [GlkMutex EXCEPT !.tired = "spin"]

Profile ==
  [GLK |-> GlkMutex, MUTEXEE |-> Mutexee, MUTEXEE_FAIR |-> MutexeeFair,
   MUTEX_GLK |-> MutexGlk, LADAP |-> Ladap, LADAP1 |-> Ladap1, LADAP2 |-> Ladap2,
   LADAP3 |-> Ladap3, LADAP4 |-> Ladap4, LADAP5 |-> Ladap5, SPIN |-> SpinLock]

ASSUME VariantsAssumption == Variants \subseteq DOMAIN Profile

----------------------------------------------------------------------------
Init ==
  /\ copy \in {Profile[v] : v \in Variants}
  /\ locked = 0 /\ contended = 0
  /\ pc = [t \in Threads |-> "idle"]

Goto(t, label) == pc' = [pc EXCEPT ![t] = label]

(* The two bytes read as one word.                                         *)
Word == locked + 256 * contended

Asleep == {u \in Threads : pc[u] = "asleep"}

----------------------------------------------------------------------------
(* Locking.                                                                *)

Call(t) ==
  /\ pc[t] = "idle"
  /\ \E label \in copy.enters \cup {"try"} : Goto(t, label)
  /\ UNCHANGED <<copy, locked, contended>>

(* xchg_8 finds the lock free, at the first attempt or while spinning.     *)
SpinTake(t) ==
  /\ pc[t] = "spin"
  /\ locked = 0 /\ locked' = 1
  /\ Goto(t, "cs")
  /\ UNCHANGED <<copy, contended>>

(* The cycles to spin are used up and the last look found the lock taken.  *)
SpinGiveUp(t) ==
  /\ pc[t] = "spin"
  /\ locked = 1
  /\ Goto(t, copy.tired)
  /\ UNCHANGED <<copy, locked, contended>>

(* What a thread does whose swap of the word found the lock taken: before  *)
(* it has slept, after that, and when it must not sleep any more.          *)
AfterMiss(label) ==
  CASE label = "slow" -> "wait" [] label = "woken" -> copy.missed [] label = "insist" -> "insist"

(* xchg_32 of 257: the word is marked contended whoever gets it.           *)
SwapWord(t) ==
  /\ pc[t] \in {"slow", "woken", "insist"}
  /\ locked' = 1 /\ contended' = 1
  /\ Goto(t, IF locked = 0 THEN "cs" ELSE AfterMiss(pc[t]))
  /\ UNCHANGED copy

(* Broken: sleeps whatever the word is by now.                             *)
FutexWaitBlind(t) ==
  /\ pc[t] = "wait"
  /\ Goto(t, "asleep")
  /\ UNCHANGED <<copy, locked, contended>>

(* FUTEX_WAIT sleeps only if the word is 257.                              *)
FutexWait(t) ==
  /\ pc[t] = "wait"
  /\ Goto(t, IF Word = 257 THEN "asleep" ELSE "woken")
  /\ UNCHANGED <<copy, locked, contended>>

(* FUTEX_WAIT returns because of a signal.                                 *)
Interrupted(t) ==
  /\ pc[t] = "asleep"
  /\ Goto(t, "woken")
  /\ UNCHANGED <<copy, locked, contended>>

(* The fair variant sleeps for a bounded time, once, and then keeps        *)
(* swapping.                                                               *)
SleepTimeout(t) ==
  /\ pc[t] = "asleep"
  /\ \E label \in copy.expired : Goto(t, label)
  /\ UNCHANGED <<copy, locked, contended>>

(* Broken: returns what the swap found, where 0 means success.             *)
TryLockInverted(t) ==
  /\ pc[t] = "try"
  /\ locked' = 1
  /\ Goto(t, IF locked = 1 THEN "cs" ELSE "idle")
  /\ UNCHANGED <<copy, contended>>

TryLock(t) ==
  /\ pc[t] = "try"
  /\ locked' = 1
  /\ Goto(t, IF locked = 0 THEN "cs" ELSE "idle")
  /\ UNCHANGED <<copy, contended>>

----------------------------------------------------------------------------
(* Unlocking.                                                              *)

Unlock(t) ==
  /\ pc[t] = "cs"
  /\ Goto(t, IF Word = 1 THEN "unlock_cas" ELSE "store")
  /\ UNCHANGED <<copy, locked, contended>>

UnlockCas(t) ==
  /\ pc[t] = "unlock_cas"
  /\ IF Word = 1
     THEN locked' = 0 /\ Goto(t, "idle")
     ELSE Goto(t, "store") /\ UNCHANGED locked
  /\ UNCHANGED <<copy, contended>>

UnlockStore(t) ==
  /\ pc[t] = "store"
  /\ locked' = 0
  /\ Goto(t, "check")
  /\ UNCHANGED <<copy, contended>>

(* Somebody has the lock again, and will see the contended mark.  All but  *)
(* GLK look more than once; what counts is the look that finds it taken,   *)
(* or the last one.                                                        *)
UnlockCheck(t) ==
  /\ pc[t] = "check"
  /\ \E label \in (IF locked = 1 THEN copy.taken ELSE {"clear"}) : Goto(t, label)
  /\ UNCHANGED <<copy, locked, contended>>

(* Broken: the whole word is cleared, a lock taken meanwhile included.     *)
UnlockClearWord(t) ==
  /\ pc[t] = "clear"
  /\ locked' = 0 /\ contended' = 0
  /\ Goto(t, "wake")
  /\ UNCHANGED copy

(* Broken: nobody is woken.                                                *)
UnlockClearOnly(t) ==
  /\ pc[t] = "clear"
  /\ contended' = 0
  /\ Goto(t, "idle")
  /\ UNCHANGED <<copy, locked>>

(* Broken: the mark is taken for a count of the threads that set it.       *)
UnlockClearCount(t) ==
  /\ pc[t] = "clear"
  /\ contended' = contended - 1
  /\ Goto(t, "wake")
  /\ UNCHANGED <<copy, locked>>

UnlockClear(t) ==
  /\ pc[t] = "clear"
  /\ contended' = 0
  /\ Goto(t, "wake")
  /\ UNCHANGED <<copy, locked>>

(* FUTEX_WAKE of one thread: at the end of a slow unlock, or out of        *)
(* fairness to a sleeper while others keep taking the lock.                *)
UnlockWake(t) ==
  /\ pc[t] \in {"wake", "nudge"}
  /\ \E label \in (IF pc[t] = "wake" THEN copy.after ELSE {"idle"}) :
       IF Asleep = {}
       THEN Goto(t, label)
       ELSE \E u \in Asleep : pc' = [pc EXCEPT ![t] = label, ![u] = "woken"]
  /\ UNCHANGED <<copy, locked, contended>>

(* FUTEX_WAKE of everybody.                                                *)
UnlockRouse(t) ==
  /\ pc[t] = "rouse"
  /\ pc' = [u \in Threads |-> IF u = t THEN "idle"
                              ELSE IF pc[u] = "asleep" THEN "woken" ELSE pc[u]]
  /\ UNCHANGED <<copy, locked, contended>>

----------------------------------------------------------------------------
Step(t) ==
  \/ SpinTake(t) \/ SpinGiveUp(t) \/ SwapWord(t) \/ FutexWait(t) \/ TryLock(t)
  \/ Unlock(t) \/ UnlockCas(t) \/ UnlockStore(t) \/ UnlockCheck(t)
  \/ UnlockClear(t) \/ UnlockWake(t) \/ UnlockRouse(t)

Next == \E t \in Threads : Call(t) \/ Step(t) \/ Interrupted(t) \/ SleepTimeout(t)

Spec == Init /\ [][Next]_vars

(* A thread in a call runs, and so does one in the critical section; no    *)
(* signal or timeout is counted on to end a sleep.                         *)
FairSpec == Spec /\ \A t \in Threads : WF_vars(Step(t))

----------------------------------------------------------------------------
(* Properties.                                                             *)

TypeOK ==
  /\ copy \in {Profile[v] : v \in Variants}
  /\ locked \in {0, 1} /\ contended \in {0, 1}
  /\ pc \in [Threads -> Labels]

Owns(t) == pc[t] \in {"cs", "unlock_cas", "store"}

Waiting(t) == pc[t] \in {"spin", "slow", "wait", "asleep", "woken", "insist"}

(* One thread at a time is between lock and unlock.                        *)
MutualExclusion == \A t, u \in Threads : Owns(t) /\ Owns(u) => t = u

(* The locked byte tells whether there is an owner, which is what lets the *)
(* unlocker that sees it set after its own store leave without waking.     *)
LockedMeansOwned == locked = 1 <=> \E t \in Threads : Owns(t)

(* No wake-up is lost: while a thread sleeps, either the word is marked    *)
(* contended and a thread that will go through the slow unlock is there to *)
(* look at it, or a thread is about to wake one sleeper or to swap the     *)
(* mark back in.                                                           *)
SleeperIsWatched ==
  Asleep # {} =>
    \/ contended = 1 /\ \E t \in Threads : Owns(t) \/ pc[t] = "check"
    \/ \E t \in Threads : pc[t] \in {"clear", "wake", "slow", "woken", "insist"}

Lock == INSTANCE Mutex WITH mode <-
  [t \in Threads |->
     IF Owns(t) THEN "owner"
     ELSE IF pc[t] = "try" THEN "trying"
     ELSE IF Waiting(t) THEN "waiting"
     ELSE "idle"]

(* The mutex is a lock: nobody is granted it while it is owned.            *)
ImplementsMutex == Lock!Spec

(* A trylock that says busy does so when there is an owner.                *)
BusyMeansOwned ==
  [][\A t \in Threads : pc[t] = "try" /\ pc'[t] = "idle" => \E u \in Threads : Owns(u)]_vars

(* Sleeping or spinning, somebody gets the lock; no sleep lasts for ever   *)
(* while everybody else is gone.                                           *)
SomeoneEnters ==
  (\E t \in Threads : Waiting(t)) ~> (\E t \in Threads : Owns(t))
============================================================================
