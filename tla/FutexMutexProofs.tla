-------------------------- MODULE FutexMutexProofs --------------------------
(***************************************************************************)
(* Proofs about FutexMutex, for any set of threads and each of the copies  *)
(* of the mutex, of which only their range is used.  One inductive invariant carries all of it: the    *)
(* locked byte is set exactly when a thread owns the mutex, at most one    *)
(* does, and a sleeper always has somebody who will look at the word.      *)
(***************************************************************************)
EXTENDS FutexMutex, TLAPS

(* What the invariants need to know of a profile: where it may send a      *)
(* thread.                                                                 *)
ProfileOK(c) ==
  /\ c.enters \subseteq {"spin", "slow"}
  /\ c.tired \in {"spin", "slow", "wait"}
  /\ c.missed \in {"spin", "wait"}
  /\ c.expired \subseteq {"insist"}
  /\ c.taken \subseteq {"idle", "clear", "nudge", "rouse"}
  /\ c.after \subseteq {"idle", "rouse"}

(* All the copies are of that form.                                        *)
LEMMA ProfilesOK == ASSUME NEW v \in Variants PROVE ProfileOK(Profile[v])
<1> USE DEF ProfileOK, GlkMutex, SleepsFirst
<1>1. ProfileOK(Mutexee) /\ ProfileOK(MutexeeFair) /\ ProfileOK(MutexGlk)
  BY DEF Mutexee, MutexeeFair, MutexGlk
<1>2. ProfileOK(Ladap) /\ ProfileOK(Ladap1) /\ ProfileOK(Ladap2)
  BY DEF Ladap, Ladap1, Ladap2
<1>3. ProfileOK(Ladap3) /\ ProfileOK(Ladap4) /\ ProfileOK(Ladap5) /\ ProfileOK(SpinLock)
  BY DEF Ladap3, Ladap4, Ladap5, SpinLock
<1>4. ProfileOK(GlkMutex)
  OBVIOUS
<1> HIDE DEF ProfileOK
<1> QED
  BY <1>1, <1>2, <1>3, <1>4, VariantsAssumption DEF Profile

LEMMA CopyOK == TypeOK => ProfileOK(copy)
  BY ProfilesOK DEF TypeOK

(* Every action writes values of the right type.                           *)
LEMMA TypeInvariant == Spec => []TypeOK
<1>1. Init => TypeOK
  BY DEF Init, TypeOK, Labels
<1>2. TypeOK /\ [Next]_vars => TypeOK'
  <2> SUFFICES ASSUME TypeOK, [Next]_vars PROVE TypeOK'
    OBVIOUS
  <2> ProfileOK(copy)
    BY CopyOK
  <2> USE DEF TypeOK, Labels, Goto, ProfileOK
  <2>1. CASE UNCHANGED vars
    BY <2>1 DEF vars
  <2>2. ASSUME NEW t \in Threads, Call(t) PROVE TypeOK'
    BY <2>2 DEF Call
  <2>3. ASSUME NEW t \in Threads,
               SpinTake(t) \/ SpinGiveUp(t) \/ SwapWord(t) \/ FutexWait(t) \/ TryLock(t)
        PROVE  TypeOK'
    BY <2>3 DEF SpinTake, SpinGiveUp, SwapWord, AfterMiss, FutexWait, TryLock
  <2>4. ASSUME NEW t \in Threads, Unlock(t) \/ UnlockCas(t) \/ UnlockStore(t)
        PROVE  TypeOK'
    BY <2>4 DEF Unlock, UnlockCas, UnlockStore
  <2>5. ASSUME NEW t \in Threads, UnlockCheck(t) \/ UnlockClear(t) PROVE TypeOK'
    BY <2>5 DEF UnlockCheck, UnlockClear
  <2>6. ASSUME NEW t \in Threads, UnlockWake(t) \/ UnlockRouse(t) PROVE TypeOK'
    BY <2>6 DEF UnlockWake, UnlockRouse, Asleep
  <2>7. ASSUME NEW t \in Threads, Interrupted(t) \/ SleepTimeout(t) PROVE TypeOK'
    BY <2>7 DEF Interrupted, SleepTimeout
  <2> QED
    BY <2>1, <2>2, <2>3, <2>4, <2>5, <2>6, <2>7 DEF Next, Step
<1> QED
  BY <1>1, <1>2, PTL DEF Spec

----------------------------------------------------------------------------
(* The inductive invariant.  LockedMeansOwned is what makes a locked byte  *)
(* of 0 exclude an owner, and what lets an unlocker that finds the byte    *)
(* set again leave the sleepers to the owner it has thereby seen.          *)
IInv == TypeOK /\ MutualExclusion /\ LockedMeansOwned /\ SleeperIsWatched

(* Locking keeps one owner: it takes a locked byte of 0, which no owner    *)
(* allows.                                                                 *)
LEMMA LockingKeeps ==
  ASSUME IInv, NEW t \in Threads,
         Call(t) \/ SpinTake(t) \/ SpinGiveUp(t) \/ SwapWord(t) \/ FutexWait(t)
           \/ TryLock(t) \/ Interrupted(t) \/ SleepTimeout(t)
  PROVE  MutualExclusion' /\ LockedMeansOwned'
<1> ProfileOK(copy)
  BY CopyOK DEF IInv
<1> USE DEF IInv, TypeOK, Labels, Goto, MutualExclusion, LockedMeansOwned, Owns, ProfileOK
<1>1. CASE Call(t)
  BY <1>1 DEF Call
<1>2. CASE SpinTake(t)
  BY <1>2 DEF SpinTake
<1>3. CASE SpinGiveUp(t)
  BY <1>3 DEF SpinGiveUp
<1>4. CASE SwapWord(t)
  BY <1>4 DEF SwapWord, AfterMiss
<1>5. CASE FutexWait(t)
  BY <1>5 DEF FutexWait
<1>6. CASE TryLock(t)
  BY <1>6 DEF TryLock
<1>7. CASE Interrupted(t) \/ SleepTimeout(t)
  BY <1>7 DEF Interrupted, SleepTimeout
<1> QED
  BY <1>1, <1>2, <1>3, <1>4, <1>5, <1>6, <1>7

(* Unlocking clears the byte when the only owner stops being one.          *)
LEMMA UnlockingKeeps ==
  ASSUME IInv, NEW t \in Threads,
         Unlock(t) \/ UnlockCas(t) \/ UnlockStore(t) \/ UnlockCheck(t)
           \/ UnlockClear(t) \/ UnlockWake(t) \/ UnlockRouse(t)
  PROVE  MutualExclusion' /\ LockedMeansOwned'
<1> ProfileOK(copy)
  BY CopyOK DEF IInv
<1> USE DEF IInv, TypeOK, Labels, Goto, MutualExclusion, LockedMeansOwned, Owns, ProfileOK
<1>1. CASE Unlock(t)
  BY <1>1 DEF Unlock
<1>2. CASE UnlockCas(t)
  BY <1>2 DEF UnlockCas
<1>3. CASE UnlockStore(t)
  BY <1>3 DEF UnlockStore
<1>4. CASE UnlockCheck(t)
  BY <1>4 DEF UnlockCheck
<1>5. CASE UnlockClear(t)
  BY <1>5 DEF UnlockClear
<1>6. CASE UnlockWake(t) \/ UnlockRouse(t)
  BY <1>6 DEF UnlockWake, UnlockRouse, Asleep
<1> QED
  BY <1>1, <1>2, <1>3, <1>4, <1>5, <1>6

(* A thread goes to sleep only on a word of 257, which has an owner; who   *)
(* stops watching has woken a sleeper, or has seen another watcher.        *)
LEMMA SleepersStayWatched ==
  ASSUME IInv, NEW t \in Threads, Call(t) \/ Step(t) \/ Interrupted(t) \/ SleepTimeout(t)
  PROVE  SleeperIsWatched'
<1> ProfileOK(copy)
  BY CopyOK DEF IInv
<1> USE DEF IInv, TypeOK, Labels, Goto, LockedMeansOwned, SleeperIsWatched, Owns, Asleep,
            ProfileOK
<1>1. CASE Call(t) \/ SpinTake(t) \/ SpinGiveUp(t) \/ TryLock(t)
  BY <1>1 DEF Call, SpinTake, SpinGiveUp, TryLock
<1>2. CASE SwapWord(t)
  BY <1>2 DEF SwapWord, AfterMiss
<1>3. CASE FutexWait(t)
  BY <1>3 DEF FutexWait, Word
<1>4. CASE Interrupted(t) \/ SleepTimeout(t)
  BY <1>4 DEF Interrupted, SleepTimeout
<1>5. CASE Unlock(t) \/ UnlockStore(t)
  BY <1>5 DEF Unlock, UnlockStore
<1>6. CASE UnlockCas(t)
  BY <1>6 DEF UnlockCas, Word
<1>7. CASE UnlockCheck(t)
  BY <1>7 DEF UnlockCheck
<1>8. CASE UnlockClear(t)
  BY <1>8 DEF UnlockClear
<1>9. CASE UnlockWake(t)
  <2>1. CASE Asleep = {}
    BY <1>9, <2>1 DEF UnlockWake
  <2>2. CASE Asleep # {}
    BY <1>9, <2>2 DEF UnlockWake
  <2> QED
    BY <2>1, <2>2
<1>10. CASE UnlockRouse(t)
  BY <1>10 DEF UnlockRouse
<1> QED
  BY <1>1, <1>2, <1>3, <1>4, <1>5, <1>6, <1>7, <1>8, <1>9, <1>10 DEF Step

THEOREM Inductive == Spec => []IInv
<1>1. Init => IInv
  BY DEF Init, IInv, TypeOK, Labels, MutualExclusion, LockedMeansOwned,
         SleeperIsWatched, Owns, Asleep
<1>2. IInv /\ TypeOK' /\ [Next]_vars => IInv'
  <2> SUFFICES ASSUME IInv, TypeOK', [Next]_vars
               PROVE  MutualExclusion' /\ LockedMeansOwned' /\ SleeperIsWatched'
    BY DEF IInv
  <2>1. CASE UNCHANGED vars
    BY <2>1 DEF vars, IInv, MutualExclusion, LockedMeansOwned, SleeperIsWatched,
                Owns, Asleep
  <2>2. CASE Next
    BY <2>2, LockingKeeps, UnlockingKeeps, SleepersStayWatched DEF Next, Step
  <2> QED
    BY <2>1, <2>2
<1> QED
  BY <1>1, <1>2, TypeInvariant, PTL DEF Spec

(* Type correctness.                                                       *)
THEOREM TypeCorrect == Spec => []TypeOK
  BY TypeInvariant

(* One thread at a time is between glk_mutex_lock, or mutexee_lock, and    *)
(* the unlock.                                                             *)
THEOREM Exclusion == Spec => []MutualExclusion
<1>1. IInv => MutualExclusion
  BY DEF IInv
<1> QED
  BY <1>1, Inductive, PTL

(* The locked byte is set exactly while there is an owner.                 *)
THEOREM LockedByte == Spec => []LockedMeansOwned
<1>1. IInv => LockedMeansOwned
  BY DEF IInv
<1> QED
  BY <1>1, Inductive, PTL

(* No sleeper is ever without a thread that will look at the word.         *)
THEOREM NoLostWakeUp == Spec => []SleeperIsWatched
<1>1. IInv => SleeperIsWatched
  BY DEF IInv
<1> QED
  BY <1>1, Inductive, PTL

(* A trylock fails only while there is an owner: the byte that it found    *)
(* set, LockedMeansOwned says, had one.                                    *)
THEOREM BusyIsHonest == Spec => BusyMeansOwned
<1> DEFINE P == \A t \in Threads :
                  pc[t] = "try" /\ pc'[t] = "idle" => \E u \in Threads : Owns(u)
<1>1. ASSUME IInv, [Next]_vars PROVE [P]_vars
  <2> USE <1>1 DEF IInv, TypeOK, Labels, Goto
  <2> SUFFICES ASSUME Next, NEW t \in Threads, pc[t] = "try", pc'[t] = "idle"
               PROVE  locked = 1
    BY DEF LockedMeansOwned
  <2> PICK u \in Threads : Call(u) \/ Step(u) \/ Interrupted(u) \/ SleepTimeout(u)
    BY DEF Next
  <2>1. CASE TryLock(u)
    BY <2>1 DEF TryLock
  <2>2. CASE ~TryLock(u)
    <3>1. pc'[t] = pc[t] \/ t # u
      BY <2>2 DEF Step, Call, SpinTake, SpinGiveUp, SwapWord, FutexWait, Unlock, UnlockCas,
                  UnlockStore, UnlockCheck, UnlockClear, UnlockWake, UnlockRouse, Asleep,
                  Interrupted, SleepTimeout
    <3>2. t # u => pc'[t] \in {pc[t], "woken"}
      BY DEF Step, Call, SpinTake, SpinGiveUp, SwapWord, FutexWait, TryLock, Unlock, UnlockCas,
             UnlockStore, UnlockCheck, UnlockClear, UnlockWake, UnlockRouse, Asleep,
             Interrupted, SleepTimeout
    <3> QED
      BY <3>1, <3>2
  <2> QED
    BY <2>1, <2>2
<1>2. [][P]_vars => BusyMeansOwned
  BY PTL DEF BusyMeansOwned
<1> QED
  BY <1>1, <1>2, Inductive, PTL DEF Spec

----------------------------------------------------------------------------
(* FutexMutex implements Mutex.  A step of a thread changes the mode of    *)
(* that thread only, and grants the lock only when the locked byte is 0.   *)
Mode(t) == IF Owns(t) THEN "owner"
           ELSE IF pc[t] = "try" THEN "trying"
           ELSE IF Waiting(t) THEN "waiting" ELSE "idle"

(* Waking a sleeper does not change its mode, nor does any other step.     *)
LEMMA OthersKeepTheirMode ==
  ASSUME TypeOK, NEW t \in Threads, NEW u \in Threads, u # t,
         Call(t) \/ Step(t) \/ Interrupted(t) \/ SleepTimeout(t)
  PROVE  Mode(u)' = Mode(u)
<1> ProfileOK(copy)
  BY CopyOK
<1> USE DEF TypeOK, Labels, Goto, Mode, Owns, Waiting, ProfileOK
<1>1. CASE ~UnlockWake(t) /\ ~UnlockRouse(t)
  <2>1. pc'[u] = pc[u]
    BY <1>1 DEF Step, Call, SpinTake, SpinGiveUp, SwapWord, FutexWait, TryLock, Unlock,
                UnlockCas, UnlockStore, UnlockCheck, UnlockClear, Interrupted, SleepTimeout
  <2> QED
    BY <2>1
<1>2. CASE UnlockWake(t) \/ UnlockRouse(t)
  <2>1. pc'[u] = pc[u] \/ (pc[u] = "asleep" /\ pc'[u] = "woken")
    BY <1>2 DEF UnlockWake, UnlockRouse, Asleep
  <2> QED
    BY <2>1
<1> QED
  BY <1>1, <1>2

(* What the step does to the mode of the thread that takes it.             *)
LEMMA ModeSteps ==
  ASSUME IInv, NEW t \in Threads, Call(t) \/ Step(t) \/ Interrupted(t) \/ SleepTimeout(t)
  PROVE  \/ Mode(t)' = Mode(t)
         \/ Mode(t) = "idle" /\ Mode(t)' \in {"waiting", "trying"}
         \/ /\ Mode(t) \in {"waiting", "trying"} /\ Mode(t)' = "owner"
            /\ \A u \in Threads : Mode(u) # "owner"
         \/ Mode(t) = "trying" /\ Mode(t)' = "idle"
         \/ Mode(t) = "owner" /\ Mode(t)' = "idle"
<1> ProfileOK(copy)
  BY CopyOK DEF IInv
<1> USE DEF IInv, TypeOK, Labels, Goto, Mode, Owns, Waiting, LockedMeansOwned, ProfileOK
<1>1. CASE Call(t)
  BY <1>1 DEF Call
<1>2. CASE SpinTake(t) \/ SpinGiveUp(t)
  BY <1>2 DEF SpinTake, SpinGiveUp
<1>3. CASE SwapWord(t)
  BY <1>3 DEF SwapWord, AfterMiss
<1>4. CASE FutexWait(t) \/ Interrupted(t) \/ SleepTimeout(t)
  BY <1>4 DEF FutexWait, Interrupted, SleepTimeout
<1>5. CASE TryLock(t)
  BY <1>5 DEF TryLock
<1>6. CASE Unlock(t) \/ UnlockCas(t) \/ UnlockStore(t)
  BY <1>6 DEF Unlock, UnlockCas, UnlockStore
<1>7. CASE UnlockCheck(t) \/ UnlockClear(t)
  BY <1>7 DEF UnlockCheck, UnlockClear
<1>8. CASE UnlockWake(t) \/ UnlockRouse(t)
  BY <1>8 DEF UnlockWake, UnlockRouse, Asleep
<1> QED
  BY <1>1, <1>2, <1>3, <1>4, <1>5, <1>6, <1>7, <1>8 DEF Step

(* All the copies are locks: every step is a step                          *)
(* of Mutex or changes nothing that it sees.                               *)
THEOREM Refinement == Spec => ImplementsMutex
<1> DEFINE mode == [t \in Threads |-> Mode(t)]
<1>1. Init => Lock!Init
  BY DEF Init, Lock!Init, Owns, Waiting
<1>2. IInv /\ [Next]_vars => [Lock!Next]_mode
  <2> SUFFICES ASSUME IInv, [Next]_vars PROVE Lock!Next \/ mode' = mode
    OBVIOUS
  <2>1. CASE UNCHANGED vars
    BY <2>1 DEF vars, Mode, Owns, Waiting
  <2>2. ASSUME NEW t \in Threads, Call(t) \/ Step(t) \/ Interrupted(t) \/ SleepTimeout(t)
        PROVE  Lock!Next \/ mode' = mode
    <3>1. \A u \in Threads \ {t} : Mode(u)' = Mode(u)
      BY <2>2, OthersKeepTheirMode DEF IInv
    <3>2. mode' = [mode EXCEPT ![t] = Mode(t)']
      BY <3>1
    <3> HIDE DEF mode
    <3>3. CASE Mode(t)' = Mode(t)
      BY <3>1, <3>3 DEF mode
    <3>4. CASE Mode(t)' # Mode(t)
      <4>1. Lock!Ask(t) \/ Lock!Grant(t) \/ Lock!Busy(t) \/ Lock!Unlock(t)
        BY <2>2, <3>2, <3>4, ModeSteps
        DEF mode, Mode, Waiting, Lock!Ask, Lock!Grant, Lock!Busy, Lock!Unlock, Lock!Unowned
      <4> QED
        BY <4>1 DEF Lock!Next
    <3> QED
      BY <3>3, <3>4
  <2> QED
    BY <2>1, <2>2 DEF Next
<1>3. mode = [t \in Threads |->
     IF Owns(t) THEN "owner"
     ELSE IF pc[t] = "try" THEN "trying"
     ELSE IF Waiting(t) THEN "waiting"
     ELSE "idle"]
  BY DEF Mode, Waiting
<1> QED
  BY <1>1, <1>2, <1>3, Inductive, PTL DEF Spec, ImplementsMutex, Lock!Spec, Mode, Waiting
============================================================================
