----------------------------- MODULE CondProofs -----------------------------
(***************************************************************************)
(* Proofs about Cond, for any finite set of threads, any choice of mutexes *)
(* and programs, and every condition variable: no wake-up is lost while    *)
(* there are tokens to take, and both barriers hold.  Of the condition     *)
(* variables that spin, the first is shown for one giver, which is all     *)
(* that is true of them.                                                   *)
(*                                                                         *)
(* The futex wakes threads that nobody chose, and a signal can be on its   *)
(* way while the waiters it is for come and go.  So the invariant counts:  *)
(* either there is somebody on the way for every token, or all that wait   *)
(* will be woken by the signals that are under way.                        *)
(***************************************************************************)
EXTENDS Cond, FutexMutexProofs, FiniteSetTheorems, TLAPS

N == Cardinality(Threads)

(* Where a thread is in the mutex, by where it is in its call.             *)
Wanting == {"spin", "slow", "wait", "asleep", "woken", "insist"}
Leaving == {"unlock_cas", "store", "check", "clear", "wake", "nudge", "rouse"}
SpinPlaces == {"count", "reset", "turn", "await"}

PlacesFit ==
  \A t \in Threads :
    /\ at[t] \in {"out", "asleep"} \cup SpinPlaces => pc[t] = "idle"
    /\ at[t] \in {"lock", "relock"} => pc[t] \in Wanting \cup {"cs"}
    /\ at[t] \in {"release", "unlock"} => pc[t] \in Leaving \cup {"cs", "idle"}
    /\ at[t] = "post" => pc[t] = "cs"
    /\ at[t] = "wake" => pc[t] = IF op[t] = "cross" THEN "cs" ELSE "idle"

(* The call of a thread is one of the program that runs.                   *)
CallsFit ==
  \A t \in Threads :
    /\ op[t] = "none" <=> at[t] \in {"out"} \cup SpinPlaces
    /\ op[t] = "cross" => client = "barrier"
    /\ op[t] \in {"take", "timedout"} => client = "tokens" /\ at[t] \notin {"post", "wake"}
    /\ op[t] = "timedout" => at[t] \in {"relock", "unlock"}
    /\ op[t] \in {"signal", "broadcast"} =>
         client = "tokens" /\ t \in Givers /\ at[t] \in {"lock", "unlock", "wake"}
    /\ at[t] \in SpinPlaces => client = "spin_barrier"
    /\ client = "spin_barrier" => op[t] = "none"

MutexFit == MutualExclusion /\ LockedMeansOwned

(* Waiters sleep, or spin; a broadcast reads a head that is not past the   *)
(* ticket it reads with it, unless the head has moved on.                  *)
WaitsFit ==
  \A t \in Threads :
    /\ ~cond.spins /\ at[t] \in {"release", "asleep"} => bound = TRUE
    /\ cond.spins => at[t] # "asleep"
    /\ cond.spins /\ t \in current =>
         at[t] = "wake" /\ op[t] \in {"broadcast", "cross"} /\ mine[t] <= due

(* The sleeping barrier: how many have come this time, and where they are. *)
Arrived == {t \in Threads : ahead[t] = 1}
Opening == \E t \in Threads : at[t] \in {"post", "wake"}
Kept(t) ==
  /\ at[t] \in {"release", "asleep"}
  /\ IF cond.spins THEN mine[t] > 0 ELSE at[t] = "release" => t \in current

CrossingFit ==
  client = "barrier" => IF Opening THEN crossing = N ELSE crossing < N \/ Threads = {}

BarrierFit ==
  client = "barrier" /\ client \notin Interrupts =>
    /\ 0 <= due
    /\ \A t \in Threads : ahead[t] \in {0, 1} /\ (ahead[t] = 1 => Kept(t) /\ ~Opening)
    /\ ~Opening => crossing = Cardinality(Arrived)

(* The spinning barrier.                                                   *)
Turned(t) == sense_local[t] = sense_global

SpinFit ==
  client = "spin_barrier" =>
    /\ \A t \in Threads :
         /\ ahead[t] \in {0, 1}
         /\ ahead[t] = 1 => at[t] = "await" /\ ~Turned(t)
         /\ at[t] = "count" => ~Turned(t)
         /\ at[t] \in {"reset", "turn"} =>
              /\ ~Turned(t) /\ Arrived = {}
              /\ \A u \in Threads \ {t} : at[u] = "await" /\ ~Turned(u)
    /\ crossed_n = IF \E t \in Threads : at[t] = "reset" THEN 0 ELSE N - Cardinality(Arrived)

(* Tickets of waiters, as long as one thread signals.                      *)
TicketsFit ==
  client = "tokens" /\ cond.spins /\ OneGiver =>
    /\ 0 <= due
    /\ \A t \in Threads : at[t] = "release" => mine[t] <= due
    /\ \A t \in Threads : at[t] = "wake" =>
         1 <= due /\ (op[t] = "broadcast" => t \in current /\ 1 <= mine[t])
    /\ \A i \in 1 .. due : \E t \in Threads : at[t] = "release" /\ mine[t] = i
    /\ \A t, u \in Threads :
         at[t] = "release" /\ at[u] = "release" /\ mine[t] = mine[u] /\ 0 < mine[t] => t = u

(* Who will take a token, or is about to signal.                           *)
Coming ==
  {t \in Threads : \/ op[t] \in {"take", "timedout"} /\ at[t] \in {"lock", "relock"}
                   \/ Served(t)
                   \/ op[t] \in {"signal", "broadcast"} /\ at[t] = "unlock"}
Signalling == {t \in Threads : at[t] = "wake" /\ op[t] = "signal"}
Broadcasting == {t \in Threads : at[t] = "wake" /\ op[t] = "broadcast"}

(* Those that wait, and that nobody who signals has seen.                  *)
Late ==
  {u \in Threads :
     at[u] = "release" /\ IF cond.spins THEN \E b \in Broadcasting : mine[u] > mine[b]
                                        ELSE u \in current}

(* There is somebody for every token, or all that wait will be woken.      *)
Covered ==
  \/ /\ tokens <= Cardinality(Coming) + Cardinality(Signalling)
     /\ tokens <= Cardinality(Coming) + Cardinality(Unserved)
  \/ Late = {} /\ (Broadcasting # {} \/ Cardinality(Unserved) <= Cardinality(Signalling))

TokensFit ==
  client = "tokens" /\ (cond.spins => OneGiver /\ ~cond.exact) => Covered

CondInv ==
  /\ CondTypeOK /\ PlacesFit /\ CallsFit /\ MutexFit /\ WaitsFit
  /\ CrossingFit /\ BarrierFit /\ SpinFit /\ TicketsFit /\ TokensFit

----------------------------------------------------------------------------
(* The number of threads, and counting some of them.                       *)
LEMMA Numbers == IsFiniteSet(Threads) /\ N \in Nat /\ MaxTokens \in Nat
  BY CondAssumption, FS_CardinalityType DEF N

LEMMA CountIsNat == ASSUME NEW S \in SUBSET Threads PROVE Cardinality(S) \in 0 .. N
<1>1. IsFiniteSet(S) /\ Cardinality(S) <= Cardinality(Threads)
  BY Numbers, FS_Subset
<1> QED
  BY <1>1, FS_CardinalityType, Numbers DEF N

LEMMA CountGrows ==
  ASSUME NEW S \in SUBSET Threads, NEW R \in SUBSET S
  PROVE  Cardinality(R) <= Cardinality(S)
  BY Numbers, FS_Subset

(* Two sets of threads that differ in one thread at most.                  *)
LEMMA CountChange ==
  ASSUME NEW S \in SUBSET Threads, NEW R \in SUBSET Threads, NEW t \in Threads,
         \A u \in Threads \ {t} : u \in S <=> u \in R
  PROVE  Cardinality(R) =
           Cardinality(S) + (IF t \in R THEN 1 ELSE 0) - (IF t \in S THEN 1 ELSE 0)
<1> DEFINE B == S \ {t}
<1>1. IsFiniteSet(B) /\ Cardinality(B) \in Nat /\ t \notin B
  BY Numbers, FS_Subset, FS_CardinalityType
<1>2. Cardinality(B \cup {t}) = Cardinality(B) + 1
  BY <1>1, FS_AddElement
<1>3. IF t \in S THEN S = B \cup {t} ELSE S = B
  OBVIOUS
<1>4. IF t \in R THEN R = B \cup {t} ELSE R = B
  OBVIOUS
<1> HIDE DEF B
<1>5. /\ t \in S => Cardinality(S) = Cardinality(B) + 1
      /\ t \notin S => Cardinality(S) = Cardinality(B)
  BY <1>2, <1>3
<1>6. /\ t \in R => Cardinality(R) = Cardinality(B) + 1
      /\ t \notin R => Cardinality(R) = Cardinality(B)
  BY <1>2, <1>4
<1> DEFINE b == Cardinality(B)
           r == Cardinality(R)
           s == Cardinality(S)
<1>7. b \in Nat /\ (s = b \/ s = b + 1) /\ (r = b \/ r = b + 1)
  BY <1>1, <1>5, <1>6
<1> HIDE DEF b, r, s
<1>8. r = s + (IF t \in R THEN 1 ELSE 0) - (IF t \in S THEN 1 ELSE 0)
  BY <1>5, <1>6, <1>7 DEF b, r, s
<1> QED
  BY <1>8 DEF r, s

(* All threads but one are in S if S has one less.                         *)
LEMMA CountAll ==
  ASSUME NEW S \in SUBSET Threads, NEW t \in Threads \ S
  PROVE  /\ Cardinality(S) < N
         /\ Cardinality(S) = N - 1 <=> \A u \in Threads \ {t} : u \in S
<1> DEFINE R == S \cup {t}
<1>1. Cardinality(R) = Cardinality(S) + 1 /\ Cardinality(S) \in Nat /\ Cardinality(R) \in 0 .. N
  <2>1. \A u \in Threads \ {t} : u \in S <=> u \in R
    OBVIOUS
  <2> HIDE DEF R
  <2>2. R \in SUBSET Threads /\ t \in R /\ t \notin S
    BY DEF R
  <2> QED
    BY <2>1, <2>2, CountChange, CountIsNat
<1>2. Cardinality(R) = N => R = Threads
  BY Numbers, FS_Subset DEF N
<1>3. (\A u \in Threads \ {t} : u \in S) => R = Threads
  OBVIOUS
<1>4. R = Threads => \A u \in Threads \ {t} : u \in S
  OBVIOUS
<1> HIDE DEF R
<1> QED
  BY <1>1, <1>2, <1>3, <1>4, Numbers DEF N

----------------------------------------------------------------------------
LEMMA InitHolds == CondInit => CondInv
<1> SUFFICES ASSUME CondInit PROVE CondInv
  OBVIOUS
<1> USE Numbers DEF CondInit, Init
<1>1. TypeOK
  BY DEF TypeOK, Labels
<1>2. CondTypeOK
  <2>1. cond \in {b.cond : b \in AllBuilds}
    OBVIOUS
  <2>2. N \in 0 .. N /\ 0 \in 0 .. N /\ 0 \in 0 .. MaxTokens
    OBVIOUS
  <2>3. due \in Int
    OBVIOUS
  <2>7. bound \in BOOLEAN
    BY Zenon
  <2>8. client \in Clients /\ current \subseteq Threads
    OBVIOUS
  <2>6. mine \in [Threads -> Int] /\ ahead \in [Threads -> Nat]
    OBVIOUS
  <2>4. crossed_n = N /\ crossing = 0 /\ tokens = 0
    BY DEF N
  <2>5. /\ op \in [Threads -> {"none"}] /\ at \in [Threads -> {"out"}]
        /\ sense_local \in [Threads -> BOOLEAN] /\ sense_global \in BOOLEAN
    OBVIOUS
  <2> HIDE DEF Init, CondInit
  <2> QED
    BY <1>1, <2>1, <2>2, <2>3, <2>4, <2>5, <2>6, <2>7, <2>8 DEF CondTypeOK, N
<1>3. PlacesFit /\ CallsFit /\ WaitsFit
  BY DEF PlacesFit, CallsFit, WaitsFit, SpinPlaces
<1>4. MutexFit
  BY DEF MutexFit, MutualExclusion, LockedMeansOwned, Owns
<1>5. Arrived = {} /\ Cardinality(Arrived) = 0
  BY FS_EmptySet DEF Arrived
<1>6. CrossingFit
  BY FS_EmptySet DEF CrossingFit, Opening, N
<1>7. BarrierFit /\ SpinFit
  BY <1>5 DEF BarrierFit, SpinFit, Opening, N
<1>8. TicketsFit
  BY DEF TicketsFit
<1>9. TokensFit
  BY CountIsNat DEF TokensFit, Covered, Coming, Signalling, Unserved
<1> QED
  BY <1>1, <1>2, <1>3, <1>4, <1>6, <1>7, <1>8, <1>9 DEF CondInv

----------------------------------------------------------------------------
(* What the mutex does: it stays a lock, and whoever is on the way in or   *)
(* out of it stays so.                                                     *)
MutexParts == TypeOK /\ PlacesFit /\ MutexFit

LEMMA Profiled == CondInv => ProfileOK(copy)
  BY CopyOK DEF CondInv, CondTypeOK

LEMMA LockingFits ==
  ASSUME CondInv, NEW t \in Threads, MutexStep(t),
         SpinTake(t) \/ SpinGiveUp(t) \/ SwapWord(t) \/ FutexWait(t) \/ TryLock(t)
  PROVE  MutexParts'
<1> ProfileOK(copy)
  BY Profiled
<1> USE DEF CondInv, CondTypeOK, TypeOK, Labels, Goto, MutexFit, MutualExclusion,
            LockedMeansOwned, Owns, ProfileOK, PlacesFit, Wanting, Leaving, SpinPlaces,
            MutexParts, MutexStep, condvars
<1>1. CASE SpinTake(t)
  BY <1>1 DEF SpinTake
<1>2. CASE SpinGiveUp(t)
  BY <1>2 DEF SpinGiveUp
<1>3. CASE SwapWord(t)
  BY <1>3 DEF SwapWord, AfterMiss
<1>4. CASE FutexWait(t)
  BY <1>4 DEF FutexWait
<1>5. CASE TryLock(t)
  BY <1>5 DEF TryLock
<1> QED
  BY <1>1, <1>2, <1>3, <1>4, <1>5

LEMMA UnlockingFits ==
  ASSUME CondInv, NEW t \in Threads, MutexStep(t),
         Unlock(t) \/ UnlockCas(t) \/ UnlockStore(t) \/ UnlockCheck(t)
           \/ UnlockClear(t) \/ UnlockWake(t) \/ UnlockRouse(t)
  PROVE  MutexParts'
<1> ProfileOK(copy)
  BY Profiled
<1> USE DEF CondInv, CondTypeOK, TypeOK, Labels, Goto, MutexFit, MutualExclusion,
            LockedMeansOwned, Owns, ProfileOK, PlacesFit, Wanting, Leaving, SpinPlaces,
            MutexParts, MutexStep, condvars
<1>1. CASE Unlock(t)
  BY <1>1 DEF Unlock
<1>2. CASE UnlockCas(t)
  BY <1>2 DEF UnlockCas
<1>3. CASE UnlockStore(t)
  BY <1>3 DEF UnlockStore
<1>4. CASE UnlockCheck(t)
  BY <1>4 DEF UnlockCheck
<1>5. CASE UnlockClear(t)
  BY <1>5 DEF UnlockClear
<1>6. CASE UnlockWake(t) \/ UnlockRouse(t)
  BY <1>6 DEF UnlockWake, UnlockRouse, Asleep
<1> QED
  BY <1>1, <1>2, <1>3, <1>4, <1>5, <1>6

LEMMA MutexKept ==
  ASSUME CondInv, NEW t \in Threads, MutexStep(t) \/ RelockSwap(t)
  PROVE  MutexParts' /\ UNCHANGED condvars
<1>1. CASE MutexStep(t)
  BY <1>1, LockingFits, UnlockingFits DEF MutexStep, Step
<1>2. CASE RelockSwap(t)
  BY <1>2 DEF RelockSwap, CondInv, CondTypeOK, TypeOK, Labels, Goto, MutexFit, MutualExclusion,
              LockedMeansOwned, Owns, PlacesFit, Wanting, Leaving, SpinPlaces, MutexParts, condvars
<1> QED
  BY <1>1, <1>2

----------------------------------------------------------------------------
(* The types.                                                              *)

(* What a step of the programs and of the condition variable does to the   *)
(* mutex: it sends threads that are not in it to where one asks for it.    *)
LEMMA AskingFits ==
  ASSUME CondInv, NEW S \in SUBSET Threads,
         \A u \in S : ~Owns(u),
         pc' \in [Threads -> Labels],
         \A u \in S : pc'[u] \in Wanting \cup {"idle"},
         \A u \in Threads \ S : pc'[u] = pc[u],
         UNCHANGED <<copy, locked, contended>>
  PROVE  TypeOK' /\ MutexFit'
<1> USE DEF CondInv, CondTypeOK, TypeOK, MutexFit, MutualExclusion, LockedMeansOwned, Owns, Wanting
<1>1. TypeOK'
  OBVIOUS
<1>2. \A u \in Threads : Owns(u)' <=> Owns(u)
  OBVIOUS
<1> QED
  BY <1>1, <1>2

(* A step that leaves the mutex alone.                                     *)
LEMMA MutexRests ==
  ASSUME CondInv, UNCHANGED mutexvars
  PROVE  TypeOK' /\ MutexFit'
  BY DEF mutexvars, CondInv, CondTypeOK, TypeOK, MutexFit, MutualExclusion, LockedMeansOwned, Owns

LEMMA WaitTypes ==
  ASSUME CondInv, NEW t \in Threads, BeginWait(t)
  PROVE  /\ due' \in Int /\ mine' \in [Threads -> Int]
         /\ current' \subseteq Threads /\ bound' \in BOOLEAN
         /\ at' = [at EXCEPT ![t] = "release"]
         /\ UNCHANGED <<mutexvars, cond, client, op>>
<1> USE DEF CondInv, CondTypeOK, BeginWait, Put
<1>1. bound' \in BOOLEAN
  <2>1. bound' = TRUE
    OBVIOUS
  <2> QED
    BY <2>1, Zenon
<1>2. CASE cond.spins
  <2>1. due' = due + 1 /\ mine' = [mine EXCEPT ![t] = due + 1] /\ UNCHANGED current
    BY <1>2
  <2> QED
    BY <1>1, <2>1
<1>3. CASE ~cond.spins
  <2>1. current' = current \cup {t} /\ UNCHANGED <<due, mine>>
    BY <1>3
  <2> QED
    BY <1>1, <2>1
<1> QED
  BY <1>2, <1>3

LEMMA RelockTypes ==
  ASSUME CondInv, NEW t \in Threads, pc[t] = "idle", GoRelock(t)
  PROVE  /\ mine' \in [Threads -> Int] /\ current' \subseteq Threads
         /\ at' = [at EXCEPT ![t] = "relock"] /\ pc' = [pc EXCEPT ![t] = Relock]
         /\ Relock \in Wanting /\ ~Owns(t)
  BY DEF CondInv, CondTypeOK, GoRelock, Put, Goto, Relock, Wanting, Owns

LEMMA AfterPostTypes ==
  ASSUME CondInv, NEW t \in Threads, AfterPost(t)
  PROVE  /\ crossing' \in 0 .. N
         /\ op' = IF op[t] = "cross" THEN op ELSE [op EXCEPT ![t] = "none"]
         /\ NextPlace(t) = IF op[t] = "cross" THEN "unlock" ELSE "out"
  BY Numbers DEF CondInv, CondTypeOK, AfterPost, NextPlace, N

Ops == {"none", "cross", "take", "timedout", "signal", "broadcast"}
Places == {"out", "lock", "release", "asleep", "relock", "post", "wake", "unlock",
           "count", "reset", "turn", "await"}

(* The parts that every program has, and what they are about.              *)
Base == CondTypeOK /\ PlacesFit /\ CallsFit /\ MutexFit /\ WaitsFit

(* The types, when the mutex keeps its own.                                *)
RestTypes ==
  /\ cond \in {b.cond : b \in AllBuilds}
  /\ due \in Int /\ mine \in [Threads -> Int]
  /\ client \in Clients /\ current \subseteq Threads /\ bound \in BOOLEAN
  /\ op \in [Threads -> Ops] /\ at \in [Threads -> Places]
  /\ crossing \in 0 .. N /\ tokens \in 0 .. MaxTokens /\ ahead \in [Threads -> Nat]

SpinTypes ==
  /\ crossed_n \in 0 .. N /\ sense_global \in BOOLEAN /\ sense_local \in [Threads -> BOOLEAN]

LEMMA TypesSplit ==
  /\ CondTypeOK <=> TypeOK /\ RestTypes /\ SpinTypes
  /\ CondTypeOK' <=> TypeOK' /\ RestTypes' /\ SpinTypes'
  BY DEF CondTypeOK, RestTypes, SpinTypes, Ops, Places, N

LEMMA SpinRests ==
  ASSUME CondInv, UNCHANGED spinvars
  PROVE  SpinTypes'
<1> SpinTypes
  BY TypesSplit DEF CondInv
<1> QED
  BY DEF SpinTypes, spinvars

(* To lock and to unlock the mutex.                                        *)
LEMMA MutexBase ==
  ASSUME CondInv, NEW t \in Threads, MutexStep(t) \/ RelockSwap(t), UNCHANGED spinvars
  PROVE  Base'
<1>1. MutexParts' /\ UNCHANGED condvars
  BY MutexKept
<1>2. SpinTypes'
  BY SpinRests
<1>3. RestTypes
  BY TypesSplit DEF CondInv
<1>4. RestTypes'
  BY <1>1, <1>3 DEF condvars, RestTypes
<1>5. CallsFit'
  BY <1>1 DEF CondInv, CallsFit, condvars
<1>6. WaitsFit'
  BY <1>1 DEF CondInv, WaitsFit, condvars
<1> QED
  BY <1>1, <1>2, <1>4, <1>5, <1>6, TypesSplit DEF Base, MutexParts

(* The sleep on the condition variable, and the ways out of it.            *)
LEMMA RelockBase ==
  ASSUME CondInv, NEW t \in Threads, at[t] \in {"release", "asleep"}, pc[t] = "idle",
         GoRelock(t), op' \in {op, [op EXCEPT ![t] = "timedout"]},
         op[t] \in {"take", "timedout"} \/ op' = op,
         UNCHANGED <<copy, locked, contended, cond, client, bound, due, crossing, tokens,
                     ahead, spinvars>>
  PROVE  Base'
<1> USE DEF CondInv
<1>1. /\ mine' \in [Threads -> Int] /\ current' \subseteq Threads
      /\ at' = [at EXCEPT ![t] = "relock"] /\ pc' = [pc EXCEPT ![t] = Relock]
      /\ Relock \in Wanting /\ ~Owns(t)
  BY RelockTypes
<1>2. RestTypes /\ TypeOK /\ SpinTypes'
  BY TypesSplit, SpinRests
<1>3. TypeOK' /\ MutexFit'
  <2>1. pc' \in [Threads -> Labels]
    BY <1>1, <1>2 DEF TypeOK, Wanting, Labels
  <2> DEFINE S == {t}
  <2>2. S \in SUBSET Threads /\ \A u \in S : ~Owns(u)
    BY <1>1
  <2>3. \A u \in S : pc'[u] \in Wanting \cup {"idle"}
    BY <1>1, <1>2 DEF TypeOK
  <2>4. \A u \in Threads \ S : pc'[u] = pc[u]
    BY <1>1, <1>2 DEF TypeOK
  <2> HIDE DEF S
  <2> QED
    BY <2>1, <2>2, <2>3, <2>4, AskingFits
<1>4. RestTypes'
  BY <1>1, <1>2 DEF RestTypes, Ops, Places
<1>5. PlacesFit'
  BY <1>1, <1>2 DEF PlacesFit, RestTypes, TypeOK, Wanting, SpinPlaces
<1>6. CallsFit'
  BY <1>1, <1>2 DEF CallsFit, RestTypes, SpinPlaces
<1>7. WaitsFit'
  BY <1>1, <1>2 DEF WaitsFit, RestTypes, GoRelock
<1> QED
  BY <1>2, <1>3, <1>4, <1>5, <1>6, <1>7, TypesSplit DEF Base

LEMMA SleepBase ==
  ASSUME CondInv, NEW t \in Threads, CondSleep(t) \/ CondSpin(t), UNCHANGED spinvars
  PROVE  Base'
<1>1. CASE GoRelock(t)
  BY <1>1, RelockBase DEF CondSleep, CondSpin
<1>2. CASE CondSpin(t) /\ ~GoRelock(t)
  <2>1. UNCHANGED mutexvars /\ UNCHANGED condvars
    BY <1>2 DEF CondSpin, mutexvars, condvars, wordvars
  <2>2. TypeOK' /\ MutexFit' /\ RestTypes /\ SpinTypes'
    BY <2>1, MutexRests, TypesSplit, SpinRests DEF CondInv
  <2>3. RestTypes'
    BY <2>1, <2>2 DEF RestTypes, condvars
  <2>4. PlacesFit' /\ CallsFit' /\ WaitsFit'
    BY <2>1 DEF CondInv, PlacesFit, CallsFit, WaitsFit, condvars, mutexvars
  <2> QED
    BY <2>2, <2>3, <2>4, TypesSplit DEF Base
<1>3. CASE CondSleep(t) /\ ~GoRelock(t)
  <2>1. /\ at' = [at EXCEPT ![t] = "asleep"] /\ at[t] = "release" /\ pc[t] = "idle" /\ ~cond.spins
        /\ UNCHANGED mutexvars
        /\ UNCHANGED <<cond, client, current, bound, due, mine, op, crossing, tokens, ahead>>
    BY <1>3 DEF CondSleep, mutexvars, wordvars, Put
  <2>2. TypeOK' /\ MutexFit' /\ RestTypes /\ SpinTypes'
    BY <2>1, MutexRests, TypesSplit, SpinRests DEF CondInv
  <2>3. RestTypes'
    BY <2>1, <2>2 DEF RestTypes, Places
  <2>4. PlacesFit'
    BY <2>1, <2>2 DEF CondInv, PlacesFit, RestTypes, mutexvars, SpinPlaces
  <2>5. CallsFit'
    BY <2>1, <2>2 DEF CondInv, CallsFit, RestTypes, SpinPlaces
  <2>6. WaitsFit'
    BY <2>1, <2>2 DEF CondInv, WaitsFit, RestTypes
  <2> QED
    BY <2>2, <2>3, <2>4, <2>5, <2>6, TypesSplit DEF Base
<1> QED
  BY <1>1, <1>2, <1>3

LEMMA EarlyBase ==
  ASSUME CondInv, NEW t \in Threads, CondInterrupted(t) \/ TimeOut(t), UNCHANGED spinvars
  PROVE  Base'
<1>1. CASE CondInterrupted(t)
  <2>1. pc[t] = "idle"
    BY <1>1 DEF CondInterrupted, CondInv, PlacesFit
  <2> QED
    BY <1>1, <2>1, RelockBase DEF CondInterrupted
<1>2. CASE TimeOut(t)
  BY <1>2, RelockBase DEF TimeOut
<1> QED
  BY <1>1, <1>2

(* The beginning of a wait.                                                *)
LEMMA WaitBase ==
  ASSUME CondInv, NEW t \in Threads, BeginWait(t), Inside(t), op[t] \in {"cross", "take"},
         crossing' \in 0 .. N, tokens' \in 0 .. MaxTokens, ahead' \in [Threads -> Nat],
         UNCHANGED spinvars
  PROVE  Base'
<1>1. /\ due' \in Int /\ mine' \in [Threads -> Int]
      /\ current' \subseteq Threads /\ bound' \in BOOLEAN
      /\ at' = [at EXCEPT ![t] = "release"]
      /\ UNCHANGED <<mutexvars, cond, client, op>>
  BY WaitTypes
<1>2. TypeOK' /\ MutexFit' /\ RestTypes /\ SpinTypes'
  BY <1>1, MutexRests, TypesSplit, SpinRests DEF CondInv
<1>3. RestTypes'
  BY <1>1, <1>2 DEF RestTypes, Places
<1>4. PlacesFit'
  BY <1>1, <1>2 DEF CondInv, PlacesFit, RestTypes, mutexvars, SpinPlaces, Inside
<1>5. CallsFit'
  BY <1>1, <1>2 DEF CondInv, CallsFit, RestTypes, SpinPlaces
<1>6. WaitsFit'
  <2>1. bound' = TRUE
    BY DEF BeginWait
  <2>2. CASE cond.spins
    <3>1. due' = due + 1 /\ mine' = [mine EXCEPT ![t] = due + 1] /\ current' = current
      BY <2>2 DEF BeginWait
    <3>2. t \notin current
      BY <2>2 DEF CondInv, WaitsFit, Inside
    <3> QED
      BY <1>1, <1>2, <2>1, <2>2, <3>1, <3>2 DEF CondInv, WaitsFit, RestTypes
  <2>3. CASE ~cond.spins
    BY <1>1, <1>2, <2>1, <2>3 DEF CondInv, WaitsFit, RestTypes, BeginWait
  <2> QED
    BY <2>2, <2>3
<1> QED
  BY <1>2, <1>3, <1>4, <1>5, <1>6, TypesSplit DEF Base

(* A client leaves signal or broadcast, or a step of its own.              *)
LEMMA PlaceBase ==
  ASSUME CondInv, NEW t \in Threads, NEW p \in Places, at' = [at EXCEPT ![t] = p],
         \/ at[t] = "lock" /\ pc[t] = "cs" /\ op[t] # "timedout" /\ op' = op
              /\ p \in {"unlock", "post"} /\ (p = "post" => op[t] = "cross")
         \/ at[t] = "relock" /\ pc[t] = "cs" /\ p = "unlock" /\ op' = op
         \/ at[t] = "unlock" /\ pc[t] = "idle" /\ p = "out" /\ op' = [op EXCEPT ![t] = "none"]
         \/ at[t] = "unlock" /\ pc[t] = "idle" /\ p = "wake" /\ op' = op
              /\ op[t] \in {"signal", "broadcast"}
         \/ at[t] = "post" /\ p = "wake" /\ op' = op
         \/ at[t] \in {"post", "wake"} /\ p = NextPlace(t) /\ AfterPost(t),
         due' \in Int, mine' \in [Threads -> Int], current' \subseteq Threads,
         crossing' \in 0 .. N, tokens' \in 0 .. MaxTokens, ahead' \in [Threads -> Nat],
         \A u \in current' : cond.spins =>
           at'[u] = "wake" /\ op'[u] \in {"broadcast", "cross"} /\ mine'[u] <= due',
         UNCHANGED <<mutexvars, cond, client, bound, spinvars>>
  PROVE  Base'
<1>1. TypeOK' /\ MutexFit' /\ RestTypes /\ SpinTypes'
  BY MutexRests, TypesSplit, SpinRests DEF CondInv
<1>2. op' \in {op, [op EXCEPT ![t] = "none"]}
  BY DEF AfterPost
<1>3. RestTypes'
  BY <1>1, <1>2 DEF RestTypes, Ops
<1>4. CallsFit'
  BY <1>1 DEF CondInv, CallsFit, RestTypes, SpinPlaces, AfterPost, NextPlace
<1>5. PlacesFit'
  <2>1. \A u \in Threads \ {t} : at'[u] = at[u] /\ op'[u] = op[u] /\ pc'[u] = pc[u]
    BY <1>1, <1>2 DEF RestTypes, mutexvars
  <2>2. at'[t] = p /\ pc'[t] = pc[t]
    BY <1>1 DEF RestTypes, mutexvars
  <2>3. at[t] = "post" => pc[t] = "cs" /\ op[t] = "cross"
    BY <1>1 DEF CondInv, PlacesFit, CallsFit, RestTypes, Ops, SpinPlaces
  <2>4. at[t] = "wake" => pc[t] = IF op[t] = "cross" THEN "cs" ELSE "idle"
    BY DEF CondInv, PlacesFit
  <2>5. p \in {"out", "unlock", "post", "wake"} /\ pc[t] \in {"cs", "idle"}
    BY <2>3, <2>4 DEF NextPlace
  <2>6. /\ p = "out" => pc[t] = "idle"
        /\ p = "post" => pc[t] = "cs"
    BY <2>3, <2>4 DEF NextPlace
  <2>7. p = "wake" => op' = op /\ pc[t] = IF op[t] = "cross" THEN "cs" ELSE "idle"
    BY <2>3 DEF NextPlace
  <2> QED
    BY <2>1, <2>2, <2>5, <2>6, <2>7 DEF CondInv, PlacesFit, SpinPlaces
<1>6. WaitsFit'
  BY <1>1 DEF CondInv, WaitsFit, RestTypes, NextPlace
<1> QED
  BY <1>1, <1>3, <1>4, <1>5, <1>6, TypesSplit DEF Base

(* Signals and broadcasts.                                                 *)
LEMMA PostBase ==
  ASSUME CondInv, NEW t \in Threads, Post(t), UNCHANGED spinvars
  PROVE  Base'
<1>1. RestTypes
  BY TypesSplit DEF CondInv
<1>2. /\ at[t] \in {"post", "unlock"} /\ crossing \in 0 .. N
      /\ UNCHANGED <<mutexvars, cond, client, bound, tokens, ahead>>
  BY <1>1 DEF Post, Posting, RestTypes
<1>3. cond.spins => t \notin current
  BY <1>2 DEF CondInv, WaitsFit
<1>4. /\ at[t] = "unlock" => op[t] \in {"signal", "broadcast"} /\ pc[t] = "idle"
      /\ at[t] = "post" => op[t] = "cross"
  BY <1>1 DEF Post, Posting, CondInv, CallsFit, RestTypes, Ops, SpinPlaces
<1>5. CASE SeesWaiter(t)
  <2>1. at' = [at EXCEPT ![t] = "wake"] /\ UNCHANGED <<op, crossing, due>>
    BY <1>5 DEF Post, Put
  <2>2. \/ ~cond.spins /\ current' = {} /\ mine' = mine
        \/ cond.spins /\ current' = current /\ mine' = mine
        \/ cond.spins /\ op[t] # "signal" /\ current' = current \cup {t}
             /\ mine' = [mine EXCEPT ![t] = due]
    BY <1>5 DEF Post
  <2>3. mine' \in [Threads -> Int] /\ current' \subseteq Threads /\ due' \in Int
    BY <1>1, <2>1, <2>2 DEF RestTypes
  <2>4. ASSUME NEW u \in current', cond.spins
        PROVE  at'[u] = "wake" /\ op'[u] \in {"broadcast", "cross"} /\ mine'[u] <= due'
    <3>1. CASE u # t
      <4>1. u \in current /\ u \in Threads /\ mine'[u] = mine[u] /\ at'[u] = at[u]
        BY <1>1, <2>1, <2>2, <2>4, <3>1 DEF RestTypes
      <4> QED
        BY <2>1, <2>4, <4>1 DEF CondInv, WaitsFit
    <3>2. CASE u = t
      <4>1. op[t] # "signal" /\ mine' = [mine EXCEPT ![t] = due]
        BY <1>3, <2>2, <2>4, <3>2
      <4> QED
        BY <1>1, <1>2, <1>4, <2>1, <3>2, <4>1 DEF RestTypes
    <3> QED
      BY <3>1, <3>2
  <2>5. crossing' \in 0 .. N /\ tokens' \in 0 .. MaxTokens /\ ahead' \in [Threads -> Nat]
    BY <1>1, <1>2, <2>1 DEF RestTypes
  <2> QED
    BY <1>2, <1>4, <2>1, <2>3, <2>4, <2>5, PlaceBase DEF Places
<1>6. CASE ~SeesWaiter(t)
  <2> Put(t, NextPlace(t)) /\ AfterPost(t) /\ UNCHANGED wordvars
    BY <1>6 DEF Post
  <2>1. /\ at' = [at EXCEPT ![t] = NextPlace(t)] /\ NextPlace(t) \in Places
        /\ UNCHANGED <<current, due, mine>>
    BY <1>6 DEF Put, NextPlace, Places, wordvars
  <2>2. crossing' \in 0 .. N /\ op' = IF op[t] = "cross" THEN op ELSE [op EXCEPT ![t] = "none"]
    BY <1>6, AfterPostTypes
  <2>3. \A u \in current' : cond.spins =>
          at'[u] = "wake" /\ op'[u] \in {"broadcast", "cross"} /\ mine'[u] <= due'
    BY <1>1, <1>3, <2>1, <2>2 DEF CondInv, WaitsFit, RestTypes
  <2>4. /\ mine' \in [Threads -> Int] /\ current' \subseteq Threads /\ due' \in Int
        /\ tokens' \in 0 .. MaxTokens /\ ahead' \in [Threads -> Nat]
    BY <1>1, <1>2, <2>1 DEF RestTypes
  <2>5. CASE at[t] = "post"
    BY <1>2, <1>6, <2>1, <2>2, <2>3, <2>4, <2>5, PlaceBase
  <2>6. CASE at[t] = "unlock"
    <3>1. NextPlace(t) = "out" /\ op' = [op EXCEPT ![t] = "none"]
      BY <1>4, <2>2, <2>6 DEF NextPlace
    <3> QED
      BY <1>2, <1>4, <2>1, <2>2, <2>3, <2>4, <2>6, <3>1, PlaceBase
  <2> QED
    BY <1>2, <2>5, <2>6
<1> QED
  BY <1>5, <1>6 DEF Post

LEMMA BehindIsInt == ASSUME NEW m \in Int, NEW n \in Int PROVE Behind(m, n) \in Int
<1>1. Passed \in Int
  <2>1. Givers \in SUBSET Threads
    BY CondAssumption
  <2> QED
    BY <2>1, CountIsNat, Numbers DEF Passed
<1> QED
  BY <1>1 DEF Behind

LEMMA AdvanceBase ==
  ASSUME CondInv, NEW t \in Threads, NEW n \in Int, at[t] = "wake", Advance(t, n),
         UNCHANGED spinvars
  PROVE  Base'
<1>1. RestTypes
  BY TypesSplit DEF CondInv
<1>2. /\ at' = [at EXCEPT ![t] = NextPlace(t)] /\ NextPlace(t) \in Places
      /\ UNCHANGED <<mutexvars, cond, client, bound, tokens, ahead>>
      /\ current' = {}
  BY DEF Advance, Put, NextPlace, Places
<1>3. mine' \in [Threads -> Int]
  <2>1. mine' = [u \in Threads |-> IF at[u] = "release" THEN Behind(mine[u], n) ELSE 0]
    BY DEF Advance
  <2>2. \A u \in Threads : Behind(mine[u], n) \in Int
    BY <1>1, BehindIsInt DEF RestTypes
  <2> QED
    BY <2>1, <2>2
<1>4. due' \in Int
  BY <1>1 DEF Advance, RestTypes
<1>5. crossing' \in 0 .. N
  BY AfterPostTypes DEF Advance
<1>6. tokens' \in 0 .. MaxTokens /\ ahead' \in [Threads -> Nat]
  BY <1>1, <1>2 DEF RestTypes
<1> QED
  BY <1>2, <1>3, <1>4, <1>5, <1>6, PlaceBase DEF Advance

LEMMA SpinPostBase ==
  ASSUME CondInv, NEW t \in Threads, SpinSignal(t) \/ SpinBroadcast(t), UNCHANGED spinvars
  PROVE  Base'
<1>1. RestTypes /\ SpinTypes'
  BY TypesSplit, SpinRests DEF CondInv
<1>2. CASE SpinSignal(t)
  BY <1>2, AdvanceBase DEF SpinSignal
<1>3. CASE SpinBroadcast(t) /\ t \in current
  <2>1. mine[t] \in Int
    BY <1>1 DEF RestTypes
  <2> QED
    BY <1>3, <2>1, AdvanceBase DEF SpinBroadcast
<1>4. CASE SpinBroadcast(t) /\ t \notin current
  <2>1. /\ current' = current \cup {t} /\ mine' = [mine EXCEPT ![t] = due]
        /\ UNCHANGED <<mutexvars, due, at, op, crossing, cond, client, bound, tokens, ahead>>
        /\ cond.spins /\ at[t] = "wake" /\ op[t] \in {"broadcast", "cross"}
    BY <1>4 DEF SpinBroadcast
  <2>2. RestTypes'
    BY <1>1, <2>1 DEF RestTypes
  <2>3. TypeOK' /\ MutexFit'
    BY <2>1, MutexRests
  <2>4. PlacesFit' /\ CallsFit'
    BY <2>1 DEF CondInv, PlacesFit, CallsFit, mutexvars
  <2>5. WaitsFit'
    BY <1>1, <2>1 DEF CondInv, WaitsFit, RestTypes
  <2> QED
    BY <1>1, <2>2, <2>3, <2>4, <2>5, TypesSplit DEF Base
<1> QED
  BY <1>2, <1>3, <1>4

(* A signal or broadcast of a futex wakes sleepers or moves them.          *)
LEMMA WakingBase ==
  ASSUME CondInv, NEW t \in Threads, op[t] \in {"cross", "signal", "broadcast"},
         NEW awake \in SUBSET Sleepers, NEW moved \in SUBSET Sleepers,
         Waking(t, awake, moved), UNCHANGED spinvars
  PROVE  Base'
<1> DEFINE S == awake \cup moved
<1>1. RestTypes /\ SpinTypes' /\ TypeOK
  BY TypesSplit, SpinRests DEF CondInv
<1>2. S \in SUBSET Threads /\ t \notin S /\ \A u \in S : at[u] = "asleep" /\ pc[u] = "idle"
  BY DEF Waking, Sleepers, CondInv, PlacesFit
<1>3. /\ pc' \in [Threads -> Labels]
      /\ \A u \in S : pc'[u] \in Wanting
      /\ \A u \in Threads \ S : pc'[u] = pc[u]
  <2>1. pc' = [u \in Threads |-> IF u \in awake THEN Relock
                               ELSE IF u \in moved THEN "asleep" ELSE pc[u]]
    BY DEF Waking
  <2>2. Relock \in Wanting \cap Labels /\ "asleep" \in Wanting \cap Labels
    BY DEF Relock, Wanting, Labels
  <2>3. pc \in [Threads -> Labels]
    BY <1>1 DEF TypeOK
  <2> QED
    BY <1>2, <2>1, <2>2, <2>3
<1>4. /\ at' \in [Threads -> Places] /\ at'[t] = NextPlace(t)
      /\ \A u \in S : at'[u] = "relock"
      /\ \A u \in Threads \ (S \cup {t}) : at'[u] = at[u]
  BY <1>1, <1>2 DEF Waking, RestTypes, NextPlace, Places
<1>5. /\ UNCHANGED <<copy, locked, contended, cond, client, bound, due, mine, tokens, ahead>>
      /\ current' = current \ S /\ at[t] = "wake" /\ ~cond.spins
  BY DEF Waking
<1>6. /\ crossing' \in 0 .. N /\ op' = IF op[t] = "cross" THEN op ELSE [op EXCEPT ![t] = "none"]
      /\ NextPlace(t) = IF op[t] = "cross" THEN "unlock" ELSE "out"
  BY AfterPostTypes DEF Waking
<1> HIDE DEF S
<1>7. TypeOK' /\ MutexFit'
  <2>1. \A u \in S : ~Owns(u)
    BY <1>2 DEF Owns
  <2> QED
    BY <1>2, <1>3, <1>5, <2>1, AskingFits
<1>8. RestTypes'
  BY <1>1, <1>4, <1>5, <1>6 DEF RestTypes, Ops
<1>9. /\ \A u \in Threads \ {t} : op'[u] = op[u]
      /\ op'[t] = IF op[t] = "cross" THEN op[t] ELSE "none"
  BY <1>1, <1>6 DEF RestTypes
<1>10. PlacesFit'
  <2>1. pc'[t] = pc[t] /\ pc[t] = IF op[t] = "cross" THEN "cs" ELSE "idle"
    BY <1>2, <1>3, <1>5 DEF CondInv, PlacesFit
  <2> QED
    BY <1>2, <1>3, <1>4, <1>6, <1>9, <2>1 DEF CondInv, PlacesFit, SpinPlaces
<1>11. CallsFit'
  BY <1>2, <1>4, <1>5, <1>6, <1>9 DEF CondInv, CallsFit, SpinPlaces
<1>12. WaitsFit'
  BY <1>2, <1>4, <1>5, <1>6, <1>9 DEF CondInv, WaitsFit
<1> QED
  BY <1>1, <1>7, <1>8, <1>10, <1>11, <1>12, TypesSplit DEF Base

(* The sets of threads that a futex can wake.                              *)
LEMMA WakingIs ==
  ASSUME NEW t \in Threads, Signal(t) \/ Broadcast(t)
  PROVE  \E awake, moved \in SUBSET Sleepers :
           /\ Waking(t, awake, moved)
           /\ Sleepers # {} => awake # {}
           /\ op[t] = "signal" =>
                moved = {} /\ (Sleepers # {} => \E u \in Sleepers : awake = {u})
           /\ op[t] # "signal" => awake \cup moved = Sleepers
<1>1. CASE Signal(t)
  <2>1. PICK awake \in MayWake(TRUE) : Waking(t, awake, {})
    BY <1>1 DEF Signal
  <2>2. /\ awake \in SUBSET Sleepers
        /\ Sleepers # {} => \E u \in Sleepers : awake = {u}
    BY DEF MayWake
  <2> USE <2>2
  <2> WITNESS awake \in SUBSET Sleepers, {} \in SUBSET Sleepers
  <2> QED
    BY <1>1, <2>1, <2>2 DEF Signal
<1>2. CASE Broadcast(t)
  <2>1. PICK awake \in MayWake(cond.moves) : Waking(t, awake, Sleepers \ awake)
    BY <1>2 DEF Broadcast
  <2>2. awake \in SUBSET Sleepers /\ (Sleepers # {} => awake # {})
    BY DEF MayWake
  <2> USE <2>2
  <2> WITNESS awake \in SUBSET Sleepers, Sleepers \ awake \in SUBSET Sleepers
  <2> QED
    BY <1>2, <2>1, <2>2 DEF Broadcast
<1> QED
  BY <1>1, <1>2

----------------------------------------------------------------------------
(* The programs.                                                           *)

(* While the barrier opens, the mutex is held.                             *)
LEMMA OpenerOwns ==
  ASSUME CondInv, client = "barrier", Opening, NEW t \in Threads, pc[t] = "cs"
  PROVE  at[t] \in {"post", "wake"}
<1>1. PICK u \in Threads : at[u] \in {"post", "wake"}
  BY DEF Opening
<1>2. op[u] = "cross"
  BY <1>1, TypesSplit DEF CondInv, CallsFit, RestTypes, Ops, SpinPlaces
<1>3. pc[u] = "cs"
  BY <1>1, <1>2 DEF CondInv, PlacesFit
<1>4. t = u
  BY <1>3 DEF CondInv, MutexFit, MutualExclusion, Owns
<1> QED
  BY <1>1, <1>4

(* A client in its critical section arrives or takes or gives.             *)
LEMMA ArriveTypes ==
  ASSUME NEW t \in Threads, Arrive(t), ahead \in [Threads -> Nat]
  PROVE  ahead' \in [Threads -> Nat]
<1> DEFINE count == [ahead EXCEPT ![t] = @ + 1]
<1>1. count \in [Threads -> Nat]
  OBVIOUS
<1>2. ahead' = IF \A u \in Threads : count[u] > 0
               THEN [u \in Threads |-> count[u] - 1] ELSE count
  BY DEF Arrive
<1> HIDE DEF count
<1> QED
  BY <1>1, <1>2

LEMMA CrossBase ==
  ASSUME CondInv, NEW t \in Threads, Cross(t), UNCHANGED spinvars
  PROVE  /\ Base' /\ client = "barrier" /\ ~Opening
         /\ crossing < N /\ crossing' = crossing + 1 /\ op' = op
         /\ IF crossing + 1 < N THEN BeginWait(t)
            ELSE /\ at' = [at EXCEPT ![t] = "post"]
                 /\ UNCHANGED <<mutexvars, cond, client, wordvars, bound, op>>
<1>1. RestTypes
  BY TypesSplit DEF CondInv
<1>2. op[t] = "cross" /\ at[t] = "lock" /\ pc[t] = "cs" /\ client = "barrier"
  BY DEF Cross, CondInv, CallsFit
<1>3. ~Opening
  BY <1>2, OpenerOwns
<1>4. crossing \in 0 .. N /\ crossing < N /\ crossing' = crossing + 1 /\ crossing' \in 0 .. N
  BY <1>1, <1>2, <1>3, Numbers DEF CondInv, CrossingFit, RestTypes, Cross
<1>5. ahead' \in [Threads -> Nat] /\ tokens' \in 0 .. MaxTokens
  BY <1>1, ArriveTypes DEF Cross, RestTypes
<1>6. CASE crossing' < N
  <2>1. BeginWait(t)
    BY <1>6 DEF Cross, N
  <2>2. Base'
    BY <1>2, <1>4, <1>5, <2>1, WaitBase DEF Inside
  <2> QED
    BY <1>2, <1>3, <1>4, <1>6, <2>1, <2>2 DEF BeginWait
<1>7. CASE ~(crossing' < N)
  <2>1. /\ at' = [at EXCEPT ![t] = "post"]
        /\ UNCHANGED <<mutexvars, cond, client, wordvars, bound, op>>
    BY <1>7 DEF Cross, Put, N
  <2>2. \A u \in current' : cond.spins =>
          at'[u] = "wake" /\ op'[u] \in {"broadcast", "cross"} /\ mine'[u] <= due'
    BY <1>1, <1>2, <2>1 DEF CondInv, WaitsFit, RestTypes, wordvars
  <2>3. mine' \in [Threads -> Int] /\ current' \subseteq Threads /\ due' \in Int
    BY <1>1, <2>1 DEF RestTypes, wordvars
  <2>4. Base'
    BY <1>2, <1>4, <1>5, <2>1, <2>2, <2>3, PlaceBase DEF Places
  <2> QED
    BY <1>2, <1>3, <1>4, <1>7, <2>1, <2>4
<1> QED
  BY <1>6, <1>7

(* A step of a client that leaves the condition variable alone.            *)
LEMMA ClientBase ==
  ASSUME CondInv, NEW t \in Threads, NEW p \in {"unlock", "out"},
         at' = [at EXCEPT ![t] = p],
         \/ at[t] = "lock" /\ pc[t] = "cs" /\ op[t] # "timedout" /\ op' = op /\ p = "unlock"
         \/ at[t] = "relock" /\ pc[t] = "cs" /\ p = "unlock" /\ op' = op
         \/ at[t] = "unlock" /\ pc[t] = "idle" /\ p = "out" /\ op' = [op EXCEPT ![t] = "none"],
         tokens' \in 0 .. MaxTokens,
         UNCHANGED <<mutexvars, cond, client, wordvars, bound, crossing, ahead, spinvars>>
  PROVE  Base'
<1>1. RestTypes
  BY TypesSplit DEF CondInv
<1>2. /\ due' \in Int /\ mine' \in [Threads -> Int] /\ current' \subseteq Threads
      /\ crossing' \in 0 .. N /\ ahead' \in [Threads -> Nat]
  BY <1>1 DEF RestTypes, wordvars
<1>3. ASSUME NEW u \in current', cond.spins
      PROVE  at'[u] = "wake" /\ op'[u] \in {"broadcast", "cross"} /\ mine'[u] <= due'
  <2>1. u \in Threads /\ u # t /\ at[u] = "wake" /\ op[u] \in {"broadcast", "cross"} /\ mine[u] <= due
    BY <1>1, <1>3 DEF CondInv, WaitsFit, RestTypes, wordvars
  <2>2. at'[u] = at[u] /\ op'[u] = op[u] /\ mine' = mine /\ due' = due
    BY <1>1, <2>1 DEF RestTypes, wordvars
  <2> QED
    BY <2>1, <2>2
<1> QED
  BY <1>2, <1>3, PlaceBase DEF Places

LEMMA ProgramBase ==
  ASSUME CondInv, NEW t \in Threads, Crossed(t) \/ Give(t) \/ Take(t) \/ Return(t),
         UNCHANGED spinvars
  PROVE  Base'
<1>1. RestTypes
  BY TypesSplit DEF CondInv
<1>2. CASE Crossed(t)
  BY <1>1, <1>2, ClientBase DEF Crossed, Put, RestTypes
<1>3. CASE Give(t)
  <2>1. tokens' \in 0 .. MaxTokens
    BY <1>1, <1>3, Numbers DEF Give, RestTypes
  <2> QED
    BY <1>3, <2>1, ClientBase DEF Give, Put
<1>4. CASE Return(t)
  BY <1>1, <1>4, ClientBase DEF Return, Put, RestTypes
<1>5. CASE Take(t) /\ ~BeginWait(t)
  <2>1. tokens' \in 0 .. MaxTokens
    BY <1>1, <1>5, Numbers DEF Take, RestTypes
  <2>2. at[t] = "relock" \/ op[t] # "timedout"
    BY <1>5 DEF Take, Inside, CondInv, CallsFit
  <2> QED
    BY <1>5, <2>1, <2>2, ClientBase DEF Take, Put, Inside
<1>6. CASE Take(t) /\ BeginWait(t)
  <2>1. op[t] = "take"
    <3>1. op[t] # "take" => at' = [at EXCEPT ![t] = "unlock"]
      BY <1>6 DEF Take, Put
    <3>2. at' = [at EXCEPT ![t] = "release"]
      BY <1>6 DEF BeginWait, Put
    <3>3. at \in [Threads -> Places]
      BY <1>1 DEF RestTypes
    <3> QED
      BY <3>1, <3>2, <3>3
  <2>2. tokens' \in 0 .. MaxTokens /\ crossing' \in 0 .. N /\ ahead' \in [Threads -> Nat]
    BY <1>1, <1>6, Numbers DEF Take, RestTypes
  <2> QED
    BY <1>6, <2>1, <2>2, WaitBase DEF Take
<1> QED
  BY <1>2, <1>3, <1>4, <1>5, <1>6

(* A client calls.                                                         *)
LEMMA EnterBase ==
  ASSUME CondInv, NEW t \in Threads, Enter(t), UNCHANGED spinvars
  PROVE  /\ Base'
         /\ at' = [at EXCEPT ![t] = "lock"] /\ pc'[t] # "idle"
         /\ \E o \in Operations(t) : op' = [op EXCEPT ![t] = o]
<1>1. RestTypes /\ SpinTypes' /\ TypeOK /\ ProfileOK(copy)
  BY TypesSplit, SpinRests, CopyOK DEF CondInv
<1>2. PICK o \in Operations(t) : op' = [op EXCEPT ![t] = o]
  BY DEF Enter
<1>3. PICK label \in copy.enters : pc' = [pc EXCEPT ![t] = label]
  BY DEF Enter, Goto
<1>4. label \in Wanting \cap Labels
  BY <1>1 DEF ProfileOK, Wanting, Labels
<1>5. /\ at' = [at EXCEPT ![t] = "lock"] /\ at[t] = "out" /\ pc[t] = "idle"
      /\ client # "spin_barrier"
      /\ UNCHANGED <<copy, locked, contended, cond, client, wordvars, bound, crossing, tokens, ahead>>
  BY DEF Enter, Put
<1>6. /\ client \in {"barrier", "tokens"}
      /\ o = "cross" <=> client = "barrier"
      /\ o \in {"signal", "broadcast"} <=> client = "tokens" /\ t \in Givers
      /\ o \in {"cross", "take", "signal", "broadcast"}
  BY <1>1, <1>5, CondAssumption DEF Operations, RestTypes
<1>7. TypeOK' /\ MutexFit'
  <2> DEFINE S == {t}
  <2>1. S \in SUBSET Threads /\ \A u \in S : ~Owns(u)
    BY <1>5 DEF Owns
  <2>2. /\ pc' \in [Threads -> Labels]
        /\ \A u \in S : pc'[u] \in Wanting \cup {"idle"}
        /\ \A u \in Threads \ S : pc'[u] = pc[u]
    BY <1>1, <1>3, <1>4 DEF TypeOK
  <2> HIDE DEF S
  <2> QED
    BY <1>5, <2>1, <2>2, AskingFits
<1>8. RestTypes'
  BY <1>1, <1>2, <1>5, <1>6 DEF RestTypes, Places, Ops, wordvars
<1>9. /\ \A u \in Threads \ {t} : at'[u] = at[u] /\ op'[u] = op[u] /\ pc'[u] = pc[u]
      /\ at'[t] = "lock" /\ op'[t] = o /\ pc'[t] = label
  BY <1>1, <1>2, <1>3, <1>5 DEF RestTypes, TypeOK
<1>10. PlacesFit'
  BY <1>4, <1>9 DEF CondInv, PlacesFit, SpinPlaces
<1>11. CallsFit'
  BY <1>5, <1>6, <1>9 DEF CondInv, CallsFit, SpinPlaces
<1>12. WaitsFit'
  BY <1>5, <1>9 DEF CondInv, WaitsFit, wordvars
<1>13. Base'
  BY <1>1, <1>7, <1>8, <1>10, <1>11, <1>12, TypesSplit DEF Base
<1> QED
  BY <1>2, <1>4, <1>5, <1>9, <1>13 DEF Wanting

(* The barrier that spins: it counts down from all threads to none.        *)
LEMMA CountsDown ==
  ASSUME CondInv, NEW t \in Threads, client = "spin_barrier", at[t] = "count"
  PROVE  /\ crossed_n = N - Cardinality(Arrived) /\ Arrived \in SUBSET Threads
         /\ t \notin Arrived /\ 0 < crossed_n
         /\ \A u \in Threads : at[u] \notin {"reset", "turn"}
<1>1. \A u \in Threads : at[u] \notin {"reset", "turn"}
  BY DEF CondInv, SpinFit
<1>2. crossed_n = N - Cardinality(Arrived) /\ Arrived \in SUBSET Threads /\ t \notin Arrived
  BY <1>1 DEF CondInv, SpinFit, Arrived
<1>3. Cardinality(Arrived) < N /\ Cardinality(Arrived) \in 0 .. N
  BY <1>2, CountAll, CountIsNat
<1> QED
  BY <1>1, <1>2, <1>3, Numbers

LEMMA SpinBarrierBase ==
  ASSUME CondInv, NEW t \in Threads, SpinBarrierStep(t) \/ EnterSpinBarrier(t)
  PROVE  /\ Base' /\ client = "spin_barrier"
         /\ \E p \in SpinPlaces \cup {"out"} : at' = [at EXCEPT ![t] = p]
<1>1. RestTypes /\ SpinTypes
  BY TypesSplit DEF CondInv
<1>2. /\ UNCHANGED <<mutexvars, cond, client, wordvars, bound, op, crossing, tokens>>
      /\ at[t] \in SpinPlaces \cup {"out"} /\ op[t] = "none"
      /\ client = "spin_barrier"
  <2>1. /\ UNCHANGED <<mutexvars, cond, client, wordvars, bound, op, crossing, tokens>>
        /\ at[t] \in SpinPlaces \/ (at[t] = "out" /\ client = "spin_barrier")
    BY DEF SpinBarrierStep, EnterSpinBarrier, ReadSense, CountDown, ResetCount, TurnSense,
           AwaitSense, SpinPlaces
  <2> QED
    BY <2>1 DEF CondInv, CallsFit
<1>3. PICK p \in SpinPlaces \cup {"out"} : at' = [at EXCEPT ![t] = p]
  BY DEF SpinBarrierStep, EnterSpinBarrier, ReadSense, CountDown, ResetCount, TurnSense,
         AwaitSense, SpinPlaces, Put
<1>4. ahead' \in [Threads -> Nat]
  BY <1>1, ArriveTypes
  DEF RestTypes, SpinBarrierStep, EnterSpinBarrier, ReadSense, CountDown, ResetCount, TurnSense,
      AwaitSense, spinvars
<1>5. RestTypes'
  BY <1>1, <1>2, <1>3, <1>4 DEF RestTypes, wordvars, SpinPlaces, Places
<1>6. SpinTypes'
  <2>1. CASE CountDown(t)
    <3>1. crossed_n' = crossed_n - 1 /\ crossed_n' \in 0 .. N
      BY <1>1, <1>2, <2>1, CountsDown, Numbers DEF CountDown, SpinTypes
    <3>2. UNCHANGED <<sense_global, sense_local>>
      BY <2>1 DEF CountDown
    <3> QED
      BY <1>1, <3>1, <3>2 DEF SpinTypes
  <2>2. CASE ResetCount(t)
    BY <1>1, <2>2, Numbers DEF ResetCount, SpinTypes, N
  <2>3. CASE TurnSense(t)
    <3>1. sense_global' = sense_local[t] /\ UNCHANGED <<crossed_n, sense_local>>
      BY <2>3 DEF TurnSense
    <3>2. sense_global' \in BOOLEAN
      BY <1>1, <3>1, Zenon DEF SpinTypes
    <3> QED
      BY <1>1, <3>1, <3>2 DEF SpinTypes
  <2>4. CASE AwaitSense(t)
    BY <1>1, <2>4 DEF AwaitSense, SpinTypes, spinvars
  <2>5. CASE ReadSense(t)
    <3>1. sense_local' = [sense_local EXCEPT ![t] = ~sense_global]
          /\ UNCHANGED <<crossed_n, sense_global>>
      BY <2>5 DEF ReadSense
    <3>2. sense_local' \in [Threads -> BOOLEAN]
      BY <1>1, <3>1 DEF SpinTypes
    <3> QED
      BY <1>1, <3>1, <3>2 DEF SpinTypes
  <2> QED
    BY <2>1, <2>2, <2>3, <2>4, <2>5 DEF SpinBarrierStep, EnterSpinBarrier
<1>7. TypeOK' /\ MutexFit'
  BY <1>2, MutexRests
<1>8. \A u \in Threads \ {t} : at'[u] = at[u]
  BY <1>1, <1>3 DEF RestTypes
<1>9. at'[t] = p /\ pc[t] = "idle"
  BY <1>1, <1>2, <1>3 DEF RestTypes, CondInv, PlacesFit
<1>10. PlacesFit'
  BY <1>2, <1>8, <1>9 DEF CondInv, PlacesFit, SpinPlaces, mutexvars
<1>11. CallsFit'
  BY <1>2, <1>8, <1>9 DEF CondInv, CallsFit, SpinPlaces
<1>12. WaitsFit'
  BY <1>2, <1>8, <1>9 DEF CondInv, WaitsFit, SpinPlaces, wordvars
<1>13. Base'
  BY <1>5, <1>6, <1>7, <1>10, <1>11, <1>12, TypesSplit DEF Base
<1> QED
  BY <1>2, <1>3, <1>13

----------------------------------------------------------------------------
(* The sleeping barrier: those that have come and are kept are counted, so *)
(* that the last one is the one that finds all others kept.                *)
SleepingFit == CrossingFit /\ BarrierFit

(* A step of a thread that is not kept, and does not open the barrier.     *)
LEMMA SleepingRests ==
  ASSUME CondInv, NEW t \in Threads, NEW p \in Places \ {"post", "wake"},
         at' = [at EXCEPT ![t] = p], at[t] \notin {"post", "wake"},
         UNCHANGED <<cond, client, ahead, crossing, due>>,
         \A u \in Threads \ {t} : mine'[u] = mine[u] /\ (u \in current' <=> u \in current),
         client \in Interrupts \/ ~Kept(t) \/ (p = "asleep" /\ ~cond.spins)
  PROVE  SleepingFit'
<1>1. /\ \A u \in Threads \ {t} : at'[u] = at[u]
      /\ at'[t] = p
  BY TypesSplit DEF CondInv, RestTypes
<1>2. Opening' <=> Opening
  BY <1>1 DEF Opening
<1>3. CrossingFit'
  BY <1>2 DEF CondInv, CrossingFit
<1>4. Arrived' = Arrived
  BY DEF Arrived
<1>5. \A u \in Threads \ {t} : Kept(u)' <=> Kept(u)
  BY <1>1 DEF Kept
<1>6. Kept(t) /\ client \notin Interrupts => Kept(t)'
  BY <1>1 DEF Kept
<1>7. BarrierFit'
  BY <1>2, <1>4, <1>5, <1>6 DEF CondInv, BarrierFit
<1> QED
  BY <1>3, <1>7 DEF SleepingFit

(* The thread that opens the barrier leaves it.                            *)
LEMMA SleepingOpened ==
  ASSUME CondInv, client = "barrier", NEW t \in Threads, at[t] \in {"post", "wake"},
         at'[t] = "unlock", \A u \in Threads \ {t} : at'[u] \in {at[u], "relock"},
         crossing' = 0, due' \in Int, 0 <= due => 0 <= due',
         UNCHANGED <<cond, client, ahead>>
  PROVE  SleepingFit'
<1>1. \A u \in Threads \ {t} : at[u] \notin {"post", "wake"}
  <2>1. Opening
    BY DEF Opening
  <2>2. \A u \in Threads : at[u] \in {"post", "wake"} => op[u] = "cross"
    BY TypesSplit DEF CondInv, CallsFit, RestTypes, Ops, SpinPlaces
  <2>3. \A u \in Threads : at[u] \in {"post", "wake"} => pc[u] = "cs"
    BY <2>2 DEF CondInv, PlacesFit
  <2> QED
    BY <2>3 DEF CondInv, MutexFit, MutualExclusion, Owns
<1>2. ~Opening' /\ Opening
  BY <1>1 DEF Opening
<1>3. 0 < N
  BY CountAll, CountIsNat, FS_EmptySet
<1>4. CrossingFit'
  BY <1>2, <1>3 DEF CrossingFit
<1>5. client \notin Interrupts => Arrived = {} /\ Arrived' = {} /\ 0 <= due
  BY <1>2 DEF CondInv, BarrierFit, Arrived
<1>6. BarrierFit'
  <2> SUFFICES ASSUME client \notin Interrupts PROVE BarrierFit'
    BY DEF BarrierFit
  <2>1. \A u \in Threads : ahead[u] = 0
    BY <1>2 DEF CondInv, BarrierFit
  <2> QED
    BY <1>2, <1>5, <2>1, FS_EmptySet DEF BarrierFit
<1> QED
  BY <1>4, <1>6 DEF SleepingFit

LEMMA OtherProgram == ASSUME client' # "barrier" PROVE SleepingFit'
  BY DEF SleepingFit, CrossingFit, BarrierFit

(* One more has come.                                                      *)
LEMMA CrossSleeping ==
  ASSUME CondInv, NEW t \in Threads, Cross(t), UNCHANGED spinvars
  PROVE  SleepingFit'
<1>1. /\ client = "barrier" /\ ~Opening /\ crossing < N /\ crossing' = crossing + 1
      /\ IF crossing + 1 < N THEN BeginWait(t)
         ELSE /\ at' = [at EXCEPT ![t] = "post"]
              /\ UNCHANGED <<mutexvars, cond, client, wordvars, bound, op>>
  BY CrossBase
<1>2. RestTypes
  BY TypesSplit DEF CondInv
<1>3. /\ UNCHANGED <<cond, client>>
      /\ at' = [at EXCEPT ![t] = IF crossing + 1 < N THEN "release" ELSE "post"]
  BY <1>1 DEF BeginWait, Put
<1>4. /\ \A u \in Threads \ {t} : at'[u] = at[u]
      /\ at'[t] = IF crossing + 1 < N THEN "release" ELSE "post"
  BY <1>2, <1>3 DEF RestTypes
<1>5. Opening' <=> ~(crossing + 1 < N)
  BY <1>1, <1>4 DEF Opening
<1>6. crossing \in Nat
  BY <1>2, Numbers DEF RestTypes
<1>7. CrossingFit'
  BY <1>1, <1>5, <1>6, Numbers DEF CrossingFit
<1>8. ASSUME client \notin Interrupts PROVE BarrierFit'
  <2>1. \A u \in Threads : ahead[u] \in {0, 1} /\ (ahead[u] = 1 => Kept(u))
    BY <1>1, <1>8 DEF CondInv, BarrierFit
  <2>2. ahead[t] = 0 /\ Arrived \in SUBSET Threads /\ t \notin Arrived
    BY <2>1 DEF Kept, Cross, Arrived
  <2>3. crossing = Cardinality(Arrived) /\ 0 <= due
    BY <1>1, <1>8 DEF CondInv, BarrierFit
  <2>4. crossing + 1 < N <=> ~ \A u \in Threads \ {t} : u \in Arrived
    BY <1>1, <1>6, <2>2, <2>3, CountAll, Numbers
  <2>5. ahead' = IF crossing + 1 < N THEN [ahead EXCEPT ![t] = 1] ELSE [u \in Threads |-> 0]
    <3> DEFINE count == [ahead EXCEPT ![t] = @ + 1]
    <3>1. /\ count = [ahead EXCEPT ![t] = 1] /\ count[t] = 1 /\ ahead \in [Threads -> Nat]
          /\ \A u \in Threads \ {t} : count[u] = ahead[u]
      BY <1>2, <2>2 DEF RestTypes
    <3>2. ahead' = IF \A u \in Threads : count[u] > 0
                   THEN [u \in Threads |-> count[u] - 1] ELSE count
      BY DEF Cross, Arrive
    <3> HIDE DEF count
    <3>3. (\A u \in Threads : count[u] > 0) <=> ~(crossing + 1 < N)
      BY <2>1, <2>4, <3>1 DEF Arrived
    <3>4. ~(crossing + 1 < N) => \A u \in Threads : count[u] = 1
      BY <2>1, <2>4, <3>1 DEF Arrived
    <3> QED
      BY <3>1, <3>2, <3>3, <3>4
  <2>6. CASE crossing + 1 < N
    <3>1. BeginWait(t)
      BY <1>1, <2>6
    <3>2. /\ \A u \in Threads \ {t} : mine'[u] = mine[u] /\ (u \in current' <=> u \in current)
          /\ due' \in {due, due + 1} /\ due' \in Int /\ due \in Int
          /\ IF cond.spins THEN mine'[t] = due + 1 ELSE t \in current'
      BY <1>2, <3>1 DEF BeginWait, RestTypes
    <3>3. \A u \in Threads \ {t} : ahead'[u] = ahead[u] /\ (Kept(u)' <=> Kept(u))
      BY <1>2, <1>3, <1>4, <2>5, <2>6, <3>2 DEF Kept, RestTypes
    <3>4. ahead'[t] = 1 /\ Kept(t)'
      BY <1>2, <1>3, <1>4, <2>3, <2>5, <2>6, <3>2 DEF Kept, RestTypes
    <3>5. Arrived' \in SUBSET Threads /\ t \in Arrived' /\ \A u \in Threads \ {t} : u \in Arrived <=> u \in Arrived'
      BY <3>3, <3>4 DEF Arrived
    <3>6. Cardinality(Arrived') = crossing + 1
      BY <1>6, <2>2, <2>3, <3>5, CountChange
    <3> QED
      BY <1>1, <1>5, <2>1, <2>3, <2>6, <3>2, <3>3, <3>4, <3>6 DEF BarrierFit
  <2>7. CASE ~(crossing + 1 < N)
    BY <1>1, <1>5, <2>3, <2>5, <2>7 DEF BarrierFit, wordvars
  <2> QED
    BY <2>6, <2>7
<1>9. BarrierFit'
  BY <1>3, <1>8 DEF BarrierFit
<1> QED
  BY <1>7, <1>9 DEF SleepingFit

LEMMA SleepingKept ==
  ASSUME CondInv, NEW t \in Threads,
         \/ (WithMutexStep(t) \/ Enter(t) \/ CondInterrupted(t) \/ TimeOut(t))
              /\ UNCHANGED spinvars
         \/ SpinBarrierStep(t) \/ EnterSpinBarrier(t)
  PROVE  SleepingFit'
<1>1. RestTypes
  BY TypesSplit DEF CondInv
<1>2. CASE MutexStep(t) \/ RelockSwap(t)
  <2>1. UNCHANGED condvars
    BY <1>2, MutexKept
  <2> QED
    BY <2>1 DEF CondInv, SleepingFit, CrossingFit, BarrierFit, Opening, Kept, Arrived, condvars
<1>3. CASE CondSleep(t) \/ CondSpin(t)
  <2>1. CASE GoRelock(t)
    <3>1. /\ at' = [at EXCEPT ![t] = "relock"] /\ at[t] = "release" /\ "relock" \in Places
          /\ UNCHANGED <<cond, client, ahead, crossing, due>>
          /\ \A u \in Threads \ {t} : mine'[u] = mine[u] /\ (u \in current' <=> u \in current)
      BY <1>1, <1>3, <2>1 DEF CondSleep, CondSpin, GoRelock, Put, RestTypes, Places
    <3>2. ~Kept(t)
      <4>1. CASE CondSleep(t)
        <5>1. t \notin current
          <6>1. t \in current => at' = [at EXCEPT ![t] = "asleep"]
            BY <4>1 DEF CondSleep, Put
          <6> QED
            BY <1>1, <3>1, <6>1 DEF RestTypes
        <5> QED
          BY <3>1, <4>1, <5>1 DEF Kept, CondSleep
      <4>2. CASE CondSpin(t)
        <5>1. Reached(t)
          <6>1. ~Reached(t) => UNCHANGED at
            BY <4>2 DEF CondSpin
          <6> QED
            BY <1>1, <3>1, <6>1 DEF RestTypes
        <5> QED
          BY <1>1, <4>2, <5>1 DEF Reached, Kept, CondSpin, RestTypes
      <4> QED
        BY <1>3, <4>1, <4>2
    <3> QED
      BY <3>1, <3>2, SleepingRests
  <2>2. CASE CondSpin(t) /\ ~GoRelock(t)
    <3>1. UNCHANGED condvars
      BY <2>2 DEF CondSpin, condvars, wordvars
    <3> QED
      BY <3>1 DEF CondInv, SleepingFit, CrossingFit, BarrierFit, Opening, Kept, Arrived, condvars
  <2>3. CASE CondSleep(t) /\ ~GoRelock(t)
    <3>1. /\ at' = [at EXCEPT ![t] = "asleep"] /\ at[t] = "release" /\ "asleep" \in Places
          /\ UNCHANGED <<cond, client, ahead, crossing, due, mine, current>> /\ ~cond.spins
      BY <2>3 DEF CondSleep, Put, wordvars, Places
    <3> QED
      BY <3>1, SleepingRests
  <2> QED
    BY <1>3, <2>1, <2>2, <2>3
<1>4. CASE CondInterrupted(t)
  <2>1. /\ at' = [at EXCEPT ![t] = "relock"] /\ at[t] = "asleep" /\ "relock" \in Places
        /\ UNCHANGED <<cond, client, ahead, crossing, due>> /\ client \in Interrupts
        /\ \A u \in Threads \ {t} : mine'[u] = mine[u] /\ (u \in current' <=> u \in current)
    BY <1>1, <1>4 DEF CondInterrupted, GoRelock, Put, RestTypes, Places
  <2> QED
    BY <2>1, SleepingRests
<1>5. CASE TimeOut(t) \/ Give(t) \/ Take(t) \/ Signal(t) \/ SpinSignal(t)
  <2>1. client = "tokens"
    BY <1>5 DEF TimeOut, Give, Take, Signal, SpinSignal, CondInv, CallsFit
  <2>2. client' = client
    BY <1>5 DEF TimeOut, Give, Take, BeginWait, Signal, Waking, SpinSignal, Advance
  <2> QED
    BY <2>1, <2>2, OtherProgram
<1>6. CASE Post(t)
  <2>1. CASE op[t] # "cross"
    <3>1. client # "barrier"
      <4>1. op[t] # "none" /\ op[t] \in Ops
        BY <1>1, <1>6 DEF Post, Posting, CondInv, CallsFit, SpinPlaces, RestTypes
      <4> QED
        BY <2>1, <4>1 DEF CondInv, CallsFit, Ops
    <3> QED
      BY <1>6, <3>1, OtherProgram DEF Post
  <2>2. CASE op[t] = "cross"
    <3>1. /\ at[t] = "post" /\ client = "barrier"
          /\ UNCHANGED <<cond, client, ahead>>
      BY <1>6, <2>2 DEF Post, Posting, CondInv, CallsFit
    <3>2. CASE SeesWaiter(t)
      <4>1. at' = [at EXCEPT ![t] = "wake"] /\ UNCHANGED <<crossing, due>>
        BY <1>6, <3>2 DEF Post, Put
      <4>2. Opening /\ Opening'
        BY <1>1, <3>1, <4>1 DEF Opening, RestTypes
      <4> QED
        BY <3>1, <4>1, <4>2 DEF CondInv, SleepingFit, CrossingFit, BarrierFit
    <3>3. CASE ~SeesWaiter(t)
      <4>1. at' = [at EXCEPT ![t] = "unlock"] /\ crossing' = 0 /\ due' = due
        BY <1>6, <2>2, <3>3 DEF Post, NextPlace, AfterPost, Put, wordvars
      <4>2. at'[t] = "unlock" /\ \A u \in Threads \ {t} : at'[u] = at[u]
        BY <1>1, <4>1 DEF RestTypes
      <4> QED
        BY <1>1, <3>1, <4>1, <4>2, SleepingOpened DEF RestTypes
    <3> QED
      BY <3>2, <3>3
  <2> QED
    BY <2>1, <2>2
<1>7. CASE Broadcast(t)
  <2>1. CASE op[t] # "cross"
    BY <1>7, <2>1, OtherProgram DEF Broadcast, Waking, CondInv, CallsFit
  <2>2. CASE op[t] = "cross"
    <3>1. PICK awake, moved \in SUBSET Sleepers : Waking(t, awake, moved)
      BY <1>7, WakingIs
    <3>2. /\ at[t] = "wake" /\ client = "barrier" /\ crossing' = 0 /\ due' = due
          /\ UNCHANGED <<cond, client, ahead>>
      BY <2>2, <3>1 DEF Waking, AfterPost, CondInv, CallsFit
    <3>3. at'[t] = "unlock" /\ \A u \in Threads \ {t} : at'[u] \in {at[u], "relock"}
      <4>1. at' = [u \in Threads |-> IF u \in awake \cup moved THEN "relock"
                                     ELSE IF u = t THEN NextPlace(t) ELSE at[u]]
        BY <3>1 DEF Waking
      <4>2. t \notin awake \cup moved /\ NextPlace(t) = "unlock"
        BY <2>2, <3>2 DEF Sleepers, NextPlace
      <4> QED
        BY <4>1, <4>2
    <3> QED
      BY <1>1, <3>2, <3>3, SleepingOpened DEF RestTypes
  <2> QED
    BY <2>1, <2>2
<1>8. CASE SpinBroadcast(t)
  <2>1. CASE op[t] # "cross"
    BY <1>8, <2>1, OtherProgram DEF SpinBroadcast, Advance, CondInv, CallsFit
  <2>2. CASE op[t] = "cross" /\ t \in current
    <3>1. Advance(t, mine[t]) /\ at[t] = "wake" /\ client = "barrier" /\ mine[t] <= due
      BY <1>8, <2>2 DEF SpinBroadcast, CondInv, CallsFit, WaitsFit
    <3>2. /\ at' = [at EXCEPT ![t] = "unlock"] /\ crossing' = 0 /\ due' = due - mine[t]
          /\ UNCHANGED <<cond, client, ahead>>
      BY <2>2, <3>1 DEF Advance, AfterPost, NextPlace, Put
    <3>3. at'[t] = "unlock" /\ \A u \in Threads \ {t} : at'[u] = at[u]
      BY <1>1, <3>2 DEF RestTypes
    <3>4. due' \in Int /\ 0 <= due'
      BY <1>1, <3>1, <3>2 DEF RestTypes
    <3> QED
      BY <3>1, <3>2, <3>3, <3>4, SleepingOpened
  <2>3. CASE op[t] = "cross" /\ t \notin current
    <3>1. at[t] = "wake" /\ UNCHANGED <<due, at, crossing, cond, client, ahead>>
      BY <1>8, <2>3 DEF SpinBroadcast
    <3>2. Opening /\ Opening'
      BY <3>1 DEF Opening
    <3> QED
      BY <3>1, <3>2 DEF CondInv, SleepingFit, CrossingFit, BarrierFit
  <2> QED
    BY <2>1, <2>2, <2>3
<1>9. CASE Cross(t) /\ UNCHANGED spinvars
  BY <1>9, CrossSleeping
<1>10. CASE Crossed(t) \/ Return(t) \/ Enter(t)
  <2>1. /\ at[t] \in {"relock", "unlock", "out"}
        /\ UNCHANGED <<cond, client, ahead, crossing, due, mine, current>>
    BY <1>10 DEF Crossed, Return, Enter, wordvars
  <2>2. \E p \in Places \ {"post", "wake"} : at' = [at EXCEPT ![t] = p]
    BY <1>10 DEF Crossed, Return, Enter, Put, Places
  <2>3. ~Kept(t)
    BY <2>1 DEF Kept
  <2> QED
    BY <2>1, <2>2, <2>3, SleepingRests
<1>11. CASE SpinBarrierStep(t) \/ EnterSpinBarrier(t)
  <2>1. client = "spin_barrier" /\ client' = client
    BY <1>11, SpinBarrierBase DEF SpinBarrierStep, EnterSpinBarrier
  <2> QED
    BY <2>1, OtherProgram
<1> QED
  BY <1>2, <1>3, <1>4, <1>5, <1>6, <1>7, <1>8, <1>9, <1>10, <1>11 DEF WithMutexStep

----------------------------------------------------------------------------
(* The spinning barrier: who has come waits for the sense to turn, and the *)
(* thread that turns it is alone in not waiting.                           *)
LEMMA SpinFitSame ==
  ASSUME CondInv,
         client' # "spin_barrier" \/ UNCHANGED <<client, at, ahead, spinvars>>
  PROVE  SpinFit'
  BY DEF CondInv, SpinFit, Arrived, Turned, spinvars

LEMMA SpinFitKept ==
  ASSUME CondInv, NEW t \in Threads, client = "spin_barrier",
         SpinBarrierStep(t) \/ EnterSpinBarrier(t)
  PROVE  SpinFit'
<1>1. RestTypes /\ SpinTypes
  BY TypesSplit DEF CondInv
<1>2. client' = client
  BY DEF SpinBarrierStep, EnterSpinBarrier
<1>3. Arrived \in SUBSET Threads
  BY DEF Arrived
<1>4. \A u \in Threads :
        /\ ahead[u] \in {0, 1}
        /\ ahead[u] = 1 => at[u] = "await" /\ ~Turned(u)
        /\ at[u] = "count" => ~Turned(u)
        /\ at[u] \in {"reset", "turn"} =>
             /\ ~Turned(u) /\ Arrived = {}
             /\ \A v \in Threads \ {u} : at[v] = "await" /\ ~Turned(v)
  BY DEF CondInv, SpinFit
<1>5. crossed_n = IF \E u \in Threads : at[u] = "reset" THEN 0 ELSE N - Cardinality(Arrived)
  BY DEF CondInv, SpinFit
<1>6. CASE ReadSense(t)
  <2>1. /\ \A u \in Threads \ {t} : at'[u] = at[u] /\ (Turned(u)' <=> Turned(u))
        /\ at'[t] = "count" /\ at[t] = "out"
        /\ UNCHANGED <<crossed_n, sense_global, ahead>>
    BY <1>1, <1>6 DEF ReadSense, Put, Turned, RestTypes, SpinTypes
  <2>2. ~Turned(t)'
    <3>1. sense_local'[t] = ~sense_global /\ sense_global' = sense_global /\ sense_global \in BOOLEAN
      BY <1>1, <1>6 DEF ReadSense, SpinTypes
    <3>2. ~(sense_local'[t] = sense_global')
      BY <3>1, Zenon
    <3> QED
      BY <3>2 DEF Turned
  <2>3. Arrived' = Arrived
    BY <2>1 DEF Arrived
  <2> QED
    BY <1>4, <1>5, <2>1, <2>2, <2>3 DEF SpinFit
<1>7. CASE CountDown(t)
  <2>1. /\ crossed_n = N - Cardinality(Arrived) /\ t \notin Arrived /\ 0 < crossed_n
        /\ \A u \in Threads : at[u] \notin {"reset", "turn"}
    BY <1>7, CountsDown DEF CountDown
  <2>2. /\ crossed_n' = crossed_n - 1 /\ at[t] = "count"
        /\ at'[t] = IF crossed_n = 1 THEN "reset" ELSE "await"
        /\ \A u \in Threads \ {t} : at'[u] = at[u]
        /\ \A u \in Threads : Turned(u)' <=> Turned(u)
    BY <1>1, <1>7 DEF CountDown, Put, Turned, RestTypes
  <2>3. crossed_n = 1 <=> \A u \in Threads \ {t} : u \in Arrived
    BY <1>3, <2>1, CountAll, CountIsNat, Numbers
  <2>4. ahead[t] = 0
    BY <1>4, <2>1 DEF Arrived
  <2>5. ahead' = IF crossed_n = 1 THEN [u \in Threads |-> 0] ELSE [ahead EXCEPT ![t] = 1]
    <3> DEFINE count == [ahead EXCEPT ![t] = @ + 1]
    <3>1. /\ count = [ahead EXCEPT ![t] = 1] /\ count[t] = 1 /\ ahead \in [Threads -> Nat]
          /\ \A u \in Threads \ {t} : count[u] = ahead[u]
      BY <1>1, <2>4 DEF RestTypes
    <3>2. ahead' = IF \A u \in Threads : count[u] > 0
                   THEN [u \in Threads |-> count[u] - 1] ELSE count
      BY <1>7 DEF CountDown, Arrive
    <3> HIDE DEF count
    <3>3. (\A u \in Threads : count[u] > 0) <=> crossed_n = 1
      BY <1>4, <2>3, <3>1 DEF Arrived
    <3>4. crossed_n = 1 => \A u \in Threads : count[u] = 1
      BY <1>4, <2>3, <3>1 DEF Arrived
    <3> QED
      BY <3>1, <3>2, <3>3, <3>4
  <2>6. CASE crossed_n = 1
    <3>1. Arrived' = {} /\ \A u \in Threads : ahead'[u] = 0
      BY <2>5, <2>6 DEF Arrived
    <3>2. \A u \in Threads \ {t} : at[u] = "await" /\ ~Turned(u)
      BY <1>4, <2>3, <2>6 DEF Arrived
    <3>3. crossed_n' = 0 /\ at'[t] = "reset" /\ ~Turned(t)
      BY <1>4, <2>2, <2>6
    <3> QED
      BY <2>2, <3>1, <3>2, <3>3 DEF SpinFit
  <2>7. CASE crossed_n # 1
    <3>1. \A u \in Threads \ {t} : ahead'[u] = ahead[u]
      BY <1>1, <2>5, <2>7 DEF RestTypes
    <3>2. ahead'[t] = 1 /\ at'[t] = "await" /\ ~Turned(t)
      BY <1>1, <1>4, <2>2, <2>5, <2>7 DEF RestTypes
    <3>3. /\ Arrived' \in SUBSET Threads /\ t \in Arrived'
          /\ \A u \in Threads \ {t} : u \in Arrived <=> u \in Arrived'
      BY <3>1, <3>2 DEF Arrived
    <3>4. Cardinality(Arrived') = Cardinality(Arrived) + 1
      BY <1>3, <2>1, <3>3, CountChange, CountIsNat
    <3>5. crossed_n' = N - Cardinality(Arrived')
      BY <1>3, <2>1, <2>2, <3>4, CountIsNat, Numbers
    <3> QED
      BY <1>4, <2>1, <2>2, <3>1, <3>2, <3>5 DEF SpinFit
  <2> QED
    BY <2>6, <2>7
<1>8. CASE ResetCount(t)
  <2>1. /\ crossed_n' = N /\ at[t] = "reset" /\ at'[t] = "turn"
        /\ \A u \in Threads \ {t} : at'[u] = at[u]
        /\ \A u \in Threads : Turned(u)' <=> Turned(u)
        /\ ahead' = ahead
    BY <1>1, <1>8 DEF ResetCount, Put, Turned, RestTypes, N
  <2>2. /\ Arrived = {} /\ Arrived' = {} /\ Cardinality(Arrived') = 0
        /\ \A u \in Threads \ {t} : at[u] = "await" /\ ~Turned(u)
    BY <1>4, <2>1, FS_EmptySet DEF Arrived
  <2> QED
    BY <1>4, <2>1, <2>2, Numbers DEF SpinFit
<1>9. CASE TurnSense(t)
  <2>1. /\ crossed_n' = crossed_n /\ at[t] = "turn" /\ at'[t] = "out"
        /\ \A u \in Threads \ {t} : at'[u] = at[u]
        /\ ahead' = ahead
    BY <1>1, <1>9 DEF TurnSense, Put, RestTypes
  <2>2. /\ Arrived = {} /\ Arrived' = {}
        /\ \A u \in Threads \ {t} : at[u] = "await" /\ ~Turned(u)
    BY <1>4, <2>1 DEF Arrived
  <2>3. \A u \in Threads : ahead[u] = 0
    BY <1>4, <2>2 DEF Arrived
  <2> QED
    BY <1>5, <2>1, <2>2, <2>3 DEF SpinFit
<1>10. CASE AwaitSense(t)
  <2>1. /\ at[t] = "await" /\ at'[t] = "out" /\ Turned(t)
        /\ \A u \in Threads \ {t} : at'[u] = at[u]
        /\ \A u \in Threads : Turned(u)' <=> Turned(u)
        /\ ahead' = ahead /\ crossed_n' = crossed_n
    BY <1>1, <1>10 DEF AwaitSense, Put, Turned, RestTypes, spinvars
  <2>2. Arrived' = Arrived
    BY <2>1 DEF Arrived
  <2> QED
    BY <1>4, <1>5, <2>1, <2>2 DEF SpinFit
<1> QED
  BY <1>6, <1>7, <1>8, <1>9, <1>10 DEF SpinBarrierStep, EnterSpinBarrier

LEMMA SpinningKept ==
  ASSUME CondInv, NEW t \in Threads,
         \/ (WithMutexStep(t) \/ Enter(t) \/ CondInterrupted(t) \/ TimeOut(t))
              /\ UNCHANGED spinvars
         \/ SpinBarrierStep(t) \/ EnterSpinBarrier(t)
  PROVE  SpinFit'
<1>1. CASE client # "spin_barrier"
  <2>1. client' = client
    <3>1. CASE MutexStep(t) \/ RelockSwap(t)
      BY <3>1, MutexKept DEF condvars
    <3>2. CASE ~(MutexStep(t) \/ RelockSwap(t))
      BY <3>2, WakingIs DEF WithMutexStep, CondSleep, CondSpin, Post, SpinSignal,
         SpinBroadcast, Advance, Cross, Crossed, Give, Take, Return, BeginWait, Enter,
         CondInterrupted, TimeOut, SpinBarrierStep, EnterSpinBarrier, Waking
    <3> QED
      BY <3>1, <3>2
  <2> QED
    BY <1>1, <2>1, SpinFitSame
<1>2. CASE client = "spin_barrier" /\ (MutexStep(t) \/ RelockSwap(t)) /\ UNCHANGED spinvars
  BY <1>2, MutexKept, SpinFitSame DEF condvars
<1>3. CASE client = "spin_barrier" /\ (SpinBarrierStep(t) \/ EnterSpinBarrier(t))
  BY <1>3, SpinFitKept
<1>4. CASE /\ client = "spin_barrier"
           /\ ~(MutexStep(t) \/ RelockSwap(t)) /\ ~(SpinBarrierStep(t) \/ EnterSpinBarrier(t))
  <2>1. op[t] = "none" /\ at[t] \in {"out"} \cup SpinPlaces
    BY <1>4 DEF CondInv, CallsFit
  <2>2. FALSE
    BY <1>4, <2>1 DEF WithMutexStep, CondSleep, CondSpin, Post, Posting, SpinSignal,
       SpinBroadcast, Cross, Crossed, Give, Take, Return, Enter, Signal, Broadcast,
       CondInterrupted, TimeOut, SpinPlaces
  <2> QED
    BY <2>2
<1> QED
  BY <1>1, <1>2, <1>3, <1>4

----------------------------------------------------------------------------
(* The tickets of one giver.                                               *)
OneSpins == client = "tokens" /\ cond.spins /\ OneGiver

LEMMA TicketsOther ==
  ASSUME CondInv,
         ~OneSpins' \/ UNCHANGED <<cond, client, at, op, current, due, mine>>
  PROVE  TicketsFit'
  BY DEF CondInv, TicketsFit, OneGiver, OneSpins

(* A signal that is under way is that of the giver.                        *)
LEMMA WakerGives ==
  ASSUME CondInv, client = "tokens", NEW t \in Threads,
         at[t] \in {"wake", "post"} \/ op[t] \in {"signal", "broadcast"}
  PROVE  t \in Givers /\ op[t] \in {"signal", "broadcast"} /\ at[t] \in {"lock", "unlock", "wake"}
<1>1. op[t] \in Ops
  BY TypesSplit DEF CondInv, RestTypes
<1> QED
  BY <1>1 DEF CondInv, CallsFit, Ops, SpinPlaces

(* A step of a thread whose ticket is not due.                             *)
LEMMA TicketsRest ==
  ASSUME CondInv, NEW t \in Threads, NEW p \in Places \ {"release", "wake"},
         at' = [at EXCEPT ![t] = p], at[t] # "wake",
         at[t] = "release" => mine[t] <= 0,
         UNCHANGED <<cond, client, due>>,
         \A u \in Threads \ {t} :
           mine'[u] = mine[u] /\ (u \in current' <=> u \in current) /\ op'[u] = op[u]
  PROVE  TicketsFit'
<1> SUFFICES ASSUME OneSpins PROVE TicketsFit'
  BY TicketsOther DEF OneSpins, OneGiver
<1>1. \A u \in Threads \ {t} : at'[u] = at[u]
  BY TypesSplit DEF CondInv, RestTypes
<1>2. at'[t] = p
  BY TypesSplit DEF CondInv, RestTypes
<1>3. /\ 0 <= due
      /\ \A u \in Threads : at[u] = "release" => mine[u] <= due
      /\ \A u \in Threads : at[u] = "wake" =>
           1 <= due /\ (op[u] = "broadcast" => u \in current /\ 1 <= mine[u])
      /\ \A u, v \in Threads :
           at[u] = "release" /\ at[v] = "release" /\ mine[u] = mine[v] /\ 0 < mine[u] => u = v
  BY DEF CondInv, TicketsFit, OneSpins
<1>4. \A i \in 1 .. due : \E u \in Threads : at[u] = "release" /\ mine[u] = i
  BY DEF CondInv, TicketsFit, OneSpins
<1>5. \A i \in 1 .. due' : \E u \in Threads : at'[u] = "release" /\ mine'[u] = i
  <2> TAKE i \in 1 .. due'
  <2>1. PICK u \in Threads : at[u] = "release" /\ mine[u] = i
    BY <1>4
  <2>2. u # t
    BY <2>1
  <2> QED
    BY <1>1, <2>1, <2>2
<1> QED
  BY <1>1, <1>2, <1>3, <1>5 DEF TicketsFit

(* The head moves on to a ticket that has been taken.                      *)
LEMMA TicketsAdvance ==
  ASSUME CondInv, OneSpins, NEW t \in Threads, at[t] = "wake",
         NEW n \in 1 .. due, Advance(t, n)
  PROVE  TicketsFit'
<1>1. RestTypes /\ Passed \in Int /\ Passed < 0
  <2>1. Givers \in SUBSET Threads
    BY CondAssumption
  <2> QED
    BY <2>1, TypesSplit, CountIsNat, Numbers DEF CondInv, Passed
<1>2. /\ at' = [at EXCEPT ![t] = "out"] /\ due' = due - n
      /\ UNCHANGED <<cond, client>>
  BY WakerGives DEF Advance, NextPlace, Put, OneSpins
<1>3. \A u \in Threads : at'[u] # "wake"
  BY <1>1, <1>2, WakerGives DEF OneSpins, OneGiver, RestTypes
<1>4. \A u \in Threads : at'[u] = "release" <=> at[u] = "release"
  BY <1>1, <1>2 DEF RestTypes
<1>5. \A u \in Threads : at[u] = "release" =>
        mine'[u] = (IF mine[u] - n < Passed THEN Passed ELSE mine[u] - n) /\ mine[u] \in Int
  BY <1>1 DEF Advance, Behind, RestTypes
<1>6. due \in Int /\ 0 <= due'
  BY <1>1, <1>2 DEF RestTypes
<1>7. \A u \in Threads : at[u] = "release" => mine[u] <= due
  BY DEF CondInv, TicketsFit, OneSpins
<1>8. \A u \in Threads : at'[u] = "release" => mine'[u] <= due'
  BY <1>1, <1>2, <1>4, <1>5, <1>6, <1>7
<1>9. ASSUME NEW i \in 1 .. due'
      PROVE  \E u \in Threads : at'[u] = "release" /\ mine'[u] = i
  <2>1. i + n \in 1 .. due
    BY <1>2, <1>6
  <2>2. PICK u \in Threads : at[u] = "release" /\ mine[u] = i + n
    BY <2>1 DEF CondInv, TicketsFit, OneSpins
  <2>3. mine'[u] = i
    BY <1>1, <1>5, <2>2
  <2> QED
    BY <1>4, <2>2, <2>3
<1>10. ASSUME NEW u \in Threads, NEW v \in Threads, at'[u] = "release", at'[v] = "release",
              mine'[u] = mine'[v], 0 < mine'[u]
       PROVE  u = v
  <2>1. mine[u] = mine[v] /\ 0 < mine[u] /\ at[u] = "release" /\ at[v] = "release"
    BY <1>1, <1>4, <1>5, <1>10
  <2> QED
    BY <2>1 DEF CondInv, TicketsFit, OneSpins
<1> QED
  BY <1>3, <1>6, <1>8, <1>9, <1>10 DEF TicketsFit

(* One more waits.                                                         *)
LEMMA TicketsWait ==
  ASSUME CondInv, OneSpins, NEW t \in Threads, Inside(t), BeginWait(t)
  PROVE  TicketsFit'
<1>1. RestTypes
  BY TypesSplit DEF CondInv
<1>2. /\ at' = [at EXCEPT ![t] = "release"] /\ due' = due + 1 /\ mine' = [mine EXCEPT ![t] = due + 1]
      /\ UNCHANGED <<cond, client, op, current>>
  BY DEF BeginWait, Put, OneSpins
<1>3. /\ \A u \in Threads \ {t} : at'[u] = at[u] /\ mine'[u] = mine[u]
      /\ at'[t] = "release" /\ mine'[t] = due + 1 /\ at[t] # "release"
  BY <1>1, <1>2 DEF RestTypes, Inside
<1>4. /\ 0 <= due /\ due \in Int
      /\ \A u \in Threads : at[u] = "release" => mine[u] <= due /\ mine[u] \in Int
      /\ \A u \in Threads : at[u] = "wake" =>
           1 <= due /\ (op[u] = "broadcast" => u \in current /\ 1 <= mine[u])
      /\ \A u, v \in Threads :
           at[u] = "release" /\ at[v] = "release" /\ mine[u] = mine[v] /\ 0 < mine[u] => u = v
  BY <1>1 DEF CondInv, TicketsFit, OneSpins, RestTypes
<1>5. ASSUME NEW i \in 1 .. due'
      PROVE  \E u \in Threads : at'[u] = "release" /\ mine'[u] = i
  <2>1. CASE i = due + 1
    BY <1>3, <2>1
  <2>2. CASE i # due + 1
    <3>1. i \in 1 .. due
      BY <1>2, <1>4, <2>2
    <3>2. PICK u \in Threads : at[u] = "release" /\ mine[u] = i
      BY <3>1 DEF CondInv, TicketsFit, OneSpins
    <3> QED
      BY <1>3, <3>2
  <2> QED
    BY <2>1, <2>2
<1>6. \A u \in Threads : at'[u] = "release" => mine'[u] <= due'
  BY <1>2, <1>3, <1>4
<1>7. \A u \in Threads : at'[u] = "wake" =>
        1 <= due' /\ (op'[u] = "broadcast" => u \in current' /\ 1 <= mine'[u])
  BY <1>2, <1>3, <1>4
<1>8. \A u, v \in Threads :
        at'[u] = "release" /\ at'[v] = "release" /\ mine'[u] = mine'[v] /\ 0 < mine'[u] => u = v
  BY <1>3, <1>4
<1> QED
  BY <1>2, <1>4, <1>5, <1>6, <1>7, <1>8 DEF TicketsFit

LEMMA TicketsKept ==
  ASSUME CondInv, NEW t \in Threads,
         \/ (WithMutexStep(t) \/ Enter(t) \/ CondInterrupted(t) \/ TimeOut(t))
              /\ UNCHANGED spinvars
         \/ SpinBarrierStep(t) \/ EnterSpinBarrier(t)
  PROVE  TicketsFit'
<1>1. RestTypes
  BY TypesSplit DEF CondInv
<1>2. UNCHANGED <<cond, client>>
  <2>1. CASE MutexStep(t) \/ RelockSwap(t)
    BY <2>1, MutexKept DEF condvars
  <2>2. CASE ~(MutexStep(t) \/ RelockSwap(t))
    BY <2>2, WakingIs DEF WithMutexStep, CondSleep, CondSpin, Post, SpinSignal,
       SpinBroadcast, Advance, Cross, Crossed, Give, Take, Return, BeginWait, Enter,
       CondInterrupted, TimeOut, SpinBarrierStep, EnterSpinBarrier, Waking
  <2> QED
    BY <2>1, <2>2
<1> SUFFICES ASSUME OneSpins PROVE TicketsFit'
  BY <1>2, TicketsOther DEF OneSpins, OneGiver
<1>3. client = "tokens" /\ cond.spins
  BY DEF OneSpins
<1>4. CASE MutexStep(t) \/ RelockSwap(t)
  BY <1>4, MutexKept, TicketsOther DEF condvars
<1>5. CASE CondSpin(t)
  <2>1. CASE Reached(t)
    <3>1. /\ at' = [at EXCEPT ![t] = "relock"] /\ at[t] = "release" /\ "relock" \in Places
          /\ UNCHANGED <<due, op>>
          /\ \A u \in Threads \ {t} : mine'[u] = mine[u] /\ (u \in current' <=> u \in current)
      BY <1>1, <1>5, <2>1 DEF CondSpin, GoRelock, Put, RestTypes, Places
    <3>2. mine[t] <= 0
      BY <1>1, <2>1 DEF Reached, RestTypes
    <3> QED
      BY <1>2, <3>1, <3>2, TicketsRest
  <2>2. CASE ~Reached(t)
    BY <1>2, <1>5, <2>2, TicketsOther DEF CondSpin, wordvars
  <2> QED
    BY <2>1, <2>2
<1>6. CASE Post(t)
  <2>1. t \in Givers /\ op[t] \in {"signal", "broadcast"} /\ at[t] = "unlock"
    BY <1>3, <1>6, WakerGives DEF Post, Posting
  <2>2. \A u \in Threads : at[u] = "wake" => u = t
    BY <1>3, <2>1, WakerGives DEF OneSpins, OneGiver
  <2>3. CASE SeesWaiter(t)
    <3>1. /\ at' = [at EXCEPT ![t] = "wake"] /\ UNCHANGED <<due, op>>
          /\ IF op[t] = "signal" THEN UNCHANGED <<current, mine>>
             ELSE current' = current \cup {t} /\ mine' = [mine EXCEPT ![t] = due]
      BY <1>3, <1>6, <2>3 DEF Post, Put
    <3>2. 0 <= due /\ due \in Int /\ due # 0
      BY <1>1, <1>3, <2>1, <2>3 DEF SeesWaiter, CondInv, TicketsFit, OneSpins, RestTypes
    <3>3. /\ \A u \in Threads \ {t} : at'[u] = at[u] /\ mine'[u] = mine[u]
          /\ at'[t] = "wake"
      BY <1>1, <3>1 DEF RestTypes
    <3>4. op[t] = "broadcast" => t \in current' /\ mine'[t] = due
      BY <1>1, <3>1 DEF RestTypes
    <3>5. ASSUME NEW i \in 1 .. due'
          PROVE  \E u \in Threads : at'[u] = "release" /\ mine'[u] = i
      <4>1. PICK u \in Threads : at[u] = "release" /\ mine[u] = i
        BY <3>1 DEF CondInv, TicketsFit, OneSpins
      <4> QED
        BY <2>1, <3>3, <4>1
    <3>6. \A u \in Threads : at'[u] = "wake" =>
            1 <= due' /\ (op'[u] = "broadcast" => u \in current' /\ 1 <= mine'[u])
      BY <2>2, <3>1, <3>2, <3>3, <3>4
    <3>7. \A u \in Threads : at'[u] = "release" => mine'[u] <= due'
      BY <3>1, <3>3 DEF CondInv, TicketsFit, OneSpins
    <3>8. \A u, v \in Threads :
            at'[u] = "release" /\ at'[v] = "release" /\ mine'[u] = mine'[v] /\ 0 < mine'[u] => u = v
      BY <3>3 DEF CondInv, TicketsFit, OneSpins
    <3> QED
      BY <3>1, <3>2, <3>5, <3>6, <3>7, <3>8 DEF TicketsFit
  <2>4. CASE ~SeesWaiter(t)
    <3>1. /\ at' = [at EXCEPT ![t] = "out"] /\ "out" \in Places /\ UNCHANGED <<current, due, mine>>
          /\ op' = [op EXCEPT ![t] = "none"]
      BY <1>6, <2>1, <2>4 DEF Post, Put, NextPlace, AfterPost, wordvars, Places
    <3>2. \A u \in Threads \ {t} : op'[u] = op[u]
      BY <1>1, <3>1 DEF RestTypes
    <3> QED
      BY <1>2, <2>1, <3>1, <3>2, TicketsRest
  <2> QED
    BY <2>3, <2>4
<1>7. CASE SpinSignal(t) \/ SpinBroadcast(t)
  <2>1. /\ at[t] = "wake" /\ 1 <= due /\ due \in Int
        /\ op[t] = "broadcast" => t \in current /\ 1 <= mine[t]
    BY <1>1, <1>7 DEF SpinSignal, SpinBroadcast, CondInv, TicketsFit, OneSpins, RestTypes
  <2>2. CASE SpinSignal(t)
    BY <2>1, <2>2, TicketsAdvance DEF SpinSignal
  <2>3. CASE SpinBroadcast(t)
    <3>1. op[t] = "broadcast"
      BY <1>3, <2>3, WakerGives DEF SpinBroadcast
    <3>2. Advance(t, mine[t]) /\ mine[t] \in 1 .. due
      BY <1>1, <1>3, <2>1, <2>3, <3>1 DEF SpinBroadcast, CondInv, WaitsFit, RestTypes
    <3> QED
      BY <2>1, <3>2, TicketsAdvance
  <2> QED
    BY <1>7, <2>2, <2>3
<1>8. CASE Take(t) /\ BeginWait(t)
  BY <1>8, TicketsWait DEF Take
<1>9. CASE Give(t) \/ (Take(t) /\ ~BeginWait(t)) \/ Return(t) \/ Enter(t)
  <2>1. /\ at[t] \in {"lock", "relock", "unlock", "out"}
        /\ UNCHANGED <<due, current, mine>>
    BY <1>9 DEF Give, Take, Return, Enter, Inside, wordvars
  <2>2. /\ \E p \in {"unlock", "out", "lock"} : at' = [at EXCEPT ![t] = p]
        /\ \A u \in Threads \ {t} : op'[u] = op[u]
    BY <1>1, <1>9 DEF Give, Take, Return, Enter, Put, RestTypes
  <2>3. {"unlock", "out", "lock"} \subseteq Places \ {"release", "wake"}
    BY DEF Places
  <2> QED
    BY <1>2, <2>1, <2>2, <2>3, TicketsRest
<1>10. ~(CondSleep(t) \/ Signal(t) \/ Broadcast(t) \/ CondInterrupted(t) \/ TimeOut(t))
  BY <1>3, WakingIs DEF CondSleep, Waking, CondInterrupted, TimeOut, CondInv, WaitsFit
<1>11. ~(Cross(t) \/ Crossed(t) \/ SpinBarrierStep(t) \/ EnterSpinBarrier(t))
  BY <1>3, SpinBarrierBase DEF Cross, Crossed, CondInv, CallsFit
<1> QED
  BY <1>4, <1>5, <1>6, <1>7, <1>8, <1>9, <1>10, <1>11 DEF WithMutexStep

----------------------------------------------------------------------------
(* The tokens.                                                             *)
Counted == client = "tokens" /\ (cond.spins => OneGiver /\ ~cond.exact)

LEMMA SetsOfThreads ==
  /\ Coming \in SUBSET Threads /\ Signalling \in SUBSET Threads
  /\ Unserved \in SUBSET Threads /\ Late \in SUBSET Threads
  /\ Coming' \in SUBSET Threads /\ Signalling' \in SUBSET Threads
  /\ Unserved' \in SUBSET Threads /\ Late' \in SUBSET Threads
  BY DEF Coming, Signalling, Unserved, Late

LEMMA NumbersOfThreads ==
  /\ Cardinality(Coming) \in Nat /\ Cardinality(Signalling) \in Nat
  /\ Cardinality(Unserved) \in Nat
  /\ Cardinality(Coming') \in Nat /\ Cardinality(Signalling') \in Nat
  /\ Cardinality(Unserved') \in Nat
<1>1. \A S \in SUBSET Threads : Cardinality(S) \in Nat
  BY CountIsNat, Numbers
<1> QED
  BY <1>1, SetsOfThreads

LEMMA WaitersTake ==
  ASSUME CondInv, client = "tokens", NEW t \in Threads,
         at[t] \in {"release", "asleep", "relock"}
  PROVE  op[t] \in {"take", "timedout"}
<1>1. op[t] \in Ops
  BY TypesSplit DEF CondInv, RestTypes
<1> QED
  BY <1>1 DEF CondInv, CallsFit, Ops, SpinPlaces

(* With no token to take nobody is needed.                                 *)
LEMMA NoTokens == ASSUME tokens' = 0 PROVE Covered'
  BY NumbersOfThreads DEF Covered

(* A step of a thread that signals neither before nor after it.            *)
LEMMA OneMoves ==
  ASSUME CondInv, Covered, NEW t \in Threads,
         \A u \in Threads \ {t} :
           /\ at'[u] = at[u] /\ op'[u] = op[u] /\ mine'[u] = mine[u]
           /\ u \in current' <=> u \in current,
         cond' = cond, at[t] # "wake", at'[t] # "wake",
         tokens' \in Nat,
         tokens' - tokens <= (IF t \in Coming' THEN 1 ELSE 0) - (IF t \in Coming THEN 1 ELSE 0),
         tokens' - tokens <= (IF t \in Coming' THEN 1 ELSE 0) - (IF t \in Coming THEN 1 ELSE 0)
                             + (IF t \in Unserved' THEN 1 ELSE 0) - (IF t \in Unserved THEN 1 ELSE 0),
         t \in Late \/ (t \notin Late' /\ (t \in Unserved' => t \in Unserved))
  PROVE  Covered'
<1> DEFINE c == Cardinality(Coming)
           g == Cardinality(Signalling)
           k == Cardinality(Unserved)
           in(S) == IF t \in S THEN 1 ELSE 0
<1>1. Signalling' = Signalling /\ Broadcasting' = Broadcasting /\ t \notin Broadcasting
  BY DEF Signalling, Broadcasting
<1>2. \A u \in Threads \ {t} : u \in Coming <=> u \in Coming'
  BY DEF Coming, Served, Reached
<1>3. \A u \in Threads \ {t} : u \in Unserved <=> u \in Unserved'
  BY DEF Unserved, Reached
<1>4. \A u \in Threads \ {t} : u \in Late <=> u \in Late'
  <2>1. \A u \in Broadcasting : mine'[u] = mine[u]
    BY <1>1 DEF Broadcasting
  <2> QED
    BY <1>1, <2>1 DEF Late
<1>5. /\ Cardinality(Coming') = c + in(Coming') - in(Coming)
      /\ Cardinality(Unserved') = k + in(Unserved') - in(Unserved)
  BY <1>2, <1>3, SetsOfThreads, CountChange
<1>6. tokens \in Nat
  BY TypesSplit, Numbers DEF CondInv, RestTypes
<1>7. CASE Late = {} /\ (Broadcasting # {} \/ k <= g)
  <2>1. Late' = {} /\ (t \in Unserved' => t \in Unserved)
    BY <1>4, <1>7, SetsOfThreads
  <2>2. Cardinality(Unserved') <= k
    BY <1>5, <2>1, NumbersOfThreads
  <2> QED
    BY <1>1, <1>7, <2>1, <2>2, NumbersOfThreads DEF Covered
<1>8. CASE tokens <= c + g /\ tokens <= c + k
  <2>1. in(Coming) \in Int /\ in(Coming') \in Int /\ in(Unserved) \in Int /\ in(Unserved') \in Int
    OBVIOUS
  <2>2. c \in Nat /\ g \in Nat /\ k \in Nat /\ Cardinality(Signalling') = g
    BY <1>1, NumbersOfThreads
  <2>3. /\ tokens' - tokens <= in(Coming') - in(Coming)
        /\ tokens' - tokens <= in(Coming') - in(Coming) + in(Unserved') - in(Unserved)
    OBVIOUS
  <2> HIDE DEF c, g, k, in
  <2>4. /\ tokens' <= Cardinality(Coming') + Cardinality(Signalling')
        /\ tokens' <= Cardinality(Coming') + Cardinality(Unserved')
    BY <1>5, <1>6, <1>8, <2>1, <2>2, <2>3
  <2> QED
    BY <2>4 DEF Covered
<1> QED
  BY <1>7, <1>8 DEF Covered

(* A thread goes to lock the mutex after its wait, however that has ended. *)
LEMMA RelockCovered ==
  ASSUME CondInv, Counted, NEW t \in Threads, GoRelock(t), at[t] \in {"release", "asleep"},
         cond.spins => Reached(t),
         op' \in {op, [op EXCEPT ![t] = "timedout"]}, UNCHANGED <<cond, tokens>>
  PROVE  Covered'
<1>1. RestTypes
  BY TypesSplit DEF CondInv
<1>2. /\ at'[t] = "relock" /\ op'[t] \in {"take", "timedout"}
      /\ \A u \in Threads \ {t} :
           /\ at'[u] = at[u] /\ op'[u] = op[u] /\ mine'[u] = mine[u]
           /\ u \in current' <=> u \in current
  BY <1>1, WaitersTake DEF GoRelock, Put, RestTypes, Counted
<1>3. t \in Coming' /\ t \notin Unserved' /\ t \notin Late'
  BY <1>2 DEF Coming, Unserved, Late
<1>4. ~(t \in Coming /\ t \in Unserved)
  BY DEF Coming, Unserved, Served
<1>5. Covered /\ tokens \in Nat
  BY <1>1, Numbers DEF CondInv, TokensFit, Counted, RestTypes
<1> QED
  BY <1>2, <1>3, <1>4, <1>5, OneMoves

LEMMA SleepCovered ==
  ASSUME CondInv, Counted, NEW t \in Threads, CondSleep(t) \/ CondSpin(t)
  PROVE  Covered'
<1>1. RestTypes /\ Covered
  BY TypesSplit DEF CondInv, TokensFit, Counted
<1>2. CASE GoRelock(t)
  <2>1. cond.spins => Reached(t)
    <3>1. CASE CondSpin(t)
      <4>1. ~Reached(t) => UNCHANGED at
        BY <3>1 DEF CondSpin
      <4>2. at' = [at EXCEPT ![t] = "relock"] /\ at[t] = "release"
        BY <1>2, <3>1 DEF GoRelock, Put, CondSpin
      <4> QED
        BY <1>1, <4>1, <4>2 DEF RestTypes
    <3> QED
      BY <3>1 DEF CondSleep
  <2> QED
    BY <1>2, <2>1, RelockCovered DEF CondSleep, CondSpin
<1>3. CASE CondSpin(t) /\ ~GoRelock(t)
  <2>1. UNCHANGED <<cond, at, op, mine, current, tokens>>
    BY <1>3 DEF CondSpin, wordvars
  <2> QED
    BY <1>1, <2>1 DEF Covered, Coming, Signalling, Broadcasting, Late, Unserved, Served, Reached
<1>4. CASE CondSleep(t) /\ ~GoRelock(t)
  <2>1. /\ at' = [at EXCEPT ![t] = "asleep"] /\ at[t] = "release" /\ t \in current /\ ~cond.spins
        /\ UNCHANGED <<cond, op, mine, current, tokens>>
    BY <1>4 DEF CondSleep, Put, wordvars
  <2>2. /\ \A u \in Threads \ {t} : at'[u] = at[u]
        /\ at'[t] = "asleep"
    BY <1>1, <2>1 DEF RestTypes
  <2>3. t \notin Coming /\ t \notin Coming' /\ t \in Unserved' /\ t \notin Unserved /\ t \in Late
    BY <2>1, <2>2 DEF Coming, Unserved, Late, Served
  <2>4. tokens \in Nat
    BY <1>1, Numbers DEF RestTypes
  <2> QED
    BY <1>1, <2>1, <2>2, <2>3, <2>4, OneMoves
<1> QED
  BY <1>2, <1>3, <1>4

(* Threads that come, give, take and leave.                                *)
LEMMA ProgramCovered ==
  ASSUME CondInv, Counted, NEW t \in Threads, Give(t) \/ Take(t) \/ Return(t) \/ Enter(t)
  PROVE  Covered'
<1>1. RestTypes /\ Covered /\ tokens \in Nat
  BY TypesSplit, Numbers DEF CondInv, TokensFit, Counted, RestTypes
<1>2. CASE Take(t) /\ BeginWait(t)
  <2>1. tokens' = 0
    <3>1. tokens = 0 /\ op[t] = "take"
      <4>1. ~(tokens = 0 /\ op[t] = "take") => at' = [at EXCEPT ![t] = "unlock"]
        BY <1>2 DEF Take, Put
      <4>2. at' = [at EXCEPT ![t] = "release"]
        BY <1>2 DEF BeginWait, Put
      <4> QED
        BY <1>1, <4>1, <4>2 DEF RestTypes
    <3> QED
      BY <1>1, <1>2, <3>1 DEF Take
  <2> QED
    BY <2>1, NoTokens
<1>3. ASSUME NEW p \in {"unlock", "out", "lock"}, NEW o \in Ops,
             Give(t) \/ (Take(t) /\ ~BeginWait(t)) \/ Return(t) \/ Enter(t),
             at' = [at EXCEPT ![t] = p], op' = [op EXCEPT ![t] = o]
      PROVE  /\ at'[t] = p /\ op'[t] = o
             /\ \A u \in Threads \ {t} :
                  /\ at'[u] = at[u] /\ op'[u] = op[u] /\ mine'[u] = mine[u]
                  /\ u \in current' <=> u \in current
             /\ cond' = cond /\ at[t] # "wake" /\ at'[t] # "wake"
             /\ t \notin Unserved /\ t \notin Unserved' /\ t \notin Late'
  <2>1. /\ at'[t] = p /\ op'[t] = o
        /\ \A u \in Threads \ {t} : at'[u] = at[u] /\ op'[u] = op[u]
    BY <1>1, <1>3 DEF RestTypes
  <2>2. UNCHANGED <<cond, mine, current>> /\ at[t] \in {"lock", "relock", "unlock", "out"}
    BY <1>3 DEF Give, Take, Return, Enter, Inside, wordvars
  <2> QED
    BY <2>1, <2>2 DEF Unserved, Late
<1>4. CASE Give(t)
  <2>1. /\ op[t] \in {"signal", "broadcast"} /\ at[t] = "lock" /\ op' = [op EXCEPT ![t] = op[t]]
        /\ at' = [at EXCEPT ![t] = "unlock"] /\ tokens' \in {tokens, tokens + 1}
    BY <1>1, <1>4 DEF Give, Put, RestTypes
  <2>2. /\ at'[t] = "unlock" /\ op'[t] = op[t]
        /\ \A u \in Threads \ {t} :
             /\ at'[u] = at[u] /\ op'[u] = op[u] /\ mine'[u] = mine[u]
             /\ u \in current' <=> u \in current
        /\ cond' = cond /\ at[t] # "wake" /\ at'[t] # "wake"
        /\ t \notin Unserved /\ t \notin Unserved' /\ t \notin Late'
    BY <1>3, <1>4, <2>1 DEF Ops
  <2>3. t \in Coming' /\ t \notin Coming
    BY <2>1, <2>2 DEF Coming, Served
  <2> QED
    BY <1>1, <2>1, <2>2, <2>3, OneMoves
<1>5. CASE Take(t) /\ ~BeginWait(t)
  <2>1. /\ op[t] \in {"take", "timedout"} /\ at[t] \in {"lock", "relock"}
        /\ op' = [op EXCEPT ![t] = op[t]] /\ at' = [at EXCEPT ![t] = "unlock"]
        /\ tokens' = IF tokens > 0 THEN tokens - 1 ELSE 0
    BY <1>1, <1>5 DEF Take, Inside, Put, RestTypes
  <2>2. /\ at'[t] = "unlock" /\ op'[t] = op[t]
        /\ \A u \in Threads \ {t} :
             /\ at'[u] = at[u] /\ op'[u] = op[u] /\ mine'[u] = mine[u]
             /\ u \in current' <=> u \in current
        /\ cond' = cond /\ at[t] # "wake" /\ at'[t] # "wake"
        /\ t \notin Unserved /\ t \notin Unserved' /\ t \notin Late'
    BY <1>3, <1>5, <2>1 DEF Ops
  <2>3. t \in Coming /\ t \notin Coming'
    BY <2>1, <2>2 DEF Coming, Served
  <2>4. CASE tokens > 0
    BY <1>1, <2>1, <2>2, <2>3, <2>4, OneMoves
  <2>5. CASE ~(tokens > 0)
    BY <2>1, <2>5, NoTokens
  <2> QED
    BY <2>4, <2>5
<1>6. CASE Return(t)
  <2>1. /\ op[t] \in {"cross", "take", "timedout"} /\ at[t] = "unlock"
        /\ op' = [op EXCEPT ![t] = "none"] /\ at' = [at EXCEPT ![t] = "out"] /\ tokens' = tokens
    BY <1>6 DEF Return, Put
  <2>2. /\ at'[t] = "out" /\ op'[t] = "none"
        /\ \A u \in Threads \ {t} :
             /\ at'[u] = at[u] /\ op'[u] = op[u] /\ mine'[u] = mine[u]
             /\ u \in current' <=> u \in current
        /\ cond' = cond /\ at[t] # "wake" /\ at'[t] # "wake"
        /\ t \notin Unserved /\ t \notin Unserved' /\ t \notin Late'
    BY <1>3, <1>6, <2>1 DEF Ops
  <2>3. t \notin Coming /\ t \notin Coming'
    BY <2>1, <2>2 DEF Coming, Served
  <2> QED
    BY <1>1, <2>1, <2>2, <2>3, OneMoves
<1>7. CASE Enter(t)
  <2>1. PICK o \in Operations(t) : op' = [op EXCEPT ![t] = o]
    BY <1>7 DEF Enter
  <2>2. at[t] = "out" /\ at' = [at EXCEPT ![t] = "lock"] /\ tokens' = tokens /\ o \in Ops
    BY <1>7 DEF Enter, Put, Operations, Ops
  <2>3. /\ at'[t] = "lock" /\ op'[t] = o
        /\ \A u \in Threads \ {t} :
             /\ at'[u] = at[u] /\ op'[u] = op[u] /\ mine'[u] = mine[u]
             /\ u \in current' <=> u \in current
        /\ cond' = cond /\ at[t] # "wake" /\ at'[t] # "wake"
        /\ t \notin Unserved /\ t \notin Unserved' /\ t \notin Late'
    BY <1>3, <1>7, <2>1, <2>2
  <2>4. t \notin Coming
    BY <2>2 DEF Coming, Served
  <2> QED
    BY <1>1, <2>2, <2>3, <2>4, OneMoves
<1> QED
  BY <1>2, <1>4, <1>5, <1>6, <1>7

(* A set of threads without one of them.                                   *)
LEMMA CountBut ==
  ASSUME NEW S \in SUBSET Threads, NEW t \in Threads
  PROVE  Cardinality(S \ {t}) = Cardinality(S) - (IF t \in S THEN 1 ELSE 0)
<1> DEFINE R == S \ {t}
<1>1. R \in SUBSET Threads /\ t \notin R /\ \A u \in Threads \ {t} : u \in S <=> u \in R
  OBVIOUS
<1> HIDE DEF R
<1>2. Cardinality(R) = Cardinality(S) + 0 - (IF t \in S THEN 1 ELSE 0)
  BY <1>1, CountChange
<1>3. Cardinality(S) \in Int
  BY CountIsNat, Numbers
<1> QED
  BY <1>2, <1>3 DEF R

(* Two sets of threads that have none in common.                           *)
LEMMA CountBoth ==
  ASSUME NEW S \in SUBSET Threads, NEW R \in SUBSET Threads, S \cap R = {}
  PROVE  Cardinality(S \cup R) = Cardinality(S) + Cardinality(R)
<1>1. IsFiniteSet(S) /\ IsFiniteSet(R) /\ Cardinality(S) \in Nat /\ Cardinality(R) \in Nat
  BY Numbers, CountIsNat, FS_Subset
<1>2. Cardinality(S \cup R) = Cardinality(S) + Cardinality(R) - Cardinality(S \cap R)
  BY <1>1, FS_Union
<1>3. Cardinality(S \cap R) = 0
  BY FS_EmptySet
<1> QED
  BY <1>1, <1>2, <1>3

(* A signal begins: if the waiters are more than the signals, those for    *)
(* whom a thread comes do not count it any more, but the signal does.      *)
LEMMA PostCovered ==
  ASSUME CondInv, Counted, NEW t \in Threads, Post(t)
  PROVE  Covered'
<1>1. RestTypes /\ Covered /\ tokens \in Nat /\ bound \in BOOLEAN /\ client = "tokens"
  BY TypesSplit, Numbers DEF CondInv, TokensFit, Counted, RestTypes
<1>2. /\ t \in Givers /\ op[t] \in {"signal", "broadcast"} /\ at[t] = "unlock"
      /\ UNCHANGED <<cond, tokens>>
  BY <1>1, WakerGives DEF Post, Posting
<1>3. cond.spins => /\ \A u \in Threads : at[u] # "wake"
                    /\ 0 <= due
                    /\ \A u \in Threads : at[u] = "release" => mine[u] <= due
  BY <1>1, <1>2, WakerGives DEF Counted, OneGiver, CondInv, TicketsFit
<1>4. CASE ~SeesWaiter(t)
  <2>1. at' = [at EXCEPT ![t] = "out"] /\ UNCHANGED <<current, due, mine>>
    BY <1>2, <1>4 DEF Post, Put, NextPlace, wordvars
  <2>2. \A u \in Threads : at'[u] # "asleep" /\ (at'[u] = "release" => at[u] = "release" /\ u # t)
    <3>1. CASE cond.spins
      BY <1>1, <1>2, <2>1, <3>1 DEF CondInv, WaitsFit, RestTypes
    <3>2. CASE ~cond.spins
      <4>1. bound # TRUE
        BY <1>4, <3>2, Zenon DEF SeesWaiter
      <4> QED
        BY <1>1, <1>2, <2>1, <3>2, <4>1 DEF CondInv, WaitsFit, RestTypes
    <3> QED
      BY <3>1, <3>2
  <2>3. Unserved' = {}
    <3>1. ASSUME cond.spins, NEW u \in Threads, at[u] = "release"
          PROVE  Reached(u)
      <4>1. due = 0
        BY <1>1, <1>2, <1>3, <1>4, <3>1 DEF SeesWaiter, RestTypes
      <4> QED
        BY <1>1, <1>3, <3>1, <4>1 DEF Reached, Counted, RestTypes
    <3>2. \A u \in Threads : Reached(u)' <=> Reached(u)
      BY <1>2, <2>1 DEF Reached
    <3> QED
      BY <1>2, <2>2, <3>1, <3>2 DEF Unserved
  <2>4. Late' = {}
    <3>1. CASE cond.spins
      <4>1. Broadcasting' = {}
        BY <1>1, <1>3, <2>1, <3>1 DEF Broadcasting, RestTypes
      <4> QED
        BY <1>2, <3>1, <4>1 DEF Late
    <3>2. CASE ~cond.spins
      <4>1. bound # TRUE
        BY <1>4, <3>2, Zenon DEF SeesWaiter
      <4> QED
        BY <1>2, <2>2, <3>2, <4>1 DEF Late, CondInv, WaitsFit
    <3> QED
      BY <3>1, <3>2
  <2> QED
    BY <2>3, <2>4, NumbersOfThreads, FS_EmptySet DEF Covered
<1>5. CASE SeesWaiter(t)
  <2>1. at' = [at EXCEPT ![t] = "wake"] /\ UNCHANGED <<op, due>>
    BY <1>5 DEF Post, Put
  <2>2. /\ ~cond.spins => current' = {} /\ mine' = mine
        /\ cond.spins /\ op[t] = "signal" => UNCHANGED <<current, mine>>
        /\ cond.spins /\ op[t] # "signal" => mine' = [mine EXCEPT ![t] = due]
    BY <1>5 DEF Post
  <2>3. /\ at'[t] = "wake"
        /\ \A u \in Threads \ {t} : at'[u] = at[u] /\ mine'[u] = mine[u]
    BY <1>1, <2>1, <2>2 DEF RestTypes
  <2>4. Late' = {}
    <3>1. CASE ~cond.spins
      BY <1>2, <2>2, <3>1 DEF Late
    <3>2. CASE cond.spins /\ op[t] = "signal"
      <4>1. Broadcasting' = {}
        BY <1>3, <2>1, <2>3, <3>2 DEF Broadcasting
      <4> QED
        BY <1>2, <3>2, <4>1 DEF Late
    <3>3. CASE cond.spins /\ op[t] # "signal"
      <4>1. Broadcasting' \subseteq {t} /\ mine'[t] = due
        BY <1>1, <1>3, <2>2, <2>3, <3>3 DEF Broadcasting, RestTypes
      <4>2. \A u \in Threads : at'[u] = "release" => mine'[u] <= due /\ mine'[u] \in Int
        BY <1>1, <1>3, <2>3, <3>3 DEF RestTypes
      <4>3. due \in Int
        BY <1>1 DEF RestTypes
      <4> QED
        BY <1>2, <3>3, <4>1, <4>2, <4>3 DEF Late
    <3> QED
      BY <3>1, <3>2, <3>3
  <2>5. CASE op[t] = "broadcast"
    <3>1. t \in Broadcasting'
      BY <2>1, <2>3, <2>5 DEF Broadcasting
    <3> QED
      BY <2>4, <3>1 DEF Covered
  <2>6. CASE op[t] = "signal"
    <3> DEFINE c == Cardinality(Coming)
               g == Cardinality(Signalling)
               k == Cardinality(Unserved)
    <3>1. mine' = mine
      BY <2>2, <2>6
    <3>2. Unserved' = Unserved
      BY <1>2, <2>3, <3>1 DEF Unserved, Reached
    <3>3. Cardinality(Signalling') = g + 1
      <4>1. /\ t \in Signalling' /\ t \notin Signalling
            /\ \A u \in Threads \ {t} : u \in Signalling <=> u \in Signalling'
        BY <1>2, <2>1, <2>3, <2>6 DEF Signalling
      <4> QED
        BY <4>1, SetsOfThreads, NumbersOfThreads, CountChange
    <3>4. c - 1 <= Cardinality(Coming')
      <4>1. \A u \in Coming : u # t => u \in Coming'
        <5>1. ASSUME NEW u \in Threads \ {t}, Served(u) PROVE Served(u)'
          BY <1>2, <2>2, <2>3, <2>6, <5>1 DEF Served, Reached
        <5> QED
          BY <2>1, <2>3, <5>1 DEF Coming
      <4>2. Cardinality(Coming \ {t}) = c - (IF t \in Coming THEN 1 ELSE 0)
        BY SetsOfThreads, CountBut
      <4>3. Cardinality(Coming \ {t}) <= Cardinality(Coming')
        BY <4>1, SetsOfThreads, CountGrows
      <4> QED
        BY <4>2, <4>3, NumbersOfThreads
    <3>5. Broadcasting # {} => Broadcasting' # {}
      BY <1>2, <2>1, <2>3 DEF Broadcasting
    <3>6. c \in Nat /\ g \in Nat /\ k \in Nat /\ Cardinality(Coming') \in Nat /\ tokens' = tokens
      BY <1>2, NumbersOfThreads
    <3>7. \/ tokens <= c + g /\ tokens <= c + k
          \/ Broadcasting # {} \/ k <= g
      BY <1>1 DEF Covered
    <3> HIDE DEF c, g, k
    <3>8. CASE Broadcasting # {} \/ k <= g + 1
      <4>1. Cardinality(Unserved') = k
        BY <3>2 DEF k
      <4> QED
        BY <2>4, <3>3, <3>5, <3>8, <4>1 DEF Covered
    <3>9. CASE Broadcasting = {} /\ ~(k <= g + 1)
      <4>1. Cardinality(Unserved') = k
        BY <3>2 DEF k
      <4>2. tokens <= c + g /\ ~(k <= g)
        BY <3>6, <3>7, <3>9
      <4>3. tokens' <= Cardinality(Coming') + (g + 1) /\ tokens' <= Cardinality(Coming') + k
        BY <1>1, <3>4, <3>6, <3>9, <4>2
      <4> QED
        BY <3>3, <4>1, <4>3 DEF Covered
    <3> QED
      BY <3>6, <3>8, <3>9
  <2> QED
    BY <1>2, <2>5, <2>6
<1> QED
  BY <1>4, <1>5

(* A signal or broadcast of a futex: whom it wakes is on the way.          *)
LEMMA WakingCovered ==
  ASSUME CondInv, Counted, NEW t \in Threads, Signal(t) \/ Broadcast(t)
  PROVE  Covered'
<1> DEFINE c == Cardinality(Coming)
           g == Cardinality(Signalling)
           k == Cardinality(Unserved)
<1>1. RestTypes /\ Covered /\ tokens \in Nat /\ client = "tokens"
  BY TypesSplit, Numbers DEF CondInv, TokensFit, Counted, RestTypes
<1>2. PICK awake, moved \in SUBSET Sleepers :
        /\ Waking(t, awake, moved)
        /\ op[t] = "signal" => moved = {} /\ (Sleepers # {} => \E u \in Sleepers : awake = {u})
        /\ op[t] # "signal" => awake \cup moved = Sleepers
  BY WakingIs
<1> DEFINE W == awake \cup moved
<1>3. /\ at[t] = "wake" /\ ~cond.spins /\ op[t] \in {"signal", "broadcast"}
      /\ UNCHANGED <<cond, tokens>> /\ current' = current \ W
      /\ op' = [op EXCEPT ![t] = "none"]
  BY <1>1, <1>2, WakerGives DEF Waking, AfterPost
<1>4. W \in SUBSET Threads /\ W \subseteq Sleepers /\ t \notin W
  BY <1>3 DEF Sleepers
<1>5. at' = [u \in Threads |-> IF u \in W THEN "relock" ELSE IF u = t THEN "out" ELSE at[u]]
  <2>1. NextPlace(t) = "out"
    BY <1>3 DEF NextPlace
  <2> QED
    BY <1>2, <2>1 DEF Waking
<1>6. Unserved = Sleepers
  BY <1>3 DEF Unserved, Sleepers
<1>7. \A u \in Threads \ {t} : op'[u] = op[u]
  BY <1>1, <1>3 DEF RestTypes
<1> HIDE DEF W
<1>8. Coming' = Coming \cup W /\ Coming \cap W = {}
  <2>1. \A u \in W : at[u] = "asleep" /\ at'[u] = "relock" /\ op'[u] \in {"take", "timedout"}
    BY <1>1, <1>4, <1>5, <1>7, WaitersTake DEF Sleepers
  <2>2. \A u \in W : u \notin Coming /\ u \in Coming'
    BY <1>4, <2>1 DEF Coming, Served
  <2>3. t \notin Coming /\ t \notin Coming'
    BY <1>3, <1>4, <1>5 DEF Coming, Served
  <2>4. \A u \in Threads \ (W \cup {t}) : at'[u] = at[u] /\ op'[u] = op[u] /\ (u \in current' <=> u \in current)
    BY <1>3, <1>5, <1>7
  <2>5. \A u \in Threads \ (W \cup {t}) : u \in Coming <=> u \in Coming'
    BY <1>3, <2>4 DEF Coming, Served
  <2> QED
    BY <2>2, <2>3, <2>5, SetsOfThreads
<1>9. Unserved' = Unserved \ W
  BY <1>3, <1>4, <1>5, <1>6 DEF Unserved, Sleepers
<1>10. Signalling' = Signalling \ {t} /\ Late' = Late
  <2>1. \A u \in W : at[u] = "asleep"
    BY <1>4 DEF Sleepers
  <2> QED
    BY <1>3, <1>5, <1>7, <2>1 DEF Signalling, Late
<1>11. op[t] = "signal" => Broadcasting' = Broadcasting
  <2>1. \A u \in W : at[u] = "asleep"
    BY <1>4 DEF Sleepers
  <2> QED
    BY <1>3, <1>5, <1>7, <2>1 DEF Broadcasting
<1>12. Cardinality(Coming') = c + Cardinality(W)
  BY <1>4, <1>8, SetsOfThreads, CountBoth
<1>13. c \in Nat /\ g \in Nat /\ k \in Nat /\ Cardinality(Coming') \in Nat
  BY NumbersOfThreads
<1>14. Cardinality(W) \in Nat
  BY <1>4, CountIsNat, Numbers
<1>15. CASE op[t] = "broadcast"
  <2>1. W = Sleepers
    BY <1>2, <1>15 DEF W
  <2>2. Unserved' = {} /\ Cardinality(Unserved') = 0
    BY <1>6, <1>9, <2>1, FS_EmptySet
  <2>3. Cardinality(Signalling') \in Nat /\ Cardinality(Coming') = c + k
    BY <1>6, <1>12, <2>1, NumbersOfThreads
  <2>4. CASE Late = {}
    BY <1>10, <2>2, <2>3, <2>4 DEF Covered
  <2>5. CASE Late # {}
    <3>1. tokens' <= c + k
      BY <1>1, <1>3, <2>5 DEF Covered
    <3> HIDE DEF c, k
    <3> QED
      BY <1>1, <1>3, <1>13, <2>2, <2>3, <3>1 DEF Covered
  <2> QED
    BY <2>4, <2>5
<1>16. CASE op[t] = "signal" /\ Sleepers = {}
  <2>1. W = {} /\ Unserved' = {} /\ k = 0 /\ Cardinality(Unserved') = 0 /\ Cardinality(W) = 0
    BY <1>4, <1>6, <1>9, <1>16, FS_EmptySet
  <2>2. Cardinality(Signalling') \in Nat /\ Cardinality(Coming') = c
    BY <1>12, <1>13, <2>1, NumbersOfThreads
  <2>3. CASE Late = {}
    BY <1>10, <2>1, <2>2, <2>3 DEF Covered
  <2>4. CASE Late # {}
    <3>1. tokens' <= c + k
      BY <1>1, <1>3, <2>4 DEF Covered
    <3> HIDE DEF c, k
    <3> QED
      BY <1>1, <1>3, <1>13, <2>1, <2>2, <3>1 DEF Covered
  <2> QED
    BY <2>3, <2>4
<1>17. CASE op[t] = "signal" /\ Sleepers # {}
  <2>1. PICK u \in Sleepers : W = {u}
    BY <1>2, <1>17 DEF W
  <2>2. u \in Threads /\ u \in Unserved /\ Unserved' = Unserved \ {u}
    BY <1>6, <1>9, <2>1 DEF Sleepers
  <2>3. Cardinality(Unserved') = k - 1
    BY <2>2, SetsOfThreads, CountBut
  <2>4. Cardinality(Signalling') = g - 1
    <3>1. t \in Signalling
      BY <1>3, <1>17 DEF Signalling
    <3> QED
      BY <1>10, <3>1, SetsOfThreads, CountBut
  <2>5. Cardinality(Coming') = c + 1
    <3>1. \A v \in Threads \ {u} : v \in Coming <=> v \in Coming'
      BY <1>8, <2>1
    <3>2. u \in Coming' /\ u \notin Coming
      BY <1>8, <2>1
    <3> QED
      BY <2>2, <3>1, <3>2, <1>13, SetsOfThreads, CountChange
  <2>6. \/ tokens <= c + g /\ tokens <= c + k
        \/ Late = {} /\ (Broadcasting # {} \/ k <= g)
    BY <1>1 DEF Covered
  <2> HIDE DEF c, g, k
  <2>7. CASE tokens <= c + g /\ tokens <= c + k
    <3>1. tokens' <= (c + 1) + (g - 1) /\ tokens' <= (c + 1) + (k - 1)
      BY <1>1, <1>3, <1>13, <2>7
    <3> QED
      BY <2>3, <2>4, <2>5, <3>1 DEF Covered
  <2>8. CASE Late = {} /\ Broadcasting # {}
    BY <1>10, <1>11, <1>17, <2>8 DEF Covered
  <2>9. CASE Late = {} /\ k <= g
    <3>1. k - 1 <= g - 1
      BY <1>13, <2>9
    <3> QED
      BY <1>10, <2>3, <2>4, <2>9, <3>1 DEF Covered
  <2> QED
    BY <2>6, <2>7, <2>8, <2>9
<1> QED
  BY <1>3, <1>15, <1>16, <1>17

(* The head moves on: those whose tickets it passes are on the way.        *)
LEMMA AdvanceCovered ==
  ASSUME CondInv, Counted, cond.spins, NEW t \in Threads, at[t] = "wake",
         NEW n \in 1 .. due, Advance(t, n),
         (op[t] = "signal" /\ n = 1) \/ (op[t] = "broadcast" /\ n = mine[t])
  PROVE  Covered'
<1> DEFINE c == Cardinality(Coming)
           k == Cardinality(Unserved)
           M == {u \in Threads : at[u] = "release" /\ 1 <= mine[u] /\ mine[u] <= n}
<1>1. RestTypes /\ Covered /\ tokens \in Nat /\ client = "tokens" /\ OneSpins /\ ~cond.exact
  BY TypesSplit, Numbers DEF CondInv, TokensFit, Counted, RestTypes, OneSpins
<1>2. Passed \in Int /\ Passed < 0
  <2>1. Givers \in SUBSET Threads
    BY CondAssumption
  <2> QED
    BY <2>1, CountIsNat, Numbers DEF Passed
<1>3. \A u \in Threads : at[u] = "wake" => u = t
  BY <1>1, WakerGives DEF OneSpins, OneGiver
<1>4. /\ at' = [at EXCEPT ![t] = "out"] /\ op' = [op EXCEPT ![t] = "none"]
      /\ UNCHANGED <<cond, tokens>>
      /\ mine' = [u \in Threads |-> IF at[u] = "release" THEN Behind(mine[u], n) ELSE 0]
  BY <1>1, WakerGives DEF Advance, AfterPost, NextPlace, Put
<1>5. /\ \A u \in Threads \ {t} : at'[u] = at[u] /\ op'[u] = op[u]
      /\ at'[t] = "out" /\ op'[t] = "none"
  BY <1>1, <1>4 DEF RestTypes
<1>6. \A u \in Threads : at[u] = "release" => (Reached(u) <=> mine[u] <= 0)
  BY <1>1 DEF Reached, RestTypes
<1>7. \A u \in Threads : at[u] = "release" => (Reached(u)' <=> mine[u] <= n)
  <2>1. ASSUME NEW u \in Threads, at[u] = "release" PROVE Reached(u)' <=> mine[u] <= n
    <3>1. mine'[u] = (IF mine[u] - n < Passed THEN Passed ELSE mine[u] - n) /\ mine[u] \in Int
      BY <1>1, <1>4, <2>1 DEF Behind, RestTypes
    <3>2. mine'[u] <= 0 <=> mine[u] <= n
      BY <1>2, <3>1
    <3>3. mine'[u] \in Int
      BY <1>2, <3>1
    <3> QED
      BY <1>1, <1>4, <3>2, <3>3 DEF Reached
  <2> QED
    BY <2>1
<1>8. M \in SUBSET Threads /\ M \subseteq Unserved /\ M \cap Coming = {}
  <2>1. \A u \in M : u \in Threads /\ at[u] = "release" /\ ~Reached(u)
    <3>1. ASSUME NEW u \in M PROVE ~(mine[u] <= 0) /\ at[u] = "release" /\ u \in Threads
      BY <1>1 DEF RestTypes
    <3> QED
      BY <1>6, <3>1
  <2>2. \A u \in M : op[u] \in {"take", "timedout"}
    BY <1>1, <2>1, WaitersTake
  <2> HIDE DEF M
  <2> QED
    BY <2>1, <2>2 DEF Unserved, Coming, Served
<1>9. Coming' = Coming \cup M
  <2>1. \A u \in Threads : at[u] = "release" => (Reached(u)' <=> Reached(u) \/ u \in M)
    BY <1>1, <1>6, <1>7 DEF RestTypes
  <2>2. \A u \in M : at[u] = "release"
    OBVIOUS
  <2> HIDE DEF M
  <2>3. \A u \in Threads \ {t} : u \in Coming' <=> u \in Coming \/ u \in M
    BY <1>4, <1>5, <2>1, <2>2 DEF Coming, Served
  <2>4. t \notin Coming' /\ t \notin Coming /\ t \notin M
    BY <1>5, <2>2 DEF Coming, Served
  <2> QED
    BY <1>8, <2>3, <2>4, SetsOfThreads
<1>10. Unserved' = Unserved \ M
  <2>1. \A u \in Threads : at[u] = "release" => (~Reached(u)' <=> ~Reached(u) /\ u \notin M)
    BY <1>1, <1>6, <1>7 DEF RestTypes
  <2>2. \A u \in M : at[u] = "release"
    OBVIOUS
  <2> HIDE DEF M
  <2> QED
    BY <1>4, <1>5, <2>1, <2>2 DEF Unserved
<1>11. Signalling' = {} /\ Broadcasting' = {} /\ Late' = {}
  <2>1. \A u \in Threads : at'[u] # "wake"
    BY <1>3, <1>5
  <2> QED
    BY <1>4, <2>1 DEF Signalling, Broadcasting, Late
<1>12. Signalling \subseteq {t} /\ Broadcasting \subseteq {t}
  BY <1>3 DEF Signalling, Broadcasting
<1>13. M \cap Unserved' = {} /\ Unserved = M \cup Unserved'
  BY <1>8, <1>10
<1> DEFINE m == Cardinality(M)
           d == Cardinality(Unserved')
<1>14. Cardinality(Coming') = c + m /\ k = m + d
  <2> HIDE DEF M
  <2> QED
    BY <1>8, <1>9, <1>13, SetsOfThreads, CountBoth
<1>15. c \in Nat /\ k \in Nat /\ m \in Nat /\ d \in Nat /\ Cardinality(Signalling') = 0
  BY <1>8, <1>11, NumbersOfThreads, CountIsNat, Numbers, FS_EmptySet
<1>16. CASE op[t] = "signal" /\ n = 1
  <2>1. m = 1
    <3>1. PICK w \in Threads : at[w] = "release" /\ mine[w] = 1
      BY <1>1, <1>16 DEF CondInv, TicketsFit, OneSpins
    <3>2. \A u \in M : u = w
      BY <1>1, <1>16, <3>1 DEF CondInv, TicketsFit, OneSpins, RestTypes
    <3>3. M = {w}
      BY <1>16, <3>1, <3>2
    <3> QED
      BY <3>3, FS_Singleton
  <2>2. Broadcasting = {} /\ Signalling = {t} /\ Cardinality(Signalling) = 1
    <3>1. Broadcasting = {} /\ Signalling = {t}
      BY <1>12, <1>16 DEF Broadcasting, Signalling
    <3> QED
      BY <3>1, FS_Singleton
  <2>3. (tokens <= c + 1 /\ tokens <= c + k) \/ k <= 1
    BY <1>1, <2>2 DEF Covered
  <2> HIDE DEF c, k, m, M
  <2>4. CASE tokens <= c + 1
    <3>1. tokens' <= Cardinality(Coming') + 0 /\ tokens' <= Cardinality(Coming') + d
      BY <1>1, <1>4, <1>14, <1>15, <2>1, <2>4
    <3> QED
      BY <1>15, <3>1 DEF Covered
  <2>5. CASE k <= 1
    <3>1. d <= 0
      BY <1>14, <1>15, <2>1, <2>5
    <3> QED
      BY <1>11, <1>15, <3>1 DEF Covered
  <2> QED
    BY <2>3, <2>4, <2>5
<1>17. CASE op[t] = "broadcast" /\ n = mine[t]
  <2>1. Signalling = {} /\ Cardinality(Signalling) = 0 /\ t \in Broadcasting
    BY <1>12, <1>17, FS_EmptySet DEF Broadcasting, Signalling
  <2>2. (tokens <= c + 0 /\ tokens <= c + k) \/ Late = {}
    BY <1>1, <2>1 DEF Covered
  <2>3. CASE Late = {}
    <3>1. \A u \in Threads : at[u] = "release" => mine[u] <= n
      BY <1>1, <1>17, <2>1, <2>3 DEF Late, RestTypes
    <3>2. Unserved' = {}
      BY <1>1, <1>4, <1>5, <1>7, <3>1 DEF Unserved, CondInv, WaitsFit
    <3>3. d = 0
      BY <3>2, FS_EmptySet
    <3> QED
      BY <1>11, <1>15, <3>3 DEF Covered
  <2> HIDE DEF c, k, m, M
  <2>4. CASE tokens <= c + 0 /\ tokens <= c + k
    <3>1. tokens' <= Cardinality(Coming') + 0 /\ tokens' <= Cardinality(Coming') + d
      BY <1>1, <1>4, <1>14, <1>15, <2>4
    <3> QED
      BY <1>15, <3>1 DEF Covered
  <2> QED
    BY <2>2, <2>3, <2>4
<1> QED
  BY <1>16, <1>17

LEMMA TokensKept ==
  ASSUME CondInv, NEW t \in Threads,
         \/ (WithMutexStep(t) \/ Enter(t) \/ CondInterrupted(t) \/ TimeOut(t))
              /\ UNCHANGED spinvars
         \/ SpinBarrierStep(t) \/ EnterSpinBarrier(t)
  PROVE  TokensFit'
<1>1. RestTypes
  BY TypesSplit DEF CondInv
<1>2. UNCHANGED <<cond, client>>
  <2>1. CASE MutexStep(t) \/ RelockSwap(t)
    BY <2>1, MutexKept DEF condvars
  <2>2. CASE ~(MutexStep(t) \/ RelockSwap(t))
    BY <2>2, WakingIs DEF WithMutexStep, CondSleep, CondSpin, Post, SpinSignal,
       SpinBroadcast, Advance, Cross, Crossed, Give, Take, Return, BeginWait, Enter,
       CondInterrupted, TimeOut, SpinBarrierStep, EnterSpinBarrier, Waking
  <2> QED
    BY <2>1, <2>2
<1> SUFFICES ASSUME Counted PROVE Covered'
  BY <1>2 DEF TokensFit, Counted, OneGiver
<1>3. client = "tokens"
  BY DEF Counted
<1>4. CASE MutexStep(t) \/ RelockSwap(t)
  <2>1. UNCHANGED condvars
    BY <1>4, MutexKept
  <2>2. Covered
    BY DEF CondInv, TokensFit, Counted
  <2> QED
    BY <2>1, <2>2 DEF condvars, Covered, Coming, Signalling, Broadcasting, Late, Unserved,
                      Served, Reached
<1>5. CASE CondSleep(t) \/ CondSpin(t)
  BY <1>5, SleepCovered
<1>6. CASE CondInterrupted(t)
  <2>1. ~cond.spins
    BY <1>6 DEF CondInterrupted, CondInv, WaitsFit
  <2> QED
    BY <1>2, <1>6, <2>1, RelockCovered DEF CondInterrupted
<1>7. CASE TimeOut(t)
  BY <1>2, <1>7, RelockCovered DEF TimeOut
<1>8. CASE Post(t)
  BY <1>8, PostCovered
<1>9. CASE Signal(t) \/ Broadcast(t)
  BY <1>9, WakingCovered
<1>10. CASE SpinSignal(t) \/ SpinBroadcast(t)
  <2>1. /\ at[t] = "wake" /\ 1 <= due /\ due \in Int /\ cond.spins /\ OneGiver
        /\ op[t] = "broadcast" => t \in current /\ 1 <= mine[t] /\ mine[t] <= due /\ mine[t] \in Int
    BY <1>1, <1>10 DEF SpinSignal, SpinBroadcast, CondInv, TicketsFit, WaitsFit, Counted, RestTypes
  <2>2. CASE SpinSignal(t)
    BY <2>1, <2>2, AdvanceCovered DEF SpinSignal
  <2>3. CASE SpinBroadcast(t)
    <3>1. op[t] = "broadcast"
      BY <1>3, <2>3, WakerGives DEF SpinBroadcast
    <3>2. Advance(t, mine[t]) /\ mine[t] \in 1 .. due
      BY <2>1, <2>3, <3>1 DEF SpinBroadcast
    <3> QED
      BY <2>1, <3>1, <3>2, AdvanceCovered
  <2> QED
    BY <1>10, <2>2, <2>3
<1>11. CASE Give(t) \/ Take(t) \/ Return(t) \/ Enter(t)
  BY <1>11, ProgramCovered
<1>12. ~(Cross(t) \/ Crossed(t) \/ SpinBarrierStep(t) \/ EnterSpinBarrier(t))
  BY <1>3, SpinBarrierBase DEF Cross, Crossed, CondInv, CallsFit
<1> QED
  BY <1>4, <1>5, <1>6, <1>7, <1>8, <1>9, <1>10, <1>11, <1>12 DEF WithMutexStep

----------------------------------------------------------------------------
(* Every step keeps the invariant.                                         *)
LEMMA BaseKept ==
  ASSUME CondInv, NEW t \in Threads,
         \/ (WithMutexStep(t) \/ Enter(t) \/ CondInterrupted(t) \/ TimeOut(t))
              /\ UNCHANGED spinvars
         \/ SpinBarrierStep(t) \/ EnterSpinBarrier(t)
  PROVE  Base'
<1>1. CASE Signal(t) \/ Broadcast(t)
  <2>1. op[t] \in {"cross", "signal", "broadcast"}
    BY <1>1 DEF Signal, Broadcast
  <2>2. PICK awake, moved \in SUBSET Sleepers : Waking(t, awake, moved)
    BY <1>1, WakingIs
  <2>3. CASE UNCHANGED spinvars
    BY <2>1, <2>2, <2>3, WakingBase
  <2>4. CASE SpinBarrierStep(t) \/ EnterSpinBarrier(t)
    BY <2>4, SpinBarrierBase
  <2> QED
    BY <2>3, <2>4
<1> QED
  BY <1>1, MutexBase, SleepBase, EarlyBase, PostBase, SpinPostBase, CrossBase, ProgramBase,
     EnterBase, SpinBarrierBase DEF WithMutexStep

LEMMA Unchanged ==
  ASSUME CondInv, UNCHANGED <<vars, condvars, spinvars>>
  PROVE  CondInv'
<1>1. CondTypeOK'
  BY DEF CondInv, CondTypeOK, TypeOK, vars, condvars, spinvars
<1>2. PlacesFit' /\ CallsFit' /\ MutexFit' /\ WaitsFit'
  BY DEF CondInv, PlacesFit, CallsFit, MutexFit, WaitsFit, MutualExclusion, LockedMeansOwned,
         Owns, vars, condvars
<1>3. CrossingFit' /\ BarrierFit'
  BY DEF CondInv, CrossingFit, BarrierFit, Opening, Arrived, Kept, condvars
<1>4. SpinFit'
  BY DEF CondInv, SpinFit, Arrived, Turned, condvars, spinvars
<1>5. TicketsFit'
  BY DEF CondInv, TicketsFit, OneGiver, condvars
<1>6. TokensFit'
  BY DEF CondInv, TokensFit, OneGiver, Covered, Coming, Signalling, Broadcasting, Late,
         Unserved, Served, Reached, condvars
<1> QED
  BY <1>1, <1>2, <1>3, <1>4, <1>5, <1>6 DEF CondInv

LEMMA StepKeeps == CondInv /\ [CondNext]_<<vars, condvars, spinvars>> => CondInv'
<1> SUFFICES ASSUME CondInv, [CondNext]_<<vars, condvars, spinvars>> PROVE CondInv'
  OBVIOUS
<1>1. CASE CondNext
  <2>1. PICK t \in Threads :
          \/ (WithMutexStep(t) \/ Enter(t) \/ CondInterrupted(t) \/ TimeOut(t))
               /\ UNCHANGED spinvars
          \/ SpinBarrierStep(t) \/ EnterSpinBarrier(t)
    BY <1>1 DEF CondNext, CondStep
  <2> QED
    BY <2>1, BaseKept, SleepingKept, SpinningKept, TicketsKept, TokensKept
    DEF Base, SleepingFit, CondInv
<1>2. CASE UNCHANGED <<vars, condvars, spinvars>>
  BY <1>2, Unchanged
<1> QED
  BY <1>1, <1>2

----------------------------------------------------------------------------
(* Whatever the mutex and the condition variable, the invariant holds: the *)
(* word or the tickets, the mutex and the program agree on who waits.      *)
THEOREM CondInductive == CondSpec => []CondInv
  BY InitHolds, StepKeeps, PTL DEF CondSpec

(* Every variable of the condition variable and of the programs stays in   *)
(* its type: no counter of a barrier passes the number of threads.         *)
THEOREM CondTypeCorrect == CondSpec => []CondTypeOK
  BY CondInductive, PTL DEF CondInv

(* The mutex stays one under the condition variable, which moves waiters   *)
(* to its futex and swaps its word: one thread owns it, and the locked     *)
(* byte tells whether one does.                                            *)
THEOREM MutexStays == CondSpec => [](MutualExclusion /\ LockedMeansOwned)
  BY CondInductive, PTL DEF CondInv, MutexFit

(* No wake-up is lost: while a thread waits and there is a token, somebody *)
(* is on the way to take it or to signal.  A signal that wakes one thread  *)
(* is enough however many waiters and givers there are.                    *)
THEOREM NoWakeUpLost == CondSpec => []NoTokenForgotten
<1>1. CondInv => NoTokenForgotten
  <2> SUFFICES ASSUME CondInv, client = "tokens", tokens > 0, Unserved # {},
                      cond.spins => OneGiver /\ ~cond.exact
               PROVE  \E t \in Threads :
                        \/ at[t] \in {"lock", "relock", "wake"}
                        \/ Served(t)
                        \/ at[t] = "unlock" /\ op[t] \in {"signal", "broadcast"}
    BY DEF NoTokenForgotten
  <2>1. Covered /\ tokens \in Nat
    BY TypesSplit, Numbers DEF CondInv, TokensFit, RestTypes
  <2>2. Cardinality(Unserved) # 0
    BY SetsOfThreads, Numbers, FS_Subset, FS_EmptySet
  <2>3. Coming # {} \/ Signalling # {} \/ Broadcasting # {}
    <3>1. Coming = {} /\ Signalling = {} => Cardinality(Coming) = 0 /\ Cardinality(Signalling) = 0
      BY FS_EmptySet
    <3> QED
      BY <2>1, <2>2, <3>1, NumbersOfThreads DEF Covered
  <2> QED
    BY <2>3 DEF Coming, Signalling, Broadcasting
<1> QED
  BY <1>1, CondInductive, PTL

(* Both barriers hold: no thread leaves before all others have come to it  *)
(* as often.  The sleeping one waits only once, so that no signal handler  *)
(* may interrupt its sleep.                                                *)
THEOREM BarrierIsTight ==
  ASSUME "barrier" \notin Interrupts PROVE CondSpec => []BarrierHolds
<1>1. CondInv => BarrierHolds
  <2> SUFFICES ASSUME CondInv, client # "tokens", NEW t \in Threads, NEW u \in Threads,
                      at[t] \in {"out", "unlock", "count"}
               PROVE  ahead[u] - ahead[t] \in {0, 1}
    BY DEF BarrierHolds
  <2>1. client \in {"barrier", "spin_barrier"}
    BY CondAssumption, TypesSplit DEF CondInv, RestTypes
  <2>2. ahead[u] \in {0, 1} /\ ahead[t] \in {0, 1} /\ (ahead[t] = 1 => at[t] \in {"release", "asleep", "await"})
    BY <2>1 DEF CondInv, BarrierFit, SpinFit, Kept
  <2> QED
    BY <2>2
<1> QED
  BY <1>1, CondInductive, PTL
=============================================================================
