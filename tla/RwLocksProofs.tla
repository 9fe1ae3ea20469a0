--------------------------- MODULE RwLocksProofs ---------------------------
(***************************************************************************)
(* Proofs about RwLocks, for any finite set of threads.  The word has no   *)
(* room to say who holds the lock; the invariant says what it does say:    *)
(* the byte is set exactly while there is a writer, and the count is that  *)
(* of the readers that have counted themselves.                            *)
(***************************************************************************)
EXTENDS RwLocks, FiniteSetTheorems, TLAPS

Counted == {t \in Threads : pc[t] \in {"reading", "sub", "rwait"}}

(* Of the types of RwLocks, without the bound on nr, which follows from    *)
(* the meaning of the count.                                               *)
Types ==
  /\ variant \in Variants
  /\ nr \in Nat /\ w \in {0, 1}
  /\ pc \in [Threads -> Labels]

ByteIsHonest == w = 1 <=> Writers # {}

CountIsHonest == nr = Cardinality(Counted)

IInv == Types /\ WritersExclude /\ ByteIsHonest /\ CountIsHonest

----------------------------------------------------------------------------
(* The count.                                                              *)

(* Finitely many threads have counted themselves.                         *)
LEMMA CountedFinite == IsFiniteSet(Counted) /\ Cardinality(Counted) \in Nat
<1>1. IsFiniteSet(Threads)
  BY RwAssumption
<1>2. Counted \in SUBSET Threads
  BY DEF Counted
<1>3. IsFiniteSet(Counted)
  BY <1>1, <1>2, FS_Subset
<1> QED
  BY <1>3, FS_CardinalityType

(* A count of zero says that nobody has counted himself.                   *)
LEMMA ZeroMeansNobody == ASSUME CountIsHonest PROVE nr = 0 <=> Counted = {}
  BY CountedFinite, FS_EmptySet DEF CountIsHonest

(* A reader that counts itself.                                            *)
LEMMA CountIn ==
  ASSUME CountIsHonest, NEW t, t \notin Counted, Counted' = Counted \cup {t}, nr' = nr + 1
  PROVE  CountIsHonest'
<1>1. Cardinality(Counted \cup {t}) = Cardinality(Counted) + 1
  BY CountedFinite, FS_AddElement
<1> QED
  BY <1>1 DEF CountIsHonest

(* A reader that takes itself out.                                         *)
LEMMA CountOut ==
  ASSUME CountIsHonest, NEW t \in Counted, Counted' = Counted \ {t}, nr' = nr - 1
  PROVE  CountIsHonest' /\ nr' \in Nat
<1>1. Cardinality(Counted \ {t}) = Cardinality(Counted) - 1
  BY CountedFinite, FS_RemoveElement
<1>2. Cardinality(Counted) \in Nat /\ Cardinality(Counted) # 0
  BY CountedFinite, FS_EmptySet
<1> QED
  BY <1>1, <1>2 DEF CountIsHonest

----------------------------------------------------------------------------
(* Steps that nobody can see in the word, and that make nobody an owner.   *)
LEMMA Quiet ==
  ASSUME IInv, NEW t \in Threads, NEW label \in Labels, Goto(t, label),
         UNCHANGED <<variant, nr, w>>,
         pc[t] \in {"reading", "sub"} <=> label \in {"reading", "sub"},
         pc[t] \in {"writing", "clear"} <=> label \in {"writing", "clear"},
         pc[t] = "rwait" <=> label = "rwait"
  PROVE  IInv'
<1> USE DEF IInv, Types, Goto
<1>1. Readers' = Readers /\ Writers' = Writers /\ Counted' = Counted
  BY DEF Readers, Writers, Counted, Labels
<1>2. Types'
  BY DEF Labels
<1>3. WritersExclude' /\ ByteIsHonest'
  BY <1>1 DEF WritersExclude, ByteIsHonest
<1>4. CountIsHonest'
  BY <1>1 DEF CountIsHonest
<1> QED
  BY <1>2, <1>3, <1>4

(* A reader counts itself, and waits.                                      *)
LEMMA RLockKeeps == ASSUME IInv, NEW t \in Threads, RLock(t) PROVE IInv'
<1> USE DEF IInv, Types, Goto, RLock
<1>1. Readers' = Readers /\ Writers' = Writers
  BY DEF Readers, Writers, Labels
<1>2. t \notin Counted /\ Counted' = Counted \cup {t}
  BY DEF Counted, Labels
<1>3. Types'
  BY DEF Labels
<1>4. CountIsHonest'
  BY <1>2, CountIn
<1> QED
  BY <1>1, <1>3, <1>4 DEF WritersExclude, ByteIsHonest

(* It gets in when the byte says that there is no writer.                  *)
LEMMA RWaitKeeps == ASSUME IInv, NEW t \in Threads, RWait(t) PROVE IInv'
<1> USE DEF IInv, Types, Goto, RWait
<1>1. Writers' = {}
  BY DEF Writers, Labels, ByteIsHonest
<1>2. Counted' = Counted
  BY DEF Counted, Labels
<1>3. Types'
  BY DEF Labels
<1>4. CountIsHonest'
  BY <1>2 DEF CountIsHonest
<1> QED
  BY <1>1, <1>3, <1>4 DEF WritersExclude, ByteIsHonest

(* A tryrlock gets in as the first reader.                                 *)
LEMMA TryRCasKeeps == ASSUME IInv, NEW t \in Threads, TryRCas(t) PROVE IInv'
<1> USE DEF IInv, Types, TryRCas
<1>1. CASE Free
  <2> USE DEF Free, Goto
  <2>1. Writers' = {}
    BY <1>1 DEF Writers, Labels, ByteIsHonest
  <2>2. Counted = {}
    BY <1>1, ZeroMeansNobody
  <2>3. t \notin Counted /\ Counted' = Counted \cup {t} /\ nr' = nr + 1
    BY <1>1, <2>2 DEF Counted, Labels
  <2>4. CountIsHonest'
    BY <2>3, CountIn
  <2>5. Types'
    BY <1>1 DEF Labels
  <2> QED
    BY <1>1, <2>1, <2>4, <2>5 DEF WritersExclude, ByteIsHonest
<1>2. CASE ~Free
  BY <1>2, Quiet DEF Labels
<1> QED
  BY <1>1, <1>2

(* A writer comes in on a free word, which no owner of either kind allows. *)
LEMMA WriterEnters ==
  ASSUME IInv, NEW t \in Threads, pc[t] \notin {"reading", "sub", "rwait"},
         Free, w' = 1, Goto(t, "writing"), UNCHANGED <<variant, nr>>
  PROVE  IInv'
<1> USE DEF IInv, Types, Free, Goto
<1>1. Counted = {} /\ Counted' = {}
  BY ZeroMeansNobody DEF Counted, Labels
<1>2. Writers = {} /\ Writers' = {t}
  BY DEF Writers, Labels, ByteIsHonest
<1>3. Readers' = {}
  BY <1>1 DEF Readers, Counted
<1>4. Types'
  BY DEF Labels
<1>5. CountIsHonest'
  BY <1>1 DEF CountIsHonest
<1> QED
  BY <1>2, <1>3, <1>4, <1>5 DEF WritersExclude, ByteIsHonest

(* The one unlock function takes its caller for what it is.                *)
LEMMA UnlockIsRight ==
  ASSUME IInv, NEW t \in Threads, Unlock(t)
  PROVE  Goto(t, IF pc[t] = "writing" THEN "clear" ELSE "sub")
<1> USE DEF IInv, Types, Unlock
<1>1. CASE pc[t] = "writing"
  <2>1. w # 0
    BY <1>1 DEF ByteIsHonest, Writers
  <2> QED
    BY <1>1, <2>1
<1>2. CASE pc[t] = "reading"
  <2>1. t \in Readers /\ t \in Counted
    BY <1>2 DEF Readers, Counted
  <2>2. Writers = {}
    BY <2>1 DEF WritersExclude
  <2>3. w = 0
    BY <2>2 DEF ByteIsHonest
  <2>4. nr # 0
    BY <2>1, ZeroMeansNobody
  <2>5. nr > 0
    BY <2>4
  <2> QED
    BY <1>2, <2>3, <2>5
<1> QED
  BY <1>1, <1>2

(* The writer clears its byte and nothing else.                            *)
LEMMA UnlockWriterKeeps == ASSUME IInv, NEW t \in Threads, UnlockWriter(t) PROVE IInv'
<1> USE DEF IInv, Types, Goto, UnlockWriter
<1>1. t \in Writers
  BY DEF Writers
<1>2. Writers = {t}
  BY <1>1 DEF WritersExclude
<1>3. Writers' = {}
  BY <1>2 DEF Writers, Labels
<1>4. Counted' = Counted
  BY DEF Counted, Labels
<1>5. Types'
  BY DEF Labels
<1>6. CountIsHonest'
  BY <1>4 DEF CountIsHonest
<1> QED
  BY <1>3, <1>5, <1>6 DEF WritersExclude, ByteIsHonest

(* The reader takes itself out of the count and nobody else.               *)
LEMMA UnlockReaderKeeps == ASSUME IInv, NEW t \in Threads, UnlockReader(t) PROVE IInv'
<1> USE DEF IInv, Types, Goto, UnlockReader
<1>1. t \in Counted /\ Counted' = Counted \ {t}
  BY DEF Counted, Labels
<1>2. CountIsHonest' /\ nr' \in Nat
  BY <1>1, CountOut
<1>3. Types'
  BY <1>2 DEF Labels
<1>4. Writers' = Writers
  BY DEF Writers, Labels
<1>5. t \in Readers
  BY DEF Readers
<1>6. Writers = {}
  BY <1>5 DEF WritersExclude
<1> QED
  BY <1>2, <1>3, <1>4, <1>6 DEF WritersExclude, ByteIsHonest

----------------------------------------------------------------------------
(* The invariant is inductive: one case for each action.                   *)
LEMMA StepKeeps == IInv /\ [Next]_vars => IInv'
<1> SUFFICES ASSUME IInv, [Next]_vars PROVE IInv'
  OBVIOUS
<1>1. CASE UNCHANGED vars
  BY <1>1 DEF IInv, Types, WritersExclude, Readers, Writers, ByteIsHonest,
              CountIsHonest, Counted, vars
<1>2. ASSUME NEW t \in Threads, Call(t) PROVE IInv'
  <2>1. PICK label \in {"rlock", "wlock", "tryrlock", "trywlock"} : Goto(t, label)
    BY <1>2 DEF Call
  <2> QED
    BY <1>2, <2>1, Quiet DEF Call, Labels
<1>3. ASSUME NEW t \in Threads, RLock(t) PROVE IInv'
  BY <1>3, RLockKeeps
<1>4. ASSUME NEW t \in Threads, RWait(t) PROVE IInv'
  BY <1>4, RWaitKeeps
<1>5. ASSUME NEW t \in Threads, WLock(t) PROVE IInv'
  BY <1>5, Quiet DEF WLock, Labels
<1>6. ASSUME NEW t \in Threads, WCas(t) PROVE IInv'
  <2>1. CASE Free
    BY <1>6, <2>1, WriterEnters DEF WCas
  <2>2. CASE ~Free
    BY <1>6, <2>2, Quiet DEF WCas, Labels
  <2> QED
    BY <2>1, <2>2
<1>7. ASSUME NEW t \in Threads, TryRLock(t) PROVE IInv'
  BY <1>7, Quiet DEF TryRLock, Labels
<1>8. ASSUME NEW t \in Threads, TryRCas(t) PROVE IInv'
  BY <1>8, TryRCasKeeps
<1>9. ASSUME NEW t \in Threads, TryWLock(t) PROVE IInv'
  BY <1>9, Quiet DEF TryWLock, Labels
<1>10. ASSUME NEW t \in Threads, TryWCas(t) PROVE IInv'
  <2>1. CASE Free
    BY <1>10, <2>1, WriterEnters DEF TryWCas
  <2>2. CASE ~Free
    BY <1>10, <2>2, Quiet DEF TryWCas, Labels
  <2> QED
    BY <2>1, <2>2
<1>11. ASSUME NEW t \in Threads, Unlock(t) PROVE IInv'
  <2>1. pc[t] \in {"reading", "writing"} /\ UNCHANGED <<variant, nr, w>>
    BY <1>11 DEF Unlock
  <2> QED
    BY <1>11, <2>1, UnlockIsRight, Quiet DEF Labels
<1>12. ASSUME NEW t \in Threads, UnlockWriter(t) PROVE IInv'
  BY <1>12, UnlockWriterKeeps
<1>13. ASSUME NEW t \in Threads, UnlockReader(t) PROVE IInv'
  BY <1>13, UnlockReaderKeeps
<1> QED
  BY <1>1, <1>2, <1>3, <1>4, <1>5, <1>6, <1>7, <1>8, <1>9, <1>10, <1>11, <1>12, <1>13
  DEF Next, Step

(* A new lock is free and nobody is counted.                               *)
LEMMA InitHolds == Init => IInv
<1> SUFFICES ASSUME Init PROVE IInv
  OBVIOUS
<1>1. Counted = {} /\ Readers = {} /\ Writers = {}
  BY DEF Init, Counted, Readers, Writers
<1>2. CountIsHonest
  BY <1>1, FS_EmptySet DEF Init, CountIsHonest
<1> QED
  BY <1>1, <1>2 DEF Init, IInv, Types, Labels, WritersExclude, ByteIsHonest

(* The byte and the count mean what they should, and a writer is alone.    *)
THEOREM Inductive == Spec => []IInv
  BY InitHolds, StepKeeps, PTL DEF Spec

----------------------------------------------------------------------------
(* What follows from it.                                                   *)

(* A writer excludes readers and other writers, for any number of threads. *)
THEOREM Exclusion == Spec => []WritersExclude
<1>1. IInv => WritersExclude
  BY DEF IInv
<1> QED
  BY <1>1, Inductive, PTL

(* The word never forgets a reader and never invents one.                  *)
THEOREM Honesty == Spec => []WordIsHonest
<1>1. Counted = Readers \cup {t \in Threads : pc[t] = "rwait"}
  BY DEF Counted, Readers
<1>2. IInv => WordIsHonest
  BY <1>1 DEF IInv, ByteIsHonest, CountIsHonest, WordIsHonest
<1> QED
  BY <1>2, Inductive, PTL

(* The count never passes the number of threads.                           *)
THEOREM TypeCorrect == Spec => []TypeOK
<1>1. IInv => TypeOK
  <2> SUFFICES ASSUME IInv PROVE TypeOK
    OBVIOUS
  <2>1. Counted \in SUBSET Threads
    BY DEF Counted
  <2>2. Cardinality(Counted) <= Cardinality(Threads) /\ Cardinality(Threads) \in Nat
    BY <2>1, RwAssumption, FS_Subset, FS_CardinalityType
  <2> QED
    BY <2>2 DEF IInv, Types, CountIsHonest, TypeOK
<1> QED
  BY <1>1, Inductive, PTL

(* unlock() is called by readers and writers and always undoes what its    *)
(* caller did.                                                             *)
THEOREM UnlockIsHonest == Spec => UnlockKnowsItsCaller
<1> DEFINE P == \A t \in Threads :
                  /\ pc[t] = "reading" /\ pc'[t] # "reading" => pc'[t] = "sub"
                  /\ pc[t] = "writing" /\ pc'[t] # "writing" => pc'[t] = "clear"
<1>1. IInv /\ [Next]_vars => [P]_vars
  <2> SUFFICES ASSUME IInv, Next, NEW u \in Threads PROVE
                 /\ pc[u] = "reading" /\ pc'[u] # "reading" => pc'[u] = "sub"
                 /\ pc[u] = "writing" /\ pc'[u] # "writing" => pc'[u] = "clear"
    BY DEF P
  <2>1. PICK t \in Threads : Call(t) \/ Step(t)
    BY DEF Next
  <2>2. CASE Unlock(t)
    <3>1. Goto(t, IF pc[t] = "writing" THEN "clear" ELSE "sub")
      BY <2>2, UnlockIsRight
    <3> QED
      BY <3>1, <2>2 DEF Goto, Unlock, IInv, Types
  <2>3. CASE ~Unlock(t)
    BY <2>1, <2>3 DEF Call, Step, RLock, RWait, WLock, WCas, TryRLock, TryRCas,
         TryWLock, TryWCas, UnlockWriter, UnlockReader, Goto, IInv, Types
  <2> QED
    BY <2>2, <2>3
<1>2. [][P]_vars => UnlockKnowsItsCaller
  BY PTL DEF UnlockKnowsItsCaller
<1> QED
  BY <1>1, <1>2, Inductive, PTL DEF Spec
============================================================================
