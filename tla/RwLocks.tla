------------------------------ MODULE RwLocks ------------------------------
(***************************************************************************)
(* The read-write locks: tas_rw_in.h, ttas_rw_in.h and ttas_shared_in.h,   *)
(* which differ in how a writer waits.  The lock word has a count of       *)
(* readers, nr, and a byte, w, that says that there is a writer.  They are *)
(* written one at a time or together, as val.  A reader counts itself      *)
(* before it waits for the writer to leave; a writer comes in only by a    *)
(* compare-and-swap of a word that is free.  One unlock serves both, and   *)
(* tells from the word which of them calls it.                             *)
(***************************************************************************)
EXTENDS Integers, FiniteSets

CONSTANTS
  Threads,      \* the threads that share the lock
  Variants      \* which of the copies are compiled in

ASSUME RwAssumption ==
  /\ IsFiniteSet(Threads)
  /\ Variants \subseteq {"TAS_RW", "TTAS_RW"}

VARIABLES
  variant,      \* the copy in use, fixed at compile time
  nr,           \* lock.rw.nr, the readers that hold the lock or wait for it
  w,            \* lock.rw.w, 1 for 0xFF
  pc            \* where each thread is

vars == <<variant, nr, w, pc>>

Labels == {"idle", "rlock", "rwait", "reading", "wlock", "wcas", "writing",
           "tryrlock", "rcas", "trywlock", "trywcas", "clear", "sub"}

Init ==
  /\ variant \in Variants
  /\ nr = 0 /\ w = 0
  /\ pc = [t \in Threads |-> "idle"]

Goto(t, label) == pc' = [pc EXCEPT ![t] = label]

(* lock.val == FREE.                                                       *)
Free == nr = 0 /\ w = 0

----------------------------------------------------------------------------
Call(t) ==
  /\ pc[t] = "idle"
  /\ \E label \in {"rlock", "wlock", "tryrlock", "trywlock"} : Goto(t, label)
  /\ UNCHANGED <<variant, nr, w>>

(* The reader counts itself, whether there is a writer or not.             *)
RLock(t) ==
  /\ pc[t] = "rlock"
  /\ nr' = nr + 1
  /\ Goto(t, "rwait")
  /\ UNCHANGED <<variant, w>>

(* Broken: does not wait for the writer.                                   *)
RWaitNot(t) ==
  /\ pc[t] = "rwait"
  /\ Goto(t, "reading")
  /\ UNCHANGED <<variant, nr, w>>

RWait(t) ==
  /\ pc[t] = "rwait" /\ w = 0
  /\ Goto(t, "reading")
  /\ UNCHANGED <<variant, nr, w>>

(* TTAS waits until it reads a free word before it tries to swap.          *)
WLock(t) ==
  /\ pc[t] = "wlock"
  /\ variant = "TTAS_RW" => Free
  /\ Goto(t, "wcas")
  /\ UNCHANGED <<variant, nr, w>>

(* Broken: compares the writer byte only.                                  *)
WCasByte(t) ==
  /\ pc[t] = "wcas"
  /\ IF w = 0 THEN w' = 1 /\ Goto(t, "writing")
              ELSE Goto(t, "wlock") /\ UNCHANGED w
  /\ UNCHANGED <<variant, nr>>

WCas(t) ==
  /\ pc[t] = "wcas"
  /\ IF Free THEN w' = 1 /\ Goto(t, "writing")
             ELSE Goto(t, "wlock") /\ UNCHANGED w
  /\ UNCHANGED <<variant, nr>>

----------------------------------------------------------------------------
(* The loop of tryrlock ends when it reads that there is a writer.         *)
TryRLock(t) ==
  /\ pc[t] = "tryrlock"
  /\ Goto(t, IF w = 0 THEN "rcas" ELSE "idle")
  /\ UNCHANGED <<variant, nr, w>>

(* lock_old is val & FREE, which is zero: the compare-and-swap adds the    *)
(* first reader only.  A writer in the word it finds ends the loop; other  *)
(* readers do not, and it goes on until they are gone.                     *)
TryRCas(t) ==
  /\ pc[t] = "rcas"
  /\ IF Free
     THEN nr' = 1 /\ Goto(t, "reading")
     ELSE Goto(t, IF w = 1 THEN "idle" ELSE "tryrlock") /\ UNCHANGED nr
  /\ UNCHANGED <<variant, w>>

TryWLock(t) ==
  /\ pc[t] = "trywlock"
  /\ Goto(t, IF Free THEN "trywcas" ELSE "idle")
  /\ UNCHANGED <<variant, nr, w>>

TryWCas(t) ==
  /\ pc[t] = "trywcas"
  /\ IF Free THEN w' = 1 /\ Goto(t, "writing")
             ELSE Goto(t, "idle") /\ UNCHANGED w
  /\ UNCHANGED <<variant, nr>>

----------------------------------------------------------------------------
(* Broken: takes readers that are counted for the ones that hold the lock. *)
UnlockReadersFirst(t) ==
  /\ pc[t] \in {"reading", "writing"}
  /\ Goto(t, IF nr > 0 THEN "sub" ELSE IF w # 0 THEN "clear" ELSE "idle")
  /\ UNCHANGED <<variant, nr, w>>

(* unlock looks at the writer byte first and at the readers then; with     *)
(* neither, it does nothing.                                               *)
Unlock(t) ==
  /\ pc[t] \in {"reading", "writing"}
  /\ Goto(t, IF w # 0 THEN "clear" ELSE IF nr > 0 THEN "sub" ELSE "idle")
  /\ UNCHANGED <<variant, nr, w>>

(* Broken: frees the whole word, the readers that wait included.           *)
UnlockWord(t) ==
  /\ pc[t] = "clear"
  /\ w' = 0 /\ nr' = 0
  /\ Goto(t, "idle")
  /\ UNCHANGED variant

(* The byte is cleared, and with it goes no reader that waits.             *)
UnlockWriter(t) ==
  /\ pc[t] = "clear"
  /\ w' = 0
  /\ Goto(t, "idle")
  /\ UNCHANGED <<variant, nr>>

UnlockReader(t) ==
  /\ pc[t] = "sub"
  /\ nr' = nr - 1
  /\ Goto(t, "idle")
  /\ UNCHANGED <<variant, w>>

----------------------------------------------------------------------------
Step(t) ==
  \/ RLock(t) \/ RWait(t) \/ WLock(t) \/ WCas(t)
  \/ TryRLock(t) \/ TryRCas(t) \/ TryWLock(t) \/ TryWCas(t)
  \/ Unlock(t) \/ UnlockWriter(t) \/ UnlockReader(t)

Next == \E t \in Threads : Call(t) \/ Step(t)

Spec == Init /\ [][Next]_vars

(* A thread in a call runs, and one that holds the lock gives it back.     *)
FairSpec == Spec /\ \A t \in Threads : WF_vars(Step(t))

----------------------------------------------------------------------------
(* Properties.                                                             *)

TypeOK ==
  /\ variant \in Variants
  /\ nr \in 0 .. Cardinality(Threads) /\ w \in {0, 1}
  /\ pc \in [Threads -> Labels]

Readers == {t \in Threads : pc[t] \in {"reading", "sub"}}
Writers == {t \in Threads : pc[t] \in {"writing", "clear"}}

(* A writer is alone.                                                      *)
WritersExclude ==
  \A t \in Writers : Readers = {} /\ \A u \in Writers : u = t

(* The writer byte is set exactly while there is a writer, and the count   *)
(* is that of the readers that hold the lock and of those that wait for    *)
(* the writer: no unlock takes one too many away.                          *)
WordIsHonest ==
  /\ w = 1 <=> Writers # {}
  /\ nr = Cardinality(Readers \cup {t \in Threads : pc[t] = "rwait"})

(* unlock() is told by the word alone what to undo, and is never wrong:    *)
(* what it finds is what the caller holds.                                 *)
UnlockKnowsItsCaller ==
  [][\A t \in Threads :
       /\ pc[t] = "reading" /\ pc'[t] # "reading" => pc'[t] = "sub"
       /\ pc[t] = "writing" /\ pc'[t] # "writing" => pc'[t] = "clear"]_vars

(* A reader that has counted itself gets in: it waits for one writer at    *)
(* most, and the trywlock calls say busy meanwhile.                        *)
ReadersGetIn ==
  \A t \in Threads : pc[t] \in {"rlock", "rwait"} ~> pc[t] = "reading"
============================================================================
