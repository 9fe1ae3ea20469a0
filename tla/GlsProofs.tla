------------------------------ MODULE GlsProofs ------------------------------
(***************************************************************************)
(* Proofs about Gls, for every finite set of threads and every set of      *)
(* addresses, and any number of resizes: one thread makes the table and    *)
(* nobody uses it before it is there, and the owner field names nobody but *)
(* the holder as long as no write of it is overtaken by a resize.  One     *)
(* inductive invariant carries both.                                       *)
(***************************************************************************)
EXTENDS Gls, FiniteSetTheorems, TLAPS

(* Where a thread is that is inside a call of lock or trylock, of unlock,  *)
(* or in gls_init.                                                         *)
Locking == {"put", "acquire", "unset", "unset_busy", "own", "set_owner", "follow",
            "read_owner", "read_waiting"}
Unlocking == {"get", "clear_owner", "free"}
Making == {"create", "publish"}

(* A thread in a call has an address, and a place that fits its call.      *)
CallsFit ==
  \A t \in Threads :
    /\ pc[t] # "idle" => arg[t] \in Addrs
    /\ op[t] = "none" => pc[t] = "idle"
    /\ pc[t] \in Locking => op[t] \in {"lock", "trylock"}
    /\ pc[t] \in Unlocking => op[t] = "unlock"

(* What a walk reads next is there to be read.                             *)
WalksFit ==
  \A t \in Threads :
    /\ pc[t] = "acquire" => waiting[t] = arg[t]
    /\ pc[t] \in {"follow", "read_owner", "read_waiting"} =>
         walk[t].on \in Addrs /\ waiting[t] = arg[t]
    /\ pc[t] = "read_waiting" => walk[t].owner \in Threads

(* The flag initializing lets one thread through, which makes the table;   *)
(* initialized says that the table is there.                               *)
OneMaker ==
  /\ \A t, u \in Threads : pc[t] \in Making /\ pc[u] \in Making => t = u
  /\ \A t \in Threads : pc[t] \in Making => initializing = 1 /\ initialized = 0
  /\ \A t \in Threads : pc[t] = "create" => tables = 0
  /\ \A t \in Threads : pc[t] = "publish" => tables = 1
  /\ initializing = 0 => tables = 0 /\ initialized = 0
  /\ initialized = 1 => tables = 1
  /\ \A t \in Threads : pc[t] \in Locking \cup Unlocking => initialized = 1

(* Who is about to read or write an owner has a table to do so in.         *)
TablesFit ==
  \A t \in Threads : pc[t] \in {"set_owner", "clear_owner", "read_owner"} => hashtable[t] \in Tables

(* The table that is being filled has what has been copied, unless a write *)
(* was overtaken since.                                                    *)
ResizeFit ==
  /\ resize_lock = 0 => copied = {}
  /\ resize_lock = 1 => ht + 1 \in Tables
  /\ \A a \in copied \ overtaken : owner[ht + 1][a] = owner[ht][a]

(* A thread that is done acquiring, or that unlocks, holds the lock; when  *)
(* it frees the lock it has withdrawn itself as the owner, unless that was *)
(* overtaken.                                                              *)
HoldersFit ==
  \A t \in Threads :
    /\ pc[t] \in {"unset", "own", "set_owner"} => holder[arg[t]] = t
    /\ op[t] = "unlock" => holder[arg[t]] = t
    /\ pc[t] = "free" /\ arg[t] \notin overtaken => owner[ht][arg[t]] = Null

IInv ==
  /\ TypeOK /\ CallsFit /\ WalksFit /\ OneMaker /\ TablesFit /\ ResizeFit
  /\ HoldersFit /\ OwnerHolds

----------------------------------------------------------------------------
LEMMA Constants == WalkLimit \in Nat \ {0}
  BY GlsAssumption, FS_CardinalityType

LEMMA InitHolds == Init => IInv
<1> SUFFICES ASSUME Init PROVE IInv
  OBVIOUS
<1> USE GlsAssumption, Constants DEF Init
<1>1. TypeOK
  <2>1. NoWalk \in [on : Addrs \cup {Null}, owner : Threads \cup {Null}, ci : 0 .. WalkLimit]
    BY DEF NoWalk
  <2>2. 1 \in Tables
    BY DEF Tables
  <2> QED
    BY <2>1, <2>2 DEF TypeOK
<1>2. CallsFit /\ WalksFit /\ OneMaker
  BY DEF CallsFit, WalksFit, OneMaker, Locking, Unlocking, Making
<1>3. TablesFit /\ ResizeFit
  BY DEF TablesFit, ResizeFit
<1>4. HoldersFit /\ OwnerHolds
  BY DEF HoldersFit, OwnerHolds, Tables
<1> QED
  BY <1>1, <1>2, <1>3, <1>4 DEF IInv

(* A write of an owner changes one slot of one table.                      *)
LEMMA WriteOneSlot ==
  ASSUME TypeOK, NEW t \in Threads, hashtable[t] \in Tables, arg[t] \in Addrs,
         NEW o \in Threads \cup {Null}, WriteOwner(t, o)
  PROVE  /\ owner' \in [Tables -> [Addrs -> Threads \cup {Null}]]
         /\ \A v \in Tables, a \in Addrs :
              owner'[v][a] = IF v = hashtable[t] /\ a = arg[t] THEN o ELSE owner[v][a]
         /\ overtaken' \in SUBSET Addrs
         /\ hashtable' \in [Threads -> Tables \cup {Null}]
<1> DEFINE w == hashtable[t]
           new == [owner[w] EXCEPT ![arg[t]] = o]
<1>1. new \in [Addrs -> Threads \cup {Null}]
  BY DEF TypeOK
<1>2. owner' = [owner EXCEPT ![w] = new]
  BY DEF WriteOwner
<1>3. owner' \in [Tables -> [Addrs -> Threads \cup {Null}]]
  <2> HIDE DEF new, w
  <2> QED BY <1>1, <1>2 DEF TypeOK
<1>4. ASSUME NEW v \in Tables, NEW a \in Addrs
      PROVE  owner'[v][a] = IF v = w /\ a = arg[t] THEN o ELSE owner[v][a]
  BY <1>2 DEF TypeOK
<1>5. overtaken' \in SUBSET Addrs /\ hashtable' \in [Threads -> Tables \cup {Null}]
  BY DEF WriteOwner, TypeOK
<1> QED
  BY <1>3, <1>4, <1>5

(* Every action writes values of the right type: a walk is given an        *)
(* address and a thread, and the table is made once.                       *)
LEMMA TypeStep ==
  ASSUME IInv, NEW t \in Threads, Call(t) \/ Step(t)
  PROVE  TypeOK'
<1> USE GlsAssumption, Constants DEF IInv, TypeOK, Goto, flags, notes, detector, call
<1>1. CASE Call(t)
  BY <1>1 DEF Call
<1>2. CASE InitOnce(t) \/ InitCas(t) \/ Await(t) \/ Publish(t)
  BY <1>2 DEF InitOnce, InitCas, Await, Publish, Begin
<1>3. CASE Create(t)
  BY <1>3 DEF Create, OneMaker
<1>4. CASE PutType(t) \/ Acquire(t) \/ TryBusy(t)
  <2>1. CASE PutType(t)
    BY <2>1 DEF PutType
  <2>2. CASE Acquire(t)
    BY <2>2 DEF Acquire
  <2>3. CASE TryBusy(t)
    BY <2>3 DEF TryBusy
  <2> QED BY <1>4, <2>1, <2>2, <2>3
<1>5. CASE WaitingUnset(t) \/ Free(t)
  BY <1>5 DEF WaitingUnset, Free, Return
<1>6. CASE SetOwner(t)
  <2>1. WriteOwner(t, t) /\ hashtable[t] \in Tables /\ arg[t] \in Addrs
    BY <1>6 DEF SetOwner, TablesFit, CallsFit
  <2> QED
    BY <1>6, <2>1, WriteOneSlot DEF SetOwner, Return, WriteOwner
<1>7. CASE Get(t)
  <2>1. WriteOwner(t, Null) /\ hashtable[t] \in Tables /\ arg[t] \in Addrs
    BY <1>7 DEF Get, TablesFit, CallsFit
  <2> QED
    BY <1>7, <2>1, WriteOneSlot DEF Get, WriteOwner
<1>8. CASE ReadHt(t)
  BY <1>8 DEF ReadHt
<1>9. CASE Check(t)
  <2> DEFINE w == [on |-> waiting[t], owner |-> Null, ci |-> 1]
  <2>1. w \in [on : Addrs \cup {Null}, owner : Threads \cup {Null}, ci : 0 .. WalkLimit]
    OBVIOUS
  <2>2. walk' = [walk EXCEPT ![t] = w]
    BY <1>9 DEF Check
  <2> HIDE DEF w
  <2> QED BY <1>9, <2>1, <2>2 DEF Check
<1>10. CASE ReadOwner(t)
  <2>1. NoWalk \in [on : Addrs \cup {Null}, owner : Threads \cup {Null}, ci : 0 .. WalkLimit]
    BY DEF NoWalk
  <2>2. owner[hashtable[t]][walk[t].on] \in Threads \cup {Null}
    BY <1>10 DEF ReadOwner, WalksFit, TablesFit
  <2>3. CASE GiveUp(t)
    BY <1>10, <2>1, <2>3 DEF ReadOwner, GiveUp
  <2>4. CASE /\ walk' = [walk EXCEPT ![t].owner = owner[hashtable[t]][walk[t].on]]
             /\ Goto(t, "read_waiting")
             /\ UNCHANGED dd_lock
    <3> DEFINE o == owner[hashtable[t]][walk[t].on]
               W == [on : Addrs \cup {Null}, owner : Threads \cup {Null}, ci : 0 .. WalkLimit]
    <3>1. walk[t] \in W /\ o \in Threads \cup {Null}
      BY <2>2
    <3>2. [walk[t] EXCEPT !.owner = o] \in W
      <4> HIDE DEF o
      <4> QED BY <3>1
    <3>3. walk' = [walk EXCEPT ![t] = [walk[t] EXCEPT !.owner = o]]
      BY <2>4
    <3>4. walk' \in [Threads -> W]
      <4> HIDE DEF o, W
      <4>1. walk \in [Threads -> W]
        BY DEF W
      <4> QED BY <3>2, <3>3, <4>1
    <3>5. /\ pc' = [pc EXCEPT ![t] = "read_waiting"]
          /\ hashtable' = [hashtable EXCEPT ![t] = Null]
          /\ UNCHANGED <<flags, notes, holder, waiting, dd_lock, call, exited>>
      BY <1>10, <2>4 DEF ReadOwner
    <3> HIDE DEF o
    <3> QED BY <3>4, <3>5
  <2> QED BY <1>10, <2>3, <2>4 DEF ReadOwner
<1>11. CASE ReadWaiting(t)
  <2> DEFINE w == waiting[walk[t].owner]
  <2>1. NoWalk \in [on : Addrs \cup {Null}, owner : Threads \cup {Null}, ci : 0 .. WalkLimit]
    BY DEF NoWalk
  <2>2. w \in Addrs \cup {Null}
    BY <1>11 DEF ReadWaiting, WalksFit
  <2>3. CASE ~exited /\ exited' = TRUE /\ UNCHANGED <<dd_lock, walk, pc>>
    BY <1>11, <2>3 DEF ReadWaiting
  <2>4. CASE /\ w # Null /\ walk[t].ci + 1 < WalkLimit
             /\ walk' = [walk EXCEPT ![t].on = w, ![t].ci = walk[t].ci + 1]
             /\ Goto(t, "follow")
             /\ UNCHANGED <<dd_lock, exited>>
    <3> HIDE DEF w
    <3>1. [walk[t] EXCEPT !.on = w, !.ci = walk[t].ci + 1]
            \in [on : Addrs \cup {Null}, owner : Threads \cup {Null}, ci : 0 .. WalkLimit]
      BY <2>2, <2>4
    <3>2. walk' = [walk EXCEPT ![t] = [walk[t] EXCEPT !.on = w, !.ci = walk[t].ci + 1]]
      BY <2>4
    <3> QED BY <1>11, <2>4, <3>1, <3>2 DEF ReadWaiting
  <2>5. CASE GiveUp(t) /\ UNCHANGED exited
    BY <1>11, <2>1, <2>5 DEF ReadWaiting, GiveUp
  <2> QED BY <1>11, <2>3, <2>4, <2>5 DEF ReadWaiting
<1> QED
  BY <1>1, <1>2, <1>3, <1>4, <1>5, <1>6, <1>7, <1>8, <1>9, <1>10, <1>11 DEF Step

(* The call, its address and the table to look in change together with the *)
(* place.                                                                  *)
LEMMA FitStep ==
  ASSUME IInv, NEW t \in Threads, Call(t) \/ Step(t)
  PROVE  CallsFit' /\ WalksFit' /\ TablesFit'
<1> USE GlsAssumption DEF IInv, TypeOK, Goto, CallsFit, WalksFit, TablesFit,
                          Locking, Unlocking, flags, notes, detector, call
<1>1. CASE Call(t)
  BY <1>1 DEF Call
<1>2. CASE InitOnce(t) \/ InitCas(t)
  BY <1>2 DEF InitOnce, InitCas, Begin
<1>3. CASE Await(t) \/ Publish(t)
  BY <1>3 DEF Await, Publish, Begin
<1>4. CASE Create(t) \/ PutType(t) \/ Acquire(t) \/ TryBusy(t)
  BY <1>4 DEF Create, PutType, Acquire, TryBusy
<1>5. CASE WaitingUnset(t) \/ Free(t)
  BY <1>5 DEF WaitingUnset, Free, Return
<1>6. CASE SetOwner(t)
  BY <1>6 DEF SetOwner, WriteOwner, Return
<1>7. CASE Get(t)
  BY <1>7 DEF Get, WriteOwner
<1>8. CASE ReadHt(t)
  BY <1>8 DEF ReadHt
<1>9. CASE Check(t)
  BY <1>9 DEF Check
<1>10. CASE ReadOwner(t)
  <2>1. owner[hashtable[t]][walk[t].on] \in Threads \cup {Null}
    BY <1>10 DEF ReadOwner
  <2> QED BY <1>10, <2>1 DEF ReadOwner, GiveUp
<1>11. CASE ReadWaiting(t)
  <2>1. waiting[walk[t].owner] \in Addrs \cup {Null}
    BY <1>11 DEF ReadWaiting
  <2> QED BY <1>11, <2>1 DEF ReadWaiting, GiveUp
<1> QED
  BY <1>1, <1>2, <1>3, <1>4, <1>5, <1>6, <1>7, <1>8, <1>9, <1>10, <1>11 DEF Step

(* Only the thread that finds initializing at 0 goes on to make the table. *)
LEMMA MakerStep ==
  ASSUME IInv, NEW t \in Threads, Call(t) \/ Step(t)
  PROVE  OneMaker'
<1> USE DEF IInv, TypeOK, Goto, OneMaker, Locking, Unlocking, Making,
            flags, notes, detector, call
<1>1. CASE Call(t)
  BY <1>1 DEF Call
<1>2. CASE InitOnce(t)
  BY <1>2 DEF InitOnce, Begin
<1>3. CASE InitCas(t)
  BY <1>3 DEF InitCas
<1>4. CASE Await(t)
  BY <1>4 DEF Await, Begin
<1>5. CASE Create(t)
  BY <1>5 DEF Create
<1>6. CASE Publish(t)
  BY <1>6 DEF Publish, Begin
<1>7. CASE PutType(t) \/ Acquire(t) \/ TryBusy(t)
  BY <1>7 DEF PutType, Acquire, TryBusy
<1>8. CASE WaitingUnset(t) \/ SetOwner(t) \/ Free(t)
  BY <1>8 DEF WaitingUnset, SetOwner, Free, Return
<1>9. CASE Get(t) \/ ReadHt(t)
  BY <1>9 DEF Get, ReadHt
<1>10. CASE Check(t) \/ ReadOwner(t) \/ ReadWaiting(t)
  BY <1>10 DEF Check, ReadOwner, ReadWaiting, GiveUp
<1> QED
  BY <1>1, <1>2, <1>3, <1>4, <1>5, <1>6, <1>7, <1>8, <1>9, <1>10 DEF Step

(* What the notes of each address have to be, slot by slot.                *)
NotesFit == ResizeFit /\ HoldersFit /\ OwnerHolds

(* An owner is written by the holder.  If the write counts, the slot it    *)
(* goes to is the one in use, and the resize has not copied it yet; if it  *)
(* does not, the address is overtaken and nothing is claimed of it.        *)
LEMMA NoteStep ==
  ASSUME IInv, NEW t \in Threads, NEW o \in {t, Null}, WriteOwner(t, o),
         hashtable[t] \in Tables, arg[t] \in Addrs, holder[arg[t]] = t,
         UNCHANGED holder
  PROVE  /\ ResizeFit' /\ OwnerHolds'
         /\ arg[t] \notin overtaken' => owner'[ht][arg[t]] = o
         /\ \A a \in Addrs \ {arg[t]} :
              /\ a \in overtaken' <=> a \in overtaken
              /\ owner'[ht][a] = owner[ht][a]
<1>1. \A v \in Tables, a \in Addrs :
        owner'[v][a] = IF v = hashtable[t] /\ a = arg[t] THEN o ELSE owner[v][a]
  BY WriteOneSlot DEF IInv
<1>2. ht \in Tables /\ copied \in SUBSET Addrs /\ overtaken \in SUBSET Addrs
  BY DEF IInv, TypeOK
<1>3. ht' = ht /\ resize_lock' = resize_lock /\ copied' = copied
  BY DEF WriteOwner
<1>4. overtaken' = IF hashtable[t] = ht /\ arg[t] \notin copied
                   THEN overtaken \ {arg[t]} ELSE overtaken \cup {arg[t]}
  BY DEF WriteOwner, SlotCounts
<1>5. arg[t] \notin overtaken' => owner'[ht][arg[t]] = o
  BY <1>1, <1>2, <1>4
<1>6. \A a \in Addrs \ {arg[t]} :
        /\ a \in overtaken' <=> a \in overtaken
        /\ owner'[ht][a] = owner[ht][a]
  BY <1>1, <1>2, <1>4
<1>7. ResizeFit'
  <2>1. copied # {} => ht + 1 \in Tables
    BY DEF IInv, TypeOK, ResizeFit
  <2>2. ASSUME NEW a \in copied, a \notin overtaken'
        PROVE  owner'[ht + 1][a] = owner'[ht][a]
    <3>1. a # arg[t]
      BY <1>4, <2>2
    <3>2. owner[ht + 1][a] = owner[ht][a]
      BY <1>6, <2>2, <3>1, <1>2 DEF IInv, ResizeFit
    <3> QED
      BY <1>1, <1>2, <2>1, <2>2, <3>1, <3>2
  <2> QED
    BY <1>3, <2>2 DEF IInv, ResizeFit
<1>8. OwnerHolds'
  BY <1>2, <1>3, <1>5, <1>6 DEF IInv, OwnerHolds
<1> QED
  BY <1>5, <1>6, <1>7, <1>8

(* The lock goes to a thread when nobody holds it, hence when nobody is    *)
(* named as the owner, and is given back by its holder.                    *)
LEMMA HolderStep ==
  ASSUME IInv, NEW t \in Threads, Call(t) \/ Step(t)
  PROVE  NotesFit'
<1> USE GlsAssumption DEF IInv, TypeOK, Goto, CallsFit, HoldersFit, Locking, Unlocking,
                          detector, call
<1>1. CASE Call(t)
  BY <1>1 DEF Call, NotesFit, ResizeFit, OwnerHolds, notes
<1>2. CASE InitOnce(t) \/ InitCas(t) \/ Await(t) \/ Create(t) \/ Publish(t)
  BY <1>2 DEF InitOnce, InitCas, Await, Create, Publish, Begin, NotesFit, ResizeFit, OwnerHolds, notes
<1>3. CASE PutType(t) \/ TryBusy(t)
  BY <1>3 DEF PutType, TryBusy, NotesFit, ResizeFit, OwnerHolds, notes
<1>4. CASE Acquire(t)
  BY <1>4 DEF Acquire, NotesFit, ResizeFit, OwnerHolds, notes
<1>5. CASE WaitingUnset(t)
  BY <1>5 DEF WaitingUnset, Return, NotesFit, ResizeFit, OwnerHolds, notes
<1>6. CASE SetOwner(t)
  <2>1. /\ pc[t] = "set_owner" /\ WriteOwner(t, t) /\ UNCHANGED holder
        /\ pc' = [pc EXCEPT ![t] = "idle"]
        /\ op' = [op EXCEPT ![t] = "none"] /\ arg' = [arg EXCEPT ![t] = Null]
        /\ ht' = ht
    BY <1>6 DEF SetOwner, Return, WriteOwner
  <2>2. arg[t] \in Addrs /\ holder[arg[t]] = t /\ hashtable[t] \in Tables
    BY <2>1 DEF TablesFit
  <2>3. /\ ResizeFit' /\ OwnerHolds'
        /\ \A a \in Addrs \ {arg[t]} :
             /\ a \in overtaken' <=> a \in overtaken
             /\ owner'[ht][a] = owner[ht][a]
    BY <2>1, <2>2, NoteStep
  <2>4. HoldersFit'
    BY <2>1, <2>2, <2>3
  <2> QED
    BY <2>3, <2>4 DEF NotesFit
<1>7. CASE Get(t)
  <2>1. /\ pc[t] = "clear_owner" /\ WriteOwner(t, Null) /\ UNCHANGED <<holder, op, arg>>
        /\ pc' = [pc EXCEPT ![t] = "free"]
        /\ ht' = ht
    BY <1>7 DEF Get, WriteOwner
  <2>2. arg[t] \in Addrs /\ holder[arg[t]] = t /\ hashtable[t] \in Tables
    BY <2>1 DEF TablesFit
  <2>3. /\ ResizeFit' /\ OwnerHolds'
        /\ arg[t] \notin overtaken' => owner'[ht][arg[t]] = Null
        /\ \A a \in Addrs \ {arg[t]} :
             /\ a \in overtaken' <=> a \in overtaken
             /\ owner'[ht][a] = owner[ht][a]
    BY <2>1, <2>2, NoteStep
  <2>4. HoldersFit'
    BY <2>1, <2>2, <2>3
  <2> QED
    BY <2>3, <2>4 DEF NotesFit
<1>8. CASE Free(t)
  BY <1>8 DEF Free, Return, NotesFit, ResizeFit, OwnerHolds, notes
<1>9. CASE ReadHt(t)
  BY <1>9 DEF ReadHt, NotesFit, ResizeFit, OwnerHolds, notes
<1>10. CASE Check(t) \/ ReadOwner(t) \/ ReadWaiting(t)
  BY <1>10 DEF Check, ReadOwner, ReadWaiting, GiveUp, NotesFit, ResizeFit, OwnerHolds, notes
<1> QED
  BY <1>1, <1>2, <1>3, <1>4, <1>5, <1>6, <1>7, <1>8, <1>9, <1>10 DEF Step

(* A resize copies what the table in use has, and replaces it by a table   *)
(* that has the same, but for the addresses overtaken.                     *)
LEMMA ResizeStep ==
  ASSUME IInv, Resize
  PROVE  IInv'
<1> USE GlsAssumption DEF detector, call, flags
<1>1. CASE ResizeBegin
  <2>1. TypeOK' /\ ResizeFit'
    BY <1>1 DEF ResizeBegin, IInv, TypeOK, ResizeFit, Tables
  <2> QED
    BY <1>1, <2>1 DEF ResizeBegin, IInv, CallsFit, WalksFit, OneMaker, TablesFit,
                      HoldersFit, OwnerHolds
<1>2. ASSUME NEW a \in Addrs, CopySlot(a) PROVE IInv'
  <2> DEFINE w == ht + 1
             new == [owner[w] EXCEPT ![a] = owner[ht][a]]
  <2>1. ht \in Tables /\ w \in Tables /\ w # ht
    BY <1>2 DEF CopySlot, IInv, TypeOK, ResizeFit, Tables
  <2>2. new \in [Addrs -> Threads \cup {Null}]
    BY <2>1 DEF IInv, TypeOK
  <2>3. owner' = [owner EXCEPT ![w] = new]
    BY <1>2 DEF CopySlot
  <2>4. owner' \in [Tables -> [Addrs -> Threads \cup {Null}]]
    <3> HIDE DEF new, w
    <3> QED BY <2>2, <2>3 DEF IInv, TypeOK
  <2>5. /\ owner'[ht] = owner[ht]
        /\ owner'[w][a] = owner[ht][a]
        /\ \A b \in Addrs \ {a} : owner'[w][b] = owner[w][b]
    BY <2>1, <2>3 DEF IInv, TypeOK
  <2>6. TypeOK'
    BY <1>2, <2>4 DEF CopySlot, IInv, TypeOK
  <2>7. ResizeFit'
    BY <1>2, <2>1, <2>5 DEF CopySlot, IInv, TypeOK, ResizeFit
  <2>8. HoldersFit' /\ OwnerHolds'
    BY <1>2, <2>5 DEF CopySlot, IInv, HoldersFit, OwnerHolds
  <2> QED
    BY <1>2, <2>6, <2>7, <2>8 DEF CopySlot, IInv, CallsFit, WalksFit, OneMaker, TablesFit
<1>3. CASE ResizeEnd
  <2>1. ht + 1 \in Tables /\ ht' = ht + 1
    BY <1>3 DEF ResizeEnd, IInv, ResizeFit
  <2>2. \A a \in Addrs \ overtaken : owner[ht + 1][a] = owner[ht][a]
    BY <1>3 DEF ResizeEnd, IInv, ResizeFit
  <2>3. TypeOK' /\ ResizeFit'
    BY <1>3, <2>1 DEF ResizeEnd, IInv, TypeOK, ResizeFit
  <2>4. HoldersFit'
    <3>1. \A t \in Threads : pc[t] = "free" => arg[t] \in Addrs
      BY DEF IInv, CallsFit
    <3> QED
      BY <1>3, <2>1, <2>2, <3>1 DEF ResizeEnd, IInv, HoldersFit
  <2>5. OwnerHolds'
    BY <1>3, <2>1, <2>2 DEF ResizeEnd, IInv, OwnerHolds
  <2> QED
    BY <1>3, <2>3, <2>4, <2>5 DEF ResizeEnd, IInv, CallsFit, WalksFit, OneMaker, TablesFit
<1> QED
  BY <1>1, <1>2, <1>3 DEF Resize

LEMMA StepKeeps == IInv /\ [Next]_vars => IInv'
<1> SUFFICES ASSUME IInv, [Next]_vars PROVE IInv'
  OBVIOUS
<1>1. CASE UNCHANGED vars
  BY <1>1 DEF vars, flags, notes, detector, call, IInv, TypeOK, CallsFit, WalksFit, OneMaker,
              TablesFit, ResizeFit, HoldersFit, OwnerHolds
<1>2. ASSUME NEW t \in Threads, Call(t) \/ Step(t) PROVE IInv'
  BY <1>2, TypeStep, FitStep, MakerStep, HolderStep DEF IInv, NotesFit
<1>3. CASE Resize
  BY <1>3, ResizeStep
<1> QED
  BY <1>1, <1>2, <1>3 DEF Next

(* The invariant holds in every reachable state.                           *)
THEOREM Inductive == Spec => []IInv
<1> QED
  BY InitHolds, StepKeeps, PTL DEF Spec

(* Every variable keeps its type; in particular gls_init makes one table,  *)
(* however many threads make their first call at once.                     *)
THEOREM TypeCorrect == Spec => []TypeOK
<1>1. IInv => TypeOK
  BY DEF IInv
<1> QED
  BY <1>1, Inductive, PTL

(* GLS_INIT_ONCE: no thread gets into the table before it is made.         *)
THEOREM InitFirst == Spec => []NoUseBeforeInit
<1>1. IInv => NoUseBeforeInit
  BY DEF IInv, TypeOK, OneMaker, NoUseBeforeInit, Locking, Unlocking
<1> QED
  BY <1>1, Inductive, PTL

(* GLS_DD_SET_OWNER after the lock is taken, clht_lp_get before it is      *)
(* freed, through any number of resizes: the owner that the table in use   *)
(* names is the holder, for every address whose last note was not written  *)
(* into a slot that a resize had copied already.                           *)
THEOREM OwnerIsHolder == Spec => []OwnerHolds
<1>1. IInv => OwnerHolds
  BY DEF IInv
<1> QED
  BY <1>1, Inductive, PTL
=============================================================================
