-------------------------------- MODULE Gls --------------------------------
(***************************************************************************)
(* The lock service of src/gls.c in its deadlock-debugging mode: locks are *)
(* named by addresses and made on first use, in a hash table that the      *)
(* first call creates.  For each address the table notes the owner, for    *)
(* each thread the address it waits for; a thread that spins for long      *)
(* follows these notes, and ends the program with exit(-2) when they lead  *)
(* back to itself.                                                         *)
(*                                                                         *)
(* That the table has one lock for each address, across resizes too, is    *)
(* module Clht; here an address finds its lock at once.  The owner fields  *)
(* are modelled for each table: they are written without the lock of the   *)
(* bucket, so that a resize can copy a field that is about to change, and  *)
(* the note is lost.  The lock is at the level of module Mutex.            *)
(***************************************************************************)
EXTENDS Integers, FiniteSets

CONSTANTS
  Threads,      \* the threads that use the service
  Addrs,        \* the addresses they lock
  Checked,      \* those locked with gls_lock_ttas, _ticket, _mcs or _mutex, whose
                \* waiting loops look for deadlocks; those of gls_lock do not
  Null,         \* no thread, no address, no table
  WalkLimit,    \* GLS_MAX_NUM_THREDS, the length of wait_cycle
  MaxTables     \* bound: the first table and those that resizes make

ASSUME GlsAssumption ==
  /\ Null \notin Threads /\ Null \notin Addrs /\ Checked \subseteq Addrs
  /\ IsFiniteSet(Threads) /\ WalkLimit \in Nat /\ WalkLimit > Cardinality(Threads)
  /\ MaxTables \in Nat \ {0}

Tables == 1 .. MaxTables

VARIABLES
  initialized, initializing,   \* the two flags of gls_init
  tables,       \* how many hash tables gls_init has created
  ht,           \* h->ht, the table in use
  resize_lock,  \* h->resize_lock: table ht + 1 is being filled
  copied,       \* the addresses that bucket_cpy has put into it
  owner,        \* owner[v][a]: the owner field of the slot of a in table v
  overtaken,    \* history: the addresses whose owner was written last into a
                \* slot that a resize had copied already
  holder,       \* holder[a]: the thread that holds the lock of a
  waiting,      \* waiting[t]: h->waiting[t].addr
  dd_lock,      \* the thread that is looking for a deadlock
  walk,         \* walk[t]: wait_on, the owner found last, and ci
  op, arg, pc,  \* the call, its address, and where the thread is in it
  hashtable,    \* hashtable[t]: the table that h->ht was when t read it
  exited        \* exit(-2) was called

flags == <<initialized, initializing, tables>>
notes == <<ht, resize_lock, copied, owner, overtaken>>
detector == <<dd_lock, walk>>
call == <<op, arg>>
vars == <<flags, notes, holder, waiting, detector, call, pc, hashtable, exited>>

NoWalk == [on |-> Null, owner |-> Null, ci |-> 0]

Init ==
  /\ initialized = 0 /\ initializing = 0 /\ tables = 0
  /\ ht = 1 /\ resize_lock = 0 /\ copied = {} /\ overtaken = {}
  /\ owner = [v \in Tables |-> [a \in Addrs |-> Null]]
  /\ holder = [a \in Addrs |-> Null]
  /\ waiting = [t \in Threads |-> Null]
  /\ dd_lock = Null /\ walk = [t \in Threads |-> NoWalk]
  /\ op = [t \in Threads |-> "none"] /\ arg = [t \in Threads |-> Null]
  /\ pc = [t \in Threads |-> "idle"] /\ hashtable = [t \in Threads |-> Null]
  /\ exited = FALSE

(* The thread goes on to a label; the program has not exited.              *)
Goto(t, label) == ~exited /\ pc' = [pc EXCEPT ![t] = label]

----------------------------------------------------------------------------
(* A call: to lock any address, held by the thread itself included, or to  *)
(* unlock one that it holds.                                               *)
Call(t) ==
  /\ pc[t] = "idle"
  /\ \E o \in {"lock", "trylock", "unlock"}, a \in Addrs :
       /\ o = "unlock" => holder[a] = t
       /\ op' = [op EXCEPT ![t] = o] /\ arg' = [arg EXCEPT ![t] = a]
  /\ Goto(t, "once")
  /\ UNCHANGED <<flags, notes, holder, waiting, detector, hashtable, exited>>

Return(t) ==
  /\ Goto(t, "idle")
  /\ op' = [op EXCEPT ![t] = "none"] /\ arg' = [arg EXCEPT ![t] = Null]

Begin(t) == Goto(t, IF op[t] = "unlock" THEN "get" ELSE "put")

(* GLS_INIT_ONCE.                                                          *)
InitOnce(t) ==
  /\ pc[t] = "once"
  /\ IF initialized = 0 THEN Goto(t, "init") ELSE Begin(t)
  /\ UNCHANGED <<flags, notes, holder, waiting, detector, call, hashtable, exited>>

(* Broken: the flag is tested and set in two steps.                        *)
InitFlag(t) ==
  /\ pc[t] = "init"
  /\ Goto(t, IF initialized = 0 THEN "create" ELSE "await")
  /\ initializing' = 1
  /\ UNCHANGED <<initialized, tables, notes, holder, waiting, detector, call,
                 hashtable, exited>>

(* gls_init: one thread creates the table, the others wait for it.         *)
InitCas(t) ==
  /\ pc[t] = "init"
  /\ Goto(t, IF initializing = 0 THEN "create" ELSE "await")
  /\ initializing' = 1
  /\ UNCHANGED <<initialized, tables, notes, holder, waiting, detector, call,
                 hashtable, exited>>

(* Broken: says so before the table is there.                              *)
AwaitNot(t) ==
  /\ pc[t] = "await"
  /\ Begin(t)
  /\ UNCHANGED <<flags, notes, holder, waiting, detector, call, hashtable, exited>>

Await(t) ==
  /\ pc[t] = "await" /\ initialized = 1
  /\ Begin(t)
  /\ UNCHANGED <<flags, notes, holder, waiting, detector, call, hashtable, exited>>

Create(t) ==
  /\ pc[t] = "create"
  /\ tables' = tables + 1
  /\ Goto(t, "publish")
  /\ UNCHANGED <<initialized, initializing, notes, holder, waiting, detector,
                 call, hashtable, exited>>

Publish(t) ==
  /\ pc[t] = "publish"
  /\ initialized' = 1
  /\ Begin(t)
  /\ UNCHANGED <<initializing, tables, notes, holder, waiting, detector, call,
                 hashtable, exited>>

----------------------------------------------------------------------------
(* The owner fields.  Whoever reads or writes one takes the table from     *)
(* h->ht first and gets to the field later: by then the field may have     *)
(* been copied, and the table may no longer be the one in use.             *)
ReadHt(t) ==
  /\ \/ pc[t] = "own"    /\ Goto(t, "set_owner")
     \/ pc[t] = "get"    /\ Goto(t, "clear_owner")
     \/ pc[t] = "follow" /\ Goto(t, "read_owner")
  /\ hashtable' = [hashtable EXCEPT ![t] = ht]
  /\ UNCHANGED <<flags, notes, holder, waiting, detector, call, exited>>

(* The slot is one that is read from now on, or the source of a copy that  *)
(* is still to be made.                                                    *)
SlotCounts(v, a) == v = ht /\ a \notin copied

WriteOwner(t, o) ==
  LET v == hashtable[t]  a == arg[t] IN
  /\ owner' = [owner EXCEPT ![v][a] = o]
  /\ overtaken' = IF SlotCounts(v, a) THEN overtaken \ {a} ELSE overtaken \cup {a}
  /\ hashtable' = [hashtable EXCEPT ![t] = Null]
  /\ UNCHANGED <<ht, resize_lock, copied>>

(* ht_resize_pes, in a thread that puts some other address: one at a time, *)
(* into a new table, which replaces the old one when every slot has been   *)
(* copied.                                                                 *)
ResizeBegin ==
  /\ ~exited /\ initialized = 1
  /\ resize_lock = 0 /\ ht < MaxTables
  /\ resize_lock' = 1
  /\ UNCHANGED <<flags, ht, copied, owner, overtaken, holder, waiting, detector,
                 call, pc, hashtable, exited>>

(* Broken: the new slot starts without an owner, as in the builds that do  *)
(* not debug deadlocks.                                                    *)
CopySlotBare(a) ==
  /\ ~exited /\ resize_lock = 1 /\ a \notin copied
  /\ copied' = copied \cup {a}
  /\ UNCHANGED <<flags, ht, resize_lock, owner, overtaken, holder, waiting,
                 detector, call, pc, hashtable, exited>>

(* bucket_cpy and clht_lp_put_seq, for one slot.  The lock of the bucket   *)
(* keeps other puts away, and nobody who writes an owner.                  *)
CopySlot(a) ==
  /\ ~exited /\ resize_lock = 1 /\ a \notin copied
  /\ copied' = copied \cup {a}
  /\ owner' = [owner EXCEPT ![ht + 1][a] = owner[ht][a]]
  /\ UNCHANGED <<flags, ht, resize_lock, overtaken, holder, waiting, detector,
                 call, pc, hashtable, exited>>

ResizeEnd ==
  /\ ~exited /\ resize_lock = 1 /\ copied = Addrs
  /\ ht' = ht + 1
  /\ resize_lock' = 0 /\ copied' = {}
  /\ UNCHANGED <<flags, owner, overtaken, holder, waiting, detector, call, pc,
                 hashtable, exited>>

----------------------------------------------------------------------------
(* lock and trylock.                                                       *)

(* clht_lp_put_type notes what the thread waits for, a trylock included.   *)
PutType(t) ==
  /\ pc[t] = "put"
  /\ waiting' = [waiting EXCEPT ![t] = arg[t]]
  /\ Goto(t, "acquire")
  /\ UNCHANGED <<flags, notes, holder, detector, call, hashtable, exited>>

Acquire(t) ==
  /\ pc[t] = "acquire" /\ holder[arg[t]] = Null
  /\ holder' = [holder EXCEPT ![arg[t]] = t]
  /\ Goto(t, "unset")
  /\ UNCHANGED <<flags, notes, waiting, detector, call, hashtable, exited>>

(* The trylock finds the lock taken.                                       *)
TryBusy(t) ==
  /\ pc[t] = "acquire" /\ op[t] = "trylock" /\ holder[arg[t]] # Null
  /\ Goto(t, "unset_busy")
  /\ UNCHANGED <<flags, notes, holder, waiting, detector, call, hashtable, exited>>

(* GLS_DD_SET_OWNER and GLS_DD_SET_OWNER_IF: the note is withdrawn, and    *)
(* then the owner is set.                                                  *)
WaitingUnset(t) ==
  /\ \/ pc[t] = "unset" /\ Goto(t, "own") /\ UNCHANGED call
     \/ pc[t] = "unset_busy" /\ Return(t)
  /\ waiting' = [waiting EXCEPT ![t] = Null]
  /\ UNCHANGED <<flags, notes, holder, detector, hashtable, exited>>

SetOwner(t) ==
  /\ pc[t] = "set_owner"
  /\ WriteOwner(t, t)
  /\ Return(t)
  /\ UNCHANGED <<flags, holder, waiting, detector, exited>>

----------------------------------------------------------------------------
(* unlock.                                                                 *)

(* Broken: the owner is left in the table.                                 *)
GetKeepsOwner(t) ==
  /\ pc[t] = "clear_owner"
  /\ hashtable' = [hashtable EXCEPT ![t] = Null]
  /\ Goto(t, "free")
  /\ UNCHANGED <<flags, notes, holder, waiting, detector, call, exited>>

(* clht_lp_get clears the owner, before the lock is free.                  *)
Get(t) ==
  /\ pc[t] = "clear_owner"
  /\ WriteOwner(t, Null)
  /\ Goto(t, "free")
  /\ UNCHANGED <<flags, holder, waiting, detector, call, exited>>

Free(t) ==
  /\ pc[t] = "free"
  /\ holder' = [holder EXCEPT ![arg[t]] = Null]
  /\ Return(t)
  /\ UNCHANGED <<flags, notes, waiting, detector, hashtable, exited>>

----------------------------------------------------------------------------
(* clht_lp_ddd_check, by a thread that has spun for long, or slept for a   *)
(* second, in lock().                                                      *)

Check(t) ==
  /\ pc[t] = "acquire" /\ op[t] = "lock" /\ holder[arg[t]] # Null
  /\ arg[t] \in Checked
  /\ dd_lock = Null
  /\ dd_lock' = t
  /\ walk' = [walk EXCEPT ![t] = [on |-> waiting[t], owner |-> Null, ci |-> 1]]
  /\ Goto(t, "follow")
  /\ UNCHANGED <<flags, notes, holder, waiting, call, hashtable, exited>>

(* The end of a walk that found no cycle.                                  *)
GiveUp(t) ==
  /\ dd_lock' = Null
  /\ walk' = [walk EXCEPT ![t] = NoWalk]
  /\ Goto(t, "acquire")

(* clht_lp_ddd_get_owner, its first half: who owns the address.  An owner  *)
(* that is not set ends the walk.                                          *)
ReadOwner(t) ==
  /\ pc[t] = "read_owner"
  /\ LET o == owner[hashtable[t]][walk[t].on]
     IN  IF o = Null THEN GiveUp(t)
         ELSE /\ walk' = [walk EXCEPT ![t].owner = o]
              /\ Goto(t, "read_waiting")
              /\ UNCHANGED dd_lock
  /\ hashtable' = [hashtable EXCEPT ![t] = Null]
  /\ UNCHANGED <<flags, notes, holder, waiting, call, exited>>

(* Its second half: what the owner waits for.  Back at the thread itself,  *)
(* the program is ended; at the end of the chain or of the array, the walk *)
(* is.                                                                     *)
ReadWaiting(t) ==
  /\ pc[t] = "read_waiting"
  /\ LET w == waiting[walk[t].owner]
         ci == walk[t].ci + 1
     IN  \/ /\ walk[t].owner = t
            /\ ~exited /\ exited' = TRUE
            /\ UNCHANGED <<dd_lock, walk, pc>>
         \/ /\ walk[t].owner # t /\ w # Null /\ ci < WalkLimit
            /\ walk' = [walk EXCEPT ![t].on = w, ![t].ci = ci]
            /\ Goto(t, "follow")
            /\ UNCHANGED <<dd_lock, exited>>
         \/ /\ walk[t].owner # t /\ (w = Null \/ ci >= WalkLimit)
            /\ GiveUp(t)
            /\ UNCHANGED exited
  /\ UNCHANGED <<flags, notes, holder, waiting, call, hashtable>>

----------------------------------------------------------------------------
Step(t) ==
  \/ InitOnce(t) \/ InitCas(t) \/ Await(t) \/ Create(t) \/ Publish(t)
  \/ PutType(t) \/ Acquire(t) \/ TryBusy(t) \/ WaitingUnset(t) \/ SetOwner(t)
  \/ Get(t) \/ Free(t) \/ ReadHt(t)
  \/ Check(t) \/ ReadOwner(t) \/ ReadWaiting(t)

Resize == ResizeBegin \/ (\E a \in Addrs : CopySlot(a)) \/ ResizeEnd

Next == (\E t \in Threads : Call(t) \/ Step(t)) \/ Resize

Spec == Init /\ [][Next]_vars

(* A thread in a call runs.  It looks for a deadlock again and again, with *)
(* millions of spins between two looks, and does not find dd_lock taken    *)
(* every time.  Nobody waits for a resize, which may stop half-way.        *)
FairSpec ==
  Spec /\ \A t \in Threads : WF_vars(Step(t)) /\ SF_vars(Check(t))

----------------------------------------------------------------------------
(* Properties.                                                             *)

TypeOK ==
  /\ initialized \in {0, 1} /\ initializing \in {0, 1} /\ tables \in {0, 1}
  /\ ht \in Tables /\ resize_lock \in {0, 1}
  /\ copied \in SUBSET Addrs /\ overtaken \in SUBSET Addrs
  /\ owner \in [Tables -> [Addrs -> Threads \cup {Null}]]
  /\ holder \in [Addrs -> Threads \cup {Null}]
  /\ waiting \in [Threads -> Addrs \cup {Null}]
  /\ dd_lock \in Threads \cup {Null}
  /\ walk \in [Threads -> [on : Addrs \cup {Null}, owner : Threads \cup {Null},
                           ci : 0 .. WalkLimit]]
  /\ op \in [Threads -> {"none", "lock", "trylock", "unlock"}]
  /\ arg \in [Threads -> Addrs \cup {Null}]
  /\ pc \in [Threads -> {"idle", "once", "init", "create", "publish", "await", "put",
                         "acquire", "unset", "unset_busy", "own", "set_owner", "get",
                         "clear_owner", "free", "follow", "read_owner", "read_waiting"}]
  /\ hashtable \in [Threads -> Tables \cup {Null}]
  /\ exited \in BOOLEAN

(* Threads that make their first call together use one table, and none of  *)
(* them before it is there.                                                *)
NoUseBeforeInit ==
  \A t \in Threads :
    pc[t] \notin {"idle", "once", "init", "create", "publish", "await"} =>
      initialized = 1 /\ tables = 1

(* The owner field of the table in use is late, but it names nobody but    *)
(* the holder, for as long as no write of it has been overtaken by the     *)
(* copy of a resize; a resize that overtakes none spoils nothing, and the  *)
(* next write that is not overtaken puts the field right again.            *)
OwnerHolds ==
  \A a \in Addrs \ overtaken : owner[ht][a] # Null => owner[ht][a] = holder[a]

(* The thread waits in gls_lock.                                           *)
Blocked(t) ==
  op[t] = "lock" /\ pc[t] \in {"acquire", "follow", "read_owner", "read_waiting"}

(* Every thread of the set waits in lock() for an address that a thread of *)
(* the set holds.                                                          *)
Stuck(S) == S # {} /\ \A t \in S : Blocked(t) /\ holder[arg[t]] \in S

Deadlock == \E S \in SUBSET Threads : Stuck(S)

(* A deadlock is reported, by one of the threads that it stops, if the     *)
(* locks are of the kinds that look for deadlocks and no resize has lost   *)
(* the note of who owns one of them; resizes before, during and after it   *)
(* that lose none do no harm.                                              *)
DeadlockIsReported ==
  (\E S \in SUBSET Threads : Stuck(S) /\ \A t \in S : arg[t] \notin overtaken) ~> exited

(* README.md:24 promises "several debugging options for easily detecting   *)
(* various lock-related issues, such as deadlocks": two threads that each  *)
(* wait for what the other holds are told so, in waiting loops that look.  *)
CrossedLocksAreReported ==
  (\E t, u \in Threads :
     /\ t # u /\ Blocked(t) /\ Blocked(u) /\ {arg[t], arg[u]} \subseteq Checked
     /\ holder[arg[t]] = u /\ holder[arg[u]] = t) ~> exited

(* And what is reported as a deadlock is one.                              *)
AlarmIsTrue == exited => Deadlock
============================================================================
