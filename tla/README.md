# Lockin in TLA+

Lockin is a library of locks for x86 Linux: spin locks, queue locks, futex
mutexes, the adaptive lock GLK, and GLS, a service that finds or makes the lock
that belongs to an address.  This directory has TLA+ modules of its parts, TLC
configurations that check small instances of them, and proofs, checked by
TLAPS, for instances of every size.  Paths are relative to the repository;
`glk.c:457` is line 457 of `src/glk.c`.

To run one configuration: `tlc -config MCGlk.cfg MCGlk`.  To check the proofs of a
module: `tlapm FutexMutexProofs.tla`, and so on for `RwLocksProofs`, `GlkProofs`,
`McsProofs`, `SpinLocksProofs`, `CondProofs`, `ClhtProofs` and `GlsProofs`; each takes
from a few seconds to a few minutes.

1. [The system](#1-the-system)
2. [The modules](#2-the-modules)
3. [The runs](#3-the-runs)
4. [What is proved](#4-what-is-proved)
5. [What was found](#5-what-was-found)
6. [Assumptions](#6-assumptions)
7. [What is not modelled](#7-what-is-not-modelled)
8. [Plan](#8-plan)

## 1. The system

| component | state | operations | what is hard about it | what makes it correct |
|---|---|---|---|---|
| **GLK** `src/glk.c`, `include/glk.h` | `lock_type`, three sublocks (ticket, MCS, mutex), `num_acquired`, `queue_total`; a global multiprogramming flag | `glk_lock`, `glk_trylock`, `glk_unlock`; inside them `glk_ticket_adap`, `glk_mcs_adap`, `glk_mutex_adap` | `lock_type` changes while threads are queued on a sublock that is no longer in force; the store that changes it does not look at it | one thread inside; the unlock releases what the lock acquired; only a holder of the sublock in force changes the type; somebody gets in |
| **GLK background thread** `glk.c:89` | the flag, an adaptive sleep period, two thresholds | `glk_mp_check` | races all locks through the flag | the locks are right whatever the flag does |
| **Futex mutexes** `glk.c:780`, `include/mutexee_in.h`, `mutex_glk_impl.h`, `ladap*_in.h` | a word of two bytes, `locked` and `contended`; the futex queue | lock, trylock, unlock; training of the spin limits | ten copies that differ in what is tried in which order; bytes and the whole word are written by different instructions; the unlock frees first and looks for sleepers later | exclusion; no lost wake-up |
| **MCS lock** `src/mcs_glk_in.c`, `src/mcs_in.c`, `glk.c:540` | a tail pointer; nodes in thread-local memory with a table that says for which lock each is in use, or in the lock, one for each thread | lock, trylock, unlock; the walk that measures the queue | the window between the swap and the link; nodes are reused for other locks; the walk reads nodes of other threads | first come first served; no node leaks; the walk follows no stale pointer |
| **Spin locks** `include/*_in.h` | one or two words | lock, trylock, unlock; those of the test-and-set locks also as hardware transactions | tickets wrap round; a trylock reads two words; TICKET-FU sleeps; a transaction runs with the lock free | order of service; sleepers are woken; no transaction beside an owner |
| **CLH lock** `src/clh_in.c` | a tail pointer; nodes that change hands | lock, unlock | a node belongs to another thread after each unlock | nobody shares a node |
| **Read-write locks** `include/*_rw_in.h`, `include/ttas_shared_in.h` | a count of readers and a writer byte in one word | rlock, wlock, tryrlock, trywlock, one unlock | the unlock guesses from the word who calls it | writers exclude everybody; the guess is right |
| **Condition variables** one in every header, two in most | a sequence word or two tickets, a pointer to the mutex, the futex queue | wait, timedwait, signal, broadcast | a signal between unlock and sleep; sleepers are moved from one futex to another; tickets passed by | no wake-up is lost |
| **Barriers** `src/sbarrier.c` | a mutex, a condition variable, a count; or a count and a sense | cross, wait | the one waits once, with `if`; the other resets its count while threads are on their way out | nobody is through early, everybody in the end |
| **CLHT** `src/clht_lock_pointer.c` | a hash table of buckets, the next table, a lock per bucket, `resize_lock` | `clht_lp_put_type`, `clht_lp_put_init`, `clht_lp_get`, resize | readers take no lock; a resize replaces the table under readers and writers | an address never has two locks; nothing is lost; calls return |
| **GLS** `src/gls.c` | the hash table, two init flags; when debugging: owner of each address, what each thread waits for, `dd_lock` | `gls_lock*`, `gls_trylock*`, `gls_unlock*`, `clht_lp_ddd_check` | first calls race; the detector reads notes that change under it; a resize copies owners that are being written | one table; the owner noted is the holder; a deadlock is reported, and only a deadlock |
| **Platform layer, measurement, benchmarks, scripts** | | | | see section 7 |

How they interact.  `gls_lock(addr)` goes through CLHT to a `glk_t` and calls
`glk_lock` on it (or, in `gls_lock_mcs` and its like, one particular lock).
`glk_lock` is made of the ticket lock, the MCS lock and the futex mutex.
The background thread writes the flag that `glk_lock` reads when it adapts.
Every lock header can take the place of `pthread_mutex_*` and
`pthread_cond_*` in a program, by macros; there the condition variables and the
barrier are used on top of the lock.

## 2. The modules

Abstract specifications:

| module | what it promises | implemented by |
|---|---|---|
| `Mutex` | a lock: grants only when there is no owner, a trylock gets it or says busy, only the owner unlocks | `Glk`, `FutexMutex` |
| `FifoLock` | a queue lock, for several locks held together: places are taken in some order and served in it, a trylock gets in only if the queue is empty | `Mcs` |

Detailed ones:

* **`Glk`** models `glk_lock`, `glk_trylock` and `glk_unlock`, the three
  adaptation policies, and the flag of the background thread, which flips at
  any moment.  `Call`, `TakeTicket`, `LookAtHead`, `TicketTurn`, `McsSwap`,
  `McsCount`, `McsTurn` and `MutexLock` are the acquisition of the sublock;
  `TicketAdapt`, `McsAdapt` and `MutexAdapt` decide, `WriteType` stores
  `lock_type` in a step of its own; `Check` is the comparison at `glk.c:487`,
  `Retry` the way round.  `UnlockRead` reads `lock_type` again, `Release`
  releases.  Sublocks are at the level of what the modules below establish for
  them.  A ticket is kept modulo the adaptation period, since only its low bits
  are looked at once the order is known.
* **`FutexMutex`** models the two bytes of the word and each instruction on
  them.  The library has this mutex ten times: inside GLK, as MUTEXEE with and
  without fairness, in `mutex_glk_impl.h`, and as `ladap` to `ladap5`.  What the
  copies share are the actions; in what they differ is a record, the *profile*
  of the copy, that the variable `copy` has one of: where a lock begins, what a
  thread does that has spun long enough, that has slept in vain, or whose
  bounded sleep is over, and what an unlock may do that finds the lock taken
  again or has woken a sleeper.  Where the code decides by its statistics
  (how long to spin, whether to wake somebody out of fairness), the profile
  allows both.  An eleventh profile has no futex: the spin lock that `Cond`
  needs.  A `FUTEX_WAIT` compares the word and sleeps in one step; it can also
  return because of a signal handler.
* **`Mcs`** models the nodes and the walk of
  `gls_adaptinve_mcs_lock_queue_length`, for several locks that one thread
  may nest.  In `glk.c` and `mcs_glk_in.c` a table says for which lock a node is
  in use (`Slot`); in `mcs_in.c` a lock has a node for each thread; `variant`
  chooses.  `order` is a history variable: the order of the swaps.
* **`SpinLocks`** models the locks of one or two words, again by profiles: 24 of
  test-and-set and test-and-test-and-set locks (six headers with four sections of
  `USE_HLE` each), seven of ticket locks, and two of CLH.  A transaction begins
  (`Begin`, `TryBegin`) by reading the lock word, ends in `Commit` or `Abort`, and
  is aborted by any write to the word (`WriteAndGo`), as the processor does; a
  thread tries as often as its section says and then takes the lock.  Tickets are
  modulo `Width`, and the comparison `distance` is done as the code does it.
  `line` is a history variable: the order of arrival, from whose head the unlock
  takes the owner.
* **`RwLocks`** models all operations of the read-write locks with the word in
  its two parts.
* **`CondBuilds`** has the condition variables of all headers, as profiles, and the
  mutex that each of them is compiled with.
* **`Cond`** extends `FutexMutex`: its mutex steps are those of that module, and
  it adds the condition variable and programs that use it.  There are three
  kinds: a word that signals increment and waiters sleep on; the same with a
  broadcast that wakes one and moves the others to the futex of the mutex; and
  tickets on which waiters spin (`USE_FUTEX_COND` 0).  One program is
  `barrier_sleep_cross`; another takes tokens in a loop, with or without a time
  limit, from threads that give tokens and signal or broadcast.  The set `current`
  has the threads that have read the sequence word (or the head) and not seen it
  change since, which is all that `FUTEX_WAIT` (or the compare-and-swap of the
  broadcast) compares.  The tickets are kept relative to the head.  A third program,
  `barrier_wait`, spins on a sense and needs neither mutex nor condition variable.
* **`Clht`** models put, get and resize with the bucket locks, the two tables,
  `table_new` and the flags of `ht_status`; `got` is a history variable: the
  locks that calls returned for each address.  The used slots of a bucket and of
  the buckets chained to it are a set: nothing is removed, so that a chain has no
  order that a call could see, and how many buckets are chained follows from how
  many slots are used (`Chained`).
* **`Gls`** models a program in the deadlock-debugging mode: `gls_init` raced by
  first calls, the notes of who owns and who waits, and the detector read by
  read.  That an address has one lock, across resizes, is taken from `Clht`; the
  lock is at the level of `Mutex`.  The owner fields are there for each table,
  because nothing in `Clht` protects them: `gls.c:56` and `gls.c:137` read `h->ht`
  (`ReadHt`), and `clht_lp_set_owner` and `clht_lp_get` write the field later
  (`WriteOwner`), without the lock of the bucket, while a resize copies slot by slot
  (`ResizeBegin`, `CopySlot`, `ResizeEnd`).  The detector reads a field in the same two
  steps.  The thread that resizes puts an address that is none of `Addrs`.
  `overtaken` is a history variable: the addresses whose owner was written last
  into a slot that had been copied, or into a table that had been replaced.

Definitions whose comment begins with "Broken:" are variants of the one that
follows them, with a mistake that the code could have.  No specification uses
them; with one of them in its place, the property that `PROJECT.json` pairs it
with is violated.

Every atomic instruction and every access to a shared variable that another
thread can tell apart is a step of its own; reads that commute with everything
are merged with a neighbour.

## 3. The runs

| run | instance | checks |
|---|---|---|
| `glk_safety` | `MCGlk.cfg`: 3 threads, adaptation every 8 acquisitions, symmetric | `TypeOK`, `MutualExclusion`, `UnlockMatchesLock`, `NoSublockLeaked`, `SwitchOnlyByHolder` |
| `glk_live` | `MCGlkLive.cfg`: 2 threads, adaptation every 4 | `ImplementsMutex`, `SomeoneEnters`, `NoStarvation` |
| `futex_mutex` | `MCFutexMutex.cfg`: 3 threads, all 11 copies | `TypeOK`, `MutualExclusion`, `SleeperIsWatched`, `ImplementsMutex`, `SomeoneEnters`, `BusyMeansOwned` |
| `mcs` | `MCMcs.cfg`: 3 threads, 2 locks, one thread nests them; both copies | `NodeUsed`, `WalkStaysInQueue`, `ImplementsFifo`, `EveryCallReturns` |
| `spin` | `MCSpin.cfg`: 3 threads, all 33 locks, 8 tickets | `TypeOK`, `ServedInOrder`, `NodesApart`, `EveryCallReturns` |
| `rwlocks` | `MCRwLocks.cfg`: 3 threads, 2 kinds | `TypeOK`, `WritersExclude`, `WordIsHonest`, `UnlockKnowsItsCaller`, `ReadersGetIn` |
| `cond` | `MCCond.cfg`: 3 threads at either barrier, or one that gives up to 2 tokens and two that take them; every kind of condition variable on the mutexes it comes with | `CondTypeOK`, `NoTokenForgotten`, `BarrierHolds`, `BarrierOpens` |
| `clht` | `MCClht.cfg`: 2 threads, 3 addresses that all collide at first, 3 tables | `TypeOK`, `OneLockPerKey`, `ResizesTheTableInUse`, `KeysStay`, `InitWaitEnds` |
| `gls` | `MCGls.cfg`: 2 threads, 2 addresses, one resize | `TypeOK`, `NoUseBeforeInit`, `OwnerHolds`, `DeadlockIsReported` |
| `clht_hang` | `MCClhtHang.cfg` | `PutWaitEnds` is violated |
| `gls_alarm` | `MCGlsAlarm.cfg`: 2 threads, no resize | `AlarmIsTrue` is violated |
| `gls_silent` | `MCGlsSilent.cfg`: 2 threads, one resize | `CrossedLocksAreReported` is violated |

Why the bounds are enough for the interesting cases to happen:

* *GLK.*  With three threads one can hold the sublock in force while two wait on
  two different sublocks that are out of force, and a type can come back while
  a thread waits on it.  A period of eight is the smallest multiple of four
  that the assumption (section 6) allows with room for the ticket counts to
  wrap; the full graph has about 470 000 states after symmetry.
* *Futex mutex.*  An owner that unlocks, one sleeper, and one thread that takes
  the lock between the store and the wake-up is all the roles there are; with
  three threads two can sleep together.
* *MCS.*  A queue of three, formed by a thread that already has a node in use for
  another lock.
* *Futex mutex, spin locks, condition variables.*  The profiles of many copies are
  equal, and equal profiles are one instance to the model checker: 11 copies of
  the futex mutex make 7, the 33 spin locks 14.
* *Spin locks.*  Eight tickets for three threads wrap round many times in the
  full graph.  With three threads at most one sleeps in TICKET-FU at a time,
  since the next in line spins: that *all* sleepers are woken, and not one, is
  beyond this run.  A transaction can be tried three times, as in the code.
* *Condition variables.*  Two waiters, so that a broadcast has one to wake and one
  to move, and a signal one to choose.  LADAP2 and LADAP5 have the condition
  variable of the other LADAP locks and are left out of the run for its size, as
  is MUTEXEE with fairness.
* *Barriers.*  Three threads that come again and again, so that one can be at the
  barrier for the next time before the last has left it.
* *CLHT.*  Buckets of one entry (the code has three), so that the second put
  chains and the third resizes; three tables, so that a writer can wait on a
  table while the one after it is replaced.
* *GLS.*  Two threads can wait for each other, or one for itself while the walk of
  the other runs into that and must give up at the end of its array.  One resize
  (`MaxTables` 2) is enough for it to begin, copy each slot and end anywhere in a call
  of either thread, and for a table that is no longer in use to be read and written;
  the full graph has about a million states, a third thread makes it more than
  thirty million.  The alarm of `gls_alarm` needs no resize, so that it has none.

The model checker stops a `gls` run in a deadlock or after `exit`: both are
what the run is about, and `CHECK_DEADLOCK FALSE` says so.  All other runs
check for deadlock.

**Fairness.**  Every module has weak fairness of the steps of a thread that is in
a call or in a critical section: the scheduler runs every thread, and owners
give locks back.  No thread has to call, and nothing that the environment does
(interruptions, timeouts, the flag, the load) is fair.  Beyond that:

* `Mcs` has strong fairness of `Unlock`: a thread that holds a lock may lock
  others and measure for as long as it likes, but not for ever.
* `SpinLocks` has strong fairness of `Draw`, because the assumption `NotLapped`
  (section 6) disables it now and then.
* `Gls` has strong fairness of `Check`: a waiting thread calls the detector over
  and over, with millions of spins in between, and `dd_lock` is a trylock that
  it does not find taken every time.

TAS, TTAS and GLK in the mode of the mutex starve threads by design; the
liveness properties say of them that somebody gets in.

## 4. What is proved

Every component that is modelled has its safety properties proved.  What the
theorems range over:

| module | holds for |
|---|---|
| `FutexMutexProofs` | any set of threads, each of the eleven copies |
| `RwLocksProofs` | any finite set of threads, since those locks count readers; each copy |
| `GlkProofs` | any finite set of threads and any period that `GlkAssumption` (section 6) allows |
| `McsProofs` | any threads and locks, any way to nest them that leaves nodes enough (`McsAssumption`), both ways to keep the nodes |
| `SpinLocksProofs` | any finite set of threads, each of the 33 locks, any `Width` above the number of threads |
| `CondProofs` | any finite set of threads, any choice of them as givers, any number of tokens; each of the condition variables on the mutex it comes with; of those that spin, `NoWakeUpLost` for one giver |
| `ClhtProofs` | any threads and addresses, any size of bucket and of the first table, any number of resizes |
| `GlsProofs` | any finite set of threads, any addresses, any number of resizes |

Each has the same plan: an inductive invariant `IInv` (`CondInv` in `CondProofs`), checked by TLC on the
instance of the run before it was proved, a lemma for each action and each part of
`IInv` that the action can disturb, the theorem `Inductive`, and then one theorem for
each property, which follows from `IInv`.

* **Futex mutex** (`Inductive`).  The theorems hold for each of the eleven copies: the
  proofs use of a profile only which labels it can name.  The inductive invariant is
  `IInv`: types, exclusion, `LockedMeansOwned` and `SleeperIsWatched`.  Exclusion alone is not
  inductive: the swap that finds the byte `locked` at zero excludes other owners
  only because the byte is set exactly while there is one.  `SleeperIsWatched`
  says who answers for the sleepers: while the word is marked contended, an owner
  or an unlocker that has not looked yet; otherwise a thread about to wake one
  or to mark the word again.  The lemmas go through the actions in three groups
  (locking, unlocking, waking).  From `IInv` follow `TypeCorrect`, `Exclusion`,
  `LockedByte`, `NoLostWakeUp`, the action property `BusyIsHonest` (a trylock that
  says busy found an owner) and `Refinement`: the mutex implements `Mutex`,
  initial state and step by step.
* **Read-write locks** (`RwLocksProofs`, `Inductive`).  `WritersExclude` is not
  inductive either: a compare-and-swap sees a word and not the owners.  `IInv`
  adds what the word says: `ByteIsHonest` (the byte is set exactly while there is
  a writer) and `CountIsHonest` (the count is the number of the readers that have
  counted themselves, the waiting ones included).  Two lemmas, `CountIn` and
  `CountOut`, follow the count when a reader joins or leaves, from the facts on
  cardinalities of `FiniteSetTheorems`; each action has a lemma of its own.  From
  `IInv` follow `Exclusion`, `Honesty`, `TypeCorrect` (with the bound on the
  count) and `UnlockIsHonest`: while a thread reads, the byte is clear, because a
  writer would exclude it, and the count is not zero, so that the one unlock
  function takes the reader for a reader and the writer for a writer.

* **GLK** (`GlkProofs`; the invariant is in `GlkInvariant`).  That one thread is
  inside at a time rests on a thread that checks `lock_type` still holding the
  sublock it names; that rests on nobody else storing to `lock_type` meanwhile;
  and `glk_ticket_adap` and `glk_mcs_adap` store without looking at it, whenever
  their number is a multiple of the period.  So the invariant has to account for
  the numbers that waiters left over from before a switch can have:
  - `Places`: the threads of each queue by type and program counter, each once, and
    the threads that have acquired a queue lock first in it;
  - `Switching`: in the critical section, and before the store, a thread's type is
    the one in force;
  - `TicketPart`: the tickets of the queue count down from `tail`; the thread that
    switches has ticket 0 of the period, so those behind it have the next ones;
    and while the type is another, `tail` plus the threads still to take a ticket
    stays below the period: none of them adapts;
  - `McsPart`: acquisitions are counted out of queue order, so the thread that gets
    the multiple of the period may wait while others count on.  Until it adapts
    each of them counts at most twice (in front of it, and once more behind it);
    the sets `Once` and `Twice` bound `num_acquired` by the period plus 2(N - 1),
    which the assumption keeps below the next multiple.  So at most one such
    number is in use.  After a switch to a ticket lock the count restarts low, and
    after one to the mutex it stays between two multiples: the late counts
    reach neither.

  Each part has a lemma that every action keeps it.  From `Inductive` follow
  `TypeCorrect`, `Exclusion`, `UnlockIsRight`, `NoLeak`, the action property
  `SwitchIsByHolder`, and `Refinement`: GLK implements `Mutex`.  `IInv` was found
  and checked with TLC first (`INVARIANT IInv` in `MCGlk.cfg`, and smaller periods
  that meet the assumption with nothing to spare).

* **MCS** (`McsProofs`).  What a queue is, the code does not store: the tail points
  to the last node, a node to the next one only once that one has linked itself,
  and nodes are used for one lock after another.  So `IInv` says that there *are*
  queues: sequences of nodes, one for each lock and no node twice, that agree
  with everything (`Shape`): with the tails and with the order of the swaps
  (`QueuesFit`); with `next` and with the program counter of the thread at each
  place (`EntryFit`); with the local variables of a thread, in a call or walking
  (`ThreadFit`); and with the table that says for which lock a node is in use
  (`NodeFit`).  A step leaves the sequences as they are (lemma `QueuesStay`),
  appends a node (`Joins`: the swap, and the compare-and-swap of a trylock that
  finds the lock free), or takes the first away (`Leaves`: the compare-and-swap
  of an unlock with nobody behind, and the hand-over).  `NodesInUse`,
  `WalkerStays` and `TypeCorrect` follow from `IInv`.  `Implements` is the
  refinement: `Mcs` implements `FifoLock`.  Its owner of a lock is chosen in the
  refinement mapping; `FirstOwns` shows that it is the first in the queue, if that
  one has its turn, and each action is shown to be a stutter or one of the steps of
  the abstract lock.
* **Spin locks** (`SpinLocksProofs`).  `ServedInOrder` is about `line`, which no lock
  keeps: `IInv` says how each kind of lock spells it out.  `TasFit`: a test-and-set
  word is 1 exactly if there is somebody in line, and then nobody else, and no
  transaction lives.  `TicketsFit`: those in line have the tickets from `head` on,
  modulo `Width`, and the next ticket to draw is the one after the last of them;
  since there are more tickets than threads, two in line never have one ticket,
  and `distance` 0 means first.  A trylock that has read both words takes the lock
  only if nobody has drawn a ticket since: this is what `NotLapped` (section 6)
  is needed for.  `GuardedFit` keeps a lock with the guarded unlock away from the wrap.
  `ClhFit`: each in line has before it the node of the one ahead, the last one's is
  the tail, and one spare node is nobody's.  From `IInv` follow `TypeCorrect`,
  `FirstIsServed` and `NodesStayApart`.
* **Condition variables and barriers** (`CondProofs`, `CondInductive`).  `CondInv` says
  where a thread can be in the mutex, given where it is in its call (`PlacesFit`,
  `CallsFit`), that the mutex stays one (`MutexFit`, theorem `MutexStays`) though
  broadcasts move threads to its futex, and that who waits can be seen by who
  signals (`WaitsFit`).  On top of that each program has its own part:
  - `TokensFit`, for `NoWakeUpLost`.  "Somebody is on the way" is not inductive: a
    thread that is on the way takes one token and leaves the others to nobody.  So the
    invariant counts (`Covered`).  Either the threads that will look at the tokens
    (`Coming`) and the signals under way (`Signalling`) are as many as the tokens, and
    `Coming` would still be enough if all unserved waiters came; or everybody who
    waits will be woken by what is under way, and nobody is between reading the word
    and going to sleep (`Late`).  A signal that begins leads from the first case to
    the second when it leaves no more waiters than signals; a thread goes to sleep
    only on a word that nobody has changed, which is the first case.
  - `TicketsFit`, for the condition variables that spin: as long as one thread signals,
    each ticket that is due has one waiter, so that moving the head by one serves one.
  - `BarrierFit` and `CrossingFit`: those that have come and are kept are counted by
    `crossing`, so that the one that finds the count full finds all others kept; it has
    the mutex until it has reset the count.
  - `SpinFit`: while one thread resets the count and turns the sense, all others wait
    for the sense, which is the other one than theirs.

  `BarrierIsTight` assumes that no signal handler interrupts the sleep of the
  barrier, which waits once and not in a loop (section 5).
* **CLHT** (`ClhtProofs`).  `IInv` has three layers.  Who writes (`WritersFit`,
  `OneResizer`): a bucket that is held is one of the table in use and held by one
  thread, and one thread at a time has a resize to do, because only the put that
  reaches the threshold exactly is charged with it, and the count starts anew with
  the new table.  What is locked (`BucketsFit`): all buckets of older tables for
  good, and of the table in use those that the resize has copied.  What is in the
  tables (`SlotsFit`, `KeysMove`, `AnswersFit`): an address is in its bucket, once;
  what an older table has, the table in use has with the same lock; the table that is
  being filled has exactly what has been copied; and what a call has found or made
  is in the table in use.  `OneLock`, `ResizesInUse`, `TypeCorrect` and the action
  property `KeysNeverMove` follow.  That a thread may go on reading a table that has
  been replaced does no harm for the safety properties; what it costs is
  `clht_hang` (section 5).
* **GLS** (`GlsProofs`).  `OneMaker` says what the two flags of `gls_init` do between
  them: from the first compare-and-swap on, at most one thread is making the table,
  and nobody is in a call proper before it is there.  `OwnerHolds` says of an address
  that is not `overtaken` that the owner field of the table in use names the holder or
  nobody.  Without the restriction this is false (section 5).  It is inductive together
  with `HoldersFit`, since the holder sets the field after it has the lock and clears
  it before it gives it back, and with `ResizeFit`: the table that is being filled has
  the same owners in the slots that have been copied, the overtaken ones excepted.
  Lemma `NoteStep` is about a write, by when its slot has or has not been copied,
  `ResizeStep` about the resize.  So what a resize can spoil is exactly the notes that
  are written between the copy of their slot and the end of the resize, or were
  begun before that end; and the next lock or unlock of the address that is not
  overtaken puts its note right.  `InitFirst`, `OwnerIsHolder` and `TypeCorrect` follow.
  What the detector makes of the notes is in the runs.

What is only model-checked:

* All liveness (`SomeoneEnters`, `NoStarvation`, `EveryCallReturns`, `ReadersGetIn`,
  `BarrierOpens`, `InitWaitEnds`, `DeadlockIsReported`), which the prover does not do
  under fairness.  `SleeperIsWatched` is the safety half of the absence of lost
  wake-ups; that the sleeper then does get on is `SomeoneEnters` of the run.
* The three runs that end in a violation: a counterexample needs no proof.

## 5. What was found

* **A put can wait for ever** (`clht_hang`, `clht_lock_pointer.c:577`).
  `clht_lp_put_type` finds its bucket in the table it reads from `h->ht`, and
  `clht_lp_put_impl` reads `h->ht` again but keeps the bucket.  If the table was
  replaced in between, the bucket is locked for good, and the thread waits for
  the successor of the newer table, which need never come.
  `clht_lp_put_init`, which passes no bucket, is free of this (`InitWaitEnds`).
* **A resize can silence the deadlock detector** (`gls_silent`,
  `clht_lock_pointer.c:116`).  A thread has a lock and is about to note that it owns it
  when a resize copies the slot.  The note goes to the old table; in the new one the
  lock has no owner for as long as it is held, and every walk ends there.  Two
  threads that then wait for each other are never told so.  `DeadlockIsReported`
  (run `gls`) says what is left: a deadlock whose owners all stand noted is reported.
  In the same way a cleared owner can come back with the new table, so that the field
  names a thread that has left: `OwnerHolds` without its restriction is violated too.
* **The deadlock detector can be wrong** (`gls_alarm`).  The walk reads one note
  after another; a `trylock` that is about to return busy has noted that it
  waits, and owners change between the reads.  The cycle it finds need not
  have existed at any moment, and the program is ended.

Seen on the way and not the subject of a run: the trylock of the Linux ticket
lock returns 1 for success (`ticket_linux_in.h:204`), which callers of
`pthread_mutex_trylock` read as busy; the unlock of `lock_prof_in.h:263` is
skipped between the wrap of `tail` and that of `head`, and the lock hangs
(`SpinLocks` keeps away from that by `NotSpent`); `gls_lock` itself never calls the
deadlock detector, for `GLS_DD_CHECK` is in the waiting loops of the TTAS, ticket, MCS
and mutex variants and not in those of `glk.c` (the constant `Checked` of `Gls`; with
`{}` there, no deadlock is reported, resize or not); `tryrlock` goes round
while other readers hold the lock (`tas_rw_in.h:114`); the sleeping barrier
lets a thread through that was interrupted (with `"barrier"` in `Interrupts`,
`BarrierHolds` is violated); the training of `ladap1_in.h:218` and `:314` divides by
counts that can be zero.

**Tickets passed by.**  The spinning condition variables of the ticket locks, of
`lock_prof_in.h` and of `ladap_tick_in.h` wait until the head *is* the ticket
(`ticket_in.h:415`); those of TAS, TTAS and TICKET-FU until it has *reached* it
(`tas_in.h:604`).  A broadcast, or two signals before the waiter looks, move the
head past the ticket, and the waiter never returns: without `~cond.exact` in their
hypotheses, `NoTokenForgotten` and `BarrierOpens` are violated.  No document promises anything
of these builds, which the default `USE_FUTEX_COND` turns off, so that this is
said here and is not a run.

**A broadcast sets the head back.**  All condition variables that spin can lose a
wake-up when several threads signal.  Two signals that both see `ticket > head`
(`tas_in.h:558`) move the head by one each, and so past the last ticket.  A
broadcast that finds the two unequal (`tas_in.h:568`) reads both, and its
compare-and-swap sets the head to the ticket, that is, back.  If in between a
thread takes a ticket that the head has already reached, and another signal sees
nothing due and returns, the broadcast makes that thread wait, with a token there
for it.  This came out of the search for an inductive invariant: it is why
`NoTokenForgotten` says `OneGiver` of these condition variables (with a second
thread in `Givers` and without that hypothesis, TLC finds the trace).  Those with a
futex have no such case, and there the theorem holds for any number of givers.  It is
no run for the same reason as above.

## 6. Assumptions

* Memory is sequentially consistent.  The library is for x86, where the only
  reordering is of a store with a later load of the same thread from another
  place.  The protocols modelled here acquire by locked instructions, release by
  plain stores, which stay in order, and put an `mfence` between the one store
  that a look at the word must follow (`glk.c:876`, `mutexee_in.h:381`).
* `GlkAssumption`: twice the number of threads is at most the adaptation period
  plus one, and the number of threads plus the restart value of `num_acquired`
  is at most the period.  With the period the code ships with (4096), this
  allows 2048 threads.  It is needed: with three threads and a period of four a
  late waiter adapts, and exclusion is lost.
* `NotLapped` (`SpinLocks`): no thread stops inside a ticket trylock while all
  2^32 tickets are handed out.
* `NotSpent` (`SpinLocks`): the two ticket locks with a guarded unlock are initialised
  again before their tickets wrap round.
* A transaction is aborted by every conflicting write, and an aborted transaction
  leaves no trace: what the manual of the processor says.
* The sequence word of a condition variable does not come round to the same
  value between a thread's reading it and its sleep.
* `McsAssumption`: no thread nests more MCS locks than it has nodes; the code
  asserts it.
* `SpinAssumption`: there are more tickets than threads (2^32 in the code), at least
  two, and `malloc` finds a node for each thread and one more.
* `ClhtAssumption`: a bucket has an entry, a table a bucket, and a resize makes the
  table larger; `MaxTables` bounds the tables.  (The code masks the hash with a
  power of two; the model takes the remainder, and needs no power of two.)
* `GlsAssumption`: finitely many threads, fewer than the detector has room for
  (`GLS_MAX_NUM_THREDS`); `MaxTables` bounds the tables that resizes make.
* `malloc` succeeds.

## 7. What is not modelled

* `glk_mp_check`: the models have the flag it writes, changing at any moment.  Its
  thresholds and its sleep period are planned.
* The training of the spin limits (`mutexee_lock_training`, `ladap_lock_train`): it
  only says how long a thread spins, which the models leave open.
* `clht_lp_put_in`, `clht_lp_get_in` and the test-and-set words they return: planned.
  `clht_lp_remove`, which nothing in GLS calls; cooperative resize, transactional
  memory and garbage collection of the table, which the build turns off.
* Of the condition variables: their use with a second mutex (`EINVAL`), the
  conversion of the absolute time, and the timed wait on tickets, where a thread
  that gives up leaves its ticket behind and takes the signal of another with
  it (`tas_in.h:668`).  The ticket sections of `mcs_in.h`, `clh_in.h` and their GLK
  copies are dead: these headers define `USE_FUTEX_COND` to be 1.
* Of the timed wait on a futex: a time that is over when a broadcast has moved the
  sleeper to the mutex, whose wait keeps it (`mutexee_in.h:534`), or when a signal has
  just woken it (`glk.c:988`).  The thread goes for the mutex all the same and says
  `ETIMEDOUT`.
* Of GLS: the warnings, which only print; a put that waits for a resize (it is in
  `Clht`); the resize by a thread that goes on to lock one of `Addrs`, which is that
  thread being slow and another one resizing.  The deadlock detector is modelled for
  builds in which it is reached: with `LOCK_IN_COOP` 1 the counters of
  `ticket_glk_impl.h:161` and `ttas_glk_impl.h:208` start over before they reach its
  threshold.
* What a spin lock does while it waits: pauses, `mwait` through a device, another
  frequency.  It is not visible in the lock word.
* The statistics of the profiling locks, and `-DMEMCACHED`, which changes the unlock of
  the ticket and MCS locks for calls without a lock.
* The wrappers `mutex_in.h`, `mutex_adap_in.h` (they call pthread), the atomic
  instructions, statistics and energy counters, benchmarks and scripts: no
  protocol of their own.
* Destruction of locks: GLS never destroys one.

## 8. Plan

Done: `Mutex`, `FifoLock`, `Glk`, `FutexMutex`, `RwLocks`, `Mcs`, `SpinLocks`,
`CondBuilds` and `Cond`, `Clht` and `Gls`, with proofs.

Modules to come, in this order:

1. `MpCheck`: the background thread, with its thresholds and the shift of its
   sleep period, composed with the flag of `Glk`.  To show: the sleep period stays
   within its bounds over every sequence of measurements.
2. `InlineWords`: `gls_lock_tas_in` on words inside the table, composed with the
   resize of `Clht`.  To show: which copy of a word excludes whom.
