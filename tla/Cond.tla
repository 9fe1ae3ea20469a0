------------------------------- MODULE Cond -------------------------------
(***************************************************************************)
(* The condition variables of the library.  Every lock comes with one, and *)
(* there are three of them.  The first is a word that every signal         *)
(* increments and that waiters sleep on if it is what they have read (it   *)
(* is 32 bits wide, and is not taken to wrap round between a thread's      *)
(* reading and its sleep).  The second is the same but for the broadcast,  *)
(* which wakes one waiter and moves the others to the futex of the mutex.  *)
(* The third has no futex: a waiter takes a ticket and spins until a       *)
(* signal has moved the head past it.                                      *)
(*                                                                         *)
(* Two programs use it here: the sleeping barrier of src/sbarrier.c, and a *)
(* program that waits for tokens in a loop, as a caller of                 *)
(* pthread_cond_wait must.  The steps of the mutex are those of FutexMutex.*)
(* The other barrier of src/sbarrier.c, which spins and needs neither, is  *)
(* a program of its own.                                                   *)
(***************************************************************************)
EXTENDS FutexMutex, CondBuilds, FiniteSets

CONSTANTS
  Clients,      \* which of the programs run
  Interrupts,   \* the programs in which a signal handler can end a FUTEX_WAIT
  Givers,       \* tokens: the threads that give them, the others take them
  MaxTokens     \* bound: the tokens there can be

ASSUME CondAssumption ==
  /\ Clients \subseteq {"barrier", "spin_barrier", "tokens"}
  /\ Interrupts \subseteq Clients
  /\ Givers \subseteq Threads /\ MaxTokens \in Nat
  /\ IsFiniteSet(Threads)

VARIABLES
  cond,         \* the profile of the condition variable, fixed at compile time
  client,       \* the program that runs
  current,      \* the threads that have read the word, or the head, as it is now
  bound,        \* c->l, or c->m, has been set
  due,          \* c->ticket - c->head
  mine,         \* its ticket, or the end of its broadcast, less c->head, at least -1
  op, at,       \* the operation of the client, and where the thread is in it
  crossing,     \* barrier: b->crossing
  tokens,       \* tokens: the predicate that the condition is about
  ahead,        \* history: how much more often than the last a thread came to the barrier
  crossed_n, sense_global,   \* spin_barrier: b->crossed_n, and b->sense_global
  sense_local   \* spin_barrier: the variable of that name in barrier_wait

condvars == <<cond, client, current, bound, due, mine, op, at, crossing, tokens, ahead>>

spinvars == <<crossed_n, sense_global, sense_local>>

(* What the mutex, and what the condition variable, consists of.           *)
mutexvars == <<copy, locked, contended, pc>>
wordvars == <<current, due, mine>>

CondInit ==
  /\ Init
  /\ \E b \in AllBuilds :
       b.mutex \in Variants /\ copy = Profile[b.mutex] /\ cond = b.cond
  /\ client \in Clients
  /\ current = {} /\ bound = FALSE
  /\ due = 0 /\ mine = [t \in Threads |-> 0]
  /\ op = [t \in Threads |-> "none"] /\ at = [t \in Threads |-> "out"]
  /\ crossing = 0 /\ tokens = 0
  /\ ahead = [t \in Threads |-> 0]
  /\ crossed_n = Cardinality(Threads) /\ sense_global = TRUE
  /\ sense_local = [t \in Threads |-> TRUE]

Put(t, place) == at' = [at EXCEPT ![t] = place]

(* The thread has just got the mutex, at first or again.                   *)
Inside(t) == pc[t] = "cs" /\ at[t] \in {"lock", "relock"}

----------------------------------------------------------------------------
(* The condition variable.                                                 *)

(* Relative to a head that has moved on by n.  Givers that signal at once  *)
(* can move the head past the last ticket, each by one, and a broadcast    *)
(* then sets it back: how far a ticket has been passed does not matter     *)
(* beyond that.                                                            *)
Passed == -1 - Cardinality(Givers)
Behind(m, n) == IF m - n < Passed THEN Passed ELSE m - n

(* The beginning of a wait, with the mutex held: the word is read, or a    *)
(* ticket is taken, and the mutex is noted.  The unlock of the mutex comes *)
(* next.                                                                   *)
BeginWait(t) ==
  /\ IF cond.spins
     THEN due' = due + 1 /\ mine' = [mine EXCEPT ![t] = due + 1] /\ UNCHANGED current
     ELSE current' = current \cup {t} /\ UNCHANGED <<due, mine>>
  /\ bound' = TRUE
  /\ Put(t, "release")
  /\ UNCHANGED <<mutexvars, cond, client, op>>

(* After the wait the mutex is taken again.                                *)
Relock == IF cond.moves THEN "woken" ELSE "spin"

GoRelock(t) ==
  /\ Put(t, "relock") /\ Goto(t, Relock)
  /\ current' = current \ {t} /\ mine' = [mine EXCEPT ![t] = 0]

(* Where that is done by swapping the word, a thread that misses it sleeps *)
(* on the mutex whatever the lock function would do.                       *)
RelockSwap(t) ==
  /\ cond.moves /\ at[t] = "relock" /\ pc[t] = "woken"
  /\ locked' = 1 /\ contended' = 1
  /\ Goto(t, IF locked = 0 THEN "cs" ELSE "wait")
  /\ UNCHANGED <<copy, condvars>>

(* Broken: sleeps although the word has changed.                           *)
CondSleepBlind(t) ==
  /\ ~cond.spins
  /\ at[t] = "release" /\ pc[t] = "idle"
  /\ Put(t, "asleep") /\ UNCHANGED <<pc, wordvars>>
  /\ UNCHANGED <<copy, locked, contended, cond, client, bound, due, op, crossing, tokens, ahead>>

(* FUTEX_WAIT, once the mutex is unlocked.                                 *)
CondSleep(t) ==
  /\ ~cond.spins
  /\ at[t] = "release" /\ pc[t] = "idle"
  /\ IF t \in current THEN Put(t, "asleep") /\ UNCHANGED <<pc, wordvars>> ELSE GoRelock(t)
  /\ UNCHANGED <<copy, locked, contended, cond, client, bound, due, op, crossing, tokens, ahead>>

(* The head has reached the ticket of the thread.                          *)
Reached(t) == mine[t] = 0 \/ (mine[t] < 0 /\ ~cond.exact)

(* A look at the head, once the mutex is unlocked.                         *)
CondSpin(t) ==
  /\ cond.spins
  /\ at[t] = "release" /\ pc[t] = "idle"
  /\ IF Reached(t)
     THEN GoRelock(t)
     ELSE UNCHANGED <<pc, wordvars, at>>
  /\ UNCHANGED <<copy, locked, contended, cond, client, bound, due, op, crossing, tokens, ahead>>

(* FUTEX_WAIT returns because of a signal handler.                         *)
CondInterrupted(t) ==
  /\ client \in Interrupts /\ at[t] = "asleep"
  /\ GoRelock(t)
  /\ UNCHANGED <<copy, locked, contended, cond, client, bound, due, op, crossing, tokens, ahead>>

(* cond_timedwait: the time is over before FUTEX_WAIT or during it.  (Left *)
(* out: the timed wait of a spinning condition variable; a time that is    *)
(* over when a broadcast has moved the sleeper to the mutex, or when a     *)
(* signal has just woken it.)                                              *)
TimeOut(t) ==
  /\ ~cond.spins
  /\ op[t] = "take" /\ pc[t] = "idle" /\ at[t] \in {"release", "asleep"}
  /\ op' = [op EXCEPT ![t] = "timedout"]
  /\ GoRelock(t)
  /\ UNCHANGED <<copy, locked, contended, cond, client, bound, due, crossing, tokens, ahead>>

(* Where a client calls signal or broadcast: the barrier with the mutex    *)
(* held, the giver of a token after it has unlocked it.                    *)
Posting(t) ==
  \/ at[t] = "post"
  \/ at[t] = "unlock" /\ pc[t] = "idle" /\ op[t] \in {"signal", "broadcast"}

(* Where the client goes when signal or broadcast has returned.            *)
NextPlace(t) == IF op[t] = "cross" THEN "unlock" ELSE "out"

(* Broken: the barrier does not start again from zero.                     *)
AfterPostNoReset(t) ==
  /\ op' = IF op[t] = "cross" THEN op ELSE [op EXCEPT ![t] = "none"]
  /\ UNCHANGED crossing

(* What the client does there.                                             *)
AfterPost(t) ==
  /\ op' = IF op[t] = "cross" THEN op ELSE [op EXCEPT ![t] = "none"]
  /\ crossing' = IF op[t] = "cross" THEN 0 ELSE crossing

(* Whether somebody seems to wait, for whom there is something to do.      *)
SeesWaiter(t) ==
  IF cond.spins THEN (IF op[t] = "signal" THEN due > 0 ELSE due # 0)
  ELSE op[t] = "signal" \/ bound

(* A signal or broadcast begins.  It has nothing to do if it sees that     *)
(* nobody waits; otherwise the word is incremented, or a broadcast reads   *)
(* the head and the last ticket.                                           *)
Post(t) ==
  /\ Posting(t)
  /\ IF SeesWaiter(t)
     THEN /\ Put(t, "wake") /\ UNCHANGED <<op, crossing, due>>
          /\ IF ~cond.spins THEN current' = {} /\ UNCHANGED mine
             ELSE IF op[t] = "signal" THEN UNCHANGED <<current, mine>>
             ELSE current' = current \cup {t} /\ mine' = [mine EXCEPT ![t] = due]
     ELSE Put(t, NextPlace(t)) /\ AfterPost(t) /\ UNCHANGED wordvars
  /\ UNCHANGED <<mutexvars, cond, client, bound, tokens, ahead>>

(* The head moves on by n; a broadcast that has read it reads it again.    *)
Advance(t, n) ==
  /\ due' = due - n
  /\ mine' = [u \in Threads |-> IF at[u] = "release" THEN Behind(mine[u], n) ELSE 0]
  /\ current' = {}
  /\ Put(t, NextPlace(t)) /\ AfterPost(t)
  /\ UNCHANGED <<mutexvars, cond, client, bound, tokens, ahead>>

(* The head is incremented, whatever has become of it since it was seen to *)
(* be below the last ticket.                                               *)
SpinSignal(t) ==
  /\ cond.spins /\ at[t] = "wake" /\ op[t] = "signal"
  /\ Advance(t, 1)

(* The head is set to the ticket that was read, if it is what was read     *)
(* with it; otherwise both are read again.                                 *)
SpinBroadcast(t) ==
  /\ cond.spins /\ at[t] = "wake" /\ op[t] \in {"broadcast", "cross"}
  /\ IF t \in current
     THEN Advance(t, mine[t])
     ELSE /\ current' = current \cup {t} /\ mine' = [mine EXCEPT ![t] = due]
          /\ UNCHANGED <<mutexvars, due, at, op, crossing, cond, client, bound, tokens, ahead>>

Sleepers == {u \in Threads : at[u] = "asleep"}

(* The threads of awake are woken, and those of moved sleep on the mutex.  *)
Waking(t, awake, moved) ==
  /\ at[t] = "wake" /\ ~cond.spins
  /\ pc' = [u \in Threads |-> IF u \in awake THEN Relock
                              ELSE IF u \in moved THEN "asleep" ELSE pc[u]]
  /\ at' = [u \in Threads |-> IF u \in awake \cup moved THEN "relock"
                              ELSE IF u = t THEN NextPlace(t) ELSE at[u]]
  /\ AfterPost(t)
  /\ current' = current \ (awake \cup moved)
  /\ UNCHANGED <<copy, locked, contended, cond, client, bound, due, mine, tokens, ahead>>

(* The sets of sleepers that a call can wake.                              *)
MayWake(one) ==
  IF Sleepers = {} THEN {{}}
  ELSE IF one THEN {{u} : u \in Sleepers} ELSE {Sleepers}

(* Broken: the sleepers are moved to the mutex, and none of them is woken. *)
BroadcastMovesAll(t) ==
  /\ op[t] \in {"broadcast", "cross"}
  /\ IF cond.moves THEN Waking(t, {}, Sleepers) ELSE Waking(t, Sleepers, {})

Broadcast(t) ==
  /\ op[t] \in {"broadcast", "cross"}
  /\ \E awake \in MayWake(cond.moves) : Waking(t, awake, Sleepers \ awake)

Signal(t) ==
  /\ op[t] = "signal"
  /\ \E awake \in MayWake(TRUE) : Waking(t, awake, {})

----------------------------------------------------------------------------
(* The clients.                                                            *)

Operations(t) ==
  IF client = "barrier" THEN {"cross"}
  ELSE IF t \in Givers THEN {"signal", "broadcast"} ELSE {"take"}

(* A client calls: it locks the mutex.                                     *)
Enter(t) ==
  /\ client # "spin_barrier"
  /\ at[t] = "out" /\ pc[t] = "idle"
  /\ \E o \in Operations(t) : op' = [op EXCEPT ![t] = o]
  /\ Put(t, "lock") /\ \E label \in copy.enters : Goto(t, label)
  /\ UNCHANGED <<copy, locked, contended, cond, client, wordvars, bound, crossing, tokens, ahead>>

Arrive(t) ==
  LET count == [ahead EXCEPT ![t] = @ + 1] IN
  ahead' = IF \A u \in Threads : count[u] > 0
           THEN [u \in Threads |-> count[u] - 1] ELSE count

(* Broken: lets the last but one through.                                  *)
CrossEarly(t) ==
  /\ op[t] = "cross" /\ at[t] = "lock" /\ pc[t] = "cs"
  /\ crossing' = crossing + 1
  /\ Arrive(t)
  /\ IF crossing' < Cardinality(Threads) - 1
     THEN BeginWait(t)
     ELSE Put(t, "post") /\ UNCHANGED <<mutexvars, cond, client, wordvars, bound, op>>
  /\ UNCHANGED tokens

(* barrier_sleep_cross: one more thread is through; if not all are here,   *)
(* it waits, once.                                                         *)
Cross(t) ==
  /\ op[t] = "cross" /\ at[t] = "lock" /\ pc[t] = "cs"
  /\ crossing' = crossing + 1
  /\ Arrive(t)
  /\ IF crossing' < Cardinality(Threads)
     THEN BeginWait(t)
     ELSE Put(t, "post") /\ UNCHANGED <<mutexvars, cond, client, wordvars, bound, op>>
  /\ UNCHANGED tokens

(* The wait of the barrier is over.                                        *)
Crossed(t) ==
  /\ op[t] = "cross" /\ at[t] = "relock" /\ pc[t] = "cs"
  /\ Put(t, "unlock")
  /\ UNCHANGED <<mutexvars, cond, client, wordvars, bound, op, crossing, tokens, ahead>>

(* One token more, if the bound allows it.                                 *)
Give(t) ==
  /\ op[t] \in {"signal", "broadcast"} /\ at[t] = "lock" /\ pc[t] = "cs"
  /\ tokens' = IF tokens < MaxTokens THEN tokens + 1 ELSE tokens
  /\ Put(t, "unlock")
  /\ UNCHANGED <<mutexvars, cond, client, wordvars, bound, op, crossing, ahead>>

(* while there is no token, wait; a thread whose time is over leaves.      *)
Take(t) ==
  /\ op[t] \in {"take", "timedout"} /\ Inside(t)
  /\ IF tokens = 0 /\ op[t] = "take"
     THEN BeginWait(t) /\ UNCHANGED tokens
     ELSE /\ tokens' = IF tokens > 0 THEN tokens - 1 ELSE 0
          /\ Put(t, "unlock")
          /\ UNCHANGED <<mutexvars, cond, client, wordvars, bound, op>>
  /\ UNCHANGED <<crossing, ahead>>

(* The mutex is unlocked and the call returns.                             *)
Return(t) ==
  /\ at[t] = "unlock" /\ pc[t] = "idle"
  /\ op[t] \in {"cross", "take", "timedout"}
  /\ Put(t, "out") /\ op' = [op EXCEPT ![t] = "none"]
  /\ UNCHANGED <<mutexvars, cond, client, wordvars, bound, crossing, tokens, ahead>>

----------------------------------------------------------------------------
(* barrier_wait, which spins.                                              *)

ReadSense(t) ==
  /\ client = "spin_barrier" /\ at[t] = "out"
  /\ sense_local' = [sense_local EXCEPT ![t] = ~sense_global]
  /\ Put(t, "count")
  /\ UNCHANGED <<crossed_n, sense_global, ahead>>

(* The last one opens the barrier.                                         *)
CountDown(t) ==
  /\ at[t] = "count"
  /\ crossed_n' = crossed_n - 1
  /\ Arrive(t)
  /\ Put(t, IF crossed_n = 1 THEN "reset" ELSE "await")
  /\ UNCHANGED <<sense_global, sense_local>>

(* It first makes the counter ready for the next time.                     *)
ResetCount(t) ==
  /\ at[t] = "reset"
  /\ crossed_n' = Cardinality(Threads)
  /\ Put(t, "turn")
  /\ UNCHANGED <<sense_global, sense_local, ahead>>

TurnSense(t) ==
  /\ at[t] = "turn"
  /\ sense_global' = sense_local[t]
  /\ Put(t, "out")
  /\ UNCHANGED <<crossed_n, sense_local, ahead>>

AwaitSense(t) ==
  /\ at[t] = "await" /\ sense_global = sense_local[t]
  /\ Put(t, "out")
  /\ UNCHANGED <<spinvars, ahead>>

(* A thread that has come to the barrier.                                  *)
SpinBarrierStep(t) ==
  /\ CountDown(t) \/ ResetCount(t) \/ TurnSense(t) \/ AwaitSense(t)
  /\ UNCHANGED <<mutexvars, cond, client, wordvars, bound, op, crossing, tokens>>

EnterSpinBarrier(t) ==
  /\ ReadSense(t)
  /\ UNCHANGED <<mutexvars, cond, client, wordvars, bound, op, crossing, tokens>>

----------------------------------------------------------------------------
(* A step of the mutex: it is unlocked only where the clients do so.       *)
MutexStep(t) ==
  /\ pc[t] = "cs" => at[t] \in {"release", "unlock"}
  /\ pc[t] = "woken" => at[t] = "lock" \/ ~cond.moves
  /\ Step(t)
  /\ UNCHANGED condvars

WithMutexStep(t) ==
  \/ MutexStep(t) \/ RelockSwap(t) \/ CondSleep(t) \/ CondSpin(t)
  \/ Post(t) \/ Signal(t) \/ Broadcast(t) \/ SpinSignal(t) \/ SpinBroadcast(t)
  \/ Cross(t) \/ Crossed(t) \/ Give(t) \/ Take(t) \/ Return(t)

CondStep(t) == (WithMutexStep(t) /\ UNCHANGED spinvars) \/ SpinBarrierStep(t)

CondNext ==
  \E t \in Threads :
    \/ CondStep(t)
    \/ (Enter(t) \/ CondInterrupted(t) \/ TimeOut(t)) /\ UNCHANGED spinvars
    \/ EnterSpinBarrier(t)

CondSpec == CondInit /\ [][CondNext]_<<vars, condvars, spinvars>>

(* A thread that is in a call runs.                                        *)
CondFairSpec ==
  CondSpec /\ \A t \in Threads : WF_<<vars, condvars, spinvars>>(CondStep(t))

----------------------------------------------------------------------------
(* Properties.                                                             *)

CondTypeOK ==
  /\ TypeOK
  /\ cond \in {b.cond : b \in AllBuilds}
  /\ due \in Int /\ mine \in [Threads -> Int]
  /\ client \in Clients /\ current \subseteq Threads /\ bound \in BOOLEAN
  /\ op \in [Threads -> {"none", "cross", "take", "timedout", "signal", "broadcast"}]
  /\ at \in [Threads -> {"out", "lock", "release", "asleep", "relock", "post", "wake", "unlock",
                       "count", "reset", "turn", "await"}]
  /\ crossed_n \in 0 .. Cardinality(Threads) /\ sense_global \in BOOLEAN
  /\ sense_local \in [Threads -> BOOLEAN]
  /\ crossing \in 0 .. Cardinality(Threads) /\ tokens \in 0 .. MaxTokens
  /\ ahead \in [Threads -> Nat]

(* The threads that wait and have not been woken, and those that wait in   *)
(* vain no longer: the word has changed, or the head has reached them.     *)
Unserved ==
  {u \in Threads : at[u] = "asleep" \/ (cond.spins /\ at[u] = "release" /\ ~Reached(u))}

Served(t) ==
  at[t] = "release" /\ IF cond.spins THEN Reached(t) ELSE t \notin current

(* A wake-up may be spurious but is never lost: while there is a token and *)
(* a thread waits for one, some thread is on its way that will take it or  *)
(* wake the waiter.  (Spinning condition variables that wait for the head  *)
(* to be exactly the ticket do lose one, and so do all that spin if two    *)
(* threads signal at once and a third broadcasts; see the README.)         *)
OneGiver == \A g, h \in Givers : g = h
NoTokenForgotten ==
  /\ client = "tokens" /\ tokens > 0 /\ Unserved # {}
  /\ cond.spins => OneGiver /\ ~cond.exact
  =>
    \E t \in Threads :
      \/ at[t] \in {"lock", "relock", "wake"}
      \/ Served(t)
      \/ at[t] = "unlock" /\ op[t] \in {"signal", "broadcast"}

(* The barrier holds: when a thread is out of it, or on its way out, all   *)
(* others have come to it as often, or once more.                          *)
BarrierHolds ==
  client # "tokens" =>
    \A t, u \in Threads :
      at[t] \in {"out", "unlock", "count"} => ahead[u] - ahead[t] \in {0, 1}

(* Everybody who comes to the barrier crosses it once all are there.  With *)
(* the mutexes most of them are woken by the unlocks of the others.  All   *)
(* threads of the barrier do the same; it is stated for the givers.        *)
BarrierOpens ==
  \A t \in Givers :
    (/\ client # "tokens" /\ ~cond.exact /\ at[t] \notin {"lock", "count"}
     /\ \A u \in Threads : ahead[u] = 0) ~> at[t] = "out"
============================================================================
