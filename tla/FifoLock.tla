------------------------------ MODULE FifoLock ------------------------------
(***************************************************************************)
(* What a queue lock promises on top of mutual exclusion: the threads that *)
(* take a place in its queue are served in the order of their places, and  *)
(* a trylock gets the lock only when the queue is empty.  It is the view   *)
(* that Glk has of its MCS lock, for a set of locks that one thread may    *)
(* hold together.                                                          *)
(***************************************************************************)
EXTENDS Sequences

CONSTANTS Threads, Locks, NoThread

VARIABLES
  queue,      \* queue[l]: the threads with a place in the queue of lock l
  owner       \* owner[l]: the thread that holds l

vars == <<queue, owner>>

Init ==
  /\ queue = [l \in Locks |-> <<>>]
  /\ owner = [l \in Locks |-> NoThread]

Enqueue(t, l) ==
  /\ queue' = [queue EXCEPT ![l] = Append(@, t)]
  /\ UNCHANGED owner

(* The thread at the head is served once the lock has no owner.            *)
Serve(t, l) ==
  /\ queue[l] # <<>> /\ Head(queue[l]) = t
  /\ owner[l] = NoThread
  /\ owner' = [owner EXCEPT ![l] = t]
  /\ UNCHANGED queue

(* An empty queue is entered and served at once.                           *)
Take(t, l) ==
  /\ queue[l] = <<>>
  /\ queue' = [queue EXCEPT ![l] = <<t>>]
  /\ owner' = [owner EXCEPT ![l] = t]

Release(t, l) ==
  /\ owner[l] = t
  /\ queue' = [queue EXCEPT ![l] = Tail(@)]
  /\ owner' = [owner EXCEPT ![l] = NoThread]

Next ==
  \E t \in Threads, l \in Locks :
    Enqueue(t, l) \/ Serve(t, l) \/ Take(t, l) \/ Release(t, l)

Spec == Init /\ [][Next]_vars
============================================================================
