--------------------------- MODULE GlkInvariant ---------------------------
(***************************************************************************)
(* An inductive invariant of Glk.  What makes GLK right is that a thread   *)
(* that queued on a sublock before lock_type changed never changes it in   *)
(* turn: glk_ticket_adap and glk_mcs_adap do not look at lock_type, and    *)
(* adapt whenever the number they were given is a multiple of the period.  *)
(* So the invariant has to say which numbers can still be in the hands of  *)
(* late waiters, in terms of tail and num_acquired.  It comes in parts:    *)
(*   - Places: which thread is in which queue, and who is first;           *)
(*   - Switching: what a thread in the critical section, or about to store *)
(*     to lock_type, knows of lock_type;                                   *)
(*   - TicketPart: what the tickets in the queue are;                      *)
(*   - McsPart: how far num_acquired can run before it is reset.           *)
(***************************************************************************)
EXTENDS Glk

N == Cardinality(Threads)

(* A thread has called, and has not returned, exactly while it is between  *)
(* the call and the critical section.                                      *)
Ops == \A t \in Threads : op[t] = "none" <=> pc[t] \in {"idle", "cs", "release"}

----------------------------------------------------------------------------
(* The places of the threads.                                              *)

(* A thread at one of these holds the sublock that it acquired.            *)
After == {"adapt", "write", "check", "retry", "cs", "release"}

TypeAt(t) ==
  /\ pc[t] \in {"idle", "read"} <=> type[t] = "none"
  /\ pc[t] \in {"ticket_head", "ticket_wait"} => type[t] = "TICKET"
  /\ pc[t] \in {"mcs_count", "mcs_wait"} => type[t] = "MCS"

InTicket ==
  {t \in Threads : /\ type[t] = "TICKET"
                   /\ pc[t] \in After \cup {"ticket_head", "ticket_wait"}}
InMcs ==
  {t \in Threads : /\ type[t] = "MCS"
                   /\ pc[t] \in After \cup {"mcs_count", "mcs_wait"}}

Distinct(q) == \A i, j \in 1 .. Len(q) : q[i] = q[j] => i = j

(* The queue q has the threads of S, each once.                            *)
Queues(q, S) ==
  /\ Distinct(q)
  /\ \A t \in Threads : t \in S <=> \E i \in 1 .. Len(q) : q[i] = t

TicketMembers == Queues(ticket_queue, InTicket)
McsMembers == Queues(mcs_queue, InMcs)
MutexMember ==
  \A t \in Threads : mutex = t <=> type[t] = "MUTEX" /\ pc[t] \in After

AfterIsFirst ==
  \A t \in Threads : pc[t] \in After =>
    /\ type[t] = "TICKET" => ticket_queue # <<>> /\ ticket_queue[1] = t
    /\ type[t] = "MCS" => mcs_queue # <<>> /\ mcs_queue[1] = t

Places ==
  /\ \A t \in Threads : TypeAt(t)
  /\ TicketMembers /\ McsMembers /\ MutexMember
  /\ AfterIsFirst

(* A thread in the critical section has the sublock in force, and so has   *)
(* one that is about to store another type.                                *)
Switching ==
  \A t \in Threads :
    /\ InCs(t) => type[t] = lock_type
    /\ pc[t] = "write" => /\ type[t] = lock_type
                          /\ target[t] \in Types \ {lock_type}
                          /\ type[t] = "MUTEX" => target[t] = "TICKET"

----------------------------------------------------------------------------
(* The tickets.                                                            *)

HasTicket(t) ==
  type[t] = "TICKET" /\ pc[t] \in {"ticket_head", "ticket_wait", "adapt"}

(* The threads that have still to take a ticket, of a lock that may have   *)
(* another type by then.                                                   *)
TicketPending == {t \in Threads : type[t] = "TICKET" /\ pc[t] = "acquire"}

(* No ticket that is left over from before a switch is one that adapts.    *)
LateTickets ==
  \A t \in Threads :
    HasTicket(t) /\ lock_type # "TICKET" => num[t] % AdaptEvery # 0

(* The tickets of the queue count down from tail.                          *)
TicketNumbers ==
  \A i \in 1 .. Len(ticket_queue) : HasTicket(ticket_queue[i]) =>
    LET behind == Len(ticket_queue) - i IN
    num[ticket_queue[i]] =
      IF tail >= behind THEN tail - behind ELSE tail - behind + AdaptEvery

(* The thread that switches has the ticket 0 of the period.                *)
TicketWriter ==
  \A t \in Threads :
    pc[t] = "write" /\ type[t] = "TICKET" => tail = Len(ticket_queue) - 1

(* Tickets taken after the switch stay below the end of the period.        *)
TicketRoom ==
  lock_type # "TICKET" => tail + Cardinality(TicketPending) < AdaptEvery

TicketPart == LateTickets /\ TicketNumbers /\ TicketWriter /\ TicketRoom

----------------------------------------------------------------------------
(* The count of the MCS lock.                                              *)

(* The threads that have still to count themselves.                        *)
Pending == {t \in Threads : type[t] = "MCS" /\ pc[t] \in {"acquire", "mcs_count"}}

(* Thread t has a number that makes it adapt when it gets the lock.        *)
Critical(t) ==
  type[t] = "MCS" /\ pc[t] \in {"mcs_wait", "adapt"} /\ num[t] % AdaptEvery = 0
Writing(t) == type[t] = "MCS" /\ pc[t] = "write"

Before(u, t) ==
  \E i, j \in 1 .. Len(mcs_queue) :
    i < j /\ mcs_queue[i] = u /\ mcs_queue[j] = t

(* Until t has adapted, a thread counts itself at most once in front of t  *)
(* and once behind it, where it then waits.  The threads of Once(t) have   *)
(* no count left to do in front of t; those of Twice(t) have done the one  *)
(* behind it.                                                              *)
Once(t) == {u \in Threads \ {t} : ~(Before(u, t) /\ pc[u] = "mcs_count")}
Twice(t) == {u \in Threads \ {t} : Before(t, u) /\ pc[u] = "mcs_wait"}

CriticalRoom ==
  \A t \in Threads : Critical(t) =>
    /\ lock_type = "MCS"
    /\ AdaptEvery <= num_acquired
    /\ num_acquired <= AdaptEvery + Cardinality(Once(t)) + Cardinality(Twice(t))

CriticalAlone ==
  \A t, u \in Threads : Critical(t) /\ (Critical(u) \/ Writing(u)) => t = u

WriterRoom ==
  \A t \in Threads : Writing(t) =>
    \/ /\ target[t] = "MUTEX" /\ AdaptEvery <= num_acquired
       /\ num_acquired <= AdaptEvery + N - 1 + Cardinality(Twice(t))
    \/ /\ target[t] = "TICKET"
       /\ num_acquired <= NumAcqInit + Cardinality(Twice(t))

QuietRoom ==
  lock_type = "MCS" /\ (\A t \in Threads : ~Critical(t) /\ ~Writing(t))
    => num_acquired < AdaptEvery

(* Those that count themselves after a switch all get numbers below the    *)
(* period, or all between the period and twice the period: glk_mcs_adap    *)
(* resets num_acquired when it switches to a ticket lock, and leaves it    *)
(* just above the period when it switches to a mutex.                      *)
LateRoom == num_acquired + Cardinality(Pending) < AdaptEvery
LateCounts ==
  /\ lock_type = "TICKET" => LateRoom
  /\ \A t \in Threads : pc[t] = "write" /\ type[t] = "MUTEX" => LateRoom
  /\ lock_type = "MUTEX" =>
       \/ LateRoom
       \/ /\ AdaptEvery <= num_acquired
          /\ num_acquired + Cardinality(Pending) < 2 * AdaptEvery

McsPart == CriticalRoom /\ CriticalAlone /\ WriterRoom /\ QuietRoom /\ LateCounts

IInv == TypeOK /\ Ops /\ Places /\ Switching /\ TicketPart /\ McsPart
===========================================================================
