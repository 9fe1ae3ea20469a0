----------------------------- MODULE CondBuilds -----------------------------
(***************************************************************************)
(* The condition variables of the library, one per header, or two: most    *)
(* headers choose between a futex and spinning with USE_FUTEX_COND.        *)
(*                                                                         *)
(* spins: waiters take a ticket and spin, instead of sleeping on a futex.  *)
(* exact: such a waiter waits for the head to be its ticket, instead of to *)
(* have reached it.  moves: a broadcast wakes one sleeper and moves the    *)
(* others to the futex of the mutex, and who comes back from a wait takes  *)
(* the mutex by swapping its word.                                         *)
(***************************************************************************)

FutexCond == [spins |-> FALSE, exact |-> FALSE, moves |-> FALSE]
SpinCond == [FutexCond EXCEPT !.spins = TRUE]
ExactCond == [SpinCond EXCEPT !.exact = TRUE]
RequeueCond == [FutexCond EXCEPT !.moves = TRUE]

(* The futex of the spin locks, of GLK and of GLS.                         *)
TasCond == FutexCond
TtasCond == FutexCond
TicketCond == FutexCond
TicketLinuxCond == FutexCond
TicketDvfsCond == FutexCond
TicketFuCond == FutexCond
LockProfCond == FutexCond
McsCond == FutexCond
ClhCond == FutexCond
LadapTickCond == FutexCond
TtasSharedCond == FutexCond
TasGlkCond == FutexCond
TtasGlkCond == FutexCond
TicketGlkCond == FutexCond
McsGlkCond == FutexCond
ClhGlkCond == FutexCond
GlkCond == FutexCond
GlsCond == FutexCond

(* The tickets of the spin locks.                                          *)
TasSpin == SpinCond
TtasSpin == SpinCond
TicketFuSpin == SpinCond
TasGlkSpin == SpinCond
TtasGlkSpin == SpinCond
TicketSpin == ExactCond
TicketLinuxSpin == ExactCond
TicketDvfsSpin == ExactCond
LockProfSpin == ExactCond
LadapTickSpin == ExactCond
TicketGlkSpin == ExactCond

(* The futex of the mutexes.                                               *)
MutexeeCond == RequeueCond
MutexGlkCond == RequeueCond
LadapCond == RequeueCond
Ladap1Cond == RequeueCond
Ladap2Cond == RequeueCond
Ladap3Cond == RequeueCond
Ladap4Cond == RequeueCond
Ladap5Cond == RequeueCond

Built(mutex, conds) == {[mutex |-> mutex, cond |-> c] : c \in conds}

(* What can be compiled: the profile of a mutex (of module FutexMutex) and *)
(* of the condition variable that comes with it.                           *)
AllBuilds ==
  Built("SPIN", {TasCond, TtasCond, TicketCond, TicketLinuxCond, TicketDvfsCond, TicketFuCond,
                 LockProfCond, McsCond, ClhCond, LadapTickCond, TtasSharedCond, TasGlkCond,
                 TtasGlkCond, TicketGlkCond, McsGlkCond, ClhGlkCond, GlsCond})
  \cup Built("SPIN", {TasSpin, TtasSpin, TicketFuSpin, TasGlkSpin, TtasGlkSpin})
  \cup Built("SPIN", {TicketSpin, TicketLinuxSpin, TicketDvfsSpin, LockProfSpin, LadapTickSpin,
                      TicketGlkSpin})
  \cup Built("GLK", {GlkCond}) \cup Built("MUTEXEE", {MutexeeCond})
  \cup Built("MUTEX_GLK", {MutexGlkCond}) \cup Built("LADAP", {LadapCond})
  \cup Built("LADAP1", {Ladap1Cond}) \cup Built("LADAP2", {Ladap2Cond})
  \cup Built("LADAP3", {Ladap3Cond}) \cup Built("LADAP4", {Ladap4Cond})
  \cup Built("LADAP5", {Ladap5Cond})
=============================================================================
