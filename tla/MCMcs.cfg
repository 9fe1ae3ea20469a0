SPECIFICATION FairSpec
CONSTANTS
  t1 = t1
  t2 = t2
  t3 = t3
  Threads <- MCThreads
  NumLocks = 2
  Uses <- MCUses
  Slots = 2
  Variants = {"table", "array"}
  Null = Null
INVARIANTS NodeUsed WalkStaysInQueue
PROPERTIES ImplementsFifo EveryCallReturns
