SPECIFICATION CondFairSpec
CONSTANTS
  Threads = {t1, t2, t3}
  Variants = {"GLK", "MUTEXEE", "MUTEX_GLK", "LADAP", "LADAP1", "LADAP3", "LADAP4", "SPIN"}
  Clients = {"barrier", "spin_barrier", "tokens"}
  Interrupts = {"tokens"}
  Givers = {t1}
  MaxTokens = 2
INVARIANTS CondTypeOK NoTokenForgotten BarrierHolds
PROPERTIES BarrierOpens
