SPECIFICATION FairSpec
CONSTANTS
  Threads = {t1, t2}
  Addrs = {a, b}
  Checked = {a, b}
  Null = Null
  WalkLimit = 4
  MaxTables = 2
INVARIANTS TypeOK NoUseBeforeInit OwnerHolds
PROPERTIES DeadlockIsReported
CHECK_DEADLOCK FALSE
