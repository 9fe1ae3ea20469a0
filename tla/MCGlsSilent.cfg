SPECIFICATION FairSpec
CONSTANTS
  Threads = {t1, t2}
  Addrs = {a, b}
  Checked = {a, b}
  Null = Null
  WalkLimit = 4
  MaxTables = 2
PROPERTIES CrossedLocksAreReported
CHECK_DEADLOCK FALSE
