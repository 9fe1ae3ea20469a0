SPECIFICATION Spec
CONSTANTS
  Threads = {t1, t2}
  Addrs = {a, b}
  Checked = {a, b}
  Null = Null
  WalkLimit = 4
  MaxTables = 1
INVARIANTS AlarmIsTrue
CHECK_DEADLOCK FALSE
