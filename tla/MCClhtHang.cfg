SPECIFICATION FairSpec
CONSTANTS
  Threads = {t1, t2}
  Keys = {0, 2}
  Null = Null
  EntriesPerBucket = 1
  InitBuckets = 1
  GrowBy = {2}
  MaxTables = 2
PROPERTIES PutWaitEnds
