SPECIFICATION FairSpec
CONSTANTS
  Threads = {t1, t2, t3}
  Variants = {"TAS_RW", "TTAS_RW"}
INVARIANTS TypeOK WritersExclude WordIsHonest
PROPERTIES UnlockKnowsItsCaller ReadersGetIn
