SPECIFICATION FairSpec
CONSTANTS
  Threads = {t1, t2, t3}
  Variants = {"GLK", "MUTEXEE", "MUTEXEE_FAIR", "MUTEX_GLK", "LADAP", "LADAP1", "LADAP2", "LADAP3", "LADAP4", "LADAP5", "SPIN"}
INVARIANTS TypeOK MutualExclusion SleeperIsWatched
PROPERTIES ImplementsMutex SomeoneEnters BusyMeansOwned
