SPECIFICATION Spec
CONSTANTS
  Threads = {t1, t2, t3}
  NoThread = NoThread
  AdaptEvery = 8
  SampleEvery = 8
  RatioHigh = 2
  RatioLow = 2
  MeasureDiv = 8
SYMMETRY Symmetry
INVARIANTS TypeOK MutualExclusion UnlockMatchesLock NoSublockLeaked
PROPERTIES SwitchOnlyByHolder
