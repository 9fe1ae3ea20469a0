SPECIFICATION FairSpec
CONSTANTS
  Threads = {t1, t2}
  NoThread = NoThread
  AdaptEvery = 4
  SampleEvery = 4
  RatioHigh = 1
  RatioLow = 2
  MeasureDiv = 4
PROPERTIES ImplementsMutex SomeoneEnters NoStarvation
