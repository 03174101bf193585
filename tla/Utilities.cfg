\* Tracing stops for good.
SPECIFICATION MCSpec
CHECK_DEADLOCK FALSE
CONSTANTS
  Threads = {t1, t2, t3}
  MaxRelease = 2
  MaxCount = 2
  Nobody = Nobody
  Elements = {e1, e2}
  Garbage = Garbage
  FirstRequired = 2
  MaxSize = 4
  Items = {2, 3, 4, 5, 7}
  LargestCapacity = 8
  Tracers = {0, 1}
  Outsiders = {x}
  BufferCapacity = 2
  MaxRecords = 3
  Attempts = 2
  Exchanges = 1
  MaxRounds = 3
INVARIANTS
  NoSleepNextToPermit
  VectorKeepsContents
  HashSetHolds
  TraceComplete
  RoundTripsInTime
PROPERTIES
  ImplementsAtomic
