\* Two serials, two semaphore slots, faults of the store, a crash, and a
\* portal that may answer in Main's place; three
\* readings, so that a serial can have two batches queued behind a retry.
CONSTANTS
  s1 = s1
  s2 = s2
  Serials = {s1, s2}
  MaxReadings = 3
  MaxStarts = 2
  MaxConcurrent = 2
  MaxPerRound = 2
  StoreFaults = TRUE
  Malformed = TRUE
  Rejecting = {}
SYMMETRY Symmetry
SPECIFICATION Spec
INVARIANTS
  TypeOK
  MainLogInOrder
  NothingLost
  NoFalseDuplicate
  OneCallForTheOldest
\* Bounded readings: the system stops when all are delivered.
CHECK_DEADLOCK FALSE
