\* Main refuses every batch of s2 for good; the one semaphore slot is shared.
CONSTANTS
  s1 = s1
  s2 = s2
  Serials = {s1, s2}
  MaxReadings = 3
  MaxStarts = 2
  MaxConcurrent = 1
  MaxPerRound = 1
  StoreFaults = FALSE
  Malformed = FALSE
  Rejecting = {s2}
SPECIFICATION FairSpec
PROPERTIES
  OutboxDrains
  DeliveryKept
  DeliveryMade
CHECK_DEADLOCK FALSE
