CONSTANTS
  s1 = s1
  Serials = {s1}
  MaxReadings = 2
  MaxStarts = 2
  MaxConcurrent = 1
  MaxPerRound = 2
  StoreFaults = FALSE
  Malformed = TRUE
  Rejecting = {}
SPECIFICATION Spec
INVARIANT MalformedIsFailure
CHECK_DEADLOCK FALSE
