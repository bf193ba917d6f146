\* Heartbeats of two and three ticks, time is counted to four; seven failures
\* in a row pass the cap at the sixth.
CONSTANTS
  Values = {v1, v2}
  Settings <- Filtered
  Horizon = 4
  None = None
  RetryAfters <- Asked
  MaxFailures = 7
SPECIFICATION PacingSpec
INVARIANTS
  PacingTypeOK
  ShownIsRead
  Doubling
  NeverSilent
PROPERTIES
  HeartbeatKept
