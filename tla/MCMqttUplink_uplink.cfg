\* Two measurements, and four events: a node that comes, goes and comes back
\* with other firmware, and a lost connection or two, a restart, an expired
\* session or a new key in between.  When they are spent, nothing is left to do.
CONSTANTS
  None = None
  Firmwares <- BothFirmwares
  MaxMeas = 2
  MaxEvents = 4
SPECIFICATION Spec
CHECK_DEADLOCK FALSE
INVARIANTS
  TypeOK
  NewestWins
  ViewIsCurrent
