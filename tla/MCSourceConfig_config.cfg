\* Two sources, one of which leaks, three edits, two faults and a restart.
CONSTANTS
  a = a
  b = b
  Sources = {a, b}
  Leaky = {b}
  MaxEdits = 3
  MaxFaults = 2
  MaxStarts = 2
SPECIFICATION FairSpec
INVARIANTS
  TypeOK
  ConfigInForce
  OneConnection
PROPERTIES
  Undisturbed
  ConfigArrives
