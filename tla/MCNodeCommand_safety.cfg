\* A node that signs and one that polls; two commands and one loss of a broker
\* connection, or one command and two losses.
CONSTANTS
  n1 = n1
  p1 = p1
  Nodes = {n1, p1}
  Pollers = {p1}
  Signers = {n1}
  MaxCommands = 2
  MaxEvents = 3
SPECIFICATION Spec
INVARIANTS
  TypeOK
  SureErrorNeverRuns
  HeldIsAwaited
PROPERTIES
  PolledInTurn
  CommandPromiseKept
\* Bounded commands: the system stops when all are answered.
CHECK_DEADLOCK FALSE
