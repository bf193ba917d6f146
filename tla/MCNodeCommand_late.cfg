\* A command sent just before the connection is lost.
CONSTANTS
  n1 = n1
  Nodes = {n1}
  Pollers = {}
  Signers = {}
  MaxCommands = 1
  MaxEvents = 2
SPECIFICATION Spec
PROPERTIES
  NoLateSend
\* Bounded commands: the system stops when all are answered.
CHECK_DEADLOCK FALSE
