SPECIFICATION Spec
CONSTANTS
  Word = 4
  LineLen = 2
  MaxLines = 2
  Kinds = {"modbus", "register", "opcua", "mqtt", "ascii"}
  Points = {p1, p2}
  Refused = {p2}
  Cmds = {c1, c2}
  Wants <- MCWants
  c1 = c1
  c2 = c2
  MaxTries = 2
  MaxFaults = 2
  MaxRestarts = 1
  MaxProbes = 1
CHECK_DEADLOCK FALSE
INVARIANTS
  TypeOK
  AnswersAreTrue
  CutCostsOne
PROPERTIES
  LossIsSeen
  ComesBack
