\* Two tabs, two forms sent, one edit over SSH and two restarts.
CONSTANTS
  t1 = t1
  t2 = t2
  x = x
  Tabs = {t1, t2}
  Values = {x}
  Bad = Bad
  Default = Default
  Blank = Blank
  MaxSubmits = 2
  MaxEdits = 1
  MaxStarts = 3
SYMMETRY Symmetry
SPECIFICATION Spec
CHECK_DEADLOCK FALSE
INVARIANTS
  TypeOK
  FileInForce
PROPERTIES
  NoLostEdit
  IdentityKept
