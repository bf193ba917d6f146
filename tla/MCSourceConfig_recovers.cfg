\* One source whose first start fails.
CONSTANTS
  a = a
  Sources = {a}
  Leaky = {}
  MaxEdits = 1
  MaxFaults = 1
  MaxStarts = 1
SPECIFICATION FairSpec
PROPERTY SourceRecovers
