SPECIFICATION Spec
CONSTANTS
  Writers = {w1, w2}
  Values = {v1, v2}
  MaxSaves = 3
  MaxLosses = 2
  MaxSpoils = 1
  DirSyncs = {TRUE, FALSE}
  None = None
  Torn = Torn
INVARIANT NeverHalfWritten
PROPERTY ImplementsCell
CHECK_DEADLOCK FALSE
