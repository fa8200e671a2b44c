CONSTANTS
  x = x
  y = y
  Host = {x, y}
  Faults = {"copy", "network"}
  MaxWait = 2
  MaxStarts = 3
  MaxResets = 1
SPECIFICATION Spec
INVARIANT SingleMaster
