SPECIFICATION Spec
CONSTANTS
  N = 2
  Ringers = {key}
  Cmd = cmd
  key = key
  cmd = cmd
  MaxRings = 3
  MaxDeletes = 2
  MaxLosses = 1
INVARIANTS
  InArray
PROPERTIES
  KeepsNewest
CHECK_DEADLOCK FALSE
