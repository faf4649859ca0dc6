SPECIFICATION FairSpec
CONSTANTS
  MaxConn = 3
  MaxUser = 1
  Threads = {cmd, talk}
  MaxSessions = 5
INVARIANTS
  Accounted
PROPERTIES
  BrokenLeaves
