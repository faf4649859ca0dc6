SPECIFICATION Spec
CONSTANTS
  MaxConn = 3
  MaxUser = 2
  Threads = {cmd, talk}
  MaxSessions = 5
INVARIANTS
  StoredIsOpen
