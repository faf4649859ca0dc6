SPECIFICATION FairSpec
CONSTANTS
  Openers = {key, cmd}
  Door = 2
  LockType = 0
  LockDelay = 3
  MaxOpens = 3
  MaxHolds = 2
INVARIANTS
  OpenIsWatched
PROPERTIES
  NotCutShort
  Shuts
