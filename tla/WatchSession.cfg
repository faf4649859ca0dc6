SPECIFICATION FairSpec
CONSTANTS
  MaxWatch = 3
  Ids = {"w", "a"}
  MaxStarts = 3
  MaxResets = 1
INVARIANTS
  WatchOwned
  WatchNamed
PROPERTIES
  NotCutShort
  WatchEnds
