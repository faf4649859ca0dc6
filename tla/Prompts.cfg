SPECIFICATION Spec
CONSTANTS
  ApMax = 2
  WpsMax = 1
  MaxEvents = 2
CHECK_DEADLOCK FALSE
INVARIANTS
  NothingForgotten
  HeardOrStale
  ModesAreWatched
PROPERTIES
  RingStops
  ModesEnd
