SPECIFICATION FairSpec
CONSTANTS
  MaxTimer = 3
  Delays = {0, 2}
  QuietTime = 3
  MaxAlarms = 3
  MaxCalls = 2
INVARIANTS
  AlarmOwned
  AnnouncedOnce
PROPERTIES
  DelayHonoured
  Named
  Spaced
  AlarmEnds
