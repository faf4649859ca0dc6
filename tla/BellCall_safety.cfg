SPECIFICATION Spec
CONSTANTS
  MaxConn = 2
  MaxWait = 2
  MaxTalk = 1
  MaxCalls = 2
  MaxResets = 0
  MaxUnlocks = 1
INVARIANTS
  OneOwner
  NoIRLeak
  OtherTalkersAreLate
PROPERTIES
  StaleUnlockHarmless
  OneCallAtATime
