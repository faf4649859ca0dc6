SPECIFICATION FairSpec
CONSTANTS
  MaxConn = 2
  MaxWait = 2
  MaxTalk = 2
  MaxCalls = 1
  MaxResets = 1
  MaxUnlocks = 0
PROPERTIES
  CallEnds
  AgreeHonoured
