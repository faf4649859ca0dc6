SPECIFICATION ArmingFairSpec
CONSTANTS
  AlarmDelay = 2
  Setters = {cmd, timer}
  Cmd = cmd
  cmd = cmd
  timer = timer
  MaxRequests = 3
PROPERTIES
  NotEarly
  GetsArmed
