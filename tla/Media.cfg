SPECIFICATION MCSpec
CONSTANTS
  Slots = 2
  Half = 3
  Lens = {1, 2, 3}
  MaxLen = 3
  SnapEvery = 2
  MaxFrames = 3
  MaxWatches = 2
  Cap = 4
  MaxTalk = 9
  MaxPrompts = 2
PROPERTIES
  FramesInOrder
  EveryFrameNoticed
  TalkIsFifo
CHECK_DEADLOCK FALSE
