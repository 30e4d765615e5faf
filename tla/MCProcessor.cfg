SPECIFICATION Spec
CONSTANTS
  Broken = Broken
  Scenarios <- MCScenarios
  MaxWindows = 2
  MaxEvents = 2
  MaxFrames = 2
CHECK_DEADLOCK FALSE
INVARIANTS ProcessorInv FramesCome
PROPERTIES EventuallyDrawn
