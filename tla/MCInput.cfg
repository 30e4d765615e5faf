SPECIFICATION Spec
CONSTANTS
  NoSelection = NoSelection
  Columns = 2
  Heights = {3}
  Histories = {2}
  MaxSearchHistory = 3
  SearchLimit = 5
  Scenarios <- MCScenarios
  MaxRegex = 1
  MaxDelta = 1
  MaxQueue = 2
  CellHeight = 2
  Multiplier = 3
  NoFinger = NoFinger
  Fingers = {f1, f2, f3}
  Deltas <- MCDeltas
  Keys <- MCKeys
  KeyModifiers = {"SHIFT", "ALT", "CONTROL"}
  UserBindings <- MCUserBindings
  Alphabets <- MCAlphabets
  Screens <- MCScreens
  Sizes <- MCSizes
  ViCursors <- MCViCursors
  SelectedRanges <- MCSelectedRanges
  HintRanges <- MCHintRanges
  PrintedCells <- MCPrintedCells
  MaxOffset = 1
  MaxChanges = 2
SYMMETRY AnyFingers
CHECK_DEADLOCK FALSE
INVARIANTS WindowInv CancelRecovers PointerInv KeyboardInv HintInv
PROPERTIES WindowSteps DamageCovers
