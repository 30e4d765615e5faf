SPECIFICATION Spec
CONSTANTS
  NoSelection = NoSelection
  Columns = 2
  SelectionDepth = 1
  Heights = {2, 3}
  Histories = {0, 1}
INVARIANTS ViewportInv SelectionFollowsText
PROPERTIES ViFollowsText
