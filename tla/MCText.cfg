SPECIFICATION Spec
CONSTANTS
  NoSelection = NoSelection
  Width <- MCWidth
  Words <- MCWords
  HintWords <- MCHintWords
  EscapeChars = {" ", "(", ")"}
  Columns = {2, 3, 4}
  Lines = 2
  Limit = 1
  Texts <- MCTexts
  MaxCells = 9
  MaxSteps = 1
INVARIANTS TextInv MotionsAgree  SelectionsAgree
PROPERTIES ReflowKeepsText
