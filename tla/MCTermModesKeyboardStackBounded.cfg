SPECIFICATION Spec
CONSTANTS
  None = None
  MaxStackDepth = 2
  Titles = {t1}
  Styles <- MCStyles
  Keyboards <- MCKeyboards
  SomeModes <- MCModes
  SomeAttrs <- MCAttrs
  Configs <- MCConfigs
  MaxBusy = 3
CHECK_DEADLOCK FALSE
INVARIANTS KeyboardStackBounded
