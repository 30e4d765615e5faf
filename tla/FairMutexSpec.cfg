SPECIFICATION Spec
CONSTANTS
  NoOne = NoOne
  Locker = {ui, other, pty}
  Reader = {pty}
INVARIANTS MutexInv
PROPERTIES LeaseIsNext EveryoneGetsIn
