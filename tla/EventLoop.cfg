SPECIFICATION Spec
CONSTANTS
  NoOne = NoOne
  MaxMsgs = 2
  MsgLen = 2
  OtherChildren = TRUE
  MaxOutput = 2
  PipeSize = 1
  READ_BUFFER_SIZE = 2
  MAX_LOCKED_READ = 2
  DrainOnExit = TRUE
  IoErrors = TRUE
INVARIANTS EventLoopInv InputConserved NoLostWakeup WriteInterest NoSilentChange
