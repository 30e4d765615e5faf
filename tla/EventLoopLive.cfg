SPECIFICATION Spec
CONSTANTS
  NoOne = NoOne
  MaxMsgs = 1
  MsgLen = 2
  OtherChildren = FALSE
  MaxOutput = 1
  PipeSize = 1
  READ_BUFFER_SIZE = 1
  MAX_LOCKED_READ = 1
  DrainOnExit = TRUE
  IoErrors = FALSE
PROPERTIES InputDelivered ExitNoticed ChangesDrawn SyncEnds
