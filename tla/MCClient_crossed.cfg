CONSTANTS
  Callers = {a}
  NoCaller = none
  Kinds = {"echo"}
  StatusHandles = {h}
  NoHandle = nohandle
  WantExceptions = FALSE
  QueueSize = 1
  MaxCalls = 2
  MaxConn = 2
  MaxWire = 1
  HandlerSlotCap = 2
SPECIFICATION Spec
CHECK_DEADLOCK FALSE
INVARIANT ReplyIsOwn
