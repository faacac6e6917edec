CONSTANTS
  Callers = {a, b}
  NoCaller = none
  Kinds = {"bg", "status"}
  StatusHandles = {h}
  NoHandle = nohandle
  WantExceptions = FALSE
  QueueSize = 1
  MaxCalls = 2
  MaxConn = 2
  MaxWire = 1
  HandlerSlotCap = 2
SPECIFICATION Spec
CHECK_DEADLOCK FALSE
INVARIANTS OnlyHolderQueued HandlerInv
PROPERTIES ImplementsRequestReply CallsReturn CloseEndsCalls LoopsExit Redials
