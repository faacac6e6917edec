CONSTANTS
  Callers = {a, b}
  NoCaller = none
  Kinds = {"do", "echo"}
  StatusHandles = {h}
  NoHandle = nohandle
  WantExceptions = TRUE
  QueueSize = 1
  MaxCalls = 2
  MaxConn = 2
  MaxWire = 1
  HandlerSlotCap = 2
SYMMETRY CallerSymmetry
SPECIFICATION Spec
CHECK_DEADLOCK FALSE
INVARIANTS TypeOK OwnReply NoSocketLeak ClosedIsFinal DeliverNeverBlocks ExceptionsSettled
