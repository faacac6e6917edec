CONSTANTS
  Users = {u, v}
  MaxConn = 2
SPECIFICATION FairSpec
CHECK_DEADLOCK FALSE
INVARIANTS NoCircularWait WritesSerialized
PROPERTIES AllReturn CloseReturns
