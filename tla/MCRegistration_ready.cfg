CONSTANTS
  Funcs = {f, g}
  MaxConn = 3
SPECIFICATION Spec
CHECK_DEADLOCK FALSE
INVARIANT ReadyTellsAll
