CONSTANTS
  Funcs = {f, g}
  MaxConn = 3
SYMMETRY FuncSymmetry
SPECIFICATION Spec
CHECK_DEADLOCK FALSE
INVARIANTS TypeOK NeverNeither NoStaleAbility OneReader ConnectsOnce
