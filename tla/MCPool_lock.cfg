CONSTANTS
  Procs = {p, q}
  Addrs = {a, b}
  Rates = {0, 1}
  Handlers = {x}
  MaxClients = 2
SYMMETRY PoolSymmetry
SPECIFICATION Spec
INVARIANT LockFreeCalls
