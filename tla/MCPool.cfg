CONSTANTS
  Procs = {p, q}
  Addrs = {a, b}
  Rates = {0, 1}
  Handlers = {x}
  MaxClients = 2
SPECIFICATION FairSpec
INVARIANTS TypeOK NoClientLeak PooledOpen HandlerReaches SelectionReference
PROPERTIES OpsReturn
