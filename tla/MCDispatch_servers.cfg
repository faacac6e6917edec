CONSTANTS
  Agents = {a, b}
  Jobs = {j1, j2}
  TimedJobs = {}
  UnknownJobs = {}
  Limit = 1
  QueueSize = 1
  MaxOther = 1
  MaxEvents = 3
SYMMETRY AgentSymmetry
SPECIFICATION Spec
CHECK_DEADLOCK FALSE
INVARIANT OneConversation
