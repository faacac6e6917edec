CONSTANTS
  Agents = {a}
  Jobs = {j1, j2, j3}
  TimedJobs = {j1}
  UnknownJobs = {j3}
  Limit = 2
  QueueSize = 1
  MaxOther = 0
  MaxEvents = 4
SPECIFICATION FairSpec
CHECK_DEADLOCK FALSE
INVARIANTS TypeOK LimitRespected TimedJobsAnswered
PROPERTIES JobsExecuted WorkEnds
