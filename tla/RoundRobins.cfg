SPECIFICATION Spec
CONSTANTS
  MaxJobs = 3
  MaxArrival = 3
  Sizes = {0, 1, 2, 4}
  Traces <- AllTraces
  Policies = {"MLFQ"}
  MAX_MLFQ_LEVELS = 10
  TimeRange = 16
CHECK_DEADLOCK FALSE
INVARIANTS
  RoundRobin
