SPECIFICATION FairSpec
CONSTANTS
  MaxJobs = 4
  MaxArrival = 2
  Sizes = {0, 1, 4}
  Traces <- AllTraces
  Policies = {"FCFS", "LCFS", "SJF", "MLFQ"}
  MAX_MLFQ_LEVELS = 3
  TimeRange = 10
CHECK_DEADLOCK FALSE
INVARIANTS
  TypeOK
  EachJobOnce
  BusyServer
  WorkConserved
  PolicyRespected
  HighestLevelRuns
PROPERTIES
  TimeMonotone
  AllComplete
