SPECIFICATION FairSpec
CONSTANTS
  Command <- Nodes
  Scripts <- Lines
  Dirs = {"d1", "d2"}
  PipeCapacity = 1
  MaxProcs = 8
  MaxForkFailures = 1
CHECK_DEADLOCK FALSE
INVARIANTS
  ResultRight
  AllReaped
PROPERTY
  PromptReturns
