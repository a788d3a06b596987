SPECIFICATION FairSpec
CONSTANTS
  NumChannel = 3
  Inf = 9
  Topologies <- Networks
INVARIANTS
  VectorsStable
  VerdictRight
PROPERTIES
  Converges
