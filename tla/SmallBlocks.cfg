SPECIFICATION Spec
CONSTANTS
  InitialSize = 32
  MaxHeap = 240
  SizeRange = 1024
  Requests = {24, 48}
  Values = {48}
  MaxLive = 3
INVARIANT NoOverlap
