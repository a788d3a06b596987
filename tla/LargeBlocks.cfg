SPECIFICATION Spec
CONSTANTS
  InitialSize = 128
  MaxHeap = 272
  SizeRange = 1024
  Requests = {0, 41, 82}
  Values = {83}
  MaxLive = 3
INVARIANTS
  BlocksTile
  TagsRight
  FreeListExact
  Coalesced
  ContentsKept
