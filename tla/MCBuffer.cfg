SPECIFICATION Spec
CONSTANTS
  Capacity = 3
  Data = {d1, d2}
  Junk = junk
INVARIANTS
  NoJunk
PROPERTIES
  RefinesBoundedFifo
