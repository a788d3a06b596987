SPECIFICATION Spec
CONSTANTS
  c1 = c1
  c2 = c2
  d1 = d1
  d2 = d2
  t1 = t1
  t2 = t2
  t3 = t3
  Junk = junk
  Threads = {t1, t2, t3}
  Channels = {c1}
  Data = {d1, d2}
  SpuriousWakeups = TRUE
  Program <- Anything
  MaxCalls = 2
SYMMETRY Sym
CHECK_DEADLOCK FALSE
INVARIANTS
  StageTruth
  WaitingExact
  NoSleepingPartner
