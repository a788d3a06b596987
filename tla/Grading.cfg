CONSTANTS
    Options <- MCOptions
    Align = 2
    HeapLo = 4
    Top = 16
    maxfill = 2
    Times = {0, 100, 101, 150}
    Refs = {200}
    MaxFaults = 1
    MaxReps = 2
    kbest = 2
    maxsamples = 3
SPECIFICATION Spec
INVARIANTS
    VerdictExact
    RangesExact
    UtilRight
    KBest
    GradeEarned
