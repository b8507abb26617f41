CONSTANTS
    Record = {r1, r2, r3}
    Garbage = Garbage
    MaxRestarts = 2
SPECIFICATION FairSpec
INVARIANTS AckedSurvive OneSync
PROPERTIES AppendReturns ImplementsDurableLog
CHECK_DEADLOCK FALSE
