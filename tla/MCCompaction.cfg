CONSTANTS
    Team = {u1, u2}
    Company = {s1}
    Price = {1, 2}
    Opening = 1
    Capital = 3
    MaxHistory = 2
    MaxLog = 5
    MaxStops = 2
    MayReset = TRUE
    MayPromote = TRUE
SPECIFICATION CompactionSpec
INVARIANTS RestartKeeps
PROPERTIES FactsKept
SYMMETRY Same
CHECK_DEADLOCK FALSE
