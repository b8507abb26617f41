CONSTANTS
    Team = {u1}
    Company = {s1}
    Price = {1, 2}
    Opening = 1
    Capital = 3
    MaxHistory = 2
    MaxLog = 7
    MaxStops = 1
    MayReset = TRUE
    MayPromote = FALSE
SPECIFICATION CompactionSpec
INVARIANTS RestartRebuilds
CHECK_DEADLOCK FALSE
