CONSTANTS
    Template <- Timeline
    Organiser = {o1, o2, o3}
    Plan <- Steps
    Window = {0}
    Runner = runner
    None = None
    MaxTime = 1
    MaxKills = 0
    MayBreak = FALSE
SPECIFICATION Spec
INVARIANTS EveryBlockOnce PressedOnce WindowsShut 
PROPERTIES PauseHolds
SYMMETRY Same
CHECK_DEADLOCK FALSE
