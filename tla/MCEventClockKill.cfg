CONSTANTS
    Template <- Timeline
    Organiser = {o1, o2}
    Plan <- Starting
    Window = {0}
    Runner = runner
    None = None
    MaxTime = 3
    MaxKills = 1
    MayBreak = FALSE
SPECIFICATION Spec
INVARIANTS NeverMissed
CHECK_DEADLOCK FALSE
