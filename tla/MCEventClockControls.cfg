CONSTANTS
    Template <- Timeline
    Organiser = {o1, o2}
    Plan <- Everything
    Window = {0}
    Runner = runner
    None = None
    MaxTime = 4
    MaxKills = 1
    MayBreak = TRUE
SPECIFICATION Spec
INVARIANTS ClockSaved CheckpointsOnce
PROPERTIES PastFixed FrozenStands
SYMMETRY Same
CHECK_DEADLOCK FALSE
