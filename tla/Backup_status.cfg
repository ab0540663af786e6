SPECIFICATION Spec
CONSTANTS
    MaxRun = 2
    MaxTrouble = 2
    MaxSeed = 1
INVARIANTS
    GreenIsTrue
    SuccessIsWhole
    NotLeftRunning
    LateStopHarmless
PROPERTY LastKept
CHECK_DEADLOCK FALSE
