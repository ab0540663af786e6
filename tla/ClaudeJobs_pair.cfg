SPECIFICATION Spec
CONSTANTS
    MaxJob = 2
    Kinds <- PromptAndAction
    Lose <- StartLost
    Late = TRUE
    MaxTrouble = 1
INVARIANTS
    RunsOnce
    Attended
