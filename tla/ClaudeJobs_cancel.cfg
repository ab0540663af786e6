SPECIFICATION FairSpec
CONSTANTS
    MaxJob = 1
    Kinds <- NoPrompts
    Lose <- AllLost
    Late = FALSE
    MaxTrouble = 1
PROPERTIES
    CancelStops
    CancelSettles
    QueuedTaken
