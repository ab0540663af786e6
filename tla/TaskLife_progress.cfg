SPECIFICATION FairSpec
CONSTANTS
    q = q  t = t  w = w  pi = pi  pc = pc
    Run = {q}
    NoRun = NoRun
    Host = {pi}
    HostOf <- OneHost
    Kind <- Kinds
    MaxId = 2
    Lose <- AnyLost
    Late = FALSE
    CanKill = {q}
    MaxTrouble = 0
    MayDelete = FALSE
PROPERTY CatchesUp
PROPERTY UnattendedShows
PROPERTY HostGone
PROPERTY EndShown
INVARIANT OutcomeKept
