SPECIFICATION Spec
CONSTANTS
    q = q  t = t  w = w  pi = pi  pc = pc
    Run = {q, t}
    NoRun = NoRun
    Host = {pi, pc}
    HostOf <- TwoHosts
    Kind <- ByHand
    MaxId = 1
    Lose <- CreateLost
    Late = TRUE
    CanKill = {}
    MaxTrouble = 1
    MayDelete = TRUE
INVARIANT HostsApart
SYMMETRY Swapped
