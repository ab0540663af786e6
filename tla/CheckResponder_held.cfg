SPECIFICATION FairSpec
CONSTANTS
    w1 = w1  w2 = w2  s1 = s1  s2 = s2
    Worker = {w1}
    Session = {s1}
    NoSession = NoSession
    Cooldown = 2
    Window = 5
    Cap = 2
    Grace = 1
    MaxStall = 1
INVARIANT CapKept
PROPERTY HeldGoesOut
