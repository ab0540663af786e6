SPECIFICATION Spec
CONSTANTS
    w1 = w1  w2 = w2  s1 = s1  s2 = s2
    Worker = {w1, w2}
    Session = {}
    NoSession = NoSession
    Cooldown = 1
    Window = 1
    Cap = 2
    Grace = 0
    MaxStall = 0
PROPERTY ImplementsAlerts
SYMMETRY Either
