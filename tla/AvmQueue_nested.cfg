SPECIFICATION FairSpec
CONSTANTS
    a = a
    b = b
    c = c
    Job = {a, b, c}
    NoJob = NoJob
    Excl = {a, b}
    Declared = {a}
    Need <- HopelessC
    Parent <- BInsideA
    Total <- SmallHost
    Slack <- HalfGig
    CanCrash = {a}
    Unsafe = {}
    MayDrain = FALSE
    Flaky = {}
PROPERTIES
    CommandsEnd
    WaitersStart
