SPECIFICATION FairSpec
CONSTANTS
    a = a
    b = b
    c = c
    Job = {a, b}
    NoJob = NoJob
    Excl = {a, b}
    Declared = {}
    Need <- NoTags
    Parent <- TopLevel
    Total <- SmallHost
    Slack <- HalfGig
    CanCrash = {a}
    Unsafe = {}
    MayDrain = TRUE
    Flaky = {}
INVARIANTS
    AtMostOneLate
PROPERTIES
    DrainReturns
    WaitersStart
