SPECIFICATION Spec
CONSTANTS
    a = a
    b = b
    c = c
    Job = {a, b, c}
    NoJob = NoJob
    Excl = {a, b}
    Declared = {}
    Need <- MixedSizes
    Parent <- TopLevel
    Total <- SmallHost
    Slack <- HalfGig
    CanCrash = {a}
    Unsafe = {b}
    MayDrain = FALSE
    Flaky = {}
INVARIANTS
    ReservationsFit
    TypeOK
    ExclusiveGPU
    TicketKept
PROPERTIES
    FirstCome
    ImplementsAdmission
