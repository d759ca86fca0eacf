SPECIFICATION FairSpec
CONSTANTS
    t1 = t1
    t2 = t2
    t3 = t3
    h1 = h1
    None = None
    Timers = {t1, t2}
    Handles = {}
    MinDelay = 2
    MaxDelay = 3
    Delays = {4}
    RearmDelays = {0}
    SelfRearmDelays = {0}
    Repeats <- RepeatsNoEver
    RearmRepeats <- RearmAll
    Priorities = {"low", "high"}
    Operations = {"add", "remove", "rearm", "detach"}
    MayOverrun = FALSE
INVARIANTS
    NeverEarly
PROPERTIES
    PendingRuns
    ActiveExpires
