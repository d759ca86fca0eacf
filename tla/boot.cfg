SPECIFICATION FairSpec
CONSTANTS
    CounterSize = 8
    FactoryResets = 4
    SlowResets = 6
    MaxCrashes = 3
    NoFile = none
    EmptyFile = empty
    Invalid = invalid
INVARIANTS
    CrashLoopIsBroken
    SafeModeOnRequest
PROPERTIES
    FactoryNeedsResets
    Settles
