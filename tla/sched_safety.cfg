SPECIFICATION Spec
CONSTANTS
    t1 = t1
    t2 = t2
    t3 = t3
    h1 = h1
    None = None
    Timers = {t1, t2}
    Handles = {h1}
    MinDelay = 1
    MaxDelay = 1
    Delays = {1, 2}
    RearmDelays = {2}
    SelfRearmDelays = {2}
    Repeats <- RepeatsNoEver
    RearmRepeats <- NoRearm
    Priorities = {"low", "high"}
    Operations = {"add", "remove", "removeSelf", "rearm", "detach", "setPriority", "end"}
    MayOverrun = TRUE
INVARIANTS
    TypeOK
    RegistrySound
    SdkHoldsLiveTimers
    WrapperSound
    ActiveNotStuck
    ExhaustedIsGone
PROPERTIES
    OnlyLiveTimersAreCalled
SYMMETRY TimerSymmetry
