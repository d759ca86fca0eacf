SPECIFICATION FairSpec
CONSTANTS
    Turn = 4
    OpenTime = 0
    CloseTime = 1
    TestTimes = {1}
    MaxFailedWrites = 1
    None = None
INVARIANTS
    OneMotor
    TimerIsRight
    PublishedAgrees
PROPERTIES
    ReloadKeepsStates
    CommandsAreTaken
