SPECIFICATION SyslogFairSpec
CONSTANTS
    Filters <- MCFilters
    Tcp <- MCTcp
    Lengths = {1}
    ItemSize = 1
    MaxSize = 6
    MaxFailures = 2
    MaxItems = 5
INVARIANTS
    QueueSound
    NothingLost
    DuplicatesHaveFailed
PROPERTIES
    QueueDrains
CHECK_DEADLOCK FALSE
