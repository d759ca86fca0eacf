SPECIFICATION FlashFairSpec
CONSTANTS
    File <- Sparse
    MaxRetries = 2
    RetrySize = 4
    ResetEvery = 2
    MaxFaults = 1
    PortSize = 4
    None = None
INVARIANTS
    PagesInOrder
PROPERTIES
    SuccessIsVerified
    GivesBack
