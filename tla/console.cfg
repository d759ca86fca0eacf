SPECIFICATION FairSpec
CONSTANTS
    a = a
    b = b
    Clients = {a, b}
    BufferSize = 2
    MaxOutput = 4
INVARIANTS
    SessionOfClients
    StreamIsComplete
PROPERTIES
    OutputReaches
