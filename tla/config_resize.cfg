SPECIFICATION Spec
CONSTANTS
    a = a
    b = b
    c = c
    Large = 7
    None = None
    Junk = junk
    Handles = {a, b}
    Strings = {a, b}
    Values <- StringValues
    MaxLength = 2
    Order <- StringOrder
    Factory <- StringFactory
    DataStart = 1
    Word = 2
    PoolUnit = 6
    PoolMax = 6
PROPERTIES
    IsASettingsStore
