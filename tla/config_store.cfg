SPECIFICATION Spec
CONSTANTS
    a = a
    b = b
    c = c
    Large = 5
    None = None
    Junk = junk
    Handles = {a, b, c}
    Strings = {b, c}
    Values <- StoreValues
    MaxLength = 2
    Order <- StoreOrder
    Factory <- StoreFactory
    DataStart = 2
    Word = 3
    PoolUnit = 6
    PoolMax = 6
INVARIANTS
    PoolsAreSound
PROPERTIES
    KeepsSettings
