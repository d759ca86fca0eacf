SPECIFICATION Spec
CONSTANTS
    c1 = c1
    c2 = c2
    c3 = c3
    None = None
    Callbacks = {c1, c2, c3}
    ScheduleMax = 2
INVARIANTS
    Informed
PROPERTIES
    EventIsARound
SYMMETRY Symmetry
