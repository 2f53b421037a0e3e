SPECIFICATION Spec
CONSTANTS
    None = none
    Turns = {t1, t2}
    Items = {i1}
    Requests = {q1}
    ItemLimit = 8
    TextLimit = 2
    CurrentItems = 2
    MaxEvents = 7
INVARIANTS
    ServedDecodes
CHECK_DEADLOCK FALSE
