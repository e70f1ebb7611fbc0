CONSTANTS
    Tasks = {t1}
    Promises = {p1}
    Body = Body
    NoOne = NoOne
SPECIFICATION Spec
INVARIANTS
    LastReferenceFrees
CHECK_DEADLOCK FALSE
