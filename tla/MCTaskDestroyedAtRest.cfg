CONSTANTS
    Tasks = {t1}
    Promises = {}
    Body = Body
    NoOne = NoOne
SPECIFICATION Spec
INVARIANTS
    DestroyedAtRest
