CONSTANTS
    Tasks = {t1, t2}
    Promises = {p1, p2}
    Body = Body
    NoOne = NoOne
SPECIFICATION FairSpec
PROPERTIES
    OutcomeIsFinal
    Unblocked
CHECK_DEADLOCK FALSE
