CONSTANTS
    top = top
    other = other
    Event <- MCEvent
    Arriving <- MCArriving
    Old <- MCOld
    Group = {top, other}
    Top = top
    Hour = {0, 1, 2}
    Start = 1
    Day = 1
    Limit = 2
SPECIFICATION Spec
INVARIANTS
    TypeOK
    BooksBalance
