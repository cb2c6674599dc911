SPECIFICATION Spec
CONSTANTS
    Tasks = {t1}
    NoTask = NoTask
    Calls = {c1, c2, c3}
    Users = {1, 2}
    Deadlines = {1, 2}
    Hours = {1}
    StatusesAsked = {1, 3}
SYMMETRY MCCalls
INVARIANTS
    TypeOK
    EventsTellTheTask
PROPERTIES
    ColumnsMoveByTheirOwnCalls
    ToldInTurn
