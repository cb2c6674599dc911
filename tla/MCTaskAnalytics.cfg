SPECIFICATION Spec
CONSTANTS
    Tasks = {t1}
    Users = {1, 2}
    Movers = {2}
    Departments = {1}
    Demo <- MCDemo
    Deadlines = {2}
    Hours = {1}
    Statuses = {1, 3}
    MaxEvents = 3
CONSTRAINT HoursInOrder
INVARIANTS
    TypeOK
    RowFollowsEvents
    AssignmentIsDated
    EffectsAreRecorded
PROPERTIES
    DeliversAtMostOnce
