SPECIFICATION Spec
CONSTANTS
    Tasks = {t1}
    NoTask = NoTask
    Users = {1, 2}
    Actors = {1}
    Readers = {1}
    Deadlines = {1, 5}
    Statuses = {1, 3}
    LastDay = 2
    MaxEvents = 3
INVARIANTS
    TypeOK
    RowFollowsEvents
    RemindersNeverEarly
    RemindersWereTrue
    AllButTheActorAreTold
PROPERTIES
    CompletedTasksAreLeftAlone
