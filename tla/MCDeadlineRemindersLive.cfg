SPECIFICATION FairSpec
CONSTANTS
    Tasks = {t1, t2}
    NoTask = NoTask
    Users = {1}
    Actors = {1}
    Readers = {1}
    Deadlines = {1}
    Statuses = {1, 3}
    LastDay = 2
    MaxEvents = 2
PROPERTIES
    EventuallyReminded
