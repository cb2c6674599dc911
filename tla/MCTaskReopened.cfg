SPECIFICATION Spec
CONSTANTS
    Tasks = {t1}
    Users = {1}
    Movers = {}
    Departments = {}
    Demo <- MCDemo
    Deadlines = {3}
    Hours = {}
    Statuses = {1, 3}
    MaxEvents = 5
INVARIANTS
    CompletionIsVouched
    CompletedTasksAreDated
