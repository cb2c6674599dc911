SPECIFICATION MCSpec
CONSTANTS
    u1 = u1
    u2 = u2
    d1 = d1
    d2 = d2
    p1 = p1
    p2 = p2
    t1 = t1
    f1 = f1
    Users <- MCUsers
    Departments <- MCDepartments
    Projects <- MCProjects
    Tasks <- MCTasks
    Files <- MCFiles
    Roles <- MCRoles
    Calls = {c1, c2}
    None = None
    Absent = Absent
SYMMETRY Interchangeable
INVARIANTS
    TypeOK
    WritesWereDeserved
    NobodyIsLeftBehind
    MembersInOrder
CHECK_DEADLOCK FALSE
