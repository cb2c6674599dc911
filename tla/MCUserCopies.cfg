SPECIFICATION Spec
CONSTANTS
    Users = {u1}
    Names = {1, 2}
    Emails = {1}
    Roles = {1, 2}
    Departments = {1}
    Calls = {c1, c2}
    MaxMentions = 1
SYMMETRY MCCalls
INVARIANTS
    TypeOK
    CopiesWereTrue
    SettledCopiesAgree
CHECK_DEADLOCK FALSE
