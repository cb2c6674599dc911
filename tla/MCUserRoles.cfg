SPECIFICATION Spec
CONSTANTS
    Users = {u1, u2}
    Names = {1}
    Emails = {1, 2}
    Roles = {1, 2, 3}
    Departments = {}
    Calls = {c1, c2}
    MaxMentions = 0
INVARIANT RolesTakeEffect
CHECK_DEADLOCK FALSE
