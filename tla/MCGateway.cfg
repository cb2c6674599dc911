SPECIFICATION Spec
CONSTANTS
    Users = {u1}
    Projects = {p1, p2}
    Departments = {d1}
    Roles <- MCRoles
    Tokens = {t1, t2, t3}
    Calls = {c1, c2}
    None = None
SYMMETRY Interchangeable
CONSTRAINT OneThingAtATime
INVARIANTS
    TypeOK
    TradedInOnce
    SessionsSurvive
    ReportsStayInScope
