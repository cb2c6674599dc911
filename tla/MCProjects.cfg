SPECIFICATION Spec
CONSTANTS
    ProjectIds = {p1}
    NoProject = NoProject
    Calls = {c1, c2, c3}
    Names = {1, 2}
    Dates = {1, 2}
    Milestones = {"contract", "acceptance"}
    StatusesAsked = {1, 2}
SYMMETRY MCCalls
INVARIANTS
    TypeOK
    NeverEndsBeforeStart
    EventsTellTheProject
PROPERTIES
    CallsMoveWhatTheyAreAsked
