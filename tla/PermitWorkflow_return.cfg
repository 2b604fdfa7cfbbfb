SPECIFICATION Spec
CONSTANTS
    eo = eo
    other = other
    Users = {eo, other}
    Role <- EoAndPlanner
    Meetings = {m1}
    Members = {p1}
    Appeals = {}
    NumStages = 0
    Targets = {"under_review", "approved"}
    MaxRevision = 2
INVARIANTS
    DeterminationIsBacked
CHECK_DEADLOCK FALSE
