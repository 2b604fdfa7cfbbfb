SPECIFICATION Spec
CONSTANTS
    eo = eo
    other = other
    Users = {eo, other}
    Role <- EoAndAdmin
    Meetings = {}
    Members = {}
    Appeals = {a1}
    NumStages = 1
    Targets = {"pending_payment", "under_review", "refused"}
    MaxRevision = 1
INVARIANTS
    CertifiedWasBuilt
PROPERTIES
    GatedWriteIsLawful
    DeterminationLeavesByAppeal
CHECK_DEADLOCK FALSE
