SPECIFICATION Spec
CONSTANTS
    MaxPlans = 3
    Requests = {r1, r2}
    Zones = {z1, z2}
    Mapped = {z1}
    Codes = {c1, c2}
    Decisions = {permitted, prohibited}
    NoCode = NoCode
    Unsigned = Unsigned
    Nobody = Nobody
SYMMETRY Symmetry
INVARIANTS
    TypeOK
    VersionsInOrder
PROPERTIES
    OneStepAtATime
    PolygonsFollow
    SealedByApproval
CHECK_DEADLOCK FALSE
