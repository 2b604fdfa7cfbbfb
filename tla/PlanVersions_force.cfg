SPECIFICATION Spec
CONSTANTS
    MaxPlans = 3
    Requests = {r1}
    Zones = {z1}
    Mapped = {z1}
    Codes = {c1}
    Decisions = {permitted}
    NoCode = NoCode
    Unsigned = Unsigned
    Nobody = Nobody
INVARIANTS
    JudgedUnderThePlanInForce
CHECK_DEADLOCK FALSE
