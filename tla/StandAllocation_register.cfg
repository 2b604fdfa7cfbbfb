SPECIFICATION Spec
CONSTANTS
    whole = whole
    left = left
    right = right
    again = again
    Stands = {whole, left, right, again}
    Plots = {1, 2}
    Ground <- MCGround
    Surveyed = {whole}
    Citizens = {u1, u2}
    Officers = {o1, o2}
    MaxRef = 2
    ByHand = {again}
    MaxEdits = 1
    Estates = {again}
    NoOne = NoOne
SYMMETRY Symmetry
INVARIANTS
    TypeOK
    RegisterAgrees
PROPERTIES
    AllocatedWhileOffered
    ReservationHolds
    OverlapOnlyByRace
    ImplementsLandRegister
CHECK_DEADLOCK FALSE
