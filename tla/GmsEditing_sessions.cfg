SPECIFICATION Spec
CONSTANTS
    s1 = s1
    s2 = s2
    editor = editor
    road = road
    new = new
    Sessions = {s1, s2}
    Owner <- MCOwner
    Features = {road, new}
    Seeded = {road}
    Requests = {r1, r2}
    MaxVersion = 3
    Sketches <- MCSketches
    Restorable = {road}
    NoSession = NoSession
    NoFeature = NoFeature
    NoRequest = NoRequest
SYMMETRY Symmetry
INVARIANTS
    TypeOK
    NewestIsPublished
    OneLiveSession
PROPERTIES
    ImplementsRegister
CHECK_DEADLOCK FALSE
