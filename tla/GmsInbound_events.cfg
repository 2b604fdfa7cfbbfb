SPECIFICATION Spec
CONSTANTS
    p1 = p1
    p2 = p2
    a1 = a1
    a2 = a2
    k1 = k1
    k2 = k2
    k3 = k3
    stand = stand
    noParcel = noParcel
    Events <- MCEvents
    Parcels = {p1, p2}
    Retired = {p2}
    Built = {p1}
    StandNo <- MCStandNo
    Accounts = {a1, a2}
    LinkedAlready <- MCLinked
    Requests = {q1, q2}
    Runs = {r1, r2}
    MaxRuns = 3
    NoEvent = NoEvent
SYMMETRY Symmetry
INVARIANTS
    TypeOK
PROPERTIES
    ImplementsBook
    SettledIsExact
CHECK_DEADLOCK FALSE
