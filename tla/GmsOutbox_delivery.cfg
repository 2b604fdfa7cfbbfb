SPECIFICATION FairSpec
CONSTANTS
    Keys = {k1}
    Importers = {p1, p2}
    Tickers = {t1, t2}
    Operators = {o1}
    Replies = {"acknowledged", "sent"}
    MaxAttempts = 2
    MaxRetries = 2
    MaxAborts = 2
    Nobody = Nobody
INVARIANTS
    TypeOK
    TransactionalOutbox
    OneSenderPerEvent
    AttemptBudget
PROPERTIES
    ImplementsPromise
    SettledIsFinal
    EveryEventConcludes
CHECK_DEADLOCK FALSE
