SPECIFICATION FairSpec
CONSTANTS
    Callers = {c1, c2}
    Keys = {k1, k2}
    MaxBuilds = 1
    PanicKeys = {k2}
    None = None
    Closed = Closed
INVARIANTS TypeOK AtMostOneBuild SlotsCounted NoLostWakeup FlightsHaveBuilder
PROPERTIES OutcomeIsOwn KeepsPromise CallsReturn
