SPECIFICATION FairSpec
CONSTANTS
    Callers = {c1, c2}
    Keys = {k1}
    MaxBuilds = 1
    PanicKeys = {k1}
    None = None
    Closed = Closed
PROPERTIES Answered
