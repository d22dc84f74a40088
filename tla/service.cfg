SPECIFICATION Spec
CONSTANTS
    Callers = {c1, c2}
    Keys = {k1, k2}
    MaxBuilds = 1
    PanicKeys = {k1, k2}
    MaxFiles = 1
    MaxTime = 0
    MaxMishaps = 1
    None = None
    Closed = Closed
SYMMETRY MCSymmetry
VIEW MCView
INVARIANTS NoNeedlessBuild TempsWithinSlots
