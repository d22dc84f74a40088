SPECIFICATION FairSpec
CONSTANTS
    Keys = {k1, k2}
    Readers = {r1}
    Writers = {w1}
    MaxFiles = 1
    MaxTime = 1
    MaxMishaps = 1
    None = None
INVARIANTS OnlyWholeProducts NoTempLeak
PROPERTIES FitsAfterPass LruUpToRaces EventuallyFits
