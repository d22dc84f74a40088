SPECIFICATION FairSpec
CONSTANTS
    Kinds = {"search", "range", "tile", "map", "export"}
    MaxAttempts = 4
CHECK_DEADLOCK FALSE
INVARIANTS TypeOK NoMixedBody StopsWhenCanceled HonestResult
PROPERTIES Returns
