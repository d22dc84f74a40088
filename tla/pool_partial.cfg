SPECIFICATION Spec
CONSTANTS
    Tiles = {t1, t2}
    Conc = 1
    None = None
CHECK_DEADLOCK FALSE
INVARIANTS OkIsWhole
