SPECIFICATION FairSpec
CONSTANTS
    Tiles = {t1, t2, t3, t4}
    Conc = 2
    None = None
CHECK_DEADLOCK FALSE
INVARIANTS TypeOK OkIsComplete RootCause
PROPERTIES NoLateWrite Returns
