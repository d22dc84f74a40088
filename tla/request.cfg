SPECIFICATION KeySpec
CONSTANTS
    Requests = {r1, r2}
    Kinds = {"image", "ndvi", "stac", "wms", "arcgis", "tiles"}
    Bursts <- MCBursts
    Sources <- MCSources
    Scenes = {"s1", "s2"}
    Absent = Absent
    Garbage = Garbage
    NaN = NaN
CHECK_DEADLOCK FALSE
INVARIANTS TypeOK TotalsMatch BooksBalance CoverageIs404  TakenAsGiven
