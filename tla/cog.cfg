SPECIFICATION FairSpec
CONSTANTS
    Cases <- MCCases
    Files <- MCFiles
    Chunk = 512
    HdrChunks = 4
    MaxIFDs = 3
    Cuts = {0, 100, 600}
    StripBytes = 24
    Nominal = 2
    Shorts = 256
    Longs = 65536
CHECK_DEADLOCK FALSE
INVARIANTS HeaderBounded OpensWhatItShould RasterIsWindow OutputHugsBox ProductReadable
PROPERTIES BuildEnds
