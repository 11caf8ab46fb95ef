SPECIFICATION FairSpec
CONSTANTS
    i1 = i1
    i2 = i2
    lh1 = lh1
    lh2 = lh2
    noResult = noResult
    Lighthouses = {lh1}
    Commands = {"list-hostmap"}
    Instances = {i1, i2}
    Timescale = FALSE
    Period = 1
    RawPeriod = 0
    BatchSize = 1
    ChunkInterval = 2
    SaveLag = 1
    Fills <- FullFills
    NoResult = noResult
    MaxTime = 2
    MaxRuns = 2
    MaxFailures = 1
INVARIANTS UnexpiredRunsIntact AckedRunsKept
PROPERTIES ExpiredRunsDeleted
