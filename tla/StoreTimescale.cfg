SPECIFICATION Spec
CONSTANTS
    i1 = i1
    i2 = i2
    lh1 = lh1
    lh2 = lh2
    noResult = noResult
    Lighthouses = {lh1}
    Commands = {"list-hostmap"}
    Instances = {i1}
    Timescale = TRUE
    Period = 2
    RawPeriod = 1
    BatchSize = 1
    ChunkInterval = 2
    SaveLag = 1
    Fills <- SomeFills
    NoResult = noResult
    MaxTime = 4
    MaxRuns = 2
    MaxFailures = 1
INVARIANTS IInv
PROPERTIES PruneComplete ImplementsHistory PresentPollNeverGoesBack
