SPECIFICATION ResponsiveSpec
CONSTANTS
    lh1 = lh1
    lh2 = lh2
    noView = noView
    Lighthouses = {lh1, lh2}
    NCommands = 2
    RefreshViews = TRUE
    Jitter = TRUE
    NoView = noView
    MaxRounds = 1
PROPERTIES RoundsEnd PollTimeoutHolds CancelEndsRun OrphansEnd
