SPECIFICATION FairSpec
CONSTANTS
    lh1 = lh1
    lh2 = lh2
    noView = noView
    Lighthouses = {lh1}
    NCommands = 2
    RefreshViews = TRUE
    Jitter = FALSE
    NoView = noView
    MaxRounds = 1
PROPERTIES PollTimeoutHolds
