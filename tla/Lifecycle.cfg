SPECIFICATION FairSpec
CONSTANTS
    lh1 = lh1
    r1 = r1
    r2 = r2
    Lighthouses = {lh1}
    Requests = {r1, r2}
    HTTP = TRUE
    Migrate = TRUE
    MaxConns = 2
INVARIANTS TypeOK WorksOnMigratedSchema ExitZeroMeansDone
PROPERTIES ReadyzTruthful ReadyzAnswers RunReturnEndsProcess SignalEndsProcess
