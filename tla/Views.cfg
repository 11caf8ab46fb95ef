SPECIFICATION Spec
CONSTANTS
    Lighthouses = {1, 2}
    Commands = {}
    Period = 1
    RawPeriod = 0
    Refreshers = {1}
    Sightings <- SomeSightings
    Bucket = 2
    PollIds = {1, 2, 3}
    MaxTime = 2
    MaxMoves = 3
INVARIANTS TypeOK PresentPeersInView DisagreementExact
PROPERTIES RefreshedIsFresh
