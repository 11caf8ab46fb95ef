SPECIFICATION SDSpec
CONSTANTS
    Lighthouses = {1, 2}
    Commands = {}
    Period = 1
    RawPeriod = 0
    Targets <- FirstOnly
    HostOf <- Hosts
    Hostmaps <- SomeHostmaps
    PollIds = {1, 2, 3}
    MaxTime = 2
INVARIANTS TypeOK OneTargetPerAddress AnswersNeverGoBack
PROPERTIES OnlyPresentPeersListed PresentPeersListed
