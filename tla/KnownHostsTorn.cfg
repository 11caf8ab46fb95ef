SPECIFICATION FairSpec
CONSTANTS
    lh1 = lh1
    lh2 = lh2
    lh3 = lh3
    a1 = a1
    a2 = a2
    Lighthouses = {lh1, lh2, lh3}
    Hosts = {a1, a2}
    HostOf <- SharedAddress
    Keys = {"k1"}
    Nobody = nobody
    Failures = {"write"}
    MaxFailures = 2
PROPERTIES EveryHostLearned
