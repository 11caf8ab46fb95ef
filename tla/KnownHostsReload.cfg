SPECIFICATION Spec
CONSTANTS
    lh1 = lh1
    lh2 = lh2
    lh3 = lh3
    a1 = a1
    a2 = a2
    Lighthouses = {lh1, lh2, lh3}
    Hosts = {a1, a2}
    HostOf <- SharedAddress
    Keys = {"k1", "k2"}
    Nobody = nobody
    Failures = {"reload"}
    MaxFailures = 2
INVARIANTS OneKeyPerHost
