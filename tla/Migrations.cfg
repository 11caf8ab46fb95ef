SPECIFICATION FairSpec
CONSTANTS
    old = old
    new1 = new1
    new2 = new2
    noOne = noOne
    dead = dead
    Processes = {old, new1, new2}
    EnableTimescale <- MCTimescale
    Embedded <- MCEmbedded
    NoOne = noOne
    Dead = dead
    MaxFailures = 3
INVARIANTS TypeOK ReadyMeansMigrated
PROPERTIES DependenciesFirst NewestReady
