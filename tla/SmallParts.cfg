SPECIFICATION MCSpec
CONSTANTS
    None = None
    Keys = {k1, k2, k3, k4}
    Targets = {t1, t2}
    TTL = 3
    Cap = 2
    MaxNow = 5
    Aliases = {"a", "b"}
    Explicit <- MCExplicit
    BasePort = 1
    LastPort = 2
    ScanAttempts = 2
    MaxLaunches = 3
    MaxLives = 2
    PipeCap = 1
    PerWindow = 1
    LineWindow = 2
    MaxLines = 4
    MaxClock = 4
    Loggers = {g1, g2}
    Deadline = 1
    MaxSeconds = 1
    MaxLogCalls = 4
    Disks <- SomeDisks
    Peers <- SomePeers
    MaxRewrites = 1
    Models <- SomeModels
    MaxKVCount = 10
    DefaultContext = 4
\* The clocks and the calls of a part run out.
CHECK_DEADLOCK FALSE
INVARIANTS CapHeld PinsExact AllocatedApart NoSquatter EveryLineCounted ExpiryOnce LoadedAsWritten NeverDowngraded EstimateHonest
PROPERTY ChildDrained
