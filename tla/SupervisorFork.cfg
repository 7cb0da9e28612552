SPECIFICATION FairSpec
CONSTANTS
    a = a
    b = b
    NoCore = NoCore
    Cores = {a, b}
    Core <- PinnedApart
    NumWorkers = 2
    MaxForkFailures = 1
    MaxCrashes = 0
PROPERTIES
    AllGoneIsDone
