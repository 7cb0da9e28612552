SPECIFICATION FairSpec
CONSTANTS
    a = a
    b = b
    NoCore = NoCore
    Cores = {a, b}
    Core <- PinnedShared
    NumWorkers = 3
    MaxForkFailures = 1
    MaxCrashes = 1
INVARIANTS
    GovernorRestored
    WaitIsExact
PROPERTIES
    SignalledIsReaped
    AllForkedIsDone
