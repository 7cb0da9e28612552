SPECIFICATION Spec
CONSTANTS
    Rates <- SmallRates
    Supported <- SmallSupported
    Packets = {0, 1, 2, 3, 4, 6, 14}
    Half = 2
    History = 12
    One = 16
    MaxPackets = 5
INVARIANTS
    HistoryIsStream
    NoFutureSamples
    LagBounded
    ReadsTheStream
