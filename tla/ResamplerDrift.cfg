SPECIFICATION Spec
CONSTANTS
    Rates <- RealRates
    Supported <- RealRates
    Packets = {880}
    Half = 64
    History = 1024
    One = 64000
    MaxPackets = 1300
INVARIANTS
    ReadsInsideHistory
