SPECIFICATION Spec
CONSTANTS
    Configs <- ClientConfigs
    Inputs <- ClientInputs
    HeaderAt <- ClientLayout
    ArenaSize = 168
    Align = 2
    VadPad = 1
    VadSize = 2
    HdrIn = 2
    HdrBuf = 2
    PadTo = 2
    Word = 256
    Block = 2
    Slack = 1
    MaxData = 24
    VadRate = 2
    VadFrame = 3
INVARIANT
    OutputIsDecoded
