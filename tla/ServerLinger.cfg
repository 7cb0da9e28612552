SPECIFICATION FairSpec
CONSTANTS
    Sessions = {s1}
    Conns = {c1}
    Fds = {d1}
    Buffers = {b1}
    None = None
    PoolSize = 1
    HeapSize = 0
    BatchMax = 2
    QD = 3
    MaxMsgs = 1
    MaxChunks = 1
PROPERTY
    DisconnectsWhenClosing
