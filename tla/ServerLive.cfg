SPECIFICATION SSpec
CONSTANTS
    Sessions = {s1}
    Conns = {c1, c2}
    Fds = {d1}
    Buffers = {b1}
    None = None
    PoolSize = 1
    HeapSize = 1
    BatchMax = 2
    QD = 2
    MaxMsgs = 1
    MaxChunks = 2
INVARIANTS
    TypeOK
    WritesAccounted
    BuffersAccounted
PROPERTIES
    SpinEnds
    StopsWhenSignalled
    DataIsRead
    ClosingIsFreed
    BacklogIsServed
