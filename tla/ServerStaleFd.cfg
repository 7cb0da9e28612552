SPECIFICATION Spec
CONSTANTS
    Sessions = {s1, s2}
    Conns = {c1, c2}
    Fds = {d1, d2}
    Buffers = {b1}
    None = None
    PoolSize = 1
    HeapSize = 0
    BatchMax = 2
    QD = 3
    MaxMsgs = 1
    MaxChunks = 1
INVARIANT
    ReadsOwnConnection
