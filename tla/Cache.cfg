SPECIFICATION CacheSpec
CONSTANTS
    v1 = v1
    v2 = v2
    v3 = v3
    v5 = v5
    pi = pi
    euler = euler
    NoReader = NoReader
    NoStream = NoStream
    Absent = Absent
    Corrupt = Corrupt
    Values = {v1, v2, v3, v5}
    Streams = {pi, euler}
    Registry = {pi}
    Readers = {r1, r2, r3}
    Size <- MCSize
    Asked <- MCAsked
    MaxLogicalLen = 5
    MaxChunkCount = 2
    MaxReconstruct = 5
    CacheBytes = 4
    MaxReads = 4
INVARIANTS
    CacheTypeOK
    BytesAccounted
    ReportedWhenQuiet
PROPERTIES
    InsertsAreAtomic
    MutexFreed
