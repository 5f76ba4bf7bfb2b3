SPECIFICATION Spec
CONSTANTS
    v1 = v1
    v2 = v2
    pi = pi
    euler = euler
    NoTask = NoTask
    NoStream = NoStream
    Absent = Absent
    Corrupt = Corrupt
    Keys = {k1}
    Values = {v1, v2}
    Streams = {pi, euler}
    Tasks = {t1, t2}
    Opts = {"k1", "k2"}
    DefaultOpts = "k1"
    Size <- MCSize
    Existing <- LiveExisting
    Chunkings <- MCChunkings
    Runtimes <- PiRuntimes
    Calls <- MCCalls
    MaxLogicalLen = 2
    MaxChunkCount = 2
    MaxReconstruct = 3
    CacheBytes = 0
    RewriteLimits = {2, 3}
    MaxCalls = 3
SYMMETRY TaskSymmetry
INVARIANTS
    EveryRowReads
