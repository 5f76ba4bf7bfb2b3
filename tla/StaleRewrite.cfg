SPECIFICATION SystemSpec
CONSTANTS
    v1 = v1
    v2 = v2
    pi = pi
    euler = euler
    NoTask = NoTask
    NoStream = NoStream
    Absent = Absent
    Corrupt = Corrupt
    NoSnapshot = NoSnapshot
    Keys = {"key"}
    Values = {v1, v2}
    Streams = {pi, euler}
    Tasks = {t1, t2}
    Opts = {"k1", "k2"}
    DefaultOpts = "k2"
    Size <- MCSize
    Existing <- PiExisting
    Chunkings <- MCChunkings
    Runtimes <- PiRuntimes
    Suppliers <- PiSuppliers
    Calls <- PiCalls
    MaxLogicalLen = 3
    MaxChunkCount = 2
    MaxReconstruct = 3
    DefaultLogicalLen = 3
    DefaultChunkCount = 2
    CacheBytes = 0
    RewriteLimits = {2, 3}
    MaxCalls = 2
    MaxJobs = 1
    MaxWrites = 0
SYMMETRY TaskSymmetry
INVARIANTS
    RewritesReplaceTheirSource
