SPECIFICATION FilterSpec
CONSTANTS
    v1 = v1
    v2 = v2
    pi = pi
    euler = euler
    NoStream = NoStream
    Absent = Absent
    Corrupt = Corrupt
    NoSnapshot = NoSnapshot
    Keys = {k1, k2}
    Values = {v1, v2}
    Streams = {pi, euler}
    Opts = {"k1", "k2"}
    DefaultOpts = "k2"
    Size <- MCSize
    Existing <- FilterExisting
    Chunkings <- MCChunkings
    Suppliers <- MCSuppliers
    MaxLogicalLen = 3
    MaxChunkCount = 2
    MaxReconstruct = 3
    DefaultLogicalLen = 3
    DefaultChunkCount = 2
    MaxJobs = 2
    MaxWrites = 2
CONSTRAINT JobsAndWrites
SYMMETRY KeySymmetry
INVARIANTS
    FilterTypeOK
    StatsExplainJob
PROPERTIES
    ProtectedRowsKept
    PlansOnlyImprove
    FilteredPlansReadBack
    ForcedJobLeavesNoRaw
    JobsKeepMeaning
