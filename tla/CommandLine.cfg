SPECIFICATION FairCliSpec
CONSTANTS
    v1 = v1
    v2 = v2
    pi = pi
    euler = euler
    NoTask = NoTask
    NoStream = NoStream
    Absent = Absent
    Corrupt = Corrupt
    NoSnapshot = NoSnapshot
    Keys = {a, b}
    Values = {v1, v2}
    Streams = {pi, euler, longpi}
    longpi = longpi
    Tasks = {cli}
    Cli = cli
    a = a
    b = b
    Opts = {"k1", "k2"}
    DefaultOpts = "k1"
    Size <- MCSize
    Existing <- CliExisting
    Chunkings <- MCChunkings
    Runtimes <- MCRuntimes
    Suppliers <- CliSuppliers
    Calls <- CliCalls
    MaxLogicalLen = 3
    MaxChunkCount = 2
    MaxReconstruct = 3
    DefaultLogicalLen = 3
    DefaultChunkCount = 2
    CacheBytes = 0
    RewriteLimits = {3}
    MaxCalls = 12
    MaxJobs = 1
    MaxWrites = 0
    Commands <- MCCommands
    MaxCommands = 1
INVARIANTS
    CliTypeOK
    AnswersHold
    ReportExplainsStore
    MigrationComplete
PROPERTIES
    CommandsEnd
