SPECIFICATION FormatSpec
CONSTANTS
    VarintBase = 4
    VarintBytes = 3
    Words = 32
    BlockLen = 4
    RawValues <- MCRawValues
    Plans <- MCPlans
    Fragile <- MCFragile
    Registry <- MCRegistry
    XorBytes <- MCXorBytes
    MaxLogicalLen = 4
    MaxChunkCount = 3
    MaxEncodedPlanLen = 24
    MaxOffset = 15
    MaxChunkLen = 3
    MaxStreams = 2
    CrcModulus = 16411
INVARIANTS
    FormatTypeOK
    RoundTrip
    DecodedPlansSound
    DamageRefused
    ReadsWhatItNames
    ExplainsWhatItHolds
