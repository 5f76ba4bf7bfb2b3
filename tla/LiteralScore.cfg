SPECIFICATION SearchSpec
CONSTANTS
    Bytes = {0, 1}
    VarintBase = 3
    VarintBytes = 4
    Words = 81
    Libraries <- FarLibraries
    Targets <- FarTargets
    SearchOptions <- FarOptions
    ClockEvery = 64
INVARIANTS
    FewestBytes
