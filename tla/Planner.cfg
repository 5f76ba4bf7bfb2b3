SPECIFICATION SearchSpec
CONSTANTS
    Bytes = {0, 1}
    VarintBase = 2
    VarintBytes = 5
    Words = 32
    Libraries <- MCLibraries
    Targets <- MCTargets
    SearchOptions <- MCSearchOptions
    ClockEvery = 2
INVARIANTS
    SearchTypeOK
    SearchIsOptimal
    CapLosesNothing
    WalkFollowsSearch
    FewestBytesButForLiterals
    GenuinePlansPass
