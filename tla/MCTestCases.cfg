CONSTANTS
    Layout <- MCLayout
    KTests <- MCKTests
    Address <- MCAddress
    Records <- MCRecords
    Methods <- MCMethods
    CharBit = 3
    Width <- MCWidth
    Samples <- MCSamples
SPECIFICATION MCSpec
INVARIANTS
    TestCaseIsReproduced
    EveryValueFits
    AssertedAsAssumed
CHECK_DEADLOCK FALSE
