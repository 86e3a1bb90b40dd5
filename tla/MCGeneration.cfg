CONSTANTS
    Files = {"a.c", "b.c"}
    Methods = {"f", "g"}
    Functions <- MCFunctions
    MaxRequests = 2
SPECIFICATION GenSpec
INVARIANTS
    TestsAreOfTheirRequest
    FunctionsAreAccountedFor
    NoFileIsForgotten
    UnlinkedKeepsItsTests
    CancelStopsWriting
CHECK_DEADLOCK FALSE
