CONSTANTS
    Threads = {t1, t2}
    Mutexes = {m1}
    TicketMod = 3
    Clients = {test}
    TestClient = test
    TestMode = TRUE
    Overlap = FALSE
    Kinds = {"tests", "stubs", "coverage", "config", "query", "targets", "channel", "hello"}
SPECIFICATION RequestSpec
INVARIANTS
    OneTaskPerClient
    OwnEnvironment
CHECK_DEADLOCK TRUE
SYMMETRY ThreadSymmetry
VIEW LiveState
