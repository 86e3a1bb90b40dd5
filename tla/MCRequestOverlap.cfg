CONSTANTS
    Threads = {t1, t2}
    Mutexes = {m1, m2}
    TicketMod = 3
    Clients = {test}
    TestClient = test
    TestMode = TRUE
    Overlap = TRUE
    Kinds = {"tests"}
SPECIFICATION RequestSpec
INVARIANT OneTaskPerClient
CHECK_DEADLOCK TRUE
