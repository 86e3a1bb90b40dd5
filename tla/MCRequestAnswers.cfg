CONSTANTS
    Threads = {t1, t2}
    Mutexes = {m1, m2}
    TicketMod = 3
    Clients = {test}
    TestClient = test
    TestMode = FALSE
    Overlap = TRUE
    Kinds = {"query"}
SPECIFICATION FairRequestSpec
PROPERTIES
    EveryRequestAnswered
    
CHECK_DEADLOCK TRUE
