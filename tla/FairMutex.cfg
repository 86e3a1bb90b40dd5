CONSTANTS
    Threads = {t1, t2, t3}
    Mutexes = {m1, m2}
    TicketMod = 4
SPECIFICATION FairMutexSpec
INVARIANTS
    MutualExclusion
    NoLostWakeup
PROPERTIES
    ImplementsFifoLock
    LockReturns
CHECK_DEADLOCK TRUE
