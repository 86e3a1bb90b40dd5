CONSTANTS
    Handlers = {h1, h2}
    Clients = {c1, c2}
    Silent = {c2}
SPECIFICATION FairLogSpec
INVARIANTS
    NoDanglingCallback
    OneStreamPerChannel
    
PROPERTY CloseEndsStream
CHECK_DEADLOCK TRUE
