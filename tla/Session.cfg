CONSTANTS
    Handlers = {h1, h2}
    Clients = {me}
    Silent = {}
    Me = me
    Beats = {b1, b2}
    Initial = b1
    MaxFailures = 2
    MaxCalls = 0
SPECIFICATION FairSessionSpec
INVARIANTS
    
    StreamsAskedAgain
PROPERTY Reconnects
CHECK_DEADLOCK FALSE
