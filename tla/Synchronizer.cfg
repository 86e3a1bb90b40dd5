CONSTANTS
    Files = {"a.c"}
    MaxTime = 3
    MaxVersion = 3
    MaxRequests = 3
SPECIFICATION SyncSpec
INVARIANTS
    WhatIsKeptIsCurrent
    
PROPERTY EditsSurvive
CHECK_DEADLOCK FALSE
