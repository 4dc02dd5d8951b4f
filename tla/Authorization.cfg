SPECIFICATION FairSpec
CONSTANTS
    Processes = {p1, p2}
    Requests <- MCRequests
    PolicyApproved = {"m1", "m2", "m3"}
    Translatable = {"m1", "m2"}
    CurrentPolicy = "limits"
    Times <- MCTimes
    MaxSkew = 1
    MaxLifetime = 3
    Nobody = Nobody
INVARIANTS
    TypeOK
    ExecutedOnce
    ExecutedIsAuthorized
    RefusedSpendsNothing
    
PROPERTIES
    Implements
    NeverStranded
CHECK_DEADLOCK FALSE
