SPECIFICATION Spec
CONSTANTS
    Homes = {near, far}
    Near = {near}
    Missions <- MCMissions
    Approved <- MCApproved
    InAirNoise <- Honest
    MaxCancels = 2
    MaxInterrupts = 0
INVARIANTS
    TypeOK
    LandingConfirmed
    NoDisarmInFlight
    DisarmFinal
    NoFlightAbandoned
    
    TakeoffNearBoundHome
    AuditBeforeCommand
    AuthorizedContact
    OneVerdict
    AuditNeverGroundsFlight
    
PROPERTIES
    OriginalErrorPreserved
    ImplementsFlight
CHECK_DEADLOCK FALSE
