SPECIFICATION FairSpec
CONSTANTS
    Homes = {near, far}
    Near = {near}
    Missions <- OneMission
    Approved <- OneMission
    InAirNoise <- Invalid
    MaxCancels = 1
    MaxInterrupts = 1
INVARIANTS
    NoDisarmInFlight
PROPERTIES
    RecoveryBounded
    Termination
CHECK_DEADLOCK FALSE
