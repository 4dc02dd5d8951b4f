SPECIFICATION Spec
CONSTANTS
    Homes = {near, far}
    Near = {near}
    Missions <- OneMission
    Approved <- OneMission
    InAirNoise <- Honest
    MaxCancels = 0
    MaxInterrupts = 1
PROPERTIES
    OriginalErrorPreserved
CHECK_DEADLOCK FALSE
