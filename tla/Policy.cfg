SPECIFICATION Spec
CONSTANTS
    MaxLength = 5
    Missions <- MCMissions
    Altitudes = {2, 3}
    Durations = {1, 2, 3}
    Places <- Line
    Home = 0
    Distance <- Apart
    MaxAltitude = 2
    MaxDistance = 2
    MaxHold = 2
    MaxActions = 6
    MaxTotalHold = 3
    MaxTotalDistance = 6
    MaxGotos = 2
INVARIANTS
    ApprovedIsSafe
    ApprovedWithinTotals
    SafeIsApproved
    ApprovedForExecutor
CHECK_DEADLOCK FALSE
