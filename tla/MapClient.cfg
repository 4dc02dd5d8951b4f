SPECIFICATION Spec
CONSTANTS
    Places <- Points
    Altitudes = {5, 6}
    Nothing = Nothing
    MaxIds = 5
    MaxRequests = 2
INVARIANTS
    TypeOK
    IdNamesOneMission
    CurrentIdIsCurrent
    NeverStuck
CHECK_DEADLOCK FALSE
