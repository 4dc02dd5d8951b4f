SPECIFICATION Spec
CONSTANTS
    Places <- Points
    Altitudes = {5, 6}
    Nothing = Nothing
    MaxIds = 4
    MaxRequests = 2
INVARIANTS
    UnreachableWasAsked
CHECK_DEADLOCK FALSE
