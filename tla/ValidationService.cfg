SPECIFICATION FairSpec
CONSTANTS
  Conns = {c, d}
  Requests <- MCRequests
  MaxRequests = 2

  
PROPERTIES
  NobodyStarves
CHECK_DEADLOCK FALSE
