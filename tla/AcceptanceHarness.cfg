SPECIFICATION FairSpec
CONSTANTS
  Homes = {h, g}
  NoHome = NoHome
  Broken = Broken
  Limit <- MCShort
  Budget = 4
  Grace = 1
  Ttl = 7
  Prompt = FALSE
INVARIANTS
  PassIsEarned
  ReplayShowsReuse
  NobodyLeftBehind
PROPERTIES
  EveryScenarioEnds
CHECK_DEADLOCK FALSE
