SPECIFICATION Spec
CONSTANTS
  Homes = {h, g}
  NoHome = NoHome
  Broken = Broken
  Limit <- MCLimit
  Budget = 18
  Grace = 1
  Ttl = 30
  Prompt = TRUE
INVARIANT BudgetSuffices
CHECK_DEADLOCK FALSE
