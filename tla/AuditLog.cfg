SPECIFICATION Spec
CONSTANTS
  Dry = {d}
  Flights = {f}
  Strict <- MCStrict
  Length <- MCLength
  MaxCuts = 2
INVARIANTS
  GatedOnFile
  ReadBack
CHECK_DEADLOCK FALSE
