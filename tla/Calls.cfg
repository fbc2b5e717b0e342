SPECIFICATION FairSpec
CONSTANTS
  Programs <- MCPrograms
  MaxCalls = 2
INVARIANTS
  CallsSafe
PROPERTIES
  CallsReturn
CHECK_DEADLOCK FALSE
