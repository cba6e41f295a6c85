SPECIFICATION Spec
CONSTANTS
  home = home
  typo = typo
  None = None
  Nets <- MCNets
  GoodNets <- MCGoodNets
  MaxAttempts = 3
  DriverErrors = FALSE
  MaxEvents = 2
INVARIANTS
  AlwaysReachable
CHECK_DEADLOCK FALSE
