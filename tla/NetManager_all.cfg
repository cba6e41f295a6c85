SPECIFICATION FairSpec
CONSTANTS
  home = home
  typo = typo
  None = None
  Nets <- MCNets
  GoodNets <- MCGoodNets
  MaxAttempts = 3
  DriverErrors = TRUE
  MaxEvents = 2
INVARIANTS
  ReachableUnlessLeft
  FallbackStays
  StatusIsTrue
PROPERTIES
  AdoptsWhatWorked
  NeverAwayForGood
CHECK_DEADLOCK FALSE
