SPECIFICATION FairSpec
CONSTANTS
  zero = zero
  first = first
  second = second
  None = None
  Ids <- MCIds
  Zero = zero
  Threshold = 3
  MaxAttempts = 3
  Apdus = 2
  DeviceSlots = 3
  ResetWired = TRUE
  SdkFails = TRUE
INVARIANTS
  SessionHasReader
  BeaconNamesReader
PROPERTIES
  RestartReturns
  DeafIsNoticed
