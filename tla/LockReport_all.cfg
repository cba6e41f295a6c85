SPECIFICATION FairReportSpec
CONSTANTS
  reader = reader
  Chip = chip
  Threads <- MCThreads
  Lockers <- MCLockers
  QueueMax = 2
INVARIANTS
  NeverLeftOpen
  FlagNeverLeftOpen
  LastReportWins
PROPERTIES
  ImplementsLatch
  EndsLocked
  LockStateCatchesUp
