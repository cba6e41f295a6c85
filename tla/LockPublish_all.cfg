SPECIFICATION PublishSpec
CONSTANTS
  chip = chip
  Mqtt = mqtt
  Threads <- MCThreads
  Lockers <- MCLockers
  MaxFlight = 2
INVARIANTS
  RetainedIsState
