SPECIFICATION FairSpec
CONSTANTS
    MaxAttempts = 1
    MaxEvents = 0
    StatusPages = TRUE
    Failures = FALSE
PROPERTY EventsReturn
CHECK_DEADLOCK FALSE
