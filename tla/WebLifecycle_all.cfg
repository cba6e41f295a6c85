SPECIFICATION FairSpec
CONSTANTS
    MaxAttempts = 3
    MaxEvents = 1
    StatusPages = TRUE
    Failures = TRUE
INVARIANTS OneStarter SuspensionIsGuarded ServerIsWhole DownWhileCommissioning
PROPERTIES ServerComesBack
CHECK_DEADLOCK FALSE
