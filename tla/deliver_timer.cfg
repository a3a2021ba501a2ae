CONSTANTS
    Messages = 1
    Segments <- Two
    Inbound = 2
    MaxRetries = 2
    MaxTries = 1
    MaxFaults = 0
SPECIFICATION Spec
CHECK_DEADLOCK FALSE
INVARIANT TimerOfLive
