CONSTANTS
    Messages = 1
    Segments <- Three
    Inbound = 2
    MaxRetries = 2
    MaxTries = 1
    MaxFaults = 1
SPECIFICATION FairSpec
CHECK_DEADLOCK FALSE
INVARIANT DeliveryTypeOK
INVARIANT ShownWhole
INVARIANT DeliveredShown
INVARIANT AckedFinal
PROPERTY DeliveryEnds
PROPERTY InboundReturned
