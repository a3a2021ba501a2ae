CONSTANTS
    m1 = m1
    m2 = m2
    Msg = {m1}
    Segments <- Three
    Outbound = 1
    VerifySlots = 2
    MaxRestarts = 1
    MaxFaults = 2
SPECIFICATION FairSpec
CHECK_DEADLOCK FALSE
INVARIANT SubmissionTypeOK
INVARIANT FailNotSent
INVARIANT SuccessAccounted
PROPERTY UserTold
PROPERTY OpsEnd
