CONSTANTS
    m1 = m1
    m2 = m2
    Msg = {m1, m2}
    Segments <- Two
    Outbound = 1
    VerifySlots = 2
    MaxRestarts = 0
    MaxFaults = 0
SPECIFICATION Spec
CHECK_DEADLOCK FALSE
INVARIANT SpooledWhole
