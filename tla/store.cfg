CONSTANTS
    m1 = m1
    m2 = m2
    r1 = r1
    r2 = r2
    r3 = r3
    r4 = r4
    Msg = {m1, m2}
    Recip = {r1, r2, r3, r4}
    Subscriber = {r1, r2, r3}
    To <- ToAll
    MaxRecips = 2
    Expiry = 2
    Keep = 1
    RetryDelay = 1
    MaxRetries = 2
    LastArrival = 4
    MaxDown = 1
SPECIFICATION Spec
CHECK_DEADLOCK FALSE
INVARIANT StoreTypeOK
INVARIANT ListIntact
INVARIANT InOrder
INVARIANT CompletedNotRetried
INVARIANT CountCovers
INVARIANT NotForgotten
