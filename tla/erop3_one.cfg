CONSTANTS
    a = a
    b = b
    p = p
    q = q
    r = r
    x = x
    y = y
    s1 = s1
    s2 = s2
    Node = {a, b}
    Sap = {p, q, r}
    From <- FromA
    To <- ToB
    FromSap <- SapP
    Slot = {s1}
    ToSap <- SapQR
    Bound <- BoundQ
    Op = {x, y}
    NREFS = 2
    Reply = {"result", "error"}
    SendOutcome = {TRUE, FALSE}
    Acknowledgment = 1
    Roundtrip = 1
    Retransmit = 1
    MaxNSDULifeTime = 2
    RetransmitCount = 2
SPECIFICATION FairSpec
INVARIANT TypeOK
INVARIANT OutcomeOnce
INVARIANT TasksLive
INVARIANT HeldDescLive
PROPERTY Implements3Way
PROPERTY Answered
PROPERTY Told
PROPERTY ReleasedOrStranded
