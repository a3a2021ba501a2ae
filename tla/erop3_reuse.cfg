CONSTANTS
    a = a
    b = b
    p = p
    q = q
    r = r
    x = x
    y = y
    s1 = s1
    s2 = s2
    Node = {a, b}
    Sap = {p, q, r}
    From <- FromA
    To <- ToB
    FromSap <- SapP
    Slot = {s1, s2}
    ToSap <- SapQR
    Bound <- BoundQR
    Op = {x, y}
    NREFS = 1
    Reply = {"result", "error"}
    SendOutcome = {TRUE}
    Acknowledgment = 1
    Roundtrip = 1
    Retransmit = 1
    MaxNSDULifeTime = 1
    RetransmitCount = 1
SPECIFICATION Spec
SYMMETRY SlotSymmetry
INVARIANT RefUnique
INVARIANT TimerArmed
