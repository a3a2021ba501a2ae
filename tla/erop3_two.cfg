CONSTANTS
    a = a
    b = b
    p = p
    q = q
    r = r
    x = x
    y = y
    s1 = s1
    s2 = s2
    Node = {a, b}
    Sap = {p, q, r}
    From <- FromA
    To <- ToB
    FromSap <- SapP
    Slot = {s1, s2}
    ToSap <- SapQ
    Bound <- BoundQ
    Op = {x, y}
    NREFS = 3
    Reply = {"result"}
    SendOutcome = {TRUE}
    Acknowledgment = 1
    Roundtrip = 1
    Retransmit = 1
    MaxNSDULifeTime = 1
    RetransmitCount = 1
SPECIFICATION Spec
SYMMETRY SlotSymmetry
PROPERTY Implements3Way
