CONSTANTS
    Handle = {h1, h2, h3}
    Delay = {0, 1, 3}
    Modulus = 12
    Horizon = 6
SYMMETRY HandleSymmetry
SPECIFICATION TmrSpec
INVARIANT TmrTypeOK
INVARIANT QueueTimeOrdered
PROPERTY PollComplete
PROPERTY FiredInOrder
