CONSTANTS
    Socket = {"fd1", "fd2"}
    MaxTasks = 12
    Sanity = 20
    Burst = 2
    MaxPolls = 2
SPECIFICATION FairSchSpec
INVARIANT PoolConserved
PROPERTY ImplementsFifo
PROPERTY Drained
