SPECIFICATION Spec
CONSTANTS
    c1 = c1
    c2 = c2
    Conn <- MCConn
    MaxFd <- MCMaxFd
    MaxThreads = 3
    MaxSends = 2
INVARIANTS
    OwnAnswersAlone
    ServedByOneAlone

    
CHECK_DEADLOCK FALSE
