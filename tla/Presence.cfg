CONSTANTS
    c1 = c1
    c2 = c2
    c3 = c3
    ann = ann
    bob = bob
    Conn <- MCConn
    User <- MCUser
    MaxFd = 2
SPECIFICATION Spec
SYMMETRY Symmetry
INVARIANTS   NoCrash MessagesReachTheirUserAlone
CHECK_DEADLOCK FALSE
