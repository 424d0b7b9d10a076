CONSTANTS
    NumUsers   = 3
    Connected  <- MCTwo
    MaxPackets = 2
SPECIFICATION Spec
INVARIANTS SentIsStored ViewIsPrefix OnlineMembersGetItAlone
PROPERTIES AppendOnly TransactionEnds
CHECK_DEADLOCK FALSE
