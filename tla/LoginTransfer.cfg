CONSTANTS
    Room <- MCRoom
    Chats <- MCChats
    Friends = 1
    History <- MCHistory
    ChunkSize = 1
    FailMax = 2
    RoomMax = 3
    MaxEvents = 1
    Events <- MCAll
SPECIFICATION TransferSpec
INVARIANTS DataOnce 
PROPERTIES TransferEnds
CHECK_DEADLOCK FALSE
