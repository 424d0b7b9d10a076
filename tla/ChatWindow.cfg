SPECIFICATION ChatSpec
CONSTANTS
    MaxRooms = 2
    MaxNews = 3
    MaxClicks = 2
    MaxSends = 1
INVARIANTS
    OpenChatIsCurrent
    SentToOpenedRooms
    ListsAreComplete
CHECK_DEADLOCK FALSE
