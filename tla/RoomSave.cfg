CONSTANTS
    User <- MCUser
    Room <- MCRoom
    Chats <- MCChats
    MaxLogins = 4
    MaxMessages = 1
SPECIFICATION Spec
INVARIANTS SentBeforeIsSaved SavedIsRoomUnlessCrossed
CHECK_DEADLOCK FALSE
