SPECIFICATION PacketsSpec
CONSTANTS
    Names <- MCNames
    Texts <- MCTexts
    NameMax = 2
    MessageMax = 3
    PacketMax = 26
    Digits = 4
    MaxMessages = 3
INVARIANTS
    ShownAsTyped
    SoundPacketsAreRead
CHECK_DEADLOCK FALSE
