CONSTANTS
    MaxSockets = 3
    MaxClicks = 2
    MaxPushes = 2
    MaxDrops = 1
SPECIFICATION ConnectionSpec
INVARIANTS  KeyGoesToMainAlone MainHasReaderAlone
CHECK_DEADLOCK FALSE
