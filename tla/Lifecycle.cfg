SPECIFICATION Spec
CONSTANTS
    a = a
    b = b
    Name <- MCName
    MaxLives = 2
INVARIANTS
    AccountsStayAlone
    ServedKeepSessionsAlone
    StoppedIsClean
CHECK_DEADLOCK FALSE
