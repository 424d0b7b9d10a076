CONSTANTS
    d1 = d1
    d2 = d2
    Type <- MCTypes
    Data <- MCTwoData
    MaxPushes = 1
SPECIFICATION Spec
INVARIANTS TableIsLive SilenceMeansSentAlone
PROPERTIES AnswerBeatsTimeOut RequestsEnd
CHECK_DEADLOCK FALSE
