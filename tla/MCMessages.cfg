SPECIFICATION FairSpec
CONSTANTS
    Friends = {f1, f2}
    f1 = f1
    f2 = f2
    Nobody = nobody
    MaxMessages <- McMaxMessages
    MaxCalls = 2
INVARIANTS
    AnswerIsForFriend
PROPERTIES
    CountCatchesUp
    MqttNoticedIfAccepted
CHECK_DEADLOCK FALSE
