SPECIFICATION FairSpec
CONSTANTS
    Ui = ui
    Notif = notif
    Ctls = {ctl}
    Rooms = {r1}
    Users = {u1}
    NoTopic = noTopic
    NoOne = noOne
    MaxHandles = 2
    MaxListeners = 1
    MaxSessions = 1
INVARIANTS
    TypeOK
    NoLostSubscription
PROPERTIES
    CallsReturn
CHECK_DEADLOCK FALSE
