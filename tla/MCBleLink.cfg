CONSTANTS
    Stacks = {"nimble", "bluedroid"}
    Friends = {f1, f2}
    NoFriend = NoFriend
    MaxRequests = 2
    MaxDrops = 1
    MaxPushes = 1
    MaxToggles = 2
SPECIFICATION Spec
INVARIANTS
    ReadAfterAsked
    ContactsAnswerRequest
    SentAtMostOnce
    
    AdvertisesWhenAlone
CHECK_DEADLOCK FALSE
SYMMETRY Renamings
