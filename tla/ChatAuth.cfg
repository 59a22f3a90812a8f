SPECIFICATION FairSpec
CONSTANTS
    Tasks = {fetch, poll}
    Retriers = {fetch}
    Auth = auth
    Accounts = {a, b}
    None = none
    MaxEpoch = 1
    MaxFaults = 1
    MaxCrashes = 1
INVARIANTS
    OkMeansLoggedIn
    MenuHasIdentity
PROPERTIES
    RefreshRecovers
CHECK_DEADLOCK FALSE
