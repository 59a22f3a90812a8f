SPECIFICATION Spec
CONSTANTS
    Networks = {n1, n2, n3}
    Passwords = {p1, nopass}
    NoName = noname
    NoPass = nopass
    Capacity = 2
    Secret <- McSecret
    n1 = n1
    p1 = p1
    Moving = {n1}
    MaxEvents = 1
    MaxResets = 1
    MaxTyped = 3
INVARIANTS Unique SavedWorked
PROPERTIES Reconnects IsQueue
CHECK_DEADLOCK FALSE
