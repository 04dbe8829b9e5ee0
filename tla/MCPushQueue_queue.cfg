SPECIFICATION Spec
CONSTANTS
    c1 = c1
    u1 = u1
    e1 = e1
    e2 = e2
    Notifier = {n1, n2}
    Channel = {c1}
    Event = {e1, e2}
    User = {u1}
    OwnerOf <- MCOwner
    UserOf <- MCTwoEvents
    KindOf <- MCKinds
    Settings <- MCAlways
    MaxAttempts = 2
    Limit = 1
INVARIANTS PushInv NotTwice HonestOutcome
SYMMETRY MCSymmetry
PROPERTIES SettledStays
