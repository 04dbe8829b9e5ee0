SPECIFICATION FairSpec
CONSTANTS
    c1 = c1
    u1 = u1
    e1 = e1
    e2 = e2
    Notifier = {n1}
    Channel = {c1}
    Event = {e1, e2}
    User = {u1}
    OwnerOf <- MCOwner
    UserOf <- MCTwoEvents
    KindOf <- MCTests
    Settings <- MCAlways
    MaxAttempts = 2
    Limit = 1
PROPERTIES Settles
