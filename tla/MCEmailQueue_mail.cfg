CONSTANTS
    DedupeKey = {failure, move}
    Migration = {move}
    e1 = e1
    e2 = e2
    Event <- MCEvents
    Notifier = {n1, n2}
    Breaking = {n1}
    MaxAttempts = 2
    MaxForgotten = 1
    None = None
SPECIFICATION FairSpec
CONSTRAINT MCBound
INVARIANTS NotTwice SentIsDelivered
PROPERTIES SentStays Settles
