SPECIFICATION Spec
CONSTANTS
    Position <- MCTwoFriends
    Account = {a1}
    Instant = {t1, t2, t3}
    Reportable <- MCRetryable
    MaxAttempts = 3
    MaxRuns = 2
    MaxEdits = 0
    NoAccount = NoAccount
    NoTime = NoTime
SYMMETRY MCSymmetry
INVARIANTS NoDoubleSend OneInFlight OutcomesAreKept StopBoundsInFlight
