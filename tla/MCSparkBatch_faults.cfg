SPECIFICATION FairSpec
CONSTANTS
    Position <- MCOneFriend
    Account = {a1}
    Instant = {t1, t2}
    Reportable <- MCAnyFault
    MaxAttempts = 3
    MaxRuns = 2
    MaxEdits = 1
    NoAccount = NoAccount
    NoTime = NoTime
INVARIANTS IInv OutcomeIsHonest LinkIsTail RunsCurrentEdition
PROPERTIES KeepsPromise RunEventuallyFinished
