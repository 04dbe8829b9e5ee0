SPECIFICATION FairSpec
CONSTANTS
    w1 = w1
    a1 = a1
    w2 = w2
    h1 = h1
    h2 = h2
    Supervisor = {w1, a1, w2}
    Host = {h1, h2}
    HostOf <- MCTwoHosts
    Clustered = TRUE
    Guard = 10
    JobLife = 6
    StartDelay = 3
    Nobody = Nobody
    Ghost = Ghost
INVARIANTS SlotInv OneBrowser
PROPERTIES SlotReturns
