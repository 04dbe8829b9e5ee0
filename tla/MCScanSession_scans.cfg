SPECIFICATION FairSpec
CONSTANTS
    Scan = {s1, s2}
    Owner = {o1, o2}
    Defects = {}
    None = None
INVARIANTS SessionInv SavedIffSucceeded
PROPERTIES EveryScanEnds
