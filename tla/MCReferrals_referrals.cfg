CONSTANTS
    User = {u1, u2, u3}
    Address = {a1, a2, a3}
    Douyin = {d1, d2}
    Cap = 16
    FreeCodes = 2
    MaxCodes = 3
    MaxMoves = 1
    None = None
SPECIFICATION ReferralSpec
SYMMETRY MCSymmetry
INVARIANTS ReferralInv CodesAreEarned TiersInOrder
CHECK_DEADLOCK FALSE
