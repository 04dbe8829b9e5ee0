CONSTANTS
    User = {u1, u2}
    Address = {a1, a2}
    Request = {r1, r2, r3}
    Pending = {p1}
    MaxAttempts = 2
    MaxSends = 2
    None = None
SPECIFICATION Spec
SYMMETRY MCSymmetry
INVARIANTS AccountsInv GuessesBound
PROPERTIES ReplacedInPerson ReplacedByOwner
