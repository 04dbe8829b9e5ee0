CONSTANTS
    u1 = u1
    g1 = g1
    User = {u1}
    Order = {o1, o2, o3}
    Plan <- MCPlans
    Channel = {wechat}
    Grant = {g1}
    OwnerOf <- MCOwner
    MaxOpen = 2
    None = None
SPECIFICATION Spec
SYMMETRY MCSymmetry
INVARIANTS RenewalInv PromotionsOnce NoDuplicates
