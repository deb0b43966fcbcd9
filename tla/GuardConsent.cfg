SPECIFICATION Spec
CONSTANTS
    Calls = {c1, c2, c3}
    Ops <- ConsentOps
    OfferIds = {1}
    Listings <- TwoListings
    MaxDPH = 10
    MaxInstances = 0
    Guarded = {"create", "destroy"}
    Ways = {"ask", "accept", "refuse"}
    InitInst <- TwoInstances
    MaxId = 3
    MaxCrashes = 0
    Other = Other
SYMMETRY CallSymmetry
INVARIANTS
    OneEffectPerApproval
PROPERTIES
    NeverStartsOverCap
