SPECIFICATION Spec
CONSTANTS
    Calls = {c1, c2}
    Ops <- Creates
    OfferIds = {1}
    Listings <- TwoListings
    MaxDPH = 10
    MaxInstances = 1
    Guarded = {"create"}
    Ways = {"arg"}
    InitInst <- NoInstances
    MaxId = 2
    MaxCrashes = 0
    Other = Other
SYMMETRY CallSymmetry
INVARIANTS
    BreachAlwaysRecorded
