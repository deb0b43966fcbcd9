SPECIFICATION Spec
CONSTANTS
    Calls = {c1, c2}
    Ops <- AllOps
    OfferIds = {1}
    Listings <- OddListings
    MaxDPH = 10
    MaxInstances = 1
    Guarded = {"create", "execute"}
    Ways = {"ask", "accept", "arg", "noarg"}
    InitInst <- NoInstances
    MaxId = 2
    MaxCrashes = 1
    Other = Other
SYMMETRY CallSymmetry
INVARIANTS
    TypeOK
    AuditMatchesAccount
    OvershootOnlyByRace
    BreachRecorded
    OverspendOnlyByReprice
