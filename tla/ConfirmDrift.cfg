SPECIFICATION Spec
CONSTANTS
    Tools = {"vast_create_instance"}
    Args = {"offer 7"}
    Previews = {"at 0.0020", "at 0.0090"}
    Calls = {c1, c2, c3, c4}
    Views <- OfferViews
    Clients <- Eliciting
    Confirm = TRUE
    NoConfirm = {}
    ConfirmArgAllowed = FALSE
    TTL = 1
    MaxStall = 0
    MaxTime = 1
    MaxTokens = 1
    MaxGen = 0
SYMMETRY CallSymmetry
PROPERTIES
    DriftedApprovalSpent
\* The calls, the clock and the tokens are bounded: the system stops.
CHECK_DEADLOCK FALSE
