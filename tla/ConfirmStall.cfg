SPECIFICATION Spec
CONSTANTS
    Tools = {"vast_create_instance"}
    Args = {"offer 7"}
    Previews = {"at 0.50"}
    Calls = {c1, c2, c3, c4, c5}
    Views <- OneView
    Clients <- Eliciting
    Confirm = TRUE
    NoConfirm = {}
    ConfirmArgAllowed = FALSE
    TTL = 1
    MaxStall = 1
    MaxTime = 3
    MaxTokens = 2
    MaxGen = 0
SYMMETRY CallSymmetry
INVARIANTS
    SecondVerdictTakesSweep
PROPERTIES
    MapBoundedByTTL
    ImplementsApproval
\* The calls, the clock and the tokens are bounded: the system stops.
CHECK_DEADLOCK FALSE
