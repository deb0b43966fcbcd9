SPECIFICATION Spec
CONSTANTS
    Tools = {"vast_create_instance"}
    Args = {"offer 7"}
    Previews = {"at 0.50"}
    Calls = {c1, c2, c3, c4}
    Views <- OneView
    Clients <- Eliciting
    Confirm = TRUE
    NoConfirm = {}
    ConfirmArgAllowed = FALSE
    TTL = 1
    MaxStall = 0
    MaxTime = 3
    MaxTokens = 2
    MaxGen = 1
SYMMETRY CallSymmetry
INVARIANTS
    TypeOK
    OneVerdict
PROPERTIES
    ImplementsApproval
\* The calls, the clock and the tokens are bounded: the system stops.
CHECK_DEADLOCK FALSE
