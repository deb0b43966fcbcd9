SPECIFICATION Spec
CONSTANTS
    Tools = {"vast_create_instance", "vast_destroy_instance", "vast_execute"}
    Args = {"offer 7"}
    Previews = {"P", "Q"}
    Calls = {c1, c2}
    Views <- LooseViews
    Clients <- AnyClient
    Confirm = TRUE
    NoConfirm = {"vast_execute"}
    ConfirmArgAllowed = TRUE
    TTL = 0
    MaxStall = 0
    MaxTime = 0
    MaxTokens = 1
    MaxGen = 1
SYMMETRY CallSymmetry
INVARIANTS
    ActsOnConsent
    RefusedDriftShows
PROPERTIES
    RestartRevokes
\* The calls, the clock and the tokens are bounded: the system stops.
CHECK_DEADLOCK FALSE
