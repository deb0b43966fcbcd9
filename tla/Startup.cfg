SPECIFICATION Spec
CONSTANTS
    k1 = k1
    k2 = k2
    Procs = {a, s}
    Servers = {s}
    Keys = {k1, k2}
    Machines <- SomeMachines
    MaxEdits = 1
    Unset = Unset
    Blank = Blank
    Invocations <- BindsAndExemptions
SYMMETRY KeySymmetry
INVARIANTS
    TypeOK
    StatusTells
    SetIsUsed
    RemoteIsGuarded
    LockIsTold
\* The processes end or serve, and the user stops.
CHECK_DEADLOCK FALSE
