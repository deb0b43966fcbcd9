SPECIFICATION Spec
CONSTANTS
    Calls = {c1, c2, c3}
    Grace = 1
    NoOne = NoOne
INVARIANTS
    TypeOK
    GraceHonoured
    SinksAgree
    SpoiltByNeighbour
    FailuresCounted
PROPERTIES
    ExitsAfterSignal
\* The process ends.
CHECK_DEADLOCK FALSE
