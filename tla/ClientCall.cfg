SPECIFICATION RSpec
CONSTANTS
    MaxRetries = 3
    Base = 2
    MaxRetryAfter = 5
    Longest = 5
    Timeout = 7
    MaxWait = 6
    Interval = 3
    Hints <- SomeHints
    MaxOutput = 142
    Preamble = 2
    Source = 1
    Texts <- SomeTexts
\* A call ends.
CHECK_DEADLOCK FALSE
INVARIANTS
    TypeOK
    EffectsBounded
    OkMeansDone
    CallBounded
    TimedOutOnlyIfLate
    DelimiterSurvives
    MarkerCounts
PROPERTIES
    Returns
    ImplementsRequest
