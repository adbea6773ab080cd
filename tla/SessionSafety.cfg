\* Calls that give up and calls whose answer cannot be read.
CONSTANTS
    p = p
    q = q
    None = None
    Sessions <- OneSession
    MaxCalls = 7
    Hazards = {"timeout", "oversize", "fatal"}
SPECIFICATION FairSpec
\* MaxCalls bounds the calls, after which the session rests.
CHECK_DEADLOCK FALSE
INVARIANTS TypeOK InStep InOrder NeverCrashes MatchUntilFailure
PROPERTY Answered
