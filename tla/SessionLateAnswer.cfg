\* A call gives up and another one follows.
CONSTANTS
    p = p
    q = q
    None = None
    Sessions <- OneSession
    MaxCalls = 2
    Hazards = {"timeout"}
SPECIFICATION Spec
\* MaxCalls bounds the calls, after which the session rests.
CHECK_DEADLOCK FALSE
INVARIANT AnswersMatch
