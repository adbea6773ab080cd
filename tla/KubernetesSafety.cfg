\* Every network mode, and a cluster that may fail at every call.
\* The callers may stop calling a destroyed sandbox: termination is no error.
CONSTANTS
    c1 = c1
    c2 = c2
    tm = tm
    Timer = tm
    Threads <- TwoCallers
    Modes = {"allow", "deny", "cidrs", "domains"}
    Faults = {"api"}
SPECIFICATION FairSpec
CHECK_DEADLOCK FALSE
INVARIANTS ForgottenIsGone PolicyInPlace
PROPERTIES RaceIsReported KeepsContract
