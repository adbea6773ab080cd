\* Two callers, the timer thread, file writes and daemon errors.  Nobody has to
\* call destroy: the timer and the deadline check must.
\* The callers may stop calling a destroyed sandbox: termination is no error.
CONSTANTS
    c1 = c1
    c2 = c2
    tm = tm
    Timer = tm
    Threads <- TwoCallers
    Networks = {"open"}
    Origins = {"create", "fork_commit"}
    Calls = {"exec", "destroy", "write"}
    DaemonErrors = {"api"}
SPECIFICATION FairSpec
CHECK_DEADLOCK FALSE
INVARIANTS NoOrphan Truthful
PROPERTIES FlagGoesFirst KeepsContract
