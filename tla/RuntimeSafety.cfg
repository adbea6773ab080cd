\* Every network policy, origin, call and kind of daemon error.
\* The threads may stop calling a destroyed object: termination is no error.
CONSTANTS
    t1 = t1
    t2 = t2
    t3 = t3
    Threads <- ThreeThreads
    Networks = {"open", "domains", "cidrs"}
    Origins = {"create", "fork", "fork_commit"}
    Calls = {"exec", "destroy", "write"}
    DaemonErrors = {"api", "transport"}
SPECIFICATION RuntimeSpec
CHECK_DEADLOCK FALSE
INVARIANTS TypeOK SingleReleaser MountOutlivesContainer
PROPERTY FailedBootLeaves
