\* close runs between the finally block's look at the flag and its put.
CONSTANTS
    b1 = b1
    b2 = b2
    b3 = b3
    s1 = s1
    s2 = s2
    s3 = s3
    s4 = s4
    None = None
    Threads <- TwoBorrowers
    Sandboxes <- ThreeSandboxes
    Size = 1
    MaxUses = 2
    Hazards = {"close"}
SPECIFICATION Spec
\* A closed pool has nothing left to do, and neither has one that failed to start.
CHECK_DEADLOCK FALSE
INVARIANT CloseDestroysAll
