\* Three borrowers share two sandboxes; everything may fail and the pool may close.
CONSTANTS
    b1 = b1
    b2 = b2
    b3 = b3
    s1 = s1
    s2 = s2
    s3 = s3
    s4 = s4
    None = None
    Threads <- ThreeBorrowers
    Sandboxes <- FourSandboxes
    Size = 2
    MaxUses = 2
    Hazards = {"factory", "destroy", "backstop", "lifetime", "close", "timeout"}
SPECIFICATION FairSpec
\* A closed pool has nothing left to do, and neither has one that failed to start.
CHECK_DEADLOCK FALSE
INVARIANTS Custody CapacityKept
PROPERTY SomeoneServed
