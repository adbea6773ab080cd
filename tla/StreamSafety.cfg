\* Five bytes in any messages against a limit of four: output at, below and beyond the
\* limit.  The characters are 1, 2-3 and 4-5, and the first two spell a secret.
\* A stream that is over stays over: termination is no error.
CONSTANTS
    Drivers = {"sync", "async"}
    MaxBytes = 5
    Limit = 4
    Wide = {2, 4}
    Secret = {1, 2, 3}
SPECIFICATION FairSpec
CHECK_DEADLOCK FALSE
INVARIANT StreamFaithful
PROPERTIES FinishedIsSpared StreamEnds RunawayStopped
