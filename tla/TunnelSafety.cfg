SPECIFICATION FairSpec
CONSTANTS
    Lines = {2, 4}
    Limit = 2
    ClientUnits = 5
    ServerUnits = 3
    Room = 2
INVARIANTS
    TunnelFaithful
    CheckedFirst
PROPERTIES
    RequestSettled
    TunnelEnds
\* Two peers with nothing more to say rest, and so does a closed connection.
CHECK_DEADLOCK FALSE
