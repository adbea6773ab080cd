\* Requests and answers are lost, the worker refuses, shuts down, crashes, restarts.
CONSTANTS
    o1 = o1
    o2 = o2
    u1 = u1
    i1 = i1
    i2 = i2
    None = None
    Objects <- TwoObjects
    Users <- OneUser
    Ids <- TwoIds
    Hazards = {"lost", "refused", "shutdown", "crash"}
SYMMETRY Interchangeable
SPECIFICATION Spec
\* Both objects may be destroyed and everybody at rest.
CHECK_DEADLOCK FALSE
INVARIANTS Accounted ShutdownDestroysAll DestroyGoneIfAnswered
