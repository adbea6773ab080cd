\* Two pruners, one of them with force_all, beside an owner that may stop at every step.
CONSTANTS
    o = o
    p1 = p1
    p2 = p2
    Threads <- OneOwner
    Pruners <- TwoPruners
    Regular = p1
    Forced <- SecondForced
    Lifetime = 1
    Grace = 1
    MaxClock = 2
    Networks = {"domains"}
    Origins = {"create"}
    Calls = {"destroy"}
    DaemonErrors = {"api"}
SPECIFICATION ReaperFairSpec
INVARIANT ReportsTruthful
PROPERTIES LivingSpared OrphansReaped
