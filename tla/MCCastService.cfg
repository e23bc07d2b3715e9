SPECIFICATION Spec
CONSTANTS
    Links = {t1, t2}
    Sessions = {s1}
    Recording = Recording
    Timeout = 2
    IdleTimeout = 2
INVARIANTS
    CastTypeOK
    OpenLinkIsWatched
PROPERTIES
    LinkKeptWhileRead
    EveryStopHasACause
    UnreadSessionEnds
CHECK_DEADLOCK FALSE
