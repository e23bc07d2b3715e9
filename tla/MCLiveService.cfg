SPECIFICATION ServiceSpec
CONSTANTS
    Sessions = {s1, s2}
    Recordings = {r1}
    NoSession = NoSession
    Total = 1
    Faults = {"spawn", "client", "disk"}
INVARIANTS
    TypeOK
    TunersNotOverdrawn
    StoppedMeansReleased
    EndedLeavesNothing
    ExitIsClean
PROPERTIES
    ImplementsPool
    PreemptionAnswered
    StopSettled
    ShutdownEnds
CHECK_DEADLOCK FALSE
