SPECIFICATION FairSpec
CONSTANTS
    Sessions = {s1}
    Recordings = {r1}
    NoSession = NoSession
    Total = 1
    Faults = {"spawn"}
PROPERTY PreemptionEnds
