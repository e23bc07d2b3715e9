SPECIFICATION FairSpec
CONSTANTS
    Clients = {admin}
    Scheduler = scheduler
    MaxVersion = 2
    MaxRequests = 2
    MaxCrashes = 1
    Junk = Junk
    Empty = Empty
    Faults = {"download", "junk", "disk", "store"}
INVARIANTS
    TypeOK
    CopyIsWhole
PROPERTIES
    GuideNeverRegresses
    GuideCatchesUp
