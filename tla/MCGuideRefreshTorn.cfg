SPECIFICATION Spec
CONSTANTS
    Clients = {admin}
    Scheduler = scheduler
    MaxVersion = 2
    MaxRequests = 1
    MaxCrashes = 0
    Junk = Junk
    Empty = Empty
    Faults = {}
INVARIANT CopyIsGood
