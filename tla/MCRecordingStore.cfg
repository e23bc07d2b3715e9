SPECIFICATION StoreSpec
CONSTANTS
    MaxJobs = 3
    MaxTime = 4
    TunerCount = 2
    NoProgram = NoProgram
    Failures = {"capture"}
    news = news
    Programs <- MCPrograms
    ProgramStart <- MCStart
    ProgramEnd <- MCEnd
    Paddings <- MCPaddings
INVARIANTS
    StoreTypeOK
    NoOvercommit
    MessageMatchesStatus
PROPERTY ImplementsLifecycle
