SPECIFICATION Spec
CONSTANTS
    MaxJobs = 2
    MaxTime = 3
    TunerCount = 1
    NoProgram = NoProgram
    NoSession = NoSession
    news = news
    movie = movie
    folderA = folderA
    folderB = folderB
    Programs <- MCPrograms
    ProgramStart <- MCStart
    ProgramEnd <- MCEnd
    Paddings <- MCPaddings
    Failures <- MCFailures
    Folders <- MCFolders
    FolderOf <- MCOwnFolders
    Sessions = {}
    s1 = s1
    MaxRestarts = 0
    Faults = {}
INVARIANT NeverMissed
