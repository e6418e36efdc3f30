SPECIFICATION FairSpec
CONSTANTS
    Users = {1, 2}
    Pagers = {5, 6}
    Start5 = 8
    System = 9
    MAXPAGERS = 2
    InitArgs <- AllArgs
    MAXMBOX = 9
    MAXSEMS = 9
    Sessions = 2
    Disciplined = TRUE
    Zappable = {}
INVARIANTS
    LifecycleTypeOK
    NothingHalts
    UsedWhileItExists
    StatusIsTrue
    SemaphoresBalance
    NoPagerOutlivesTables
PROPERTIES
    CallsReturn
