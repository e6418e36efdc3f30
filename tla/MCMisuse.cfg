SPECIFICATION Spec
CONSTANTS
    Users = {1, 2}
    Pagers = {5, 6}
    Start5 = 8
    System = 9
    MAXPAGERS = 2
    InitArgs <- OneOrTwo
    MAXMBOX = 7
    MAXSEMS = 1
    Sessions = 3
    Disciplined = FALSE
    Zappable = {5}
INVARIANTS
    HaltsNeedMisuse
    NoPagerOutlivesTables
CHECK_DEADLOCK FALSE
