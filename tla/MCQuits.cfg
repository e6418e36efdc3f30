SPECIFICATION Spec
CONSTANTS
    NumFrames = 2
    NumPages = 1
    MAXPROC = 6
    System = 1
    Pagers = {2}
    Users = {3, 4, 5}
    Priority <- Five
    Writable <- FirstPages
    Quitters = {3, 4}
    Printers = {4}
    SectorsPerPage = 1
    TrackSize = 2
    Tracks = 1
    Values = {Zero}
    Zero = Zero
    Torn = Torn
INVARIANTS
    TablesAgree
    NoMappingHalt
    HaltsNeedAQuit
    LocksBelongToFaults
    BlocksAreDistinct
CHECK_DEADLOCK FALSE
