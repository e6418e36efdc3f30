SPECIFICATION Spec
CONSTANTS
    NumFrames = 2
    NumPages = 1
    MAXPROC = 7
    System = 1
    Pagers = {2, 6}
    Users = {3, 4, 5}
    Priority <- Five
    Writable = {}
    Quitters = {}
    Printers = {5}
    SectorsPerPage = 1
    TrackSize = 2
    Tracks = 1
    Values = {Zero}
    Zero = Zero
    Torn = Torn
INVARIANTS
    TablesAgree
CHECK_DEADLOCK FALSE
