SPECIFICATION Spec
CONSTANTS
    NumFrames = 2
    NumPages = 2
    MAXPROC = 5
    System = 1
    Pagers = {2}
    Users = {8}
    Priority <- Five
    Writable <- FirstPages
    Quitters = {}
    Printers = {}
    SectorsPerPage = 1
    TrackSize = 2
    Tracks = 1
    Values = {Zero}
    Zero = Zero
    Torn = Torn
INVARIANTS
    FaultsAreInTheTable
CHECK_DEADLOCK FALSE
