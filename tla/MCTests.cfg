SPECIFICATION StatsSpec
CONSTANTS
    NumFrames = 2
    NumPages = 3
    MAXPROC = 6
    System = 1
    Pagers = {2}
    Users = {3, 4}
    Priority <- Five
    Writable <- AllPages
    Quitters = {3, 4}
    Printers = {}
    SectorsPerPage = 8
    TrackSize = 7
    Tracks = 8
    Values <- Numbers
    Zero = Zero
    Torn = Torn
    Programs <- OnTwoFrames
    MaxRefaults = 1
INVARIANTS
    AssertsHold
    ReadsAreRight
    CountersFitTables
CHECK_DEADLOCK FALSE
