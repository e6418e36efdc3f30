SPECIFICATION Spec
CONSTANTS
    NumFrames = 1
    NumPages = 1
    MAXPROC = 5
    System = 1
    Pagers = {2}
    Users = {3, 4}
    Priority <- Five
    Writable <- FirstPages
    Quitters = {}
    Printers = {}
    SectorsPerPage = 1
    TrackSize = 2
    Tracks = 1
    Values = {v}
    Zero = Zero
    Torn = Torn
PROPERTIES
    IsFlatMemory
CHECK_DEADLOCK FALSE
