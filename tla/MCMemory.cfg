SPECIFICATION Spec
CONSTANTS
    NumFrames = 2
    NumPages = 2
    MAXPROC = 5
    System = 1
    Pagers = {2}
    Users = {3, 4}
    Priority <- Five
    Writable <- FirstPages
    Quitters = {3}
    Printers = {}
    SectorsPerPage = 4
    TrackSize = 3
    Tracks = 3
    Values = {v}
    Zero = Zero
    Torn = Torn
INVARIANTS
    ReadsSeeContent
    MmuFollowsTables
    AnsweredPageIsResident
PROPERTIES
    IsFlatMemory
CHECK_DEADLOCK FALSE
