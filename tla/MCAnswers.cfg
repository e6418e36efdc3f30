SPECIFICATION FairSpec
CONSTANTS
    NumFrames = 1
    NumPages = 1
    MAXPROC = 6
    System = 1
    Pagers = {2, 5}
    Users = {3, 4}
    Priority <- Five
    Writable <- FirstPages
    Quitters = {3}
    Printers = {4}
    SectorsPerPage = 1
    TrackSize = 2
    Tracks = 1
    Values = {Zero}
    Zero = Zero
    Torn = Torn
INVARIANTS
    TypeOK
    OneAnswerPerFault
PROPERTIES
    FaultsAreAnswered
CHECK_DEADLOCK FALSE
