SPECIFICATION LoopSpec
CONSTANTS
    NumFrames = 3
INVARIANTS
    LoopTypeOK
    SecondChance
    TakesTurns
    FailsAtALock
PROPERTY
    SearchIsTheLoop
