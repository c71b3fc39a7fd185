SPECIFICATION FairSpec
CONSTANTS
    t1 = t1  t2 = t2  t3 = t3
    NoThread = NoThread
    Thread = {t1, t2, t3}
    Mutex = {1, 2}
    Time = {"none", "ticks", "forever"}
    Signalled = {}
    Priority <- ThreeLevels
    HoldRange = 4
    MaxTaken = 2
    Nested = TRUE
    Use <- MCUse
INVARIANTS TypeOK Exclusive NoStranded Restored Inherits
PROPERTY TakeEnds
