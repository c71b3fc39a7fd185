SPECIFICATION FairSpec
CONSTANTS
    RT_CPUS_NR = 2
    Thread = {t1, t2, t3}
    NoThread = NoThread
    NoCpu = NoCpu
    MaxNest = 2
    MaxCritical = 1
    CriticalInLock = {t1}
CHECK_DEADLOCK FALSE
PROPERTY CleanupGoesOn
