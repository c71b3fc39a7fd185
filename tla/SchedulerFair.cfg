SPECIFICATION FairSpec
CONSTANTS
    t1 = t1
    t2 = t2
    t3 = t3
    i0 = i0
    i1 = i1
    NoThread = NoThread
    RT_CPUS_NR = 2
    RT_THREAD_PRIORITY_MAX = 2
    Thread = {t1, t2}
    idle <- MCidle
    InitPriority <- MCEqualPriorities
    InitTick = 1
    MaxNest = 1
    Main = t2
    MayBind = {}
    MaySleep = {}
    MayExit = {}
    ExitAnyCpu = FALSE
    MayDelete = {}
    MayChange = {t1}
    UnlockedResume = {}
    IsStatic = {}
    HasCleanup = {}
PROPERTIES ReadyRuns
