SPECIFICATION Spec
CONSTANTS
    t1 = t1
    t2 = t2
    t3 = t3
    i0 = i0
    i1 = i1
    NoThread = NoThread
    RT_CPUS_NR = 2
    RT_THREAD_PRIORITY_MAX = 3
    Thread = {t1, t2}
    idle <- MCidle
    InitPriority <- MCPriorities
    InitTick = 1
    MaxNest = 1
    Main = t2
    MayBind = {0, 1}
    MaySleep = {t1}
    MayExit = {t1, t2}
    ExitAnyCpu = FALSE
    MayDelete = {t2}
    MayChange = {}
    UnlockedResume = {t2}
    IsStatic = {t1}
    HasCleanup = {t1}
INVARIANTS TypeOK Placed NoUseAfterFree OneCpu PriorityHonoured
PROPERTIES CriticalKeepsCpu
