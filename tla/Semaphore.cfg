SPECIFICATION FairSpec
CONSTANTS
    t1 = t1  t2 = t2  t3 = t3
    Thread = {t1, t2, t3}
    Flag = "PRIO"
    Time = {"none", "ticks", "forever"}
    Signalled = {t2}
    Priority <- TwoLevels
    InitValue = 1
    ValueRange = 3
    ResetValue = {0, 2}
    Detacher = {t2}
    Careful = TRUE
INVARIANTS TypeOK AnswerIsTrue PrioFirst ListExact NoIdleToken
PROPERTIES Served CallsReturn
CHECK_DEADLOCK FALSE
