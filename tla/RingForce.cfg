SPECIFICATION Spec
CONSTANTS
    t1 = t1  t2 = t2  t3 = t3
    Thread = {t1, t2, t3}
    Priority <- TwoLevels
    Time = {"none", "ticks", "forever"}
    Signalled = {}
    Object = {"ring buffer"}
    Call <- ForcedPuts
    Msg = {1, 2}
    IsrMsg = {2}
    NoMsg = NoMsg
    Size = 2
    MailFlag = "FIFO"
    Block = {1, 2}
    NoBlock = NoBlock
    EventBit = {1, 2}
    EventFlag = "PRIO"
    EventOption = {{"OR"}, {"AND", "CLEAR"}, {"OR", "CLEAR"}}
    TxThread = {t1, t2}
    DataThread = t3
    SRDY = {TRUE}
    Content = {1, 2}
    NoContent = NoMsg
    Slot = {s1, s2}
    NULL = NULL
    MqFlag = "FIFO"
    Data = {1, 2}
    NoData = NoMsg
    QueueSize = 2
    Lwm = 0
    MaxPut = 3
    SIZEOF_STRUCT_MEM = 1
    MIN_SIZE = 2
    mem_size_aligned = 14
    NoMem = NoMem
    BufferSize = 4
    Bytes = 8
INVARIANT RingExact
CHECK_DEADLOCK FALSE
