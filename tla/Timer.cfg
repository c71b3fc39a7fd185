SPECIFICATION Spec
CONSTANTS
    x1 = x1  x2 = x2  x3 = x3
    u1 = u1  u2 = u2
    Timer = {x1, x2, x3}
    Periodic = {x1}
    Switched = {x2}
    InitTick <- MCInitTick
    SelfStop = {x1}
    CPU = {0, 1}
    NoCPU = NoCPU
    User = {u1, u2}
    Owner <- MCOwner
    Locked = Locked
    TickRange = 11
    MaxLate = 1
    MaxStale = 2
INVARIANTS FlagExact StopHolds DueExact InOrder OnTime
