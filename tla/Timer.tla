-------------------------------- MODULE Timer --------------------------------
(***************************************************************************)
(* The hard timers of src/timer.c: a list that is sorted by a tick which   *)
(* wraps, the check that every CPU makes in its tick interrupt, and the    *)
(* calls of threads, some sections of which do not have the kernel lock.   *)
(* The flag byte of a timer, with RT_TIMER_FLAG_ACTIVATED and              *)
(* RT_TIMER_FLAG_PERIODIC, is tested and written without the lock: where   *)
(* two of them can do so at once a write is two steps, the load of the     *)
(* byte and the store.  Only the check keeps the lock for more than one    *)
(* step.                                                                   *)
(***************************************************************************)
EXTENDS Integers, FiniteSets, SequencesExt

CONSTANTS
    Timer,
    Periodic,      \* timers that were made with RT_TIMER_FLAG_PERIODIC
    Switched,      \* timers that their owner makes one-shot or periodic later
    InitTick,      \* per timer: the times it may be given
    SelfStop,      \* timers whose timeout function may stop them
    CPU, NoCPU,    \* numbers; 0 counts the tick
    User,          \* threads that use timers
    Owner,         \* the one thread that starts and stops a timer, or
    Locked,        \* Locked, for a timer that any thread starts and stops with the
                   \* kernel lock held, as ipc.c does with the timer of a thread
    TickRange,     \* number of values of rt_tick_t: 2^32 in the kernel
    MaxLate,       \* bound on the ticks that pass within one rt_timer_start
    MaxStale       \* bound on the ticks that pass within one check: the lock is first
                   \* come, first served, and CPU 0 checks before its next tick

RT_TICK_MAX == TickRange - 1
Half == RT_TICK_MAX \div 2

ASSUME TimerAssumption ==
    /\ Periodic \subseteq Timer /\ SelfStop \subseteq Timer /\ Switched \subseteq Timer
    /\ InitTick \in [Timer -> SUBSET (1 .. Half - 1)]
    /\ CPU \subseteq Nat /\ 0 \in CPU /\ NoCPU \notin CPU
    /\ Owner \in [Timer -> User \cup {Locked}] /\ Locked \notin User
    /\ \A x \in Switched : Owner[x] # Locked
    /\ TickRange \in Nat \ {0} /\ MaxLate \in Nat /\ MaxStale \in Nat
    /\ \A x \in Timer : \A i \in InitTick[x] : i + MaxLate + 1 < Half

VARIABLES
    tick,                               \* rt_tick
    rt_timer_list,
    timeout_tick, init_tick,            \* of the timers
    activated, periodic,                \* the timers with each bit of the flag
    lock,                               \* the CPU that is in the loop of its check
    current_tick, at,                   \* per CPU: of rt_timer_check, and where it is
    fired,                              \* the timer t of the loop, and its flag as loaded
    call,                               \* per thread: where it is in a call
    loaded,                             \* per thread: the bit ACTIVATED as loaded
    left,      \* history: the ticks that are left, by counting
    arrival,   \* history: the timers of the list in the order they were inserted
    tardy,     \* history: those of them that were due already when inserted
    stopped    \* history: the timers stopped with RT_EOK and not started since

clockVars == <<tick, init_tick, current_tick>>
listVars == <<rt_timer_list, timeout_tick, left, arrival, tardy>>
flagVars == <<activated, periodic>>
checkVars == <<lock, at, fired>>
vars == <<clockVars, listVars, flagVars, checkVars, call, loaded, stopped>>

\* Subtraction of rt_tick_t.
Minus(a, b) == (a - b) % TickRange

Listed(x) == x \in ToSet(rt_timer_list)

-----------------------------------------------------------------------------
(* Parts of rt_timer_start.                                                *)

InsertedPlain(list, x, out) ==
    LET k == SelectInSeq(list, LAMBDA y : out[x] < out[y])
    IN  IF k = 0 THEN Append(list, x) ELSE InsertAt(list, k, x)

\* The timer goes before the first one that is due later.
Inserted(list, x, out) ==
    LET k == SelectInSeq(list, LAMBDA y : Minus(out[y], out[x]) \in 1 .. Half - 1)
    IN  IF k = 0 THEN Append(list, x) ELSE InsertAt(list, k, x)

\* A timeout_tick is not read while the timer is off the list: forget it.
_rt_timer_remove(x) ==
    /\ rt_timer_list' = RemoveFirst(rt_timer_list, x)
    /\ arrival' = RemoveFirst(arrival, x)
    /\ timeout_tick' = [timeout_tick EXCEPT ![x] = 0]
    /\ left' = [left EXCEPT ![x] = 0]
    /\ tardy' = tardy \ {x}

\* With the lock held all of rt_timer_start is one step.
StartWhole(x) ==
    /\ timeout_tick' = [timeout_tick EXCEPT ![x] = (tick + init_tick[x]) % TickRange]
    /\ left' = [left EXCEPT ![x] = init_tick[x]]
    /\ rt_timer_list' = Inserted(RemoveFirst(rt_timer_list, x), x, timeout_tick')
    /\ arrival' = Append(RemoveFirst(arrival, x), x)
    /\ tardy' = tardy \ {x}

Goes(u, place, x) == call' = [call EXCEPT ![u] = [at |-> place, timer |-> x]]
Free(u, x) == call[u].at = "run" /\ Owner[x] \in {u, Locked}

\* The byte of a timer is written.
Store(x, active, period) ==
    /\ activated' = IF active THEN activated \cup {x} ELSE activated \ {x}
    /\ periodic' = IF period THEN periodic \cup {x} ELSE periodic \ {x}

-----------------------------------------------------------------------------
(* The calls of a thread.                                                  *)

\* rt_timer_start of a timer that the thread owns: the first section, ...
rt_timer_start(u, x) ==
    /\ Free(u, x) /\ Owner[x] = u /\ lock = NoCPU
    /\ _rt_timer_remove(x)
    /\ activated' = activated \ {x}
    /\ stopped' = stopped \ {x}
    /\ Goes(u, "tick", x)
    /\ UNCHANGED <<clockVars, periodic, checkVars, loaded>>

\* ... the timeout without the lock, ...
StartTick(u) == LET x == call[u].timer IN
    /\ call[u].at = "tick"
    /\ timeout_tick' = [timeout_tick EXCEPT ![x] = (tick + init_tick[x]) % TickRange]
    /\ left' = [left EXCEPT ![x] = init_tick[x]]
    /\ Goes(u, "insert", x)
    /\ UNCHANGED <<clockVars, rt_timer_list, arrival, tardy, flagVars, checkVars, loaded, stopped>>

\* ... and the second section.
StartInsert(u) == LET x == call[u].timer IN
    /\ call[u].at = "insert" /\ lock = NoCPU
    /\ rt_timer_list' = Inserted(rt_timer_list, x, timeout_tick)
    /\ arrival' = Append(arrival, x)
    /\ tardy' = IF left[x] <= 0 THEN tardy \cup {x} ELSE tardy
    /\ activated' = activated \cup {x}
    /\ Goes(u, "run", x)
    /\ UNCHANGED <<clockVars, timeout_tick, left, periodic, checkVars, loaded, stopped>>

\* rt_timer_stop tests the flag, removes the timer in a section and clears the
\* flag; only the section has the lock.  If the flag is clear nothing happens and
\* the answer is -RT_ERROR.
rt_timer_stop(u, x) ==
    /\ Free(u, x) /\ Owner[x] = u
    /\ x \in activated
    /\ Goes(u, "remove", x)
    /\ UNCHANGED <<clockVars, listVars, flagVars, checkVars, loaded, stopped>>

StopRemoveUnlocked(u) == LET x == call[u].timer IN
    /\ call[u].at = "remove"
    /\ _rt_timer_remove(x)
    /\ Goes(u, "clear", x)
    /\ UNCHANGED <<clockVars, flagVars, checkVars, loaded, stopped>>

StopRemove(u) == LET x == call[u].timer IN
    /\ call[u].at = "remove" /\ lock = NoCPU
    /\ _rt_timer_remove(x)
    /\ Goes(u, "clear", x)
    /\ UNCHANGED <<clockVars, flagVars, checkVars, loaded, stopped>>

StopClear(u) == LET x == call[u].timer IN
    /\ call[u].at = "clear"
    /\ activated' = activated \ {x}
    /\ stopped' = stopped \cup {x}
    /\ Goes(u, "run", x)
    /\ UNCHANGED <<clockVars, listVars, periodic, checkVars, loaded>>

\* rt_timer_control with RT_TIMER_CTRL_SET_TIME, ...
SetTime(u, x, time) ==
    /\ Free(u, x)
    /\ init_tick' = [init_tick EXCEPT ![x] = time]
    /\ UNCHANGED <<tick, current_tick, listVars, flagVars, checkVars, call, loaded, stopped>>

\* ... and with RT_TIMER_CTRL_SET_ONESHOT or _SET_PERIODIC, a load ...
SetMode(u, x) ==
    /\ Free(u, x) /\ x \in Switched
    /\ loaded' = [loaded EXCEPT ![u] = x \in activated]
    /\ Goes(u, "mode", x)
    /\ UNCHANGED <<clockVars, listVars, flagVars, checkVars, stopped>>

\* ... and a store of the byte, without the lock.
ModeStore(u, period) == LET x == call[u].timer IN
    /\ call[u].at = "mode"
    /\ Store(x, loaded[u], period)
    /\ loaded' = [loaded EXCEPT ![u] = FALSE]
    /\ Goes(u, "run", x)
    /\ UNCHANGED <<clockVars, listVars, checkVars, stopped>>

rt_timer_control(u, x) == SetMode(u, x) \/ \E time \in InitTick[x] : SetTime(u, x, time)

\* Start and stop of the timer of a thread, inside of a section of ipc.c.
StartLocked(u, x) ==
    /\ Free(u, x) /\ Owner[x] = Locked /\ lock = NoCPU
    /\ StartWhole(x)
    /\ activated' = activated \cup {x}
    /\ stopped' = stopped \ {x}
    /\ UNCHANGED <<clockVars, periodic, checkVars, call, loaded>>

StopLocked(u, x) ==
    /\ Free(u, x) /\ Owner[x] = Locked /\ lock = NoCPU
    /\ x \in activated
    /\ _rt_timer_remove(x)
    /\ activated' = activated \ {x}
    /\ stopped' = stopped \cup {x}
    /\ UNCHANGED <<clockVars, periodic, checkVars, call, loaded>>

-----------------------------------------------------------------------------
(* The tick interrupt: rt_tick_increase and rt_timer_check.                *)

\* The tick of CPU 0 is the tick of the system, and the check of a CPU starts
\* from what it reads before it has the lock.
TickInterrupt(c) ==
    /\ at[c] = "idle"
    /\ IF c = 0
       THEN /\ \A u \in User : call[u].at = "insert" => left[call[u].timer] > -MaxLate
            /\ \A d \in CPU : at[d] # "idle" => Minus(tick, current_tick[d]) < MaxStale
            /\ tick' = (tick + 1) % TickRange
            /\ left' = [x \in Timer |->
                  IF Listed(x) \/ \E u \in User : call[u] = [at |-> "insert", timer |-> x]
                  THEN left[x] - 1 ELSE left[x]]
       ELSE UNCHANGED <<tick, left>>
    /\ current_tick' = [current_tick EXCEPT ![c] = tick']
    /\ at' = [at EXCEPT ![c] = "enter"]
    /\ UNCHANGED <<init_tick, rt_timer_list, timeout_tick, arrival, tardy, flagVars, lock, fired,
                   call, loaded, stopped>>

CheckEnter(c) ==
    /\ at[c] = "enter" /\ lock = NoCPU
    /\ lock' = c
    /\ at' = [at EXCEPT ![c] = "loop"]
    /\ UNCHANGED <<clockVars, listVars, flagVars, fired, call, loaded, stopped>>

DueLate(now, x) == Minus(now, timeout_tick[x]) \in 1 .. Half - 1

DuePlain(now, x) == now >= timeout_tick[x]

Due(now, x) == Minus(now, timeout_tick[x]) < Half

\* What is in fired before the flag is loaded, and then.
Unread(x) == [timer |-> x, active |-> FALSE, periodic |-> FALSE]
Load(x) == [timer |-> x, active |-> x \in activated, periodic |-> x \in periodic]

Unfired == Unread(CHOOSE x \in Timer : TRUE)

Turns(c, place) == at' = [at EXCEPT ![c] = place]

\* The first timer is due: it is removed and its function is called.
Fire(c) == LET x == Head(rt_timer_list) IN
    /\ at[c] = "loop"
    /\ rt_timer_list # << >> /\ Due(current_tick[c], x)
    /\ _rt_timer_remove(x)
    /\ fired' = Unread(x)
    /\ Turns(c, "func")
    /\ UNCHANGED <<clockVars, flagVars, lock, call, loaded, stopped>>

\* The function stops its own timer, which is off the list: the flag is loaded ...
FuncStop(c) == LET x == fired.timer IN
    /\ at[c] = "func"
    /\ x \in SelfStop /\ x \in activated
    /\ fired' = Load(x)
    /\ Turns(c, "stop")
    /\ UNCHANGED <<clockVars, listVars, flagVars, lock, call, loaded, stopped>>

\* ... and stored.
FuncClear(c) == LET x == fired.timer IN
    /\ at[c] = "stop"
    /\ Store(x, FALSE, fired.periodic)
    /\ stopped' = stopped \cup {x}
    /\ fired' = Unread(x)
    /\ Turns(c, "func")
    /\ UNCHANGED <<clockVars, listVars, lock, call, loaded>>

\* The function has returned: the tick is read again and the flag is loaded, once
\* for its tests and for its change.
Test(c) ==
    /\ at[c] = "func"
    /\ current_tick' = [current_tick EXCEPT ![c] = tick]
    /\ fired' = Load(fired.timer)
    /\ Turns(c, "clear")
    /\ UNCHANGED <<tick, init_tick, listVars, flagVars, lock, call, loaded, stopped>>

Restarts == fired.active /\ fired.periodic

ClearKeepsFlag(c) == LET x == fired.timer IN
    /\ at[c] = "clear"
    /\ Store(x, ~Restarts /\ fired.active, fired.periodic)
    /\ fired' = IF Restarts THEN Unread(x) ELSE Unfired
    /\ Turns(c, IF Restarts THEN "start" ELSE "loop")
    /\ UNCHANGED <<clockVars, listVars, lock, call, loaded, stopped>>

\* ACTIVATED is cleared in either case, and a timer that was periodic and active
\* is started again.
Clear(c) == LET x == fired.timer IN
    /\ at[c] = "clear"
    /\ Store(x, FALSE, fired.periodic)
    /\ fired' = IF Restarts THEN Unread(x) ELSE Unfired
    /\ Turns(c, IF Restarts THEN "start" ELSE "loop")
    /\ UNCHANGED <<clockVars, listVars, lock, call, loaded, stopped>>

\* rt_timer_start inside of the check clears the flag once more, inserts the timer,
\* loads the flag ...
Restart(c) == LET x == fired.timer IN
    /\ at[c] = "start"
    /\ StartWhole(x)
    /\ activated' = activated \ {x}
    /\ fired' = [Load(x) EXCEPT !.active = FALSE]
    /\ Turns(c, "set")
    /\ UNCHANGED <<clockVars, periodic, lock, call, loaded, stopped>>

\* ... and stores it.
SetActive(c) ==
    /\ at[c] = "set"
    /\ Store(fired.timer, TRUE, fired.periodic)
    /\ fired' = Unfired
    /\ Turns(c, "loop")
    /\ UNCHANGED <<clockVars, listVars, lock, call, loaded, stopped>>

CheckLeave(c) ==
    /\ at[c] = "loop"
    /\ ~(rt_timer_list # << >> /\ Due(current_tick[c], Head(rt_timer_list)))
    /\ lock' = NoCPU
    /\ Turns(c, "idle")
    /\ current_tick' = [current_tick EXCEPT ![c] = 0]
    /\ UNCHANGED <<tick, init_tick, listVars, flagVars, fired, call, loaded, stopped>>

CheckStep(c) ==
    \/ Fire(c) \/ FuncStop(c) \/ FuncClear(c) \/ Test(c) \/ Clear(c) \/ Restart(c)
    \/ SetActive(c) \/ CheckLeave(c)

\* rt_system_timer_init, rt_timer_init; the tick may be anything.
Init ==
    /\ tick \in 0 .. RT_TICK_MAX
    /\ rt_timer_list = << >> /\ arrival = << >> /\ tardy = {}
    /\ timeout_tick = [x \in Timer |-> 0]
    /\ init_tick \in {f \in [Timer -> 1 .. Half] : \A x \in Timer : f[x] \in InitTick[x]}
    /\ activated = {} /\ periodic = Periodic /\ stopped = {}
    /\ lock = NoCPU
    /\ current_tick = [c \in CPU |-> 0]
    /\ at = [c \in CPU |-> "idle"] /\ fired = Unfired
    /\ loaded = [u \in User |-> FALSE]
    /\ call = [u \in User |-> [at |-> "run", timer |-> CHOOSE x \in Timer : TRUE]]
    /\ left = [x \in Timer |-> 0]

\* A thread goes on with a call that it has begun.
GoOn(u) ==
    \/ StartTick(u) \/ StartInsert(u)
    \/ StopRemove(u) \/ StopClear(u)
    \/ \E period \in BOOLEAN : ModeStore(u, period)

Next ==
    \/ \E u \in User, x \in Timer :
          \/ rt_timer_start(u, x) \/ rt_timer_stop(u, x)
          \/ StartLocked(u, x) \/ StopLocked(u, x)
          \/ rt_timer_control(u, x)
    \/ \E u \in User : GoOn(u)
    \/ \E c \in CPU : TickInterrupt(c) \/ CheckEnter(c) \/ CheckStep(c)

Spec == Init /\ [][Next]_vars

-----------------------------------------------------------------------------
(* Properties.                                                             *)

\* A timer whose owner is in the middle of a call.
InHand(x) == \E u \in User : call[u].at # "run" /\ call[u].timer = x

\* A timer that a CPU is calling or about to start again.
Firing == {"func", "stop", "clear", "start", "set"}
Fired(x) == \E c \in CPU : at[c] \in Firing /\ fired.timer = x

\* Type invariant, and the bit RT_TIMER_FLAG_ACTIVATED, by which rt_timer_stop and
\* the check decide, says whether the timer is on the list, except while its owner
\* is starting or stopping it or a check is busy with it; the flag of a timer that
\* is switched between one-shot and periodic may get lost.
FlagExact ==
    /\ tick \in 0 .. RT_TICK_MAX /\ lock \in CPU \cup {NoCPU}
    /\ timeout_tick \in [Timer -> 0 .. RT_TICK_MAX]
    /\ activated \subseteq Timer /\ periodic \subseteq Timer
    /\ \A x \in Timer \ Switched : InHand(x) \/ Fired(x) \/ (Listed(x) <=> x \in activated)

\* A timer for which rt_timer_stop answered RT_EOK, to its owner or to its own
\* timeout function, is off the list and no check starts it again until it is
\* started, whatever check was busy with it when the flag was tested.  (The
\* function of a timer that is switched at the same time is not sure of it.)
StopHolds == \A x \in stopped \ (Switched \cap SelfStop) :
    /\ ~Listed(x)
    /\ ~\E c \in CPU : at[c] \in {"start", "set"} /\ fired.timer = x

\* The comparisons modulo the range of the tick are right: a timer of the list is
\* due exactly if as many ticks were counted since its start as it was given, so
\* none is called early, over the wrap of the tick and however late it was
\* inserted.
DueExact == \A x \in ToSet(rt_timer_list) : Due(tick, x) <=> left[x] <= 0

\* The place of a timer in a list.
Place(list, x) == SelectInSeq(list, LAMBDA y : y = x)

\* The list has the timers in the order in which they are due, those of the same
\* tick in the order of their insertion: the check may look at the first only.
InOrder ==
    /\ ToSet(arrival) = ToSet(rt_timer_list) /\ IsInjective(rt_timer_list)
    /\ \A i, j \in DOMAIN rt_timer_list : i < j =>
          LET x == rt_timer_list[i]
              y == rt_timer_list[j]
          IN  \/ left[x] < left[y]
              \/ /\ left[x] = left[y]
                 /\ Place(arrival, x) < Place(arrival, y)

\* A timer is called within the tick in which it is due: when the check of CPU 0
\* ends it leaves no such timer behind.  One that ticks overtook within
\* rt_timer_start waits for the next check.
OnTime == \A x \in ToSet(rt_timer_list) :
    left[x] >= IF x \in tardy THEN -MaxLate - 1 ELSE IF at[0] = "idle" THEN 1 ELSE 0

=============================================================================
