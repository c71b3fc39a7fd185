------------------------------ MODULE Scheduler ------------------------------
(***************************************************************************)
(* The SMP thread scheduler of RT-Thread: src/scheduler.c, src/thread.c,   *)
(* the reaping half of src/idle.c, the tick of src/clock.c and the IRQ     *)
(* exit path of the Cortex-A9 port (start_gcc.S, context_gcc.S).           *)
(*                                                                         *)
(* Granularity.  Everything the code does between rt_hw_interrupt_disable  *)
(* and the matching enable holds the big kernel lock (cpu.c; module        *)
(* CpusLock shows that it excludes the other CPUs and the local            *)
(* interrupts), so one critical section is one atomic step.  Where a       *)
(* function unlocks and locks again, a thread stops between the sections,  *)
(* with its program counter in pc, and the other CPUs and the interrupts   *)
(* of its own CPU run in the gap.                                          *)
(*                                                                         *)
(* RT_CPUS_NR is also the value of "no CPU": oncpu = RT_CPU_DETACHED, and  *)
(* bind_cpu = RT_CPUS_NR for a thread that may run anywhere.  The ready    *)
(* tables are indexed accordingly: table c of CPU c, table RT_CPUS_NR is   *)
(* the global one.                                                         *)
(***************************************************************************)
EXTENDS Naturals, Sequences, FiniteSets, FiniteSetsExt

CONSTANTS
    RT_CPUS_NR,              \* number of CPUs
    RT_THREAD_PRIORITY_MAX,  \* number of priorities; 0 is the highest
    Thread,                  \* application threads
    idle,                    \* idle[c]: the idle thread of CPU c
    NoThread,                \* no thread: a CPU that has not started
    InitPriority,            \* the init_priority of each application thread
    InitTick,                \* length of a time slice
    MaxNest,                 \* bound on the nesting of rt_enter_critical
    \* What the application does with its threads:
    Main,                    \* the thread that rt_application_init starts
    MayBind,                 \* CPUs that threads are bound to before startup
    MaySleep,                \* threads that block with a timeout
    MayExit,                 \* threads whose entry function returns
    ExitAnyCpu,              \* whether they may do so on a CPU other than 0
    MayDelete,               \* threads that others pass to rt_thread_delete
    MayChange,               \* threads whose priority is changed
    UnlockedResume,          \* threads resumed without holding the lock
    IsStatic,                \* threads made by rt_thread_init, not _create
    HasCleanup               \* threads with a cleanup function

CPU == 0 .. RT_CPUS_NR - 1
Where == 0 .. RT_CPUS_NR
Prio == 0 .. RT_THREAD_PRIORITY_MAX - 1
RT_CPU_DETACHED == RT_CPUS_NR
Idle == {idle[c] : c \in CPU}
AllThread == Thread \cup Idle
Stat == {"INIT", "READY", "SUSPEND", "CLOSE"}

ASSUME CpusAssumption == RT_CPUS_NR \in Nat \ {0}
ASSUME PrioAssumption == RT_THREAD_PRIORITY_MAX \in Nat \ {0}
ASSUME IdleAssumption ==
    /\ idle \in [CPU -> Idle]
    /\ \A c, d \in CPU : idle[c] = idle[d] => c = d
    /\ Thread \cap Idle = {}
    /\ NoThread \notin AllThread
ASSUME InitPriorityAssumption == InitPriority \in [Thread -> Prio]
ASSUME BoundAssumption == InitTick \in Nat \ {0} /\ MaxNest \in Nat
ASSUME RoleAssumption ==
    /\ Main \in Thread
    /\ MayBind \subseteq CPU
    /\ ExitAnyCpu \in BOOLEAN
    /\ \A S \in {MaySleep, MayExit, MayDelete, MayChange, UnlockedResume,
                 IsStatic, HasCleanup} : S \subseteq Thread

VARIABLES
    \* the ready tables
    table,            \* priority_table: [Where -> [Prio -> Seq(AllThread)]]
    group,            \* priority_group: the bitmaps, as sets of priorities
    \* the thread control blocks
    stat, oncpu, bind_cpu, current_priority, remaining_tick,
    nest,             \* scheduler_lock_nest, without the cpus lock's share
    pending,          \* threads linked on the suspend list of an IPC object
    timer,            \* threads whose thread_timer is in the timer list
    pc, arg,          \* where a thread is, and the thread it works on
    \* the CPUs
    current_thread, irq_nest, irq_switch_flag, ipi,
    \* dead threads
    defunct,          \* rt_thread_defunct
    freed             \* threads whose stack and object were released

tables == <<table, group>>
tcbs   == <<bind_cpu, current_priority, remaining_tick>>
waits  == <<pending, timer>>
ctl    == <<pc, arg>>
dead   == <<defunct, freed>>
vars   == <<tables, stat, oncpu, tcbs, nest, waits, ctl, current_thread,
            irq_nest, irq_switch_flag, ipi, dead>>

-----------------------------------------------------------------------------
(* Lists and ready tables.                                                 *)

\* rt_list_remove: the node leaves the list it is on, if it is on one.
Without(s, t) ==
    IF \E i \in 1 .. Len(s) : s[i] = t
    THEN LET k == CHOOSE i \in 1 .. Len(s) : s[i] = t
         IN  [i \in 1 .. Len(s) - 1 |-> s[IF i < k THEN i ELSE i + 1]]
    ELSE s

rt_list_remove(tab, t) ==
    [q \in Where |-> [p \in Prio |-> Without(tab[q][p], t)]]

\* The two halves of linking t, with priority p, into its ready table.
Linked(tab, t, p) == [tab EXCEPT ![bind_cpu[t]][p] = Append(@, t)]
Marked(grp, t, p) == [grp EXCEPT ![bind_cpu[t]] = @ \cup {p}]

\* rt_schedule_remove_thread on the bitmap, after the list was changed to tab.
Unmarked(grp, tab, t, p) ==
    IF tab[bind_cpu[t]][p] = << >>
    THEN [grp EXCEPT ![bind_cpu[t]] = @ \ {p}]
    ELSE grp

NotifyGlobalOnly(c, t) == IF bind_cpu[t] = RT_CPUS_NR THEN CPU \ {c} ELSE {}

\* The CPUs that rt_schedule_insert_thread, on CPU c, sends an IPI to.
Notified(c, t) ==
    IF bind_cpu[t] = RT_CPUS_NR THEN CPU \ {c} ELSE {bind_cpu[t]} \ {c}

Interrupted(c, t) == [d \in CPU |-> ipi[d] \/ d \in Notified(c, t)]

\* __rt_ffs(group) - 1, which is the largest unsigned number when group is 0.
Highest(S) == IF S = {} THEN RT_THREAD_PRIORITY_MAX ELSE Min(S)

\* The queue that _get_highest_priority_thread looks at on CPU c.
HighestTable(c) ==
    IF Highest(group[RT_CPUS_NR]) < Highest(group[c]) THEN RT_CPUS_NR ELSE c

HighestPrio(c) == Highest(group[HighestTable(c)])

_get_highest_priority_thread(c) == Head(table[HighestTable(c)][HighestPrio(c)])

InsertWithoutOncpuTest(c, t) ==
    /\ stat' = [stat EXCEPT ![t] = "READY"]
    /\ table' = Linked(table, t, current_priority[t])
    /\ group' = Marked(group, t, current_priority[t])
    /\ ipi' = Interrupted(c, t)

\* rt_schedule_insert_thread called on CPU c: a thread that is still on a CPU
\* (it has not reached rt_schedule yet) only becomes READY.
rt_schedule_insert_thread(c, t) ==
    /\ stat' = [stat EXCEPT ![t] = "READY"]
    /\ IF oncpu[t] = RT_CPU_DETACHED
       THEN /\ table' = Linked(table, t, current_priority[t])
            /\ group' = Marked(group, t, current_priority[t])
            /\ ipi' = Interrupted(c, t)
       ELSE UNCHANGED <<table, group, ipi>>

rt_schedule_remove_thread(t) ==
    /\ table' = rt_list_remove(table, t)
    /\ group' = Unmarked(group, table', t, current_priority[t])

-----------------------------------------------------------------------------
(* Context switch.                                                         *)

SomeReady(c) == group[RT_CPUS_NR] # {} \/ group[c] # {}

RescheduleKeepsOncpu(c) ==
    LET cur == current_thread[c]
        to  == _get_highest_priority_thread(c)
    IN  IF SomeReady(c) /\ ~(stat[cur] = "READY" /\ current_priority[cur] < HighestPrio(c))
        THEN /\ rt_schedule_remove_thread(to)
             /\ oncpu' = [oncpu EXCEPT ![cur] = RT_CPU_DETACHED]
             /\ current_thread' = [current_thread EXCEPT ![c] = to]
             /\ UNCHANGED ipi
        ELSE UNCHANGED <<table, group, oncpu, current_thread, ipi>>

\* current_thread stays when it is READY and strictly more urgent than the
\* best queued thread; otherwise the best queued thread takes the CPU and
\* current_thread, if READY, goes to the tail of its queue.
Reschedule(c) ==
    LET cur == current_thread[c]
        to  == _get_highest_priority_thread(c)
        p   == current_priority[cur]
        back == stat[cur] = "READY"
        tab == IF back THEN Linked(table, cur, p) ELSE table
        grp == IF back THEN Marked(group, cur, p) ELSE group
    IN  IF SomeReady(c) /\ ~(back /\ p < HighestPrio(c))
        THEN /\ table' = rt_list_remove(tab, to)
             /\ group' = Unmarked(grp, table', to, current_priority[to])
             /\ oncpu' = [oncpu EXCEPT ![cur] = RT_CPU_DETACHED, ![to] = c]
             /\ current_thread' = [current_thread EXCEPT ![c] = to]
             /\ ipi' = IF back THEN Interrupted(c, cur) ELSE ipi
        ELSE UNCHANGED <<table, group, oncpu, current_thread, ipi>>

\* CPU c executes the code of its thread t, not that of an interrupt.
Runs(c, t) ==
    /\ current_thread[c] = t
    /\ t # NoThread
    /\ irq_nest[c] = 0

\* The thread continues at program point l, working on thread u.
Goto(t, l, u) == pc' = [pc EXCEPT ![t] = l] /\ arg' = [arg EXCEPT ![t] = u]

\* rt_schedule called by a thread.  In rt_enter_critical it does nothing.
rt_schedule(c) == \E t \in AllThread :
    /\ Runs(c, t) /\ pc[t] = "schedule"
    /\ Goto(t, "run", NoThread)
    /\ IF nest[t] = 0
       THEN Reschedule(c)
       ELSE UNCHANGED <<table, group, oncpu, current_thread, ipi>>
    /\ UNCHANGED <<stat, tcbs, nest, waits, irq_nest, irq_switch_flag, dead>>

\* rt_system_scheduler_start; CPU 0 starts first and brings up the others.
rt_system_scheduler_start(c) ==
    /\ current_thread[c] = NoThread
    /\ c # 0 => current_thread[0] # NoThread
    /\ LET to == _get_highest_priority_thread(c)
       IN  /\ oncpu' = [oncpu EXCEPT ![to] = c]
           /\ rt_schedule_remove_thread(to)
           /\ current_thread' = [current_thread EXCEPT ![c] = to]
    /\ UNCHANGED <<stat, tcbs, nest, waits, ctl, irq_nest, irq_switch_flag, ipi,
                   dead>>

-----------------------------------------------------------------------------
(* Interrupts.  The port does not nest them: irq_nest is 0 or 1, and the   *)
(* interrupted thread continues after rt_scheduler_do_irq_switch.          *)

EnterIrq(c) ==
    /\ current_thread[c] # NoThread
    /\ irq_nest[c] = 0
    /\ irq_nest' = [irq_nest EXCEPT ![c] = 1]

\* rt_scheduler_ipi_handler: rt_schedule in an interrupt only sets the flag.
rt_scheduler_ipi_handler(c) ==
    /\ EnterIrq(c)
    /\ ipi[c]
    /\ ipi' = [ipi EXCEPT ![c] = FALSE]
    /\ irq_switch_flag' = [irq_switch_flag EXCEPT ![c] = TRUE]
    /\ UNCHANGED <<tables, stat, oncpu, tcbs, nest, waits, ctl, current_thread,
                   dead>>

\* rt_tick_increase: the interrupted thread loses a tick of its slice and
\* yields at the last one; then rt_timer_check runs the expired timers.
UseTickNoReload(c) == remaining_tick' =
    [remaining_tick EXCEPT ![current_thread[c]] = @ - 1]

UseTick(c) == remaining_tick' =
    [remaining_tick EXCEPT ![current_thread[c]] = IF @ = 1 THEN InitTick ELSE @ - 1]

TickWithoutYield(c) ==
    /\ EnterIrq(c)
    /\ UseTick(c)
    /\ UNCHANGED <<tables, stat, oncpu, bind_cpu, current_priority, nest, waits, ctl,
                   current_thread, irq_switch_flag, ipi, dead>>

rt_tick_increase(c) ==
    /\ EnterIrq(c)
    /\ UseTick(c)
    /\ irq_switch_flag' = [irq_switch_flag EXCEPT ![c] =
                             @ \/ remaining_tick[current_thread[c]] = 1]
    /\ UNCHANGED <<tables, stat, oncpu, bind_cpu, current_priority, nest, waits,
                   ctl, current_thread, ipi, dead>>

\* The same when the thread timer of t has expired: rt_thread_timeout.  Timers
\* due at one tick are taken as due at successive ticks.
rt_thread_timeout(c, t) ==
    /\ EnterIrq(c)
    /\ UseTick(c)
    /\ t \in timer
    /\ timer' = timer \ {t}
    /\ pending' = pending \ {t}
    /\ rt_schedule_insert_thread(c, t)
    /\ irq_switch_flag' = [irq_switch_flag EXCEPT ![c] = TRUE]
    /\ UNCHANGED <<oncpu, bind_cpu, current_priority, nest, ctl, current_thread,
                   dead>>

\* A device interrupt, which CPU 0 handles, releases an IPC object that t
\* waits for.
ResumeFromIsr(c, t) ==
    /\ EnterIrq(c) /\ c = 0
    /\ t \in pending
    /\ timer' = timer \ {t}
    /\ pending' = pending \ {t}
    /\ rt_schedule_insert_thread(c, t)
    /\ irq_switch_flag' = [irq_switch_flag EXCEPT ![c] = TRUE]
    /\ UNCHANGED <<oncpu, tcbs, nest, ctl, current_thread, dead>>

IrqSwitchInCritical(c) ==
    /\ irq_nest[c] = 1
    /\ irq_nest' = [irq_nest EXCEPT ![c] = 0]
    /\ irq_switch_flag' = [irq_switch_flag EXCEPT ![c] = FALSE]
    /\ Reschedule(c)
    /\ UNCHANGED <<stat, tcbs, nest, waits, ctl, dead>>

\* rt_interrupt_leave and rt_scheduler_do_irq_switch.  The flag stays set when
\* the interrupted thread is between rt_enter_critical and rt_exit_critical.
rt_scheduler_do_irq_switch(c) ==
    /\ irq_nest[c] = 1
    /\ irq_nest' = [irq_nest EXCEPT ![c] = 0]
    /\ IF irq_switch_flag[c] /\ nest[current_thread[c]] = 0
       THEN /\ irq_switch_flag' = [irq_switch_flag EXCEPT ![c] = FALSE]
            /\ Reschedule(c)
       ELSE UNCHANGED <<irq_switch_flag, table, group, oncpu, current_thread, ipi>>
    /\ UNCHANGED <<stat, tcbs, nest, waits, ctl, dead>>

-----------------------------------------------------------------------------
(* What a thread calls.                                                    *)

\* Thread t is in its own code on CPU c, free to call any service.
Calls(c, t) == Runs(c, t) /\ pc[t] = "run"

\* rt_thread_yield
rt_thread_yield(c) == \E t \in AllThread :
    /\ Calls(c, t)
    /\ Goto(t, "schedule", NoThread)
    /\ UNCHANGED <<tables, stat, oncpu, tcbs, nest, waits, current_thread, irq_nest,
                   irq_switch_flag, ipi, dead>>

\* RT_THREAD_CTRL_BIND_CPU, before startup
BindCpu(c, u, b) == \E t \in Thread :
    /\ Calls(c, t)
    /\ stat[u] = "INIT"
    /\ bind_cpu' = [bind_cpu EXCEPT ![u] = b]
    /\ UNCHANGED <<tables, stat, oncpu, current_priority, remaining_tick, nest,
                   waits, ctl, current_thread, irq_nest, irq_switch_flag, ipi, dead>>

\* rt_thread_startup: no other thread knows u yet.
rt_thread_startup(c, u) == \E t \in Thread :
    /\ Calls(c, t)
    /\ stat[u] = "INIT"
    /\ \A s \in AllThread : arg[s] # u
    /\ rt_schedule_insert_thread(c, u)
    /\ Goto(t, "schedule", NoThread)
    /\ UNCHANGED <<oncpu, tcbs, nest, waits, current_thread, irq_nest,
                   irq_switch_flag, dead>>

\* rt_thread_suspend of itself, under the lock: on the suspend list of an IPC
\* object (ipc), with its timer started (tmo), or both; rt_thread_sleep is
\* the case of a timer and no list.  A thread that others resume by name, as
\* timer_thread, is on no list.
rt_thread_suspend(c, ipc, tmo) == \E t \in Thread :
    /\ Calls(c, t) /\ nest[t] = 0 /\ stat[t] = "READY"
    /\ IF t \in UnlockedResume THEN ~ipc ELSE ipc \/ tmo
    /\ tmo => t \in MaySleep
    /\ stat' = [stat EXCEPT ![t] = "SUSPEND"]
    /\ rt_schedule_remove_thread(t)
    /\ timer' = IF tmo THEN timer \cup {t} ELSE timer \ {t}
    /\ pending' = IF ipc THEN pending \cup {t} ELSE pending
    /\ Goto(t, "schedule", NoThread)
    /\ UNCHANGED <<oncpu, tcbs, nest, current_thread, irq_nest, irq_switch_flag,
                   ipi, dead>>

\* rt_ipc_list_resume: rt_thread_resume with the lock held around it.
rt_thread_resume(c, u) == \E t \in Thread :
    /\ Calls(c, t)
    /\ u \in pending
    /\ pending' = pending \ {u}
    /\ timer' = timer \ {u}
    /\ rt_schedule_insert_thread(c, u)
    /\ Goto(t, "schedule", NoThread)
    /\ UNCHANGED <<oncpu, tcbs, nest, current_thread, irq_nest, irq_switch_flag,
                   dead>>

\* rt_thread_resume without the lock, as rt_timer_start calls it for
\* timer_thread: the test of stat, the unlinking and the insertion are three
\* steps.
ResumeTest(c, u) == \E t \in Thread :
    /\ Calls(c, t)
    /\ u \in UnlockedResume /\ u # t
    /\ stat[u] = "SUSPEND"
    /\ Goto(t, "resume_unlink", u)
    /\ UNCHANGED <<tables, stat, oncpu, tcbs, nest, waits, current_thread, irq_nest,
                   irq_switch_flag, ipi, dead>>

ResumeUnlink(c) == \E t \in Thread :
    /\ Runs(c, t) /\ pc[t] = "resume_unlink"
    /\ table' = rt_list_remove(table, arg[t])
    /\ pending' = pending \ {arg[t]}
    /\ timer' = timer \ {arg[t]}
    /\ Goto(t, "resume_insert", arg[t])
    /\ UNCHANGED <<group, stat, oncpu, tcbs, nest, current_thread, irq_nest,
                   irq_switch_flag, ipi, dead>>

ResumeInsert(c) == \E t \in Thread :
    /\ Runs(c, t) /\ pc[t] = "resume_insert"
    /\ rt_schedule_insert_thread(c, arg[t])
    /\ Goto(t, "schedule", NoThread)
    /\ UNCHANGED <<oncpu, tcbs, nest, waits, current_thread, irq_nest,
                   irq_switch_flag, dead>>

\* RT_THREAD_CTRL_CHANGE_PRIORITY: a READY thread changes queues.
ChangePriority(c, u, p) == \E t \in Thread :
    /\ Calls(c, t)
    /\ u \in MayChange /\ stat[u] \in {"READY", "SUSPEND"}
    /\ p # current_priority[u]
    /\ current_priority' = [current_priority EXCEPT ![u] = p]
    /\ LET tab == rt_list_remove(table, u)
           grp == Unmarked(group, tab, u, current_priority[u])
       IN  IF stat[u] = "READY"
           THEN IF oncpu[u] = RT_CPU_DETACHED
                THEN /\ table' = Linked(tab, u, p)
                     /\ group' = Marked(grp, u, p)
                     /\ ipi' = Interrupted(c, u)
                ELSE /\ table' = tab
                     /\ group' = grp
                     /\ UNCHANGED ipi
           ELSE UNCHANGED <<table, group, ipi>>
    /\ UNCHANGED <<stat, oncpu, bind_cpu, remaining_tick, nest, waits, ctl,
                   current_thread, irq_nest, irq_switch_flag, dead>>

\* rt_enter_critical: the first level takes _rt_critical_lock, which one
\* thread of all CPUs holds at a time.
rt_enter_critical(c) == \E t \in Thread :
    /\ Calls(c, t) /\ nest[t] < MaxNest
    /\ \A u \in AllThread \ {t} : nest[u] = 0
    /\ nest' = [nest EXCEPT ![t] = @ + 1]
    /\ UNCHANGED <<tables, stat, oncpu, tcbs, waits, ctl, current_thread, irq_nest,
                   irq_switch_flag, ipi, dead>>

\* rt_exit_critical: leaving the last level calls rt_schedule.
rt_exit_critical(c) == \E t \in Thread :
    /\ Calls(c, t) /\ nest[t] > 0
    /\ nest' = [nest EXCEPT ![t] = @ - 1]
    /\ IF nest[t] = 1 THEN Goto(t, "schedule", NoThread) ELSE UNCHANGED ctl
    /\ UNCHANGED <<tables, stat, oncpu, tcbs, waits, current_thread, irq_nest,
                   irq_switch_flag, ipi, dead>>

-----------------------------------------------------------------------------
(* The end of a thread.                                                    *)

\* rt_thread_exit: a static thread without cleanup needs no reaping.
rt_thread_exit(c) == \E t \in MayExit :
    /\ Calls(c, t) /\ nest[t] = 0
    /\ ExitAnyCpu \/ bind_cpu[t] = 0
    /\ stat' = [stat EXCEPT ![t] = "CLOSE"]
    /\ rt_schedule_remove_thread(t)
    /\ timer' = timer \ {t}
    /\ defunct' = IF t \in IsStatic \ HasCleanup THEN defunct
                                                 ELSE <<t>> \o defunct
    /\ Goto(t, "schedule", NoThread)
    /\ UNCHANGED <<oncpu, tcbs, nest, pending, current_thread, irq_nest,
                   irq_switch_flag, ipi, freed>>

DeleteDefunctFirst(c, u) == \E t \in Thread :
    /\ Calls(c, t)
    /\ u \in MayDelete /\ u # t
    /\ stat[u] \in {"INIT", "SUSPEND"} /\ oncpu[u] = RT_CPU_DETACHED
    /\ \A s \in AllThread : arg[s] # u
    /\ IF stat[u] # "INIT"
       THEN rt_schedule_remove_thread(u) /\ pending' = pending \ {u}
       ELSE UNCHANGED <<table, group, pending>>
    /\ defunct' = <<u>> \o defunct
    /\ Goto(t, "delete_timer", u)
    /\ UNCHANGED <<stat, oncpu, tcbs, nest, timer, current_thread, irq_nest,
                   irq_switch_flag, ipi, freed>>

\* rt_thread_delete of a thread that no CPU runs (the first SMP version does
\* not support deleting the current thread of a CPU), called once: it leaves
\* its list, then its timer is detached, then it becomes CLOSE and defunct.  (The
\* store of CLOSE is just before the section; the thread is then on no list and has
\* no timer, so nobody else reads its stat in between, and the two are one step.)
DeleteRemove(c, u) == \E t \in Thread :
    /\ Calls(c, t)
    /\ u \in MayDelete /\ u # t
    /\ stat[u] \in {"INIT", "SUSPEND"} /\ oncpu[u] = RT_CPU_DETACHED
    /\ \A s \in AllThread : arg[s] # u
    /\ IF stat[u] # "INIT"
       THEN rt_schedule_remove_thread(u) /\ pending' = pending \ {u}
       ELSE UNCHANGED <<table, group, pending>>
    /\ Goto(t, "delete_timer", u)
    /\ UNCHANGED <<stat, oncpu, tcbs, nest, timer, current_thread, irq_nest,
                   irq_switch_flag, ipi, dead>>

DeleteTimer(c) == \E t \in Thread :
    /\ Runs(c, t) /\ pc[t] = "delete_timer"
    /\ timer' = timer \ {arg[t]}
    /\ Goto(t, "delete_close", arg[t])
    /\ UNCHANGED <<tables, stat, oncpu, tcbs, nest, pending, current_thread,
                   irq_nest, irq_switch_flag, ipi, dead>>

DeleteClose(c) == \E t \in Thread :
    /\ Runs(c, t) /\ pc[t] = "delete_close"
    /\ stat' = [stat EXCEPT ![arg[t]] = "CLOSE"]
    /\ defunct' = <<arg[t]>> \o defunct
    /\ Goto(t, "run", NoThread)
    /\ UNCHANGED <<tables, oncpu, tcbs, nest, waits, current_thread, irq_nest,
                   irq_switch_flag, ipi, freed>>

\* One round of rt_thread_idle_excute, which only CPU 0's idle thread runs.
ReapTake ==
    /\ Calls(0, idle[0])
    /\ defunct # << >>
    /\ \A t \in AllThread : nest[t] = 0
    /\ defunct' = Tail(defunct)
    /\ IF Head(defunct) \in IsStatic
       THEN UNCHANGED ctl
       ELSE Goto(idle[0], "free", Head(defunct))
    /\ UNCHANGED <<tables, stat, oncpu, tcbs, nest, waits, current_thread, irq_nest,
                   irq_switch_flag, ipi, freed>>

\* The stack and the object are freed outside the lock.
ReapFree ==
    /\ Runs(0, idle[0]) /\ pc[idle[0]] = "free"
    /\ freed' = freed \cup {arg[idle[0]]}
    /\ Goto(idle[0], "run", NoThread)
    /\ UNCHANGED <<tables, stat, oncpu, tcbs, nest, waits, current_thread, irq_nest,
                   irq_switch_flag, ipi, defunct>>

-----------------------------------------------------------------------------
\* rt_system_scheduler_init, rt_thread_idle_init and rt_application_init ran
\* on CPU 0: the idle threads and the main thread are queued, and the other
\* CPUs were sent an IPI for it.
Init ==
    /\ table = [q \in Where |-> [p \in Prio |->
                  CASE q = RT_CPUS_NR /\ p = InitPriority[Main] -> <<Main>>
                    [] q # RT_CPUS_NR /\ p = RT_THREAD_PRIORITY_MAX - 1 -> <<idle[q]>>
                    [] OTHER -> << >>]]
    /\ group = [q \in Where |-> {p \in Prio : table[q][p] # << >>}]
    /\ stat = [t \in AllThread |-> IF t \in {Main} \cup Idle THEN "READY" ELSE "INIT"]
    /\ oncpu = [t \in AllThread |-> RT_CPU_DETACHED]
    /\ bind_cpu = [t \in AllThread |->
                     IF t \in Idle THEN CHOOSE c \in CPU : idle[c] = t
                                   ELSE RT_CPUS_NR]
    /\ current_priority = [t \in AllThread |->
                             IF t \in Idle THEN RT_THREAD_PRIORITY_MAX - 1
                                           ELSE InitPriority[t]]
    /\ remaining_tick = [t \in AllThread |-> InitTick]
    /\ nest = [t \in AllThread |-> 0]
    /\ pending = {} /\ timer = {}
    /\ pc = [t \in AllThread |-> "run"] /\ arg = [t \in AllThread |-> NoThread]
    /\ current_thread = [c \in CPU |-> NoThread]
    /\ irq_nest = [c \in CPU |-> 0]
    /\ irq_switch_flag = [c \in CPU |-> FALSE]
    /\ ipi = [c \in CPU |-> c # 0]
    /\ defunct = << >> /\ freed = {}

\* One CPU inside its interrupt handling.
IrqStep(c) ==
    \/ rt_scheduler_ipi_handler(c)
    \/ rt_tick_increase(c)
    \/ \E t \in Thread : rt_thread_timeout(c, t) \/ ResumeFromIsr(c, t)
    \/ rt_scheduler_do_irq_switch(c)

\* The thread of a CPU calling, or going on with, a service.
ThreadStep(c) ==
    \/ rt_schedule(c)
    \/ rt_thread_yield(c)
    \/ \E u \in Thread, b \in MayBind : BindCpu(c, u, b)
    \/ \E u \in Thread : rt_thread_startup(c, u)
    \/ \E ipc, tmo \in BOOLEAN : rt_thread_suspend(c, ipc, tmo)
    \/ \E u \in Thread : rt_thread_resume(c, u) \/ ResumeTest(c, u)
    \/ ResumeUnlink(c) \/ ResumeInsert(c)
    \/ \E u \in Thread, p \in Prio : ChangePriority(c, u, p)
    \/ rt_enter_critical(c) \/ rt_exit_critical(c)
    \/ rt_thread_exit(c)
    \/ \E u \in Thread : DeleteRemove(c, u)
    \/ DeleteTimer(c) \/ DeleteClose(c)

Next ==
    \/ \E c \in CPU : rt_system_scheduler_start(c) \/ IrqStep(c) \/ ThreadStep(c)
    \/ ReapTake
    \/ ReapFree

Spec == Init /\ [][Next]_vars

\* A pending IPI is taken and an interrupt returns; ticks keep coming; a thread
\* that is given the CPU again and again gets on with its call of rt_schedule
\* and leaves its critical section.  An interrupt may come before any of them,
\* so those that need interrupts enabled are strongly fair.
Fairness == \A c \in CPU :
    /\ WF_vars(rt_system_scheduler_start(c))
    /\ WF_vars(rt_scheduler_do_irq_switch(c))
    /\ SF_vars(rt_scheduler_ipi_handler(c))
    /\ SF_vars(rt_tick_increase(c))
    /\ SF_vars(rt_schedule(c))
    /\ SF_vars(rt_exit_critical(c))

FairSpec == Spec /\ Fairness

-----------------------------------------------------------------------------
(* Properties.                                                             *)

\* Type invariant.
TypeOK ==
    /\ table \in [Where -> [Prio -> Seq(AllThread)]]
    /\ group \in [Where -> SUBSET Prio]
    /\ stat \in [AllThread -> Stat]
    /\ oncpu \in [AllThread -> Where]
    /\ bind_cpu \in [AllThread -> Where]
    /\ current_priority \in [AllThread -> Prio]
    /\ remaining_tick \in [AllThread -> 1 .. InitTick]
    /\ nest \in [AllThread -> 0 .. MaxNest]
    /\ pending \subseteq Thread /\ timer \subseteq Thread
    /\ pc \in [AllThread -> {"run", "schedule", "resume_unlink", "resume_insert",
                             "delete_timer", "delete_close", "free"}]
    /\ arg \in [AllThread -> Thread \cup {NoThread}]
    /\ current_thread \in [CPU -> AllThread \cup {NoThread}]
    /\ irq_nest \in [CPU -> {0, 1}]
    /\ irq_switch_flag \in [CPU -> BOOLEAN]
    /\ ipi \in [CPU -> BOOLEAN]
    /\ defunct \in Seq(Thread)
    /\ freed \subseteq Thread

OnList(s, t) == \E i \in DOMAIN s : s[i] = t
Distinct(s) == \A i, j \in DOMAIN s : s[i] = s[j] => i = j

\* tab and grp hold the threads of R, each once, in the list that its affinity
\* b and its priority pr select, and grp marks the lists that are not empty.
Holds(tab, grp, R, b, pr) ==
    /\ \A q \in Where, p \in Prio :
          /\ \A t \in AllThread :
                OnList(tab[q][p], t) <=> t \in R /\ b[t] = q /\ pr[t] = p
          /\ Distinct(tab[q][p])
    /\ \A q \in Where : grp[q] = {p \in Prio : tab[q][p] # << >>}

Queued == {t \in AllThread : stat[t] = "READY" /\ oncpu[t] = RT_CPU_DETACHED}

\* A thread is in the ready table of its affinity, in the list of its
\* priority, exactly when it is READY and no CPU runs it, and only once; and a
\* bit of a priority group is set exactly when its list is not empty.
Placed == Holds(table, group, Queued, bind_cpu, current_priority)

\* _get_highest_priority_thread returns a thread of the ready queue: it never
\* takes the head of an empty list for a thread.
HighestIsQueued ==
    \A c \in CPU : SomeReady(c) => table[HighestTable(c)][HighestPrio(c)] # << >>

\* A thread runs on one CPU at most, the one oncpu names, and on no other than
\* the one it is bound to: rt_schedule of one CPU never takes a thread that
\* another one still runs, even if it was resumed before it had switched.
OneCpu ==
    /\ \A c \in CPU : current_thread[c] # NoThread => oncpu[current_thread[c]] = c
    /\ \A t \in AllThread : oncpu[t] # RT_CPU_DETACHED =>
          /\ current_thread[oncpu[t]] = t
          /\ bind_cpu[t] \in {oncpu[t], RT_CPUS_NR}

\* CPU c has nothing left to do that would make it reschedule.
Settled(c) ==
    /\ current_thread[c] # NoThread
    /\ irq_nest[c] = 0 /\ ~irq_switch_flag[c] /\ ~ipi[c]
    /\ nest[current_thread[c]] = 0
    /\ pc[current_thread[c]] # "schedule"

\* No CPU goes on running a thread while a more urgent one that may run there
\* is queued: every insertion reaches every CPU that could take the thread, as
\* an IPI, as irq_switch_flag or as a call of rt_schedule still to come.
PriorityHonoured ==
    \A c \in CPU : Settled(c) =>
        \A q \in {c, RT_CPUS_NR} : \A p \in group[q] :
            current_priority[current_thread[c]] <= p

\* What rt_thread_idle_excute frees is no longer used: no CPU runs on its
\* stack, and no ready list, suspend list, timer or pending call holds it.
NoUseAfterFree ==
    \A t \in freed :
        /\ oncpu[t] = RT_CPU_DETACHED
        /\ stat[t] = "CLOSE"
        /\ t \notin pending \cup timer
        /\ \A s \in AllThread : arg[s] # t

\* The thread between rt_enter_critical and rt_exit_critical keeps its CPU.
CriticalKeepsCpu ==
    [][\A c \in CPU : \A t \in AllThread :
          current_thread[c] = t /\ nest[t] > 0 => current_thread'[c] = t]_vars

\* A READY thread gets a CPU (where no more urgent or bound thread can keep it
\* from one): no wake-up, yield, slice or IPI is lost between the CPUs.
ReadyRuns == \A t \in Thread :
    stat[t] = "READY" ~> (oncpu[t] # RT_CPU_DETACHED \/ stat[t] # "READY")

=============================================================================
