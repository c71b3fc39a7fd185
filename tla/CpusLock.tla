------------------------------ MODULE CpusLock -------------------------------
(***************************************************************************)
(* The big kernel lock of src/cpu.c and the critical lock of               *)
(* src/scheduler.c, at the granularity of the spinlock operations: what    *)
(* the threads, the interrupt entry and exit of the port and the context   *)
(* switch do to _cpus_lock, _rt_critical_lock, the two nesting counters of *)
(* a thread and the interrupt mask of its CPU.  rt_hw_interrupt_disable is *)
(* rt_cpus_lock in an SMP build.                                           *)
(*                                                                         *)
(* A spinlock is the queue of the CPUs that drew a ticket; its head has    *)
(* the lock once it has seen its turn (TicketLock shows that the lock of   *)
(* the port is such a queue).  Unlocking advances the queue, whoever calls *)
(* it.  What a thread does under the lock is left out: Scheduler takes one *)
(* locked section as one step.                                             *)
(***************************************************************************)
EXTENDS Naturals, Sequences

CONSTANTS
    RT_CPUS_NR,        \* number of CPUs
    Thread,            \* all threads, the idle threads among them
    NoThread, NoCpu,
    MaxNest,           \* bound on cpus_lock_nest
    MaxCritical,       \* bound on the levels of rt_enter_critical
    CriticalInLock     \* the thread that calls rt_enter_critical under the lock:
                       \* in the kernel, the idle thread of CPU 0

CPU == 0 .. RT_CPUS_NR - 1
Lock == {"_cpus_lock", "_rt_critical_lock"}

ASSUME CpusLockAssumption ==
    /\ RT_CPUS_NR \in Nat \ {0}
    /\ NoThread \notin Thread
    /\ NoCpu \notin CPU
    /\ MaxNest \in Nat \ {0} /\ MaxCritical \in Nat
    /\ CriticalInLock \subseteq Thread

VARIABLES
    spin,                 \* per lock: the CPUs that drew a ticket, in order
    pc,                   \* per CPU: "run", or the lock it spins on
    stage,                \* per CPU: boot, thread code, part of vector_irq
    current_thread,       \* per CPU
    irq_nest,             \* per CPU
    cpsr,                 \* per CPU: interrupts are enabled
    spsr,                 \* per thread: what cpsr is when it goes on
    cpus_lock_nest,       \* per thread
    scheduler_lock_nest,  \* per thread
    level                 \* per thread and call depth: the saved interrupt mask

nests == <<cpus_lock_nest, scheduler_lock_nest>>
vars == <<spin, pc, stage, current_thread, irq_nest, cpsr, spsr, nests, level>>

-----------------------------------------------------------------------------
(* The parts the operations are made of.                                   *)

Self(c) == current_thread[c]

\* rt_hw_spin_lock draws a ticket, and CPU c spins.
rt_hw_spin_lock(c, l) ==
    /\ spin' = [spin EXCEPT ![l] = Append(@, c)]
    /\ pc' = [pc EXCEPT ![c] = l]

rt_hw_spin_unlock(l) == spin' = [spin EXCEPT ![l] = Tail(@)]

\* !!thread->cpus_lock_nest
Held(n) == IF n > 0 THEN 1 ELSE 0

\* The levels of rt_enter_critical that thread t is in.
Critical(t) == scheduler_lock_nest[t] - Held(cpus_lock_nest[t])

\* rt_cpus_unlock up to rt_hw_local_irq_enable.
Unlocked(c) == LET t == Self(c) IN
    /\ cpus_lock_nest' = [cpus_lock_nest EXCEPT ![t] = @ - 1]
    /\ IF cpus_lock_nest[t] = 1
       THEN /\ scheduler_lock_nest' = [scheduler_lock_nest EXCEPT ![t] = @ - 1]
            /\ rt_hw_spin_unlock("_cpus_lock")
       ELSE UNCHANGED <<scheduler_lock_nest, spin>>

RestoreAlwaysUnlocks(c, to) ==
    /\ current_thread' = [current_thread EXCEPT ![c] = to]
    /\ rt_hw_spin_unlock("_cpus_lock")
    /\ cpsr' = [cpsr EXCEPT ![c] = spsr[to]]

\* rt_cpus_lock_status_restore at the end of every context switch, and the
\* return to the context of the new thread.
rt_cpus_lock_status_restore(c, to) ==
    /\ current_thread' = [current_thread EXCEPT ![c] = to]
    /\ IF cpus_lock_nest[to] = 0
       THEN rt_hw_spin_unlock("_cpus_lock")
       ELSE UNCHANGED spin
    /\ cpsr' = [cpsr EXCEPT ![c] = spsr[to]]

\* CPU c may go on with thread t: no CPU runs it (Scheduler shows that a switch
\* takes no other), and the idle thread of CPU 0 is bound to it.
MayTake(c, t) ==
    /\ \A d \in CPU : current_thread[d] # t
    /\ t \in CriticalInLock => c = 0

-----------------------------------------------------------------------------
(* Boot.                                                                   *)

\* rtthread_startup on CPU 0, secondary_cpu_c_start on the others, which a
\* thread of CPU 0 wakes up: no thread runs yet and no counter is kept.
BootLock(c) ==
    /\ stage[c] = "boot"
    /\ c # 0 => current_thread[0] # NoThread
    /\ rt_hw_spin_lock(c, "_cpus_lock")
    /\ stage' = [stage EXCEPT ![c] = "start"]
    /\ UNCHANGED <<current_thread, irq_nest, cpsr, spsr, nests, level>>

\* rt_system_scheduler_start: rt_hw_context_switch_to
Start(c, to) ==
    /\ stage[c] = "start" /\ pc[c] = "run"
    /\ MayTake(c, to)
    /\ rt_cpus_lock_status_restore(c, to)
    /\ stage' = [stage EXCEPT ![c] = "thread"]
    /\ UNCHANGED <<pc, irq_nest, spsr, nests, level>>

-----------------------------------------------------------------------------
(* The kernel lock.                                                        *)

\* CPU c runs code of the kernel, a thread or an interrupt on behalf of its
\* current thread.
Running(c) == Self(c) # NoThread /\ pc[c] = "run"

LockKeepsIrq(c) == LET t == Self(c) IN
    /\ Running(c)
    /\ stage[c] \in {"thread", "handler"} \/ cpus_lock_nest[t] = 0
    /\ cpus_lock_nest[t] < MaxNest
    /\ level' = [level EXCEPT ![t][cpus_lock_nest[t] + 1] = cpsr[c]]
    /\ cpus_lock_nest' = [cpus_lock_nest EXCEPT ![t] = @ + 1]
    /\ IF cpus_lock_nest[t] = 0
       THEN /\ scheduler_lock_nest' = [scheduler_lock_nest EXCEPT ![t] = @ + 1]
            /\ rt_hw_spin_lock(c, "_cpus_lock")
       ELSE UNCHANGED <<scheduler_lock_nest, spin, pc>>
    /\ UNCHANGED <<stage, current_thread, irq_nest, cpsr, spsr>>

\* rt_cpus_lock up to its spinning.  rt_interrupt_enter, rt_interrupt_leave
\* and rt_scheduler_do_irq_switch call it once.
rt_cpus_lock(c) == LET t == Self(c) IN
    /\ Running(c)
    /\ stage[c] \in {"thread", "handler"} \/ cpus_lock_nest[t] = 0
    /\ cpus_lock_nest[t] < MaxNest
    /\ level' = [level EXCEPT ![t][cpus_lock_nest[t] + 1] = cpsr[c]]
    /\ cpsr' = [cpsr EXCEPT ![c] = FALSE]
    /\ cpus_lock_nest' = [cpus_lock_nest EXCEPT ![t] = @ + 1]
    /\ IF cpus_lock_nest[t] = 0
       THEN /\ scheduler_lock_nest' = [scheduler_lock_nest EXCEPT ![t] = @ + 1]
            /\ rt_hw_spin_lock(c, "_cpus_lock")
       ELSE UNCHANGED <<scheduler_lock_nest, spin, pc>>
    /\ UNCHANGED <<stage, current_thread, irq_nest, spsr>>

\* The turn of CPU c has come: rt_hw_spin_lock of rt_cpus_lock, or of the boot,
\* returns.
CpusLocked(c) ==
    /\ pc[c] = "_cpus_lock"
    /\ Head(spin["_cpus_lock"]) = c
    /\ pc' = [pc EXCEPT ![c] = "run"]
    /\ UNCHANGED <<spin, stage, current_thread, irq_nest, cpsr, spsr, nests, level>>

\* rt_cpus_unlock
rt_cpus_unlock(c) == LET t == Self(c) IN
    /\ Running(c)
    /\ stage[c] \in {"thread", "handler"}
    /\ cpus_lock_nest[t] > 0
    /\ Unlocked(c)
    /\ cpsr' = [cpsr EXCEPT ![c] = level[t][cpus_lock_nest[t]]]
    /\ UNCHANGED <<pc, stage, current_thread, irq_nest, spsr, level>>

SwitchInCritical(c, to) ==
    /\ Running(c) /\ stage[c] = "thread"
    /\ cpus_lock_nest[Self(c)] > 0
    /\ irq_nest[c] = 0
    /\ MayTake(c, to)
    /\ spsr' = [spsr EXCEPT ![Self(c)] = cpsr[c]]
    /\ rt_cpus_lock_status_restore(c, to)
    /\ UNCHANGED <<pc, stage, irq_nest, nests, level>>

SwitchEndsSection(c, to) ==
    /\ Running(c) /\ stage[c] = "thread"
    /\ cpus_lock_nest[Self(c)] > 0
    /\ irq_nest[c] = 0
    /\ scheduler_lock_nest[Self(c)] = 1
    /\ MayTake(c, to)
    /\ spsr' = [spsr EXCEPT ![Self(c)] = cpsr[c]]
    /\ current_thread' = [current_thread EXCEPT ![c] = to]
    /\ cpus_lock_nest' = [cpus_lock_nest EXCEPT ![to] = 0]
    /\ scheduler_lock_nest' = [scheduler_lock_nest EXCEPT ![to] = 0]
    /\ rt_hw_spin_unlock("_cpus_lock")
    /\ cpsr' = [cpsr EXCEPT ![c] = spsr[to]]
    /\ UNCHANGED <<pc, stage, irq_nest, level>>

\* rt_hw_context_switch in rt_schedule, which locks, switches and unlocks: the
\* thread keeps its counters and its mask while it waits for a CPU.
rt_hw_context_switch(c, to) ==
    /\ Running(c) /\ stage[c] = "thread"
    /\ cpus_lock_nest[Self(c)] > 0
    /\ irq_nest[c] = 0
    /\ scheduler_lock_nest[Self(c)] = 1
    /\ MayTake(c, to)
    /\ spsr' = [spsr EXCEPT ![Self(c)] = cpsr[c]]
    /\ rt_cpus_lock_status_restore(c, to)
    /\ UNCHANGED <<pc, stage, irq_nest, nests, level>>

-----------------------------------------------------------------------------
(* Critical sections.                                                      *)

\* rt_enter_critical with the local interrupts masked: the first level spins,
\* a further one only counts.
rt_enter_critical(c) == LET t == Self(c) IN
    /\ Running(c) /\ stage[c] = "thread"
    /\ Critical(t) < MaxCritical
    /\ cpus_lock_nest[t] > 0 => t \in CriticalInLock \/ Critical(t) > 0
    /\ IF scheduler_lock_nest[t] = Held(cpus_lock_nest[t])
       THEN /\ rt_hw_spin_lock(c, "_rt_critical_lock")
            /\ level' = [level EXCEPT ![t][cpus_lock_nest[t] + 1] = cpsr[c]]
            /\ cpsr' = [cpsr EXCEPT ![c] = FALSE]
            /\ UNCHANGED scheduler_lock_nest
       ELSE /\ scheduler_lock_nest' = [scheduler_lock_nest EXCEPT ![t] = @ + 1]
            /\ UNCHANGED <<spin, pc, level, cpsr>>
    /\ UNCHANGED <<stage, current_thread, irq_nest, spsr, cpus_lock_nest>>

\* The rest of rt_enter_critical.
CriticalLocked(c) == LET t == Self(c) IN
    /\ pc[c] = "_rt_critical_lock"
    /\ Head(spin["_rt_critical_lock"]) = c
    /\ pc' = [pc EXCEPT ![c] = "run"]
    /\ scheduler_lock_nest' = [scheduler_lock_nest EXCEPT ![t] = @ + 1]
    /\ cpsr' = [cpsr EXCEPT ![c] = level[t][cpus_lock_nest[t] + 1]]
    /\ UNCHANGED <<spin, stage, current_thread, irq_nest, spsr, cpus_lock_nest, level>>

ExitComparesWithZero(c) == LET t == Self(c) IN
    /\ Running(c) /\ stage[c] = "thread"
    /\ Critical(t) > 0
    /\ scheduler_lock_nest' = [scheduler_lock_nest EXCEPT ![t] = @ - 1]
    /\ IF scheduler_lock_nest'[t] = 0
       THEN rt_hw_spin_unlock("_rt_critical_lock")
       ELSE UNCHANGED spin
    /\ UNCHANGED <<pc, stage, current_thread, irq_nest, cpsr, spsr, cpus_lock_nest, level>>

\* rt_exit_critical; the rt_schedule it may end with is a lock, a switch and an
\* unlock as any other.
rt_exit_critical(c) == LET t == Self(c) IN
    /\ Running(c) /\ stage[c] = "thread"
    /\ Critical(t) > 0
    /\ scheduler_lock_nest' = [scheduler_lock_nest EXCEPT ![t] = @ - 1]
    /\ IF scheduler_lock_nest'[t] = Held(cpus_lock_nest[t])
       THEN rt_hw_spin_unlock("_rt_critical_lock")
       ELSE UNCHANGED spin
    /\ UNCHANGED <<pc, stage, current_thread, irq_nest, cpsr, spsr, cpus_lock_nest,
                   level>>

-----------------------------------------------------------------------------
(* vector_irq: rt_interrupt_enter, the handler, rt_interrupt_leave and     *)
(* rt_scheduler_do_irq_switch, all on the counters of the interrupted      *)
(* thread.                                                                 *)

\* An interrupt: its context is saved, and the CPU masks interrupts.
vector_irq(c) ==
    /\ Running(c) /\ stage[c] = "thread"
    /\ cpsr[c]
    /\ spsr' = [spsr EXCEPT ![Self(c)] = cpsr[c]]
    /\ cpsr' = [cpsr EXCEPT ![c] = FALSE]
    /\ stage' = [stage EXCEPT ![c] = "enter"]
    /\ UNCHANGED <<spin, pc, current_thread, irq_nest, nests, level>>

\* The count and the unlock of rt_interrupt_enter.
rt_interrupt_enter(c) ==
    /\ Running(c) /\ stage[c] = "enter"
    /\ cpus_lock_nest[Self(c)] = 1
    /\ irq_nest' = [irq_nest EXCEPT ![c] = @ + 1]
    /\ Unlocked(c)
    /\ cpsr' = [cpsr EXCEPT ![c] = level[Self(c)][1]]
    /\ stage' = [stage EXCEPT ![c] = "handler"]
    /\ UNCHANGED <<pc, current_thread, spsr, level>>

\* rt_hw_trap_irq returns, having undone its locks.
HandlerReturns(c) ==
    /\ Running(c) /\ stage[c] = "handler"
    /\ cpus_lock_nest[Self(c)] = 0
    /\ stage' = [stage EXCEPT ![c] = "leave"]
    /\ UNCHANGED <<spin, pc, current_thread, irq_nest, cpsr, spsr, nests, level>>

LeaveKeepsCount(c) ==
    /\ Running(c) /\ stage[c] = "leave"
    /\ cpus_lock_nest[Self(c)] = 1
    /\ Unlocked(c)
    /\ cpsr' = [cpsr EXCEPT ![c] = level[Self(c)][1]]
    /\ stage' = [stage EXCEPT ![c] = "switch"]
    /\ UNCHANGED <<pc, current_thread, irq_nest, spsr, level>>

\* The count and the unlock of rt_interrupt_leave.
rt_interrupt_leave(c) ==
    /\ Running(c) /\ stage[c] = "leave"
    /\ cpus_lock_nest[Self(c)] = 1
    /\ irq_nest' = [irq_nest EXCEPT ![c] = @ - 1]
    /\ Unlocked(c)
    /\ cpsr' = [cpsr EXCEPT ![c] = level[Self(c)][1]]
    /\ stage' = [stage EXCEPT ![c] = "switch"]
    /\ UNCHANGED <<pc, current_thread, spsr, level>>

\* rt_scheduler_do_irq_switch that switches: it takes back the counts of its
\* lock, and the new thread says whether the CPU keeps it.
rt_scheduler_do_irq_switch(c, to) == LET t == Self(c) IN
    /\ Running(c) /\ stage[c] = "switch"
    /\ cpus_lock_nest[t] = 1
    /\ scheduler_lock_nest[t] = 1 /\ irq_nest[c] = 0
    /\ MayTake(c, to)
    /\ cpus_lock_nest' = [cpus_lock_nest EXCEPT ![t] = @ - 1]
    /\ scheduler_lock_nest' = [scheduler_lock_nest EXCEPT ![t] = @ - 1]
    /\ rt_cpus_lock_status_restore(c, to)
    /\ stage' = [stage EXCEPT ![c] = "thread"]
    /\ UNCHANGED <<pc, irq_nest, spsr, level>>

\* rt_scheduler_do_irq_switch that does not, and the return to the thread.
IrqReturn(c) ==
    /\ Running(c) /\ stage[c] = "switch"
    /\ cpus_lock_nest[Self(c)] = 1
    /\ Unlocked(c)
    /\ cpsr' = [cpsr EXCEPT ![c] = spsr[Self(c)]]
    /\ stage' = [stage EXCEPT ![c] = "thread"]
    /\ UNCHANGED <<pc, current_thread, irq_nest, spsr, level>>

-----------------------------------------------------------------------------
Init ==
    /\ spin = [l \in Lock |-> << >>]
    /\ pc = [c \in CPU |-> "run"]
    /\ stage = [c \in CPU |-> "boot"]
    /\ current_thread = [c \in CPU |-> NoThread]
    /\ irq_nest = [c \in CPU |-> 0]
    /\ cpsr = [c \in CPU |-> FALSE]
    /\ spsr = [t \in Thread |-> TRUE]
    /\ cpus_lock_nest = [t \in Thread |-> 0]
    /\ scheduler_lock_nest = [t \in Thread |-> 0]
    /\ level = [t \in Thread |-> [n \in 1 .. MaxNest + 1 |-> FALSE]]

Step(c) ==
    \/ BootLock(c)
    \/ rt_cpus_lock(c) \/ CpusLocked(c) \/ rt_cpus_unlock(c)
    \/ rt_enter_critical(c) \/ CriticalLocked(c) \/ rt_exit_critical(c)
    \/ vector_irq(c) \/ rt_interrupt_enter(c) \/ HandlerReturns(c)
    \/ rt_interrupt_leave(c) \/ IrqReturn(c)
    \/ \E to \in Thread : \/ Start(c, to)
                          \/ rt_hw_context_switch(c, to)
                          \/ rt_scheduler_do_irq_switch(c, to)

Next == \E c \in CPU : Step(c)

Spec == Init /\ [][Next]_vars

\* Locked sections, critical sections and interrupt handlers are finite: a CPU
\* that is given the chance again and again ends the one it is in.  A spinning
\* CPU sees its turn, and a booting one starts.
Fairness == \A c \in CPU :
    /\ WF_vars(CpusLocked(c)) /\ WF_vars(CriticalLocked(c))
    /\ WF_vars(\E to \in Thread : Start(c, to))
    /\ WF_vars(rt_cpus_unlock(c))
    /\ SF_vars(rt_cpus_unlock(c) /\ cpus_lock_nest'[Self(c)] = 0)
    /\ SF_vars(rt_exit_critical(c))
    /\ WF_vars(stage[c] \in {"enter", "leave", "switch"} /\ rt_cpus_lock(c))
    /\ WF_vars(rt_interrupt_enter(c) \/ rt_interrupt_leave(c) \/ IrqReturn(c))
    /\ SF_vars(HandlerReturns(c))

FairSpec == Spec /\ Fairness

-----------------------------------------------------------------------------
(* Properties.                                                             *)

\* Type invariant.
TypeOK ==
    /\ spin \in [Lock -> Seq(CPU)]
    /\ pc \in [CPU -> {"run"} \cup Lock]
    /\ stage \in [CPU -> {"boot", "start", "thread", "enter", "handler", "leave",
                          "switch"}]
    /\ current_thread \in [CPU -> Thread \cup {NoThread}]
    /\ irq_nest \in [CPU -> {0, 1}]
    /\ cpsr \in [CPU -> BOOLEAN] /\ spsr \in [Thread -> BOOLEAN]
    /\ cpus_lock_nest \in [Thread -> 0 .. MaxNest]
    /\ scheduler_lock_nest \in [Thread -> 0 .. MaxCritical + 1]
    /\ level \in [Thread -> [1 .. MaxNest + 1 -> BOOLEAN]]

\* CPU c is in code that relies on the kernel lock: by the counter of its
\* thread, or between the lock and the first switch of its boot.
InKernel(c) ==
    /\ pc[c] # "_cpus_lock"
    /\ stage[c] = "start" \/ (Self(c) # NoThread /\ cpus_lock_nest[Self(c)] > 0)

\* The thread of CPU c is between rt_enter_critical and rt_exit_critical.
InCritical(c) == Self(c) # NoThread /\ Critical(Self(c)) > 0

Inside(c, l) == IF l = "_cpus_lock" THEN InKernel(c) ELSE InCritical(c)

\* Code that relies on a lock has it: at most one CPU is in such code, and its
\* ticket is the one being served, across nested calls, interrupts and context
\* switches from and to threads that hold it.
LocksExclude ==
    \A l \in Lock : \A c \in CPU : Inside(c, l) =>
        /\ spin[l] # << >> /\ Head(spin[l]) = c
        /\ \A d \in CPU : Inside(d, l) => d = c

\* No lock leaks: only a CPU that spins on it or relies on it has a ticket.
NoLeak ==
    \A l \in Lock : \A i \in DOMAIN spin[l] :
        Inside(spin[l][i], l) \/ pc[spin[l][i]] = l

\* Interrupts are enabled only in thread code that holds no part of the kernel
\* lock and spins on nothing: an interrupt, which locks too, never waits for
\* the CPU it interrupts.
IrqsMasked ==
    \A c \in CPU : cpsr[c] =>
        stage[c] = "thread" /\ pc[c] = "run" /\ cpus_lock_nest[Self(c)] = 0

\* The CPU in a kernel section, as KernelLock sees it.
Owner == IF \E c \in CPU : InKernel(c)
         THEN CHOOSE c \in CPU : InKernel(c)
         ELSE NoCpu

\* The threads in the middle of a section: not one that still spins.
InSection == {t \in Thread : cpus_lock_nest[t] > 0 /\
                ~\E c \in CPU : current_thread[c] = t /\ pc[c] = "_cpus_lock"}

\* The locks and counters implement the kernel section of KernelLock.
Kernel == INSTANCE KernelLock
          WITH owner <- Owner, running <- current_thread, inside <- InSection
Implements == Kernel!KSpec

\* A CPU that spins on a lock gets it.
SpinEnds == \A c \in CPU : pc[c] # "run" ~> pc[c] = "run"

\* rt_thread_idle_excute gets on with its cleanup: its rt_enter_critical, under
\* the kernel lock, returns.
CleanupGoesOn == \A c \in CPU :
    pc[c] = "_rt_critical_lock" /\ InKernel(c) ~> pc[c] = "run"

=============================================================================
