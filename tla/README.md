# Verification of the RT-Thread SMP kernel

TLA+ models, TLC configurations and TLAPS proofs for the kernel of RT-Thread
with symmetric multiprocessing (`src/rt-thread/src`, `RT_USING_SMP`), on the
Cortex-A9 port (`bsp/qemu-vexpress-a9`).

## 1. The system

| Part | State | Operations | Interaction |
|---|---|---|---|
| scheduler (`scheduler.c`) | a global and one per-CPU ready table, a bitmap for each; current thread, `irq_switch_flag` per CPU | insert, remove, `rt_schedule`, `rt_scheduler_do_irq_switch`, start, critical sections | called by everything that changes a thread's state; IPIs between CPUs |
| threads (`thread.c`) | the control block: `stat`, `oncpu`, `bind_cpu`, priority, time slice, lock nesting, list node, timer | startup, suspend, sleep, resume, yield, control, timeout, exit, delete | drives the scheduler; uses timers |
| idle and reaper (`idle.c`) | the list of defunct threads | `rt_thread_idle_excute` | frees what `rt_thread_exit` and `rt_thread_delete` left |
| tick, interrupts (`clock.c`, `irq.c`, port) | tick and interrupt nesting per CPU | `rt_tick_increase`, interrupt enter and leave | time slices, timers, deferred switch |
| CPU locks (`cpu.c`, port) | `_cpus_lock`, `_rt_critical_lock`, nesting counts of each thread, interrupt masks | lock, unlock, restore at a switch, ticket spinlock | the big lock around every kernel operation |
| IPC (`ipc.c`): semaphore, mutex, event, mailbox, message queue | value, set, ring or chain of messages, suspend lists | init, take/recv, release/send, control, detach | suspends and resumes threads, timeouts |
| timers (`timer.c`) | sorted hard and soft lists | start, stop, control, check | tick interrupt, timer thread |
| memory pools (`mempool.c`) | free blocks, suspend list | alloc, free, detach | suspends and resumes threads |
| heap (`mem.c`) | a chain of block headers, the lowest free one | malloc, realloc, free | guarded by one semaphore, `realloc` in three sections |
| driver IPC (`components/drivers/src`): completion, data queue, ring buffer, wait queue, pipe, work queue | flags, rings, suspend lists, wake-up flags | push/pop, wait/done, put/get, read/write, open/close | built on the scheduler, mutexes and each other |
| a driver, `spi_wifi_rw009.c` | packets in a pool, a mailbox and an event | `rw009_wifi_tx`, data thread, interrupt | composes three kernel objects |
| objects, signals, devices, file systems, shell, libc | | | built on the above |

What is hard here: CPUs, interrupts and timeouts interleave between any two
critical sections; many functions unlock and lock again; a thread may be woken
between the moment it suspends itself and the moment its CPU leaves it; the
kernel lock is handed from thread to thread by the context switch.

What makes each part correct:

| Part | Properties |
|---|---|
| scheduler, threads | a READY thread is in exactly one place; a thread runs on one CPU; the most urgent thread runs; a READY thread gets a CPU; a critical section keeps its CPU |
| idle and reaper | nothing that is still in use is freed |
| CPU locks | code that relies on a lock has it, no lock is lost, interrupts are masked in it, spinning ends |
| semaphore, mutex, event, mailbox, queue | no lost wake-up, conservation of the value or of the messages, FIFO or priority order, owner and holder agree, a timeout takes a waiter off exactly once |
| timers | the list is sorted by real time over the wrap of the tick, a timer is called in its tick and not before, the flag agrees with the list |
| memory pools | blocks are conserved, counts agree with lists, a waiter is woken when a block is free |
| heap | headers form one chain, free blocks never touch, a block in use has one owner and the size asked for |
| driver IPC | no lost wake-up between the unlocked sections, the ring has exactly what was put and not taken |
| wifi driver | every packet buffer is in one place, a packet handed over is transmitted |

## 2. The plan

Modules in the order of writing. Groups 1 to 9 exist, 10 to 13 are left.

1. `Scheduler` with `SchedulerProofs`, `MCScheduler`: scheduler, threads,
   reaper, time slices.
2. `CpusLock`: the kernel lock and the critical lock below the granularity of
   `Scheduler`; `KernelLock` is the abstract specification.
3. `TicketLock`, `MCTicketLock`: the spinlock of the port below the granularity of
   `CpusLock`; `FifoLock` is its abstract specification. `LockProofs` has the
   theorems about both locks.
4. `IpcWait`, the common part of everything that waits, with `Semaphore`,
   `SemaphoreProofs`, `MCSemaphore` and `Mutex`, `MutexProofs`, `MCMutex`;
   `ListTheorems` has the lemmas about lists that these proofs share.
5. `Mailbox`, `Event`, `MessageQueue`, `Mempool` on top of `IpcWait`; `Channel`
   is the abstract blocking queue.
6. `WifiTx`: a driver that composes pool, mailbox and event.
7. `Timer` with `TimerProofs`, `MCTimer`: the sorted list with a tick that wraps.
8. `Heap`: the allocator of `mem.c`.
9. `DataQueue`, `Completion`, `RingBuffer`, `Pipe` (with the wait queue).
   `IpcObjects`, `MCIpcObjects` put the modules of 5, 6, 8 and 9 into one
   specification; `IpcWaitingProofs` (waiting, and the objects that threads wait
   on) and `IpcObjectsProofs` (ring, pipe, driver, heap, and the results about all
   objects) have the theorems about it.
10. Detaching a mutex, mailbox, event, message queue and pool; the mutex retry
    after a signal.
11. Soft timers with their thread; the work queue.
12. `ReadyTable`: the two-level bitmap for more than 32 priorities against the
    set of priorities that `Scheduler` uses.
13. `memheap.c`, `slab.c`, `ringblk_buf.c`; `rt_data_queue_reset`.

Every safety property that a passing run checks is proved as a theorem (section 8),
with the hypotheses that section names, except `NoUseAfterFree`, of which
`FreedIsLeaving` is the part that the code ensures; what is left for later theorems are the
modules of 10 to 13.

## 3. Scheduler

State and actions correspond to the code as follows.

| Model | Code |
|---|---|
| `table[q]`, `group[q]` | `rt_thread_priority_table`, `rt_thread_ready_priority_group` (`q = RT_CPUS_NR`), `pcpu->priority_table`, `pcpu->priority_group` |
| `stat`, `oncpu`, `bind_cpu`, `current_priority`, `remaining_tick` | the fields of `struct rt_thread` |
| `nest` | `scheduler_lock_nest` less the count of the kernel lock |
| `pending`, `timer` | the thread is on the suspend list of some IPC object; its `thread_timer` is started |
| `pc`, `arg` | where a thread is between two locked sections of one function, and the thread the function works on |
| `current_thread`, `irq_nest`, `irq_switch_flag` | the fields of `struct rt_cpu` |
| `ipi` | a pending scheduling IPI at the interrupt controller |
| `defunct`, `freed` | `rt_thread_defunct`; threads whose memory was released |

*Granularity.* One locked section is one step, which `CpusLock` justifies: the
kernel lock excludes the other CPUs and the local interrupts. A function with
several sections (`rt_thread_delete`, the unlocked `rt_thread_resume`,
`rt_thread_exit` and `rt_schedule`, the reaper) is several steps, and anything
may happen in between. `Reschedule` is the body shared by `rt_schedule` and
`rt_scheduler_do_irq_switch`; an interrupt is a step that enters it and does the
work of its handler, and a step that leaves it.

The roles (`MaySleep`, `MayExit`, `MayDelete`, `MayChange`, `UnlockedResume`,
`IsStatic`, `HasCleanup`, `MayBind`, `ExitAnyCpu`) say what the application does
with its threads; a run chooses them. `PriorityHonoured` is checked without
changes of priority: `rt_thread_control` lowers the priority of a running thread
without a call of `rt_schedule`.

| Run | Instance | Shows |
|---|---|---|
| `core` | 2 CPUs, 2 threads and 2 idle threads, 3 priorities, 116,101 states | `TypeOK`, `Placed`, `OneCpu`, `PriorityHonoured`, `CriticalKeepsCpu` with blocking, timeouts, wake-ups from threads, timers and interrupts, binding and critical sections; `NoUseAfterFree`, for threads that return on CPU 0 and for deletion of threads that wait without a timeout |
| `fair` | two threads of equal priority, one of which may change it, `FairSpec`, 34,751 states | `ReadyRuns` |
| `exit_race` | | the finding below |

*Bounds.* Two CPUs are enough for every race of one CPU against another, and an
interrupt on each of them for the races with the local CPU. Two threads and the
two idle threads give each queue zero, one and two entries and let a thread be
resumed by another one while it is on its way to `rt_schedule`. `InitTick` is
the time slice, `MaxNest` bounds the nesting of critical sections (one level is
distinguished from none).

*Fairness.* A CPU that was brought up starts; an interrupt handler returns; a
pending IPI and the tick are taken when interrupts are enabled again and again
(strong fairness, because a CPU is in other interrupts in between); a thread
that is on a CPU again and again gets on with a call of `rt_schedule` and leaves
its critical section. No thread is assumed to call anything else.

## 4. The locks

`CpusLock` looks inside a locked section. Its state is `_cpus_lock` and
`_rt_critical_lock` as the queues of CPUs that drew a ticket (`spin`), the
counters `cpus_lock_nest` and `scheduler_lock_nest` of each thread, the
interrupt mask of each CPU (`cpsr`) and the saved masks: `level` in the frames of
`rt_cpus_lock`, `spsr` in the context of a thread that was interrupted or
switched out. `stage` says which part of boot, thread code or `vector_irq` a CPU
executes, `pc` on which lock it spins. The steps are the spinlock operations:
drawing a ticket, seeing one's turn, advancing the queue; everything else
between two of them is local to the CPU with interrupts masked. Which thread a
switch goes to is a choice among the threads that no CPU runs (`OneCpu` of
`Scheduler`); what the sections do is left out.

`KernelLock` is the promise: there is an owner or none, entering needs none, and
a thread that is switched out inside a section is inside it again when it goes
on. `Implements` is the refinement, with the owner defined by the counters of
the threads, not by the spinlock.

`TicketLock` is the `ldrex`/`strex` lock of `drivers/board.c` with its two
counters that wrap; `ImplementsFifo` maps the tickets to the queue that
`CpusLock` uses (safety), `NextGets` says that the first of the queue gets the
lock (liveness). The 2^16 values of the code are a constant `TICKETS`, at least
the number of CPUs; the run takes both as 4, so that the counters wrap while all
CPUs are in the queue.

| Run | Instance | Shows |
|---|---|---|
| `locks` | 2 CPUs, 3 threads, 2 levels of locks and 1 of critical sections, `FairSpec`, 33,321 states | `TypeOK`, `LocksExclude`, `NoLeak`, `IrqsMasked`, `Implements`; `SpinEnds`, when no critical section is entered inside a locked one |
| `lock_order` | the same with the idle thread's cleanup | the deadlock below |
| `ticket` | 4 CPUs, 4 ticket values, 5,245 states | `ImplementsFifo`, `NextGets` |

Three threads on two CPUs are needed for a switch; a depth of two tells the
outermost level from an inner one (the proofs cover any depth). *Fairness:* locked sections, critical
sections and interrupt handlers are finite code, so a CPU in one ends it (strong
fairness of the outermost unlock, the exit and the return of the handler,
because nested calls and interrupts come in between); a spinning CPU keeps
looking. It is not assumed that a lock is ever free.

## 5. Waiting, semaphore and mutex

`IpcWait` is what all objects of `ipc.c` share: `stat`, `error` and the running
`timer` of a thread, and where it is in its call. `pc` is "run" outside of a
call, "schedule" from the section that suspends the thread to its
`rt_schedule`, "off" when its CPU has left it, "check" when it is back and reads
`thread->error`. A locked section is one step (`CpusLock`); `rt_schedule` is
reduced to what it means for the caller, that it returns at once if the thread
is READY again or switches and returns when the thread runs again. `Scheduler`
shows that a READY thread gets a CPU.

| Model | Code |
|---|---|
| `suspend_thread` | the list in `rt_ipc_object`, in FIFO or priority order (`rt_ipc_list_suspend`) |
| `value` | `sem->value` (modulo `ValueRange`), `mutex->value` |
| `owner`, `original_priority`, `hold` | the fields of `struct rt_mutex`, `hold` modulo `HoldRange` |
| `current_priority` | of the threads, as `rt_thread_control` sets it |
| `Timeout`, `Deliver` | `rt_thread_timeout` and `_signal_deliver` with the `rt_list_remove` that takes the thread off whatever list it is on |
| `sig`, `delivering` | a pending signal, and a sender between the two halves of `rt_thread_kill` |
| `gone`, "test", "resume" | `rt_sem_detach` or `rt_sem_delete` in the loop of `rt_ipc_list_resume_all` |
| `granted`, `taken`, `wild` | history for the properties: calls that were given a token; takes that returned RT_EOK; the list head was used as a thread |

The roles `Nested`, `Use`, `Detacher`, `Careful`, `Signalled` and the sets
`Time` and `ResetValue` say how the application uses the objects. Nothing starts
a call on a semaphore after its detaching has begun; a careful application
begins it only while no thread waits that a timeout or a signal may resume, which is
what `sem` assumes: otherwise the list head may be used as a thread (section 9).

| Run | Instance | Shows |
|---|---|---|
| `sem` | 3 threads, 2 priorities, PRIO, all waiting times, 3 values, resets to 0 and 2, one thread is sent signals and detaches, `FairSpec`, 54,880 states | `TypeOK`, `AnswerIsTrue`, `PrioFirst`, `ListExact`, `NoIdleToken`; `Served` (if releases never cease), `CallsReturn` (with a waiting time, or when the semaphore is detached) |
| `mutex` | 3 threads of 3 priorities, `FairSpec`, 42,768 states; `Use` chooses one mutex of either order with all waiting times, two that are taken in order, or two in any order while one thread gives up after a time | `TypeOK`, `Exclusive`, `NoStranded`, `Restored`; `Inherits` (one PRIO mutex); `TakeEnds` (mutexes that are used in order: every thread if they are FIFO, the most urgent one on a PRIO mutex) |

*Bounds.* Three threads give lists of up to three threads (two behind an owner),
so that order, removal from the middle and handover to a thread that others wait
behind all happen. `ValueRange` and `HoldRange` are small, so that
`sem` includes the wrap of the value (a release at the largest one loses all
tokens, which no property here excludes); `HoldRange` exceeds the number of
takes. `MaxTaken`
bounds the takes a thread has not released; two tell nested takes and two
mutexes apart from one.

*Fairness.* A READY thread goes on (`ReadyRuns` of `Scheduler`), a running timer
expires, and a detaching thread gets on with its loop. For mutexes: a thread that
holds one and is not waiting gives it up some time; strong fairness, because in
between it may take and wait for others. No thread is assumed to release a
semaphore: `Served` has it as a hypothesis.

*Deadlock.* `sem` ends when the semaphore is gone, so it switches the deadlock
check off. Threads of `mutex` that take two mutexes in any order may deadlock
with each other, which is the application's fault; a third one still runs.

*Signals.* `AnswerIsTrue` is about threads that are sent none. `Mutex` has none:
after a signal `rt_mutex_take` goes back to `__again` without the lock, which is
left to a later version.

## 6. Mailbox, event, queues, pools, heap, driver IPC

Each object has a module of its own on top of `IpcWait`: its state, its
operations with every locked section as a step, what it looks at when a waiting
thread is back, and what a timeout takes it off. `IpcObjects` puts them together:
`Init` chooses which object a behaviour uses, because they share nothing but the
waiting, and the driver `WifiTx` uses three at once.

| Module | State and code | What is a step |
|---|---|---|
| `Mailbox` | `msg_pool`, `in_offset`, `out_offset`, `entry` and the two lists of `struct rt_mailbox`; `mail` is the call a thread is in | a round of `rt_mb_send_wait` or `rt_mb_recv`; a woken thread makes another round and may find the letter, or the room, gone, and its time used up (`TimeLeft`); `rt_mb_send` from an interrupt; reset |
| `Mempool` | free list and count, list of waiting threads and count | a round of `rt_mp_alloc` (a thread goes to the front of the list), `rt_mp_free` |
| `Event` | `set`, the list, `event_set` and `event_info` of the threads | `rt_event_send` with its walk over the list (`Walk`, a `Visit` of each thread), `rt_event_recv`, reset |
| `MessageQueue` | free, head and tail pointers and `next` of each slot | take a slot, fill it without the lock, link it (at the end, or first if urgent) and wake up; unlink, copy without the lock, give back; reset |
| `DataQueue` | the ring, `get_index`, `put_index`, two lists | a round of push or pop, the low water mark |
| `Completion` | `flag`, the list | wait; done as an unlocked test and a locked half |
| `Heap` | the chain of headers by offset, `lfree` | `rt_malloc`, `rt_free`, the three sections of `rt_realloc`, each under `heap_sem` |
| `RingBuffer` | both indices and mirror bits, the bytes | the functions of `ringbuffer.c` as operators on the record, `stream` is what should be in it |
| `Pipe` | readers, writers, reference count, the two wait queues with their flags, descriptors | a round of read or write under the mutex, the wake-up and the wait after its release (`rt_wqueue_wakeup`, `rt_wqueue_wait`), open, close |
| `WifiTx` | where a thread is in the driver, the packet in transfer | `rw009_wifi_tx` (allocate, send, raise the event), the data thread (receive the event, one mail, one exchange with the slave, raise the event again), the interrupt |

`Channel` is the promise of the three queues: a bounded queue, threads that want
and threads that offer, and fairness for both. `Implements` maps each of them to
it; `wanting` and `offering` are the threads that wait in a call, also those that
were woken and have not looked yet. It is the safety part; `MessagesMove` has the
liveness: a message somebody waits for is taken (`GetFair`), room in a mailbox is
used (`PutFair`), and a packet in the mailbox of the driver is transmitted. The
data queue has no `PutFair`: with a low water mark it leaves a pusher asleep beside
free room on purpose.

| Run | Instance | Shows |
|---|---|---|
| `ipc_objects` | 3 threads of 2 priorities; mailbox, pool, message queue, data queue and ring of size 2, 2, 2, 2 and 4, 2 events, a heap of 14 units; 145,868 states | `TypeOK`; `NoLostWakeup`; `ConsumedOnce` (an event that is cleared goes to one thread); `Conserved` (pool counts, message chains, ring contents, packet buffers); `HeapExact`; `Implements`; `MessagesMove` |
| `mempool_timeout`, `ring_force` | one object each | the findings below |

*Bounds.* `MCCall` says which calls each thread makes: one waits for ever, one
with a limited time, one receives and polls, so that two threads wait on one
list, a third overtakes a woken one, and a timeout takes a thread from either
end. A queue of two is empty, partly filled and full. `MaxPut` bounds the pushes of
the data queue (three: the ring has wrapped); by `DqAssumption` the 16-bit indices do
not wrap. `Bytes` distinguishes twice as many
bytes as the ring holds. Heap sizes are chosen so that exact fits, cuts, near
fits without a cut, merges in both directions and failing requests happen.
`SRDY = {TRUE}` says the slave accepts a packet that is there (see section 9).

*Fairness.* A READY thread goes on with the call it is in, and the threads of the
driver go on in their loops (`ReadyRuns` of `Scheduler`): weak fairness of
`Proceed`, `Back`, `Section` and `Drive` per thread. No thread is assumed to start a
call, no timeout to come.

*Deadlock.* Threads that all wait for messages nobody sends are a legal end, so
the run does not check for deadlock; `NoLostWakeup` and `MessagesMove` say that
there is nothing for them.

## 7. Timers

`Timer` has the hard timers: `rt_timer_list` with the fields of the timers, the tick
modulo `TickRange`, and for each CPU where it is in `rt_timer_check`
(`at`, `current_tick`). The check is the one locked section that is more than one
step: CPU 0 counts the tick of the system while another CPU is in its loop, and the
flag byte of a timer (`activated`, `periodic`) is read and written by threads that do
not have the lock. A check removes the timer (`Fire`), calls its function, which
may stop the timer (`FuncStop`, `FuncClear`), loads the flag (`Test`), stores it with
ACTIVATED cleared (`Clear`), and starts a periodic timer again in two more steps
(`Restart`, `SetActive`). `rt_timer_start` is its three parts (remove, compute
the timeout without the lock, insert), `rt_timer_stop` too (test, remove, clear the
flag, only the second with the lock), and `RT_TIMER_CTRL_SET_ONESHOT` and
`_SET_PERIODIC` are a load and a store without it (`SetMode`, `ModeStore`; the
timers in `Switched`). What a CPU or a thread has loaded is in `fired` and
`loaded`. A timer has one owner that starts and stops it, or it is the timer of a
thread, which `ipc.c` starts and stops with the lock held (`Locked`). `left` counts the ticks a timer still has, without any
wrap; the properties compare the modular arithmetic with it.

| Run | Instance | Shows |
|---|---|---|
| `timer` | 2 CPUs, 2 threads; a periodic timer that its function may stop and a timer that is switched between one-shot and periodic, both of one owner, and the timer of a thread; a tick of 11 values, 2,960,606 states | `FlagExact`, `StopHolds`, `DueExact`, `InOrder`, `OnTime` |

`FlagExact` is about the timers that are not switched and about the moments at which
neither the owner nor a check is busy with the timer: within these the flag and the
list do disagree, and `rt_timer_stop`, which tests the flag without the lock, sees it.
`StopHolds` says what it can rely on nevertheless: if it answers RT_EOK the timer is
off the list and no check starts it again. It holds because the removal waits for the
lock that a check has until the timer is back on the list. What a stop that answers
-RT_ERROR can miss, and what switching does to the flag, is in section 9.

*Bounds.* The tick starts anywhere and wraps. `TickRange = 11` is the least
range in which times of up to 2 and one late tick (`MaxLate`, the ticks that pass
while a thread is between computing and inserting a timeout) stay below half of
it, as the assertion in `rt_timer_start` demands. `MaxStale = 2` bounds the ticks that
pass while one CPU is in its check: the lock is first come, first served and CPU 0
has to pass it in its own check before it counts the next tick, so that a check is
overtaken by the tick that was waiting when it got the lock and by the one after.

## 8. Theorems

All proofs are checked by TLAPS without assumptions other than the ASSUMEs on
the constants, which TLC evaluates in the runs, and the hypotheses that a theorem
names. Each theorem holds for every value of the constants; the runs check the
same property on a small instance.

`SchedulerProofs` (any number of CPUs, priorities and threads). The inductive
invariant is `Inv == TypeOK /\ Placed /\ OneCpu /\ Aux`. `Placed` is not
inductive alone: a switch relinks a thread by its affinity and priority, so the
invariant must know that the thread of a CPU is not queued (`OneCpu`), that a
suspended thread on its way to `rt_schedule` is not READY and queued, that a
timer or suspend list holds only threads that sleep (`TimersOfSleepers`), that
idle threads stay bound and ready (`IdleBound`), that a thread that was not
started or is dead is nowhere (`Dormant`, `Unstarted`, `DefunctClosed`), and
which thread a deletion in progress works on (`Deleting`). The bitmaps are
treated through `Holds(tab, grp, R, b, pr)`, a relation between tables and a set
of threads for which linking and unlinking have one lemma each; each action has
its own lemma. The hypothesis `SafeUse` excludes the uses in which the code
fails (section 9): no resume without the lock and no deletion of a thread that
sleeps with a timeout. Results: `TypeCorrect`, `ReadyTables` (`Placed`),
`MutualExclusion` (`OneCpu`), `NeverEmptyHead` (`HighestIsQueued`),
`CriticalSection` (`CriticalKeepsCpu`).

On top of `Inv` there are two more inductive invariants. `Honoured` is
`PriorityHonoured` in terms of the queued threads instead of the bitmaps, and it
holds in interrupt handlers too: a CPU without a pending IPI, a deferred switch, a
critical section or a call of `rt_schedule` ahead runs nothing less urgent than
what is queued for it. `UrgentFirst` needs `MayChange = {}`, because
`rt_thread_control` changes a priority without a call of `rt_schedule`. `Reaped`
says where a thread that has ended is: in `rt_thread_defunct`, in the hands of the
reaper or freed, in one of them only, and that in the last two it is not on CPU 0, which
runs the reaper; only a deletion and the reaper work on another thread (`Holders`).
`NoUseAfterFree` itself does not follow: the finding `exit_race` violates it.
`FreedIsLeaving` proves what is left of it, wherever threads end
(`FreedOrLeaving`): a freed thread is CLOSE and in no list, timer or call, and if a CPU
still runs it, that CPU is another than 0 and is between the unlock in
`rt_thread_exit` and `rt_schedule`. So the window of `exit_race` is the only one.

`LockProofs`, first part: `CpusLock` (any number of CPUs and threads, any nesting).
`Inv` relates each queue to the sets of CPUs that rely and that spin on the lock (`LockOK`);
drawing, getting and releasing are three lemmas about queues and sets.
`Serving(c, t)` says what a CPU and its thread agree on (a saved mask is
"enabled" only at the outermost lock of thread code), `Parked` what a thread
that no CPU runs must bring along so that
`rt_cpus_lock_status_restore` does the right thing. A step of one CPU changes
nothing the invariant says of the others (`Frame`), so each action lemma looks at
one CPU. Results: `TypeCorrect`, `Exclusion`, `NoLostLock`, `MaskedInKernel` and
`Refinement` (`Spec => Implements`): `Enter`, `Leave` and `Hand` of `KernelLock`
each have a lemma, all other steps stutter.

`LockProofs`, second part: `TicketLock` (any number of CPUs, any `TICKETS` that is at
least as large). `TicketInv` says that the tickets of the CPUs in the lock are the values `owner`,
`owner + 1`, ... up to `next`, modulo `TICKETS`, one for each CPU (`Tickets`), and
that a CPU inside has the ticket `owner`. A CPU that draws a ticket extends that
range and one that leaves shortens it (`DrawTickets`, `LeaveTickets`); the range
is never the whole circle before a draw, because the CPU that draws has no ticket.
`Queue` is that range read as a sequence, so drawing appends to it and leaving
takes off its head: `TicketsAreFair` (`TicketSpec => ImplementsFifo`) has a lemma for
each of `Ask`, `Get` and `Release` of `FifoLock`.

`ListTheorems` says what appending to, inserting into and removing from a list
without repetitions does to its members and its order; `RemoveFirst` is
`rt_list_remove`. The following modules rest on it.

`SemaphoreProofs` (any number of threads, priorities and values, with timeouts,
signals, resets and detaching). `Inv` joins `TypeOK`, `ListExact`, `NoIdleToken`,
`PrioFirst` and `AnswerIsTrue` with `Waiting` (a suspended thread has no answer and
no token yet, a thread with a token is on its way back to it) and `Detaching` (one
thread at most is in `rt_ipc_list_resume_all`, and how far). `AnswerIsTrue` needs
`ListExact`: that a timeout and a release do not both answer a thread follows from
its being on the list until one of them takes it off. Results: `TypeCorrect`,
`WaitList`, `NoTokenIdle`, `UrgentServedFirst` and `TrueAnswers`.

`MutexProofs` (any number of threads, mutexes and priorities, FIFO or PRIO).
The hypothesis `HoldFits` is `MaxTaken < HoldRange`: `mutex->hold` has no test for
overflow (section 9). `Inv` has the mutex (`Held`: free with an empty list, or with
an owner), its list (`Lists`), the waiting threads (`Waits`), the depth of the takes
(`Depth`), where the priority is kept that a thread goes back to (`Restores`: in
the outermost mutex, if releases are nested), and the order of the list of a single
priority mutex (`InOrder`), without which the handover to the head of the list
would not preserve `Inherits`. Results: `TypeCorrect`, `MutualExclusion`
(`Exclusive`), `NobodyStranded` (`NoStranded`), `PriorityRestored` (`Restored`,
which assumes `Nested`), `PriorityInherited` (`Inherits`).

`TimerProofs` (any number of CPUs, threads and timers, any range of the tick
in which all times, with `MaxLate` and one tick more, stay below half of it). The core is `Clock`: a timeout
is `left` ticks after the tick modulo `TickRange`, and less than half of the range
away, so that the unsigned comparisons of the code are those of `left`
(`DueTick`, `LaterTimeout`). `Late` bounds how overdue a timer can be, from where
CPU 0 is in its check; `Calls` says what a thread knows between the sections of a
start or stop. `Checks` says that the timer a check is calling is off the list until
`Restart` and that its owner can at most wait for the lock or switch it; `Holds`, which
makes `StopHolds` inductive, that a check busy with a stopped timer is so because the
function stopped it, and finds its flag clear.
Results: `FlagIsExact`, `StoppedStaysOff` (`StopHolds`), `DueIsExact`, `ListInOrder`,
`TimersOnTime`.

`IpcWaitingProofs` and `IpcObjectsProofs` (any number of threads, any sizes, any
sets of calls). The argument has four layers.

1. *One object is in use.* `Base` says that all other objects are as their
   initialisation left them and nobody is in a call of theirs, that a suspended
   thread is on its way to `rt_schedule` or off its CPU, and that only such a thread
   has a timer. `BaseStep` shows that it is inductive on its own and reduces a step
   of `Next` to a step of the object in use (`StepOf`), so that each object is
   proved alone.
2. *Waiting.* `WaitList(list, S, n, ...)` is what every list of waiting threads
   keeps: it has exactly the suspended threads of the call, each once; a suspended
   thread has no error yet; and while the list is not empty, each of the `n` things to
   be had has a thread that was resumed and is on its way. What suspending, resuming
   the first, timing out, looking again and emptying the list do to it are lemmas
   that all objects share. That a woken thread may be overtaken, or find its time
   used up, is in these lemmas.
3. *Each object.* `MailInv`, `DqInv`: a ring with a count (`RingSeq`, and what
   storing and taking do to it, over the wrap of the indices) and two wait lists.
   `PoolInv`: free blocks without repetition, a count of the waiting threads that is
   never too small. `EventInv`: what a thread that was given events has, and that an
   event that is still set was cleared for nobody (`EventOnce`); the loop of
   `rt_event_send` has the invariant `WalkOK`. `MqInv`: there are two lists of slots
   that the pointers link (`Linked`), which together with the slots in the hands of
   threads are all slots, once each (`MqData`); the proofs work with these lists and
   show once that `Chain` computes them. `CompletionInv`; `RingInv` (mirror bits and
   indices against the bytes that should be there); `PipeOK` and `PipeInv`: a wake-up
   that comes between the round of a reader or writer and its wait is in the flag of
   the wait queue. `WifiInv`: mailbox, pool and event of the driver together, with
   every block in one place (`Apart`).
4. *All objects.* `IpcInv` joins `Base` with the invariant of the object in use
   (`IpcInvariance`). Results: `EventConsumedOnce` (`ConsumedOnce`), `TypeCorrect`,
   `NoWakeupIsLost` (`NoLostWakeup`), `NothingIsLost` (`Conserved`), and
   `QueuesAreChannels` (`Spec => Implements`): each step of the mailbox, message
   queue and data queue is one step of `Channel` or none (`ChStep`).

The hypotheses of these results say where the code keeps its promise; the run
`ipc_objects` satisfies all of them.

| Hypothesis | Of | Without it |
|---|---|---|
| `Untimed`: no call of `rt_mp_alloc` limits its time | `TypeCorrect`, `NothingIsLost` | `suspend_thread_count` is never corrected and grows: the finding `mempool_timeout` |
| `OneByteForced`: at most one byte at a time is forced into the ring | `NothingIsLost` | the finding `ring_force` |
| `Lossless`: the slave is ready, the mailbox of the driver has room for all packets | `NothingIsLost` | a packet that is not taken is lost with its block (section 9) |
| `Ends(r, w)`: one thread reads the pipe, one writes, none asks for 0 bytes | `NoWakeupIsLost` | one flag for several threads (section 9) |
| `DqAssumption`: fewer than 2^16 pushes, so that the indices of the data queue do not wrap | `TypeCorrect`, `NoWakeupIsLost`, `QueuesAreChannels` | a full queue is no longer seen (section 9) |
| `OneNothing`: "no message" is one value in the three queues | `QueuesAreChannels` | a matter of the model: `received` of `Channel` starts with it |

The walk of `rt_event_send` and the chain of slots are recursive functions over a
bounded domain. What they compute for lists of any length is proved without the
library's induction theorems: the indices at which a claim fails are a finite set,
and the least of them leads to a contradiction (`WalkExists`, `WalkDone`, `ChainIs`).

The heap has an invariant of its own. `HInv` has three parts. `HeapOK`: the headers
are chained by neighbours (`Chained`), no two free blocks touch (`Plugged`), `lfree`
is free or the end (`LowFree`). `Owned`: the blocks in use are those the threads
have, each of one thread and large enough. `CallsOK`: where a thread is in
`rt_realloc`; there it has two blocks for a while, and they differ. Marking, cutting
and merging blocks have one lemma each; `PluggedBut` is the state in which
`plug_holes` finds the heap. All other objects leave the variables of the heap alone.
Results: `HeapInvariance`, `HeapIsExact` (`HeapExact`).

Only model-checked: liveness, which is outside what the provers here can do
(`ReadyRuns`, `SpinEnds`, `NextGets`, `Served`, `CallsReturn`, `TakeEnds`,
`MessagesMove`).

## 9. Findings

| Run | What the code does |
|---|---|
| `exit_race` | `rt_thread_exit` makes the thread reapable before it has left its stack (`thread.c:106`); CPU 0 can free the stack while another CPU runs on it. |
| `lock_order` | `rt_thread_idle_excute` takes the critical lock inside the kernel lock (`idle.c:180`), critical sections take the kernel lock inside the critical lock: two CPUs can spin on each other for ever. |
| `mempool_timeout` | a thread whose `rt_mp_alloc` times out leaves the list, but not `suspend_thread_count` (`mempool.c:357`); `rt_mp_free` then takes the head of the empty list for a thread (`mempool.c:421`). |
| `ring_force` | `rt_ringbuffer_put_force` over the end of the buffer, with more bytes than there is room for, flips both mirror bits (`ringbuffer.c:155`): if the data had not wrapped, the buffer is empty afterwards. |

The models show more disagreements when the constants of a run are changed; they
are kept as the boundaries of what the runs and theorems claim.

| Change | Fails | Why |
|---|---|---|
| `core`: `UnlockedResume = {t1}`, which also sleeps with a timeout | `Placed` | `rt_timer_start` resumes `timer_thread` without the lock (`timer.c:391`); its timeout between the steps of `rt_thread_resume` leaves the bit of an empty ready list set |
| `core`: `MaySleep = {t1, t2}` | `Placed` | `rt_thread_delete` unlinks the thread, stops its timer and closes it in three sections (`thread.c:433`); a timeout in between queues the thread again |
| `sem`: `AnswerIsTrue` for every thread | `AnswerIsTrue` | a signal resumes a waiter that has not reached `rt_schedule` (`signal.c:94`); without a switch there is no `rt_thread_handle_sig`, and `rt_sem_take` returns RT_EOK without a token |
| `sem`: `Careful = FALSE` | `~wild` | `rt_ipc_list_resume_all` tests the list without the lock (`ipc.c:162`); if a timeout empties it, the head of the list is resumed as a thread |
| `timer`: `FlagExact` for the timers in `Switched` | `FlagExact` | `RT_TIMER_CTRL_SET_ONESHOT` and `_SET_PERIODIC` load and store the flag byte without the lock (`timer.c:464`, `468`); the store undoes that of a check in between (`timer.c:529`), and the timer is off the list with ACTIVATED set |
| `timer`: a timer in `Switched` and `SelfStop`, `StopHolds` for all | `StopHolds` | the same store undoes the stop that the timeout function made, and a check starts the timer again although `rt_timer_stop` answered RT_EOK |
| `mutex`: `Inherits` for FIFO mutexes | `Inherits` | a FIFO mutex is handed to a thread that does not inherit from the more urgent ones behind it (`ipc.c:850`) |
| `mutex`: `Inherits` for two mutexes | `Inherits` | releasing one mutex gives up what was inherited through the other (`ipc.c:831`) |
| `mutex`: `Nested = FALSE` | `Restored` | the priority to go back to is saved per mutex, and may be an inherited one (`ipc.c:831`) |
| `mutex`: `HoldRange = 2` | `Exclusive` | `mutex->hold` has 8 bits and no test (`ipc.c:681`) |
| `ipc_objects`: `SRDY = {TRUE, FALSE}` | `Conserved` | `spi_wifi_transfer` drops a packet for which the slave was not ready without freeing its block; after enough of them `rw009_wifi_tx` waits for ever |
| `ipc_objects`: a second reader of the pipe | `NoLostWakeup` | the wake-up flag of a wait queue is one for all: a thread that returns clears it for the others (`waitqueue.c:138`), and one wake-up resumes one thread |
| `Heap`: `lfree` is the lowest free block | that | `rt_realloc` frees the tail of a block below `lfree` without moving it (`mem.c:493`): that memory is not found until something below it is freed |

Seen while modelling, and outside of the properties:

- `rt_enter_critical` does not keep other CPUs from switching threads, as its
  comment says (`scheduler.c:770`). `sem->value` wraps from 65535 to 0
  (`ipc.c:458`). A signal makes `rt_mutex_take` go back to `__again` without the
  lock and past the owner test (`ipc.c:755`).
- `rt_mp_alloc` puts waiting threads at the front of the list, so the last one
  to wait is served first (`mempool.c:336`).
- The indices of the data queue are 16 bits wide and compared as `int`: after
  2^16 pushes a full queue is no longer seen (`dataqueue.c:80`).
  `rt_data_queue_reset` tests its lists without the lock, as
  `rt_ipc_list_resume_all` does.
- `rt_malloc` never takes a block that just fits at the end of the heap
  (`mem.c:306`); `rt_realloc` to a slightly smaller size may need a second block.
- `pipe_fops_read` returns end-of-file when the last writer has closed, with data
  still in the pipe (`pipe.c:148`), and close wakes up one waiting thread only.
- While a check starts a periodic timer again its flag is clear (`timer.c:523` to 381):
  an `rt_timer_stop` on another CPU that tests it then (`timer.c:418`) answers -RT_ERROR
  and the timer goes on.
- A one-shot timer that its own function starts again is on the list with its
  flag cleared (`timer.c:529`), so it cannot be stopped; two threads that start one
  timer link it twice; a periodic timer of 0 ticks keeps the check in its loop;
  `rt_thread_timer_entry` tests its list without the lock before it suspends
  itself (`timer.c:632`), so a start in between is not noticed.
- The work queue has the same window (`workqueue.c:72`), and after a cancelled
  work it takes the list head for work (`workqueue.c:81`).

In `Scheduler` the reaper waits for the critical lock before it takes the kernel
lock, so that the deadlock of `lock_order` does not hide other behaviour. The last
step of `rt_thread_delete` joins the store of CLOSE, which is outside of the lock
(`thread.c:440`), with the section that follows it: nobody else has the thread then.

## 10. Not modelled

- Deleting a READY or running thread: the SMP design leaves out the deletion of
  a running thread, and the deletion of a queued one is a later extension of
  `Scheduler`. `rt_thread_detach` differs from it only in what is freed.
- Signals in `Scheduler` and `Mutex`; masks, `rt_signal_wait`, the pool of signal
  information and the unlocked test in `_signal_deliver`. Hooks, stack checks,
  statistics.
- Detaching or deleting a mutex, event, mailbox, message queue or pool: the loop
  is the one of the semaphore. `rt_data_queue_reset` and `_peak`.
- Soft timers and their thread, deleting a timer; the work queue; `ringblk_buf.c`;
  the device interface of pipes (`rt_pipe_read` and `_write`); polling.
- The heaps `memheap.c` and `slab.c`, which replace `mem.c` in other builds.
- The object container and string services (`object.c`, `kservice.c`): lists
  and formatting without a protocol.
- More than 32 priorities.
- Device layer, file systems, shell, libc and vendored components: layered on
  the kernel.

The repository has some 226,000 lines of C in 727 files; some 11,000 of them are
the kernel in `src/rt-thread/src`, which this project is about. The rest is code
pages and file systems, network stacks, configuration tools, USB and other
device drivers and the support of boards, most of it vendored, without
concurrency of its own or talking to hardware that has no model here. The map
therefore covers a small share of the repository: the kernel's concurrent part,
and the driver services on top of it.
