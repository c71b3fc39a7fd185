----------------------------- MODULE Semaphore -------------------------------
(***************************************************************************)
(* The semaphore of src/ipc.c, with any number of threads and interrupt    *)
(* handlers that take, release, reset and detach one semaphore.            *)
(***************************************************************************)
EXTENDS IpcWait

CONSTANTS
    Flag,         \* "FIFO" or "PRIO": RT_IPC_FLAG_FIFO, RT_IPC_FLAG_PRIO
    InitValue,    \* rt_sem_init
    ValueRange,   \* number of values of sem->value: 2^16 in the kernel
    ResetValue,   \* the values it is reset to
    Detacher,     \* threads that detach it
    Careful       \* whether they do so only while no thread waits that a timeout
                  \* or a signal may resume

ASSUME SemaphoreAssumption ==
    /\ Flag \in {"FIFO", "PRIO"}
    /\ ValueRange \in Nat \ {0}
    /\ InitValue \in Nat /\ ResetValue \subseteq Nat
    /\ Detacher \subseteq Thread /\ Careful \in BOOLEAN

VARIABLES
    value,            \* sem->value
    suspend_thread,   \* sem->parent.suspend_thread
    gone,             \* detaching it has begun
    wild,             \* the list head was taken for a thread
    granted           \* history: threads in a call that a release resumed

semvars == <<value, suspend_thread, gone, wild, granted>>
vars == <<waitvars, semvars>>

-----------------------------------------------------------------------------
TakeUnchecked ==
    /\ value' = value - 1
    /\ UNCHANGED <<suspend_thread, stat, timer, error, pc>>

TakeAtOnce ==
    /\ value > 0
    /\ value' = value - 1
    /\ UNCHANGED <<suspend_thread, stat, timer, error, pc>>

TakeRefused ==
    /\ value = 0
    /\ UNCHANGED <<value, suspend_thread, stat, timer, error, pc>>

WaitWithOldError(t, time) ==
    /\ value = 0
    /\ Suspend(t, time)
    /\ suspend_thread' = Placed(Flag, suspend_thread, t, Priority)
    /\ UNCHANGED <<value, error>>

TakeWaits(t, time) ==
    /\ value = 0
    /\ error' = [error EXCEPT ![t] = "EOK"]
    /\ Suspend(t, time)
    /\ suspend_thread' = Placed(Flag, suspend_thread, t, Priority)
    /\ UNCHANGED value

\* rt_sem_take up to its rt_schedule; rt_sem_trytake is the waiting time 0.
rt_sem_take(t, time) ==
    /\ pc[t] = "run" /\ ~gone
    /\ \/ TakeAtOnce
       \/ time = "none" /\ TakeRefused
       \/ time # "none" /\ TakeWaits(t, time)
    /\ UNCHANGED <<sig, delivering, gone, wild, granted>>

\* The rest of it: it returns error, and RT_EOK means that it has a token.
TakeReturns(t) ==
    /\ pc[t] = "check"
    /\ pc' = [pc EXCEPT ![t] = "run"]
    /\ granted' = granted \ {t}
    /\ UNCHANGED <<stat, timer, error, sig, delivering, value, suspend_thread, gone, wild>>

ReleaseKeepsTimer ==
    /\ ~gone
    /\ IF suspend_thread # << >>
       THEN /\ stat' = [stat EXCEPT ![Head(suspend_thread)] = "READY"]
            /\ suspend_thread' = Tail(suspend_thread)
            /\ granted' = granted \cup {Head(suspend_thread)}
            /\ UNCHANGED value
       ELSE /\ value' = (value + 1) % ValueRange
            /\ UNCHANGED <<stat, suspend_thread, granted>>
    /\ UNCHANGED <<timer, error, pc, sig, delivering, gone, wild>>

ReleaseWakesLast ==
    /\ ~gone
    /\ IF suspend_thread # << >>
       THEN /\ Resume({Last(suspend_thread)})
            /\ suspend_thread' = Front(suspend_thread)
            /\ granted' = granted \cup {Last(suspend_thread)}
            /\ UNCHANGED value
       ELSE /\ value' = (value + 1) % ValueRange
            /\ UNCHANGED <<stat, timer, suspend_thread, granted>>
    /\ UNCHANGED <<error, pc, sig, delivering, gone, wild>>

\* rt_sem_release, by a thread or an interrupt handler.
rt_sem_release ==
    /\ ~gone
    /\ IF suspend_thread # << >>
       THEN /\ Resume({Head(suspend_thread)})
            /\ suspend_thread' = Tail(suspend_thread)
            /\ granted' = granted \cup {Head(suspend_thread)}
            /\ UNCHANGED value
       ELSE /\ value' = (value + 1) % ValueRange
            /\ UNCHANGED <<stat, timer, suspend_thread, granted>>
    /\ UNCHANGED <<error, pc, sig, delivering, gone, wild>>

ResetLeavesWaiters(v) ==
    /\ ~gone
    /\ value' = v % ValueRange
    /\ UNCHANGED <<waitvars, suspend_thread, gone, wild, granted>>

\* rt_sem_control with RT_IPC_CMD_RESET: the lock is held throughout.
rt_sem_control(v) ==
    /\ ~gone
    /\ Resume(ToSet(suspend_thread))
    /\ Fail(ToSet(suspend_thread), "ERROR")
    /\ suspend_thread' = << >>
    /\ value' = v % ValueRange
    /\ UNCHANGED <<pc, sig, delivering, gone, wild, granted>>

-----------------------------------------------------------------------------
(* rt_sem_detach and rt_sem_delete: rt_ipc_list_resume_all tests the list  *)
(* without the lock.  The application starts no other call once it has     *)
(* begun to detach the semaphore.                                          *)

rt_sem_detach(t) ==
    /\ t \in Detacher /\ pc[t] = "run" /\ ~gone
    /\ Careful => ToSet(suspend_thread) \cap (timer \cup Signalled) = {}
    /\ gone' = TRUE
    /\ pc' = [pc EXCEPT ![t] = "test"]
    /\ UNCHANGED <<stat, timer, error, sig, delivering, value, suspend_thread,
                   wild, granted>>

ResumeAllTest(t) ==
    /\ pc[t] = "test"
    /\ pc' = [pc EXCEPT ![t] = IF suspend_thread = << >> THEN "run" ELSE "resume"]
    /\ UNCHANGED <<stat, timer, error, sig, delivering, semvars>>

ResumeAllOnce(t) ==
    /\ pc[t] = "resume"
    /\ Resume({Head(suspend_thread)})
    /\ Fail({Head(suspend_thread)}, "ERROR")
    /\ suspend_thread' = Tail(suspend_thread)
    /\ pc' = [pc EXCEPT ![t] = "run"]
    /\ UNCHANGED <<wild, sig, delivering, value, gone, granted>>

\* One round under the lock.  On an empty list the head of the list is treated
\* as the node of a thread.
ResumeAllRound(t) ==
    /\ pc[t] = "resume"
    /\ IF suspend_thread # << >>
       THEN /\ Resume({Head(suspend_thread)})
            /\ Fail({Head(suspend_thread)}, "ERROR")
            /\ suspend_thread' = Tail(suspend_thread)
            /\ UNCHANGED wild
       ELSE /\ wild' = TRUE
            /\ UNCHANGED <<stat, timer, error, suspend_thread>>
    /\ pc' = [pc EXCEPT ![t] = "test"]
    /\ UNCHANGED <<sig, delivering, value, gone, granted>>

-----------------------------------------------------------------------------
(* The steps of IpcWait: what resumes a thread takes it off the list.      *)

Unlink(t) ==
    /\ suspend_thread' = RemoveFirst(suspend_thread, t)
    /\ UNCHANGED <<value, gone, wild, granted>>

Timeout(t) == rt_thread_timeout(t) /\ Unlink(t)

Deliver(t) ==
    /\ _signal_deliver(t)
    /\ IF t \in sig THEN Unlink(t) ELSE UNCHANGED semvars

Proceed(t) == (rt_schedule(t) \/ SwitchBack(t)) /\ UNCHANGED semvars

Init ==
    /\ WaitInit
    /\ value = InitValue % ValueRange
    /\ suspend_thread = << >>
    /\ gone = FALSE /\ wild = FALSE /\ granted = {}

Next ==
    \/ \E t \in Thread :
          \/ \E time \in Time : rt_sem_take(t, time)
          \/ TakeReturns(t)
          \/ Proceed(t)
          \/ Timeout(t)
          \/ rt_thread_kill(t) /\ UNCHANGED semvars
          \/ Deliver(t)
          \/ rt_sem_detach(t) \/ ResumeAllTest(t) \/ ResumeAllRound(t)
    \/ rt_sem_release
    \/ \E v \in ResetValue : rt_sem_control(v)

Spec == Init /\ [][Next]_vars

\* A READY thread goes on and a running timer expires.  Nobody has to release.
Fairness == \A t \in Thread :
    /\ WF_vars(Proceed(t)) /\ WF_vars(TakeReturns(t)) /\ WF_vars(Timeout(t))
    /\ WF_vars(ResumeAllTest(t) \/ ResumeAllRound(t))

FairSpec == Spec /\ Fairness

-----------------------------------------------------------------------------
(* Properties.                                                             *)

\* Type invariant.
TypeOK ==
    /\ stat \in [Thread -> {"READY", "SUSPEND"}]
    /\ timer \subseteq Thread /\ sig \subseteq Signalled /\ delivering \subseteq Signalled
    /\ error \in [Thread -> Error]
    /\ pc \in [Thread -> {"run", "schedule", "off", "check", "test", "resume"}]
    /\ value \in 0 .. ValueRange - 1
    /\ suspend_thread \in Seq(Thread)
    /\ gone \in BOOLEAN /\ wild \in BOOLEAN
    /\ granted \subseteq Thread

\* The threads on the list of the semaphore are the suspended ones, each once,
\* and a running timer is that of one of them: rt_thread_timeout asserts that
\* the thread it resumes is suspended.
ListExact ==
    /\ IsInjective(suspend_thread)
    /\ ToSet(suspend_thread) = {t \in Thread : stat[t] = "SUSPEND"}
    /\ timer \subseteq ToSet(suspend_thread)

\* A thread that was resumed takes the answer home: it finds RT_EOK exactly
\* when a release has given it a token, whatever timeouts and resets race with
\* the release.  (Signals break this: the thread may miss that it was resumed by
\* one.)
AnswerIsTrue == \A t \in Thread \ Signalled :
    pc[t] \in {"schedule", "off", "check"} /\ stat[t] = "READY" =>
        (error[t] = "EOK" <=> t \in granted)

\* A thread waits only while there is no token for it to take.
NoIdleToken == suspend_thread # << >> => value = 0

\* With RT_IPC_FLAG_PRIO the next thread to be resumed is one of the highest
\* priority among those that wait.
PrioFirst == Flag = "PRIO" =>
    \A i, j \in DOMAIN suspend_thread :
        i < j => Priority[suspend_thread[i]] <= Priority[suspend_thread[j]]

\* Threads that no other thread can overtake again and again.
Favoured == IF Flag = "FIFO"
            THEN Thread
            ELSE {t \in Thread : \A s \in Thread : Priority[t] <= Priority[s]}

\* If tokens keep coming, every thread that waits on a FIFO semaphore is served,
\* and every one of the highest priority on a priority semaphore.
Served ==
    []<><<rt_sem_release>>_vars =>
        \A t \in Favoured : stat[t] = "SUSPEND" ~> stat[t] = "READY"

\* A call with a waiting time returns; and detaching wakes every waiting thread, so
\* that the call of each returns.
CallsReturn ==
    /\ \A t \in Thread : t \in timer ~> pc[t] = "run"
    /\ gone ~> \A t \in Thread : pc[t] = "run"

=============================================================================
