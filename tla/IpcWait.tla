------------------------------ MODULE IpcWait --------------------------------
(***************************************************************************)
(* A thread that waits on a kernel object: the common part of src/ipc.c,   *)
(* with what rt_thread_suspend, rt_thread_resume, rt_thread_timeout and    *)
(* rt_schedule of the scheduler and the signals of src/signal.c do to it.  *)
(*                                                                         *)
(* A section under the kernel lock is one step (module CpusLock).  A       *)
(* waiting thread is SUSPEND from the section that puts it on the list of  *)
(* the object; it then goes through rt_schedule, where it may still be     *)
(* when it is resumed, and reads thread->error.  Module Scheduler shows    *)
(* which READY thread gets a CPU: here any of them may take its next step. *)
(***************************************************************************)
EXTENDS Integers, FiniteSets, SequencesExt

CONSTANTS
    Thread,
    Priority,    \* the priority of each thread
    Time,        \* the waiting times in use, of "none", "ticks" and "forever"
    Signalled    \* threads that are sent signals they have not masked

ASSUME IpcAssumption ==
    /\ IsFiniteSet(Thread)
    /\ Priority \in [Thread -> Nat]
    /\ Time \subseteq {"none", "ticks", "forever"}
    /\ Signalled \subseteq Thread

VARIABLES
    stat,       \* READY or SUSPEND
    timer,      \* the threads whose thread_timer is running
    error,      \* thread->error
    pc,         \* where a thread is in its call
    sig,        \* the threads with a pending signal
    delivering  \* the threads whose signal is still to be delivered

waitvars == <<stat, timer, error, pc, sig, delivering>>

Error == {"EOK", "ETIMEOUT", "ERROR", "EINTR"}

-----------------------------------------------------------------------------
(* The list of an object.                                                  *)

PlacedLast(order, list, t, prio) == Append(list, t)

\* rt_ipc_list_suspend puts t at the end (order "FIFO", RT_IPC_FLAG_FIFO) or
\* before the first thread of a lower priority ("PRIO", RT_IPC_FLAG_PRIO).
Placed(order, list, t, prio) ==
    LET k == SelectInSeq(list, LAMBDA s : order = "PRIO" /\ prio[t] < prio[s])
    IN  IF k = 0 THEN Append(list, t) ELSE InsertAt(list, k, t)

\* The thread suspends itself, with its timer running or not, and is on its way
\* to rt_schedule.
Suspend(t, time) ==
    /\ stat' = [stat EXCEPT ![t] = "SUSPEND"]
    /\ timer' = IF time = "ticks" THEN timer \cup {t} ELSE timer \ {t}
    /\ pc' = [pc EXCEPT ![t] = "schedule"]

\* rt_thread_resume of every thread of S: rt_ipc_list_resume for one of them.
Resume(S) ==
    /\ stat' = [t \in Thread |-> IF t \in S THEN "READY" ELSE stat[t]]
    /\ timer' = timer \ S

\* A call returns.  The error is read inside of a call that has reset it, so the
\* old one is forgotten here.
Return(t) ==
    /\ pc' = [pc EXCEPT ![t] = "run"]
    /\ error' = [error EXCEPT ![t] = "EOK"]

\* rt_ipc_list_resume_all gives them an error.
Fail(S, e) == error' = [t \in Thread |-> IF t \in S THEN e ELSE error[t]]

-----------------------------------------------------------------------------
(* The steps of a waiting thread that leave the object alone.              *)

\* rt_schedule: a thread that was resumed before it got here may stay on its
\* CPU; otherwise the CPU goes on with another one.
rt_schedule(t) ==
    /\ pc[t] = "schedule"
    /\ \/ stat[t] = "READY" /\ pc' = [pc EXCEPT ![t] = "check"]
       \/ pc' = [pc EXCEPT ![t] = "off"]
    /\ UNCHANGED <<stat, timer, error, sig, delivering>>

\* A CPU goes on with t, in rt_schedule, which ends with rt_thread_handle_sig;
\* a pending signal of a thread that was switched out while READY is handled
\* in _signal_entry just before that.
SwitchBack(t) ==
    /\ pc[t] = "off" /\ stat[t] = "READY"
    /\ pc' = [pc EXCEPT ![t] = "check"]
    /\ sig' = sig \ {t}
    /\ error' = IF t \in sig THEN [error EXCEPT ![t] = "EINTR"] ELSE error
    /\ UNCHANGED <<stat, timer, delivering>>

\* rt_thread_kill records the signal ...
rt_thread_kill(t) ==
    /\ t \in Signalled /\ t \notin sig
    /\ sig' = sig \cup {t}
    /\ delivering' = delivering \cup {t}
    /\ UNCHANGED <<stat, timer, error, pc>>

\* ... and _signal_deliver resumes the thread if it is suspended and has not
\* handled the signal yet.  One that is READY handles it when it is switched to,
\* which may be at once if it is not in a call.
_signal_deliver(t) ==
    /\ t \in delivering
    /\ delivering' = delivering \ {t}
    /\ \/ stat[t] = "SUSPEND" /\ t \in sig /\ Resume({t}) /\ UNCHANGED <<error, sig>>
       \/ stat[t] = "READY" /\ UNCHANGED <<stat, timer, error, sig>>
       \/ t \notin sig /\ UNCHANGED <<stat, timer, error, sig>>
       \/ /\ stat[t] = "READY" /\ pc[t] = "run" /\ t \in sig
          /\ sig' = sig \ {t}
          /\ Fail({t}, "EINTR")
          /\ UNCHANGED <<stat, timer>>
    /\ UNCHANGED pc

\* rt_thread_timeout, of a timer that rt_timer_check has removed.
rt_thread_timeout(t) ==
    /\ t \in timer
    /\ Resume({t})
    /\ Fail({t}, "ETIMEOUT")
    /\ UNCHANGED <<pc, sig, delivering>>

WaitInit ==
    /\ stat = [t \in Thread |-> "READY"]
    /\ timer = {} /\ sig = {} /\ delivering = {}
    /\ error = [t \in Thread |-> "EOK"]
    /\ pc = [t \in Thread |-> "run"]

=============================================================================
