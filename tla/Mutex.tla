------------------------------- MODULE Mutex ---------------------------------
(***************************************************************************)
(* The mutexes of src/ipc.c: recursive takes, the handover of a release to *)
(* the first thread that waits, and the priority inheritance.  No thread   *)
(* is sent signals here.                                                   *)
(***************************************************************************)
EXTENDS IpcWait

CONSTANTS
    Mutex,         \* the mutexes, numbers
    NoThread,      \* RT_NULL
    HoldRange,     \* number of values of mutex->hold: 2^8 in the kernel
    MaxTaken,      \* bound on the takes that a thread has not released
    Nested,        \* whether threads release in the reverse order of their takes
    Use            \* ways to use them: the flag of the mutexes, which of them, the
                   \* waiting times of each thread, and whether a thread takes a
                   \* further mutex only in increasing order

RT_PRIORITY_NONE == 255

ASSUME MutexAssumption ==
    /\ Mutex \subseteq Nat /\ Mutex # {} /\ IsFiniteSet(Mutex) /\ Signalled = {}
    /\ Use \subseteq [flag : {"FIFO", "PRIO"}, mutex : SUBSET Mutex,
                      time : [Thread -> SUBSET Time], ordered : BOOLEAN]
    /\ NoThread \notin Thread
    /\ Priority \in [Thread -> 0 .. RT_PRIORITY_NONE - 1]
    /\ HoldRange \in Nat \ {0} /\ MaxTaken \in Nat
    /\ Nested \in BOOLEAN

VARIABLES
    value, owner, original_priority, hold, suspend_thread,   \* per mutex
    current_priority,                                        \* per thread
    arg,       \* per thread: the mutex of the call it is in
    used,      \* how the mutexes are used, one of Use
    taken      \* history: the takes that returned RT_EOK and were not released

mutexvars == <<value, owner, original_priority, hold, suspend_thread>>
vars == <<waitvars, used, mutexvars, current_priority, arg, taken>>

-----------------------------------------------------------------------------
(* rt_mutex_take.                                                          *)

\* The mutex belongs to t already.
TakeAgain(t, m) ==
    /\ owner[m] = t
    /\ hold' = [hold EXCEPT ![m] = (@ + 1) % HoldRange]
    /\ taken' = [taken EXCEPT ![t] = Append(@, m)]
    /\ Fail({t}, "EOK")
    /\ UNCHANGED <<value, owner, original_priority, suspend_thread, current_priority,
                   stat, timer, pc, arg>>

TakeUnchecked(t, m) ==
    /\ value' = [value EXCEPT ![m] = @ - 1]
    /\ owner' = [owner EXCEPT ![m] = t]
    /\ original_priority' = [original_priority EXCEPT ![m] = current_priority[t]]
    /\ hold' = [hold EXCEPT ![m] = (@ + 1) % HoldRange]
    /\ taken' = [taken EXCEPT ![t] = Append(@, m)]
    /\ Fail({t}, "EOK")
    /\ UNCHANGED <<suspend_thread, current_priority, stat, timer, pc, arg>>

TakeFree(t, m) ==
    /\ value[m] > 0
    /\ value' = [value EXCEPT ![m] = @ - 1]
    /\ owner' = [owner EXCEPT ![m] = t]
    /\ original_priority' = [original_priority EXCEPT ![m] = current_priority[t]]
    /\ hold' = [hold EXCEPT ![m] = (@ + 1) % HoldRange]
    /\ taken' = [taken EXCEPT ![t] = Append(@, m)]
    /\ Fail({t}, "EOK")
    /\ UNCHANGED <<suspend_thread, current_priority, stat, timer, pc, arg>>

TakeRefused(t, m) ==
    /\ value[m] = 0
    /\ Fail({t}, "ETIMEOUT")
    /\ UNCHANGED <<mutexvars, current_priority, stat, timer, pc, arg, taken>>

RaiseFirstOnly(t, m) ==
    IF suspend_thread[m] = << >> /\ current_priority[t] < current_priority[owner[m]]
    THEN [current_priority EXCEPT ![owner[m]] = current_priority[t]]
    ELSE current_priority

\* The owner inherits the priority of a more urgent thread that has to wait.
Raised(t, m) ==
    IF current_priority[t] < current_priority[owner[m]]
    THEN [current_priority EXCEPT ![owner[m]] = current_priority[t]]
    ELSE current_priority

TakeWaits(t, m, time) ==
    /\ value[m] = 0
    /\ current_priority' = Raised(t, m)
    /\ suspend_thread' = [suspend_thread EXCEPT ![m] = Placed(used.flag, @, t, current_priority')]
    /\ Suspend(t, time)
    /\ arg' = [arg EXCEPT ![t] = m]
    /\ UNCHANGED <<value, owner, original_priority, hold, taken>>

\* rt_mutex_take up to its rt_schedule.
rt_mutex_take(t, m, time) ==
    /\ pc[t] = "run" /\ m \in used.mutex
    /\ Len(taken[t]) < MaxTaken
    /\ used.ordered => \A k \in ToSet(taken[t]) : k <= m
    /\ \/ TakeAgain(t, m)
       \/ owner[m] # t /\ TakeFree(t, m)
       \/ owner[m] # t /\ time = "none" /\ TakeRefused(t, m)
       \/ owner[m] # t /\ time # "none" /\ TakeWaits(t, m, time) /\ Fail({t}, "EOK")
    /\ UNCHANGED <<sig, delivering, used>>

\* The rest of it: no error means that a release made t the owner.
TakeReturns(t) ==
    /\ pc[t] = "check"
    /\ pc' = [pc EXCEPT ![t] = "run"]
    /\ taken' = IF error[t] = "EOK" THEN [taken EXCEPT ![t] = Append(@, arg[t])]
                                    ELSE taken
    /\ UNCHANGED <<stat, timer, error, sig, delivering, used, mutexvars,
                   current_priority, arg>>

-----------------------------------------------------------------------------
(* rt_mutex_release.                                                       *)

ReleaseRefused(t, m) ==
    /\ owner[m] # t
    /\ Fail({t}, "ERROR")
    /\ UNCHANGED <<mutexvars, current_priority, stat, timer>>

ReleaseInner(t, m) ==
    /\ owner[m] = t
    /\ (hold[m] - 1) % HoldRange # 0
    /\ hold' = [hold EXCEPT ![m] = (@ - 1) % HoldRange]
    /\ UNCHANGED <<value, owner, original_priority, suspend_thread, current_priority,
                   stat, timer, error>>

ReleaseWithWaiters(t, m) ==
    /\ owner[m] = t
    /\ (hold[m] - 1) % HoldRange = 0
    /\ hold' = [hold EXCEPT ![m] = 0]
    /\ current_priority' = [current_priority EXCEPT ![t] = original_priority[m]]
    /\ value' = [value EXCEPT ![m] = @ + 1]
    /\ owner' = [owner EXCEPT ![m] = NoThread]
    /\ original_priority' = [original_priority EXCEPT ![m] = RT_PRIORITY_NONE]
    /\ UNCHANGED <<suspend_thread, stat, timer, error>>

\* The last hold, and nobody waits.
ReleaseFree(t, m) ==
    /\ owner[m] = t
    /\ (hold[m] - 1) % HoldRange = 0
    /\ suspend_thread[m] = << >>
    /\ hold' = [hold EXCEPT ![m] = 0]
    /\ current_priority' = [current_priority EXCEPT ![t] = original_priority[m]]
    /\ value' = [value EXCEPT ![m] = @ + 1]
    /\ owner' = [owner EXCEPT ![m] = NoThread]
    /\ original_priority' = [original_priority EXCEPT ![m] = RT_PRIORITY_NONE]
    /\ UNCHANGED <<suspend_thread, stat, timer, error>>

HandOverKeepsPriority(t, m) == LET next == Head(suspend_thread[m]) IN
    /\ owner[m] = t
    /\ (hold[m] - 1) % HoldRange = 0
    /\ suspend_thread[m] # << >>
    /\ UNCHANGED current_priority
    /\ owner' = [owner EXCEPT ![m] = next]
    /\ original_priority' = [original_priority EXCEPT ![m] = current_priority[next]]
    /\ hold' = [hold EXCEPT ![m] = 1]
    /\ suspend_thread' = [suspend_thread EXCEPT ![m] = Tail(@)]
    /\ Resume({next})
    /\ UNCHANGED <<value, error>>

HandOverToLast(t, m) == LET next == Last(suspend_thread[m]) IN
    /\ owner[m] = t
    /\ (hold[m] - 1) % HoldRange = 0
    /\ suspend_thread[m] # << >>
    /\ current_priority' = [current_priority EXCEPT ![t] = original_priority[m]]
    /\ owner' = [owner EXCEPT ![m] = next]
    /\ original_priority' = [original_priority EXCEPT ![m] = current_priority[next]]
    /\ hold' = [hold EXCEPT ![m] = 1]
    /\ suspend_thread' = [suspend_thread EXCEPT ![m] = Front(@)]
    /\ Resume({next})
    /\ UNCHANGED <<value, error>>

HandOverNoHold(t, m) == LET next == Head(suspend_thread[m]) IN
    /\ owner[m] = t
    /\ (hold[m] - 1) % HoldRange = 0
    /\ suspend_thread[m] # << >>
    /\ current_priority' = [current_priority EXCEPT ![t] = original_priority[m]]
    /\ owner' = [owner EXCEPT ![m] = next]
    /\ original_priority' = [original_priority EXCEPT ![m] = current_priority[next]]
    /\ hold' = [hold EXCEPT ![m] = 0]
    /\ suspend_thread' = [suspend_thread EXCEPT ![m] = Tail(@)]
    /\ Resume({next})
    /\ UNCHANGED <<value, error>>

\* The last hold, and the first thread of the list becomes the owner.
HandOver(t, m) == LET next == Head(suspend_thread[m]) IN
    /\ owner[m] = t
    /\ (hold[m] - 1) % HoldRange = 0
    /\ suspend_thread[m] # << >>
    /\ current_priority' = [current_priority EXCEPT ![t] = original_priority[m]]
    /\ owner' = [owner EXCEPT ![m] = next]
    /\ original_priority' = [original_priority EXCEPT ![m] = current_priority[next]]
    /\ hold' = [hold EXCEPT ![m] = 1]
    /\ suspend_thread' = [suspend_thread EXCEPT ![m] = Tail(@)]
    /\ Resume({next})
    /\ UNCHANGED <<value, error>>

\* The take that a release undoes: the last one of this mutex.
Released(s, m) ==
    IF m \in ToSet(s)
    THEN RemoveAt(s, Max({i \in DOMAIN s : s[i] = m}))
    ELSE s

rt_mutex_release(t, m) ==
    /\ pc[t] = "run"
    /\ Nested /\ taken[t] # << >> => m = Last(taken[t])
    /\ ReleaseRefused(t, m) \/ ReleaseInner(t, m) \/ ReleaseFree(t, m) \/ HandOver(t, m)
    /\ taken' = IF owner[m] = t THEN [taken EXCEPT ![t] = Released(@, m)] ELSE taken
    /\ UNCHANGED <<pc, arg, sig, delivering, used>>

-----------------------------------------------------------------------------
(* The steps of IpcWait: what resumes a thread takes it off its list.      *)

Unlink(t) ==
    /\ suspend_thread' = [m \in Mutex |-> RemoveFirst(suspend_thread[m], t)]
    /\ UNCHANGED <<value, owner, original_priority, hold, current_priority, arg, taken, used>>

objects == <<used, mutexvars, current_priority, arg, taken>>

Timeout(t) == rt_thread_timeout(t) /\ Unlink(t)
Proceed(t) == (rt_schedule(t) \/ SwitchBack(t)) /\ UNCHANGED objects

\* rt_mutex_init
Init ==
    /\ WaitInit
    /\ used \in Use
    /\ value = [m \in Mutex |-> 1]
    /\ owner = [m \in Mutex |-> NoThread]
    /\ original_priority = [m \in Mutex |-> RT_PRIORITY_NONE]
    /\ hold = [m \in Mutex |-> 0]
    /\ suspend_thread = [m \in Mutex |-> << >>]
    /\ current_priority = Priority
    /\ arg = [t \in Thread |-> CHOOSE m \in Mutex : TRUE]
    /\ taken = [t \in Thread |-> << >>]

Next == \E t \in Thread :
    \/ \E m \in Mutex, time \in used.time[t] : rt_mutex_take(t, m, time)
    \/ TakeReturns(t)
    \/ Proceed(t)
    \/ Timeout(t)
    \/ \E m \in Mutex : rt_mutex_release(t, m)

Spec == Init /\ [][Next]_vars

\* A READY thread goes on, a running timer expires, and a thread releases what
\* it holds: it undoes its last take, and gives up each mutex that it is free
\* again and again to give up.
Fairness == \A t \in Thread :
    /\ WF_vars(Proceed(t)) /\ WF_vars(TakeReturns(t)) /\ WF_vars(Timeout(t))
    /\ WF_vars(taken[t] # << >> /\ rt_mutex_release(t, Last(taken[t])))
    /\ \A m \in Mutex :
          SF_vars(m \in ToSet(taken[t]) /\ rt_mutex_release(t, m) /\ owner'[m] # t)

FairSpec == Spec /\ Fairness

-----------------------------------------------------------------------------
(* Properties.                                                             *)

\* Type invariant.
TypeOK ==
    /\ stat \in [Thread -> {"READY", "SUSPEND"}]
    /\ timer \subseteq Thread /\ sig \subseteq Signalled /\ delivering \subseteq Signalled
    /\ error \in [Thread -> Error]
    /\ pc \in [Thread -> {"run", "schedule", "off", "check"}]
    /\ used \in Use
    /\ value \in [Mutex -> {0, 1}]
    /\ owner \in [Mutex -> Thread \cup {NoThread}]
    /\ original_priority \in [Mutex -> 0 .. RT_PRIORITY_NONE]
    /\ hold \in [Mutex -> 0 .. HoldRange - 1]
    /\ suspend_thread \in [Mutex -> Seq(Thread)]
    /\ current_priority \in [Thread -> 0 .. RT_PRIORITY_NONE - 1]
    /\ arg \in [Thread -> Mutex]
    /\ taken \in [Thread -> Seq(Mutex)]

\* How many takes of m thread t has returned from and not released.
Holds(t, m) == Cardinality({i \in DOMAIN taken[t] : taken[t][i] = m})

\* Thread t was made the owner of m while it waited and has not returned yet.
Granted(t, m) ==
    pc[t] # "run" /\ stat[t] = "READY" /\ error[t] = "EOK" /\ arg[t] = m

\* At most one thread has returned from rt_mutex_take with RT_EOK, or is about
\* to: the owner, as many times as mutex->hold says.
Exclusive == \A m \in Mutex, t \in Thread :
    Holds(t, m) + (IF Granted(t, m) THEN 1 ELSE 0) =
        IF t = owner[m] THEN hold[m] ELSE 0

\* A thread waits only for a mutex that another thread owns, and its node is
\* on the list of that mutex alone.
NoStranded == \A t \in Thread :
    stat[t] = "SUSPEND" =>
        /\ owner[arg[t]] \notin {t, NoThread}
        /\ \A m \in Mutex : t \in ToSet(suspend_thread[m]) <=> m = arg[t]

\* A thread that has no mutex and waits for none has its own priority back.
Restored == \A t \in Thread :
    pc[t] = "run" /\ (\A m \in Mutex : owner[m] # t) =>
        current_priority[t] = Priority[t]

\* With one priority mutex the owner is at least as urgent as every thread that
\* waits for it, whoever waits, times out or is handed the mutex.
Inherits == used.flag = "PRIO" /\ Cardinality(used.mutex) = 1 => \A m \in Mutex :
    \A t \in ToSet(suspend_thread[m]) : current_priority[owner[m]] <= current_priority[t]

\* The threads that no other one can overtake for ever: all of them on FIFO
\* mutexes, the most urgent ones on a single priority mutex.
Unpassed(t) ==
    \/ used.flag = "FIFO"
    \/ Cardinality(used.mutex) = 1 /\ \A s \in Thread : Priority[t] <= Priority[s]

\* A call of rt_mutex_take returns, if mutexes are taken in order and released.
TakeEnds == \A t \in Thread : used.ordered /\ Unpassed(t) /\ pc[t] # "run" ~> pc[t] = "run"

=============================================================================
