------------------------------- MODULE Event ---------------------------------
(***************************************************************************)
(* The event object of src/ipc.c: a set of events, and threads that wait   *)
(* for all or for any of a set, with or without clearing what they got.    *)
(***************************************************************************)
EXTENDS IpcWait

CONSTANTS
    EventBit,        \* the events, bits of a word in the code
    EventFlag,       \* the order of its list, "FIFO" or "PRIO"
    EventOption      \* the options in use, of {"AND"}, {"OR"} and with "CLEAR"

VARIABLES
    set,                    \* event->set
    suspend_event_thread,   \* event->parent.suspend_thread
    event_set, event_info,  \* per thread: what it waits for, then what it got
    receiving,              \* the threads that wait in rt_event_recv
    given,                  \* history: those of them that a send resumed
    consumers               \* history, per event: how many threads were given and
                            \* cleared it since it was last sent

evvars == <<set, suspend_event_thread, event_set, event_info, receiving, given, consumers>>

-----------------------------------------------------------------------------
Satisfied(option, want, have) ==
    IF "AND" \in option THEN want \subseteq have ELSE want \cap have # {}

VisitKeepsSet(acc, t) ==
    IF Satisfied(event_info[t], event_set[t], acc.set)
    THEN [set |-> acc.set, woken |-> acc.woken \cup {t},
          got |-> [acc.got EXCEPT ![t] = @ \cap acc.set], list |-> RemoveFirst(acc.list, t)]
    ELSE acc

\* rt_event_send looks at one thread of the list: if its condition holds it gets
\* its events, which are cleared if it asked for that, and is resumed, which takes
\* it off the list.
Visit(acc, t) ==
    LET got == acc.got[t] \cap acc.set IN
    IF Satisfied(event_info[t], event_set[t], acc.set)
    THEN [set   |-> IF "CLEAR" \in event_info[t] THEN acc.set \ got ELSE acc.set,
          woken |-> acc.woken \cup {t},
          got   |-> [acc.got EXCEPT ![t] = got],
          list  |-> RemoveFirst(acc.list, t)]
    ELSE acc

\* It looks at the threads in the order of the list.
Walk(s) ==
    LET first == [set |-> set \cup s, woken |-> {}, got |-> event_set,
                  list |-> suspend_event_thread]
        walk[i \in 0 .. Len(suspend_event_thread)] ==
          IF i = 0 THEN first ELSE Visit(walk[i - 1], suspend_event_thread[i])
    IN  walk[Len(suspend_event_thread)]

\* rt_event_send, by a thread or an interrupt handler.
rt_event_send(s) == LET walk == Walk(s) IN
    /\ set' = walk.set /\ event_set' = walk.got
    /\ suspend_event_thread' = walk.list
    /\ Resume(walk.woken)
    /\ consumers' = [b \in EventBit |->
          (IF b \in s THEN 0 ELSE consumers[b]) +
             Cardinality({t \in walk.woken : "CLEAR" \in event_info[t] /\ b \in walk.got[t]})]
    /\ given' = given \cup walk.woken
    /\ UNCHANGED <<error, pc, sig, delivering, event_info, receiving>>

RecvAtOnce(t, want, option) ==
    /\ Satisfied(option, want, set)
    /\ set' = IF "CLEAR" \in option THEN set \ want ELSE set
    /\ consumers' = [b \in EventBit |->
          IF "CLEAR" \in option /\ b \in set \cap want THEN consumers[b] + 1
                                                       ELSE consumers[b]]
    /\ UNCHANGED <<stat, timer, error, pc, suspend_event_thread, event_set, event_info,
                   receiving, given>>

RecvRefused(t, want, option) ==
    /\ ~Satisfied(option, want, set)
    /\ UNCHANGED <<stat, timer, error, pc, evvars>>

RecvWaits(t, want, option, time) ==
    /\ ~Satisfied(option, want, set)
    /\ event_set' = [event_set EXCEPT ![t] = want]
    /\ event_info' = [event_info EXCEPT ![t] = option]
    /\ receiving' = receiving \cup {t}
    /\ Suspend(t, time)
    /\ suspend_event_thread' = Placed(EventFlag, suspend_event_thread, t, Priority)
    /\ Fail({t}, "EOK")
    /\ UNCHANGED <<set, given, consumers>>

\* rt_event_recv up to its rt_schedule.
rt_event_recv(t, want, option, time) ==
    /\ pc[t] = "run"
    /\ \/ RecvAtOnce(t, want, option)
       \/ time = "none" /\ RecvRefused(t, want, option)
       \/ time # "none" /\ RecvWaits(t, want, option, time)
    /\ UNCHANGED <<sig, delivering>>

\* The rest of it: without an error *recved is event_set of the thread.  Like
\* the error, what it waited for is not read any more.
EventBack(t) ==
    /\ pc[t] = "check" /\ t \in receiving
    /\ Return(t)
    /\ event_set' = [event_set EXCEPT ![t] = {}]
    /\ event_info' = [event_info EXCEPT ![t] = {}]
    /\ receiving' = receiving \ {t}
    /\ given' = given \ {t}
    /\ UNCHANGED <<stat, timer, sig, delivering, set, suspend_event_thread, consumers>>

\* rt_event_control with RT_IPC_CMD_RESET.
rt_event_control ==
    /\ Resume(ToSet(suspend_event_thread)) /\ Fail(ToSet(suspend_event_thread), "ERROR")
    /\ suspend_event_thread' = << >>
    /\ set' = {}
    /\ UNCHANGED <<pc, sig, delivering, event_set, event_info, receiving, given, consumers>>

\* What resumes a thread otherwise takes it off the list.
EventUnlink(t) ==
    /\ suspend_event_thread' = RemoveFirst(suspend_event_thread, t)
    /\ UNCHANGED <<set, event_set, event_info, receiving, given, consumers>>

\* rt_event_init
EventInit ==
    /\ set = {} /\ suspend_event_thread = << >> /\ receiving = {}
    /\ event_set = [t \in Thread |-> {}] /\ event_info = [t \in Thread |-> {}]
    /\ given = {}
    /\ consumers = [b \in EventBit |-> 0]

-----------------------------------------------------------------------------
(* Properties.                                                             *)

\* Type invariant.
EventTypeOK ==
    /\ set \subseteq EventBit
    /\ suspend_event_thread \in Seq(Thread)
    /\ event_set \in [Thread -> SUBSET EventBit]
    /\ event_info \in [Thread -> EventOption \cup {{}}]
    /\ receiving \subseteq Thread
    /\ given \subseteq receiving
    /\ consumers \in [EventBit -> Nat]

\* No thread is left waiting for what is there: the conditions of the threads on
\* the list are false, although one walk may clear events between two of them.
NoneOverlooked == \A t \in ToSet(suspend_event_thread) :
    ~Satisfied(event_info[t], event_set[t], set)

\* An event that was sent once is given to one clearing thread, and a thread
\* returns RT_EOK exactly if a send gave it what it waits for, whatever timeout
\* or reset comes before it runs: no event is cleared and then lost.
ConsumedOnce ==
    /\ \A b \in EventBit : consumers[b] <= 1
    /\ \A t \in receiving : stat[t] = "READY" => (error[t] = "EOK" <=> t \in given)

=============================================================================
