------------------------------ MODULE DataQueue ------------------------------
(***************************************************************************)
(* The data queue of components/drivers/src/dataqueue.c: a ring with two   *)
(* indices that only grow.  A pop resumes a waiting pusher only when the   *)
(* queue has fallen to its low water mark.                                 *)
(***************************************************************************)
EXTENDS IpcWait

CONSTANTS
    Data, NoData,
    QueueSize,     \* queue->size
    Lwm,           \* queue->lwm
    MaxPut         \* bound: no push begins beyond this index

\* The indices are of 16 bits; at 2^16 put_index wraps and the test for a full queue
\* fails.  A thread can be in one push, so both stay below MaxPut + Cardinality(Thread).
ASSUME DqAssumption ==
    /\ QueueSize \in 1 .. 65535 /\ Lwm \in Nat
    /\ MaxPut \in Nat /\ MaxPut + Cardinality(Thread) < 65536

VARIABLES
    items, get_index, put_index,
    suspended_push_list, suspended_pop_list,
    dq,            \* per thread: the call it is in
    data_ptr       \* what the last rt_data_queue_pop returned

indices == <<items, get_index, put_index>>
dqvars == <<indices, suspended_push_list, suspended_pop_list, dq, data_ptr>>

NoDq == [op |-> "none", data |-> NoData, time |-> "none"]

DqReturns(t) ==
    /\ Return(t)
    /\ dq' = [dq EXCEPT ![t] = NoDq]

DqFails(t) ==
    /\ DqReturns(t)
    /\ UNCHANGED <<stat, timer, indices, suspended_push_list, suspended_pop_list, data_ptr>>

-----------------------------------------------------------------------------
FullLate == put_index - get_index > QueueSize

Full == put_index - get_index = QueueSize

PushData(d) ==
    /\ ~Full
    /\ items' = [items EXCEPT ![put_index % QueueSize] = d]
    /\ put_index' = put_index + 1
    /\ IF suspended_pop_list # << >>
       THEN Resume({Head(suspended_pop_list)}) /\ suspended_pop_list' = Tail(suspended_pop_list)
       ELSE UNCHANGED <<stat, timer, suspended_pop_list>>
    /\ UNCHANGED <<get_index, suspended_push_list, data_ptr>>

\* One round of rt_data_queue_push under the lock.
PushRound(t, d, time) ==
    \/ PushData(d) /\ DqReturns(t)
    \/ Full /\ time = "none" /\ DqFails(t)
    \/ /\ Full /\ time # "none"
       /\ Suspend(t, time)
       /\ Fail({t}, "EOK")
       /\ suspended_push_list' = Append(suspended_push_list, t)
       /\ dq' = [dq EXCEPT ![t] = [op |-> "push", data |-> d, time |-> time]]
       /\ UNCHANGED <<indices, suspended_pop_list, data_ptr>>

rt_data_queue_push(t, d, time) ==
    /\ pc[t] = "run" /\ put_index < MaxPut
    /\ PushRound(t, d, time)
    /\ UNCHANGED <<sig, delivering>>

-----------------------------------------------------------------------------
Empty == get_index = put_index

PopData ==
    /\ ~Empty
    /\ data_ptr' = items[get_index % QueueSize]
    /\ get_index' = get_index + 1
    /\ IF put_index - get_index' <= Lwm /\ suspended_push_list # << >>
       THEN /\ Resume({Head(suspended_push_list)})
            /\ suspended_push_list' = Tail(suspended_push_list)
       ELSE UNCHANGED <<stat, timer, suspended_push_list>>
    /\ UNCHANGED <<items, put_index, suspended_pop_list>>

\* One round of rt_data_queue_pop under the lock.
PopRound(t, time) ==
    \/ PopData /\ DqReturns(t)
    \/ Empty /\ time = "none" /\ DqFails(t)
    \/ /\ Empty /\ time # "none"
       /\ Suspend(t, time)
       /\ Fail({t}, "EOK")
       /\ suspended_pop_list' = Append(suspended_pop_list, t)
       /\ dq' = [dq EXCEPT ![t] = [op |-> "pop", data |-> NoData, time |-> time]]
       /\ UNCHANGED <<indices, suspended_push_list, data_ptr>>

rt_data_queue_pop(t, time) ==
    /\ pc[t] = "run"
    /\ PopRound(t, time)
    /\ UNCHANGED <<sig, delivering>>

-----------------------------------------------------------------------------
\* A thread is back from rt_schedule, with an error or to look again, with the
\* same waiting time as before.
DqBack(t) ==
    /\ pc[t] = "check" /\ dq[t].op # "none"
    /\ \/ error[t] # "EOK" /\ DqFails(t)
       \/ error[t] = "EOK" /\ dq[t].op = "push" /\ PushRound(t, dq[t].data, dq[t].time)
       \/ error[t] = "EOK" /\ dq[t].op = "pop" /\ PopRound(t, dq[t].time)
    /\ UNCHANGED <<sig, delivering>>

\* What resumes a thread otherwise takes it off the list it is on.
DqUnlink(t) ==
    /\ suspended_push_list' = RemoveFirst(suspended_push_list, t)
    /\ suspended_pop_list' = RemoveFirst(suspended_pop_list, t)
    /\ UNCHANGED <<indices, dq, data_ptr>>

\* rt_data_queue_init
DqInit ==
    /\ items = [i \in 0 .. QueueSize - 1 |-> NoData]
    /\ get_index = 0 /\ put_index = 0
    /\ suspended_push_list = << >> /\ suspended_pop_list = << >>
    /\ dq = [t \in Thread |-> NoDq]
    /\ data_ptr = NoData

-----------------------------------------------------------------------------
(* Properties.                                                             *)

\* Type invariant.
DqTypeOK ==
    /\ items \in [0 .. QueueSize - 1 -> Data \cup {NoData}]
    /\ get_index \in Nat /\ put_index \in get_index .. get_index + QueueSize
    /\ suspended_push_list \in Seq(Thread) /\ suspended_pop_list \in Seq(Thread)
    /\ dq \in [Thread -> [op : {"none", "push", "pop"}, data : Data \cup {NoData},
                          time : {"none", "ticks", "forever"}]]
    /\ data_ptr \in Data \cup {NoData}

InDq(op) == {t \in Thread : dq[t].op = op}
DqWoken(op) == {t \in InDq(op) : stat[t] = "READY" /\ error[t] = "EOK"}

\* No wake-up is lost: while a thread waits to pop, every item has a thread on
\* its way; while one waits to push, so has every place below the mark.
NoLostData ==
    /\ suspended_pop_list # << >> =>
          put_index - get_index <= Cardinality(DqWoken("pop"))
    /\ suspended_push_list # << >> =>
          Min({Lwm + 1, QueueSize}) - (put_index - get_index) <= Cardinality(DqWoken("push"))

\* The items in the order of the queue.
DqQueue == [i \in 1 .. put_index - get_index |-> items[(get_index + i - 1) % QueueSize]]

=============================================================================
