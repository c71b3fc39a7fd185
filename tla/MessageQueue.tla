---------------------------- MODULE MessageQueue -----------------------------
(***************************************************************************)
(* The message queue of src/ipc.c: slots on a free list, messages on a     *)
(* linked list with a head and a tail.  A sender takes a slot under the    *)
(* lock, fills it without the lock and links it under the lock again; a    *)
(* receiver unlinks a slot, copies it without the lock and gives it back.  *)
(* An interrupt handler that sends is a thread that does nothing else.     *)
(***************************************************************************)
EXTENDS IpcWait

CONSTANTS
    Content, NoContent,   \* what is in a message
    Slot,                 \* the rt_mq_message blocks of the queue
    NULL,
    MqFlag                \* the order of its list, "FIFO" or "PRIO"

ASSUME MqAssumption == IsFiniteSet(Slot) /\ Slot # {} /\ NULL \notin Slot

VARIABLES
    msg_queue_free, msg_queue_head, msg_queue_tail,
    next, content,        \* per slot
    mq_entry,             \* mq->entry
    suspend_mq_thread,    \* mq->parent.suspend_thread
    mq,                   \* per thread: the call it is in, and its slot
    received              \* history: the content that was last taken off the queue

lists == <<msg_queue_free, msg_queue_head, msg_queue_tail, next>>
mqvars == <<lists, content, mq_entry, suspend_mq_thread, mq, received>>

NoMq == [op |-> "none", msg |-> NoContent, time |-> "none", slot |-> NULL]

\* The slots that are linked from p on; a cycle shows as one slot too many.
Chain(p) ==
    LET node[i \in 1 .. Cardinality(Slot) + 1] ==
          IF i = 1 THEN p ELSE IF node[i - 1] = NULL THEN NULL ELSE next[node[i - 1]]
    IN  [i \in 1 .. Cardinality({k \in DOMAIN node : node[k] # NULL}) |-> node[i]]

\* The slots of a list are put on top of one another, the first one on top of p:
\* what is under s.
Before(list, s, p) == LET i == CHOOSE k \in DOMAIN list : list[k] = s
                      IN  IF i = 1 THEN p ELSE list[i - 1]

-----------------------------------------------------------------------------
(* Sending.                                                                *)

\* rt_mq_send and rt_mq_urgent up to the end of their first section.  Without a
\* free slot they return -RT_EFULL and change nothing.
MqSendTakes(t, op, m) ==
    /\ pc[t] = "run"
    /\ msg_queue_free # NULL
    /\ msg_queue_free' = next[msg_queue_free]
    /\ mq' = [mq EXCEPT ![t] = [op |-> op, msg |-> m, time |-> "none", slot |-> msg_queue_free]]
    /\ pc' = [pc EXCEPT ![t] = "fill"]
    /\ UNCHANGED <<stat, timer, error, sig, delivering, msg_queue_head, msg_queue_tail,
                   next, content, mq_entry, suspend_mq_thread, received>>

\* Without the lock: only rt_mq_send sets the link.
MqSendFills(t) == LET msg == mq[t].slot IN
    /\ pc[t] = "fill"
    /\ pc' = [pc EXCEPT ![t] = "link"]
    /\ next' = IF mq[t].op = "send" THEN [next EXCEPT ![msg] = NULL] ELSE next
    /\ content' = [content EXCEPT ![msg] = mq[t].msg]
    /\ UNCHANGED <<stat, timer, error, sig, delivering, msg_queue_free, msg_queue_head,
                   msg_queue_tail, mq_entry, suspend_mq_thread, mq, received>>

LinkLast(msg) ==
    /\ next' = IF msg_queue_tail = NULL THEN next
                                        ELSE [next EXCEPT ![msg_queue_tail] = msg]
    /\ msg_queue_head' = IF msg_queue_head = NULL THEN msg ELSE msg_queue_head
    /\ msg_queue_tail' = msg

LinkFirst(msg) ==
    /\ next' = [next EXCEPT ![msg] = msg_queue_head]
    /\ msg_queue_head' = msg
    /\ msg_queue_tail' = IF msg_queue_tail = NULL THEN msg ELSE msg_queue_tail

\* The second section: the slot joins the queue and a receiver is resumed.
MqSendLinks(t) ==
    /\ pc[t] = "link"
    /\ \/ mq[t].op = "send" /\ LinkLast(mq[t].slot)
       \/ mq[t].op = "urgent" /\ LinkFirst(mq[t].slot)
    /\ mq_entry' = mq_entry + 1
    /\ IF suspend_mq_thread # << >>
       THEN Resume({Head(suspend_mq_thread)}) /\ suspend_mq_thread' = Tail(suspend_mq_thread)
       ELSE UNCHANGED <<stat, timer, suspend_mq_thread>>
    /\ Return(t)
    /\ mq' = [mq EXCEPT ![t] = NoMq]
    /\ UNCHANGED <<sig, delivering, msg_queue_free, content, received>>

-----------------------------------------------------------------------------
(* Receiving.                                                              *)

UnlinkKeepsTail(t) == LET msg == msg_queue_head IN
    /\ mq_entry > 0
    /\ msg_queue_head' = next[msg]
    /\ mq_entry' = mq_entry - 1
    /\ received' = content[msg]
    /\ mq' = [mq EXCEPT ![t] = [op |-> "copy", msg |-> content[msg], time |-> "none",
                                slot |-> msg]]
    /\ pc' = [pc EXCEPT ![t] = "copy"]
    /\ UNCHANGED <<stat, timer, error, msg_queue_free, msg_queue_tail, next, content,
                   suspend_mq_thread>>

\* The head of the queue is unlinked.
MqUnlinks(t) == LET msg == msg_queue_head IN
    /\ mq_entry > 0
    /\ msg_queue_head' = next[msg]
    /\ msg_queue_tail' = IF msg_queue_tail = msg THEN NULL ELSE msg_queue_tail
    /\ mq_entry' = mq_entry - 1
    /\ received' = content[msg]
    /\ mq' = [mq EXCEPT ![t] = [op |-> "copy", msg |-> content[msg], time |-> "none",
                                slot |-> msg]]
    /\ pc' = [pc EXCEPT ![t] = "copy"]
    /\ UNCHANGED <<stat, timer, error, msg_queue_free, next, content, suspend_mq_thread>>

MqWaits(t, time) ==
    /\ Suspend(t, time)
    /\ Fail({t}, "EOK")
    /\ suspend_mq_thread' = Placed(MqFlag, suspend_mq_thread, t, Priority)
    /\ mq' = [mq EXCEPT ![t] = [op |-> "recv", msg |-> NoContent, time |-> time,
                                slot |-> NULL]]
    /\ UNCHANGED <<lists, content, mq_entry, received>>

MqRecvFails(t) ==
    /\ Return(t)
    /\ mq' = [mq EXCEPT ![t] = NoMq]
    /\ UNCHANGED <<stat, timer, lists, content, mq_entry, suspend_mq_thread, received>>

\* One round of rt_mq_recv under the lock.
MqRecvRound(t, time) ==
    \/ MqUnlinks(t)
    \/ mq_entry = 0 /\ time = "none" /\ MqRecvFails(t)
    \/ mq_entry = 0 /\ time # "none" /\ MqWaits(t, time)

rt_mq_recv(t, time) ==
    /\ pc[t] = "run"
    /\ MqRecvRound(t, time)
    /\ UNCHANGED <<sig, delivering>>

\* A thread is back from rt_schedule, with an error or to look again.
MqBack(t) ==
    /\ pc[t] = "check" /\ mq[t].op = "recv"
    /\ \/ error[t] # "EOK" /\ MqRecvFails(t)
       \/ /\ error[t] = "EOK"
          /\ \E time \in IF mq[t].time = "ticks" THEN {"none", "ticks"} ELSE {mq[t].time} :
                MqRecvRound(t, time)
    /\ UNCHANGED <<sig, delivering>>

\* After the copy, which is the step from "copy" to "release", the slot goes to
\* the free list.
MqCopies(t) ==
    /\ pc[t] = "copy"
    /\ pc' = [pc EXCEPT ![t] = "release"]
    /\ UNCHANGED <<stat, timer, error, sig, delivering, mqvars>>

MqReleases(t) == LET msg == mq[t].slot IN
    /\ pc[t] = "release"
    /\ next' = [next EXCEPT ![msg] = msg_queue_free]
    /\ msg_queue_free' = msg
    /\ Return(t)
    /\ mq' = [mq EXCEPT ![t] = NoMq]
    /\ UNCHANGED <<stat, timer, sig, delivering, msg_queue_head, msg_queue_tail, content,
                   mq_entry, suspend_mq_thread, received>>

-----------------------------------------------------------------------------
\* rt_mq_control with RT_IPC_CMD_RESET moves the slots to the free list one by
\* one, so the last one is the first there.
rt_mq_control ==
    LET queued == Chain(msg_queue_head)
        waiting == ToSet(suspend_mq_thread)
    IN  /\ Resume(waiting) /\ Fail(waiting, "ERROR")
        /\ suspend_mq_thread' = << >>
        /\ next' = [s \in Slot |->
              IF s \notin ToSet(queued) THEN next[s]
              ELSE Before(queued, s, msg_queue_free)]
        /\ msg_queue_free' = IF queued = << >> THEN msg_queue_free ELSE Last(queued)
        /\ msg_queue_head' = NULL
        /\ msg_queue_tail' = IF msg_queue_tail \in ToSet(queued) THEN NULL ELSE msg_queue_tail
        /\ mq_entry' = 0
        /\ UNCHANGED <<pc, sig, delivering, content, mq, received>>

\* What resumes a thread otherwise takes it off the list.
MqUnlink(t) ==
    /\ suspend_mq_thread' = RemoveFirst(suspend_mq_thread, t)
    /\ UNCHANGED <<lists, content, mq_entry, mq, received>>

\* rt_mq_init
MqInit ==
    LET order == SetToSeq(Slot) IN
    /\ msg_queue_free = Last(order)
    /\ next = [s \in Slot |-> Before(order, s, NULL)]
    /\ msg_queue_head = NULL /\ msg_queue_tail = NULL
    /\ content = [s \in Slot |-> NoContent]
    /\ mq_entry = 0
    /\ suspend_mq_thread = << >>
    /\ mq = [t \in Thread |-> NoMq]
    /\ received = NoContent

-----------------------------------------------------------------------------
(* Properties.                                                             *)

\* Type invariant.
MqTypeOK ==
    /\ {msg_queue_free, msg_queue_head, msg_queue_tail} \subseteq Slot \cup {NULL}
    /\ next \in [Slot -> Slot \cup {NULL}]
    /\ content \in [Slot -> Content \cup {NoContent}]
    /\ mq_entry \in 0 .. Cardinality(Slot)
    /\ suspend_mq_thread \in Seq(Thread)
    /\ mq \in [Thread -> [op : {"none", "send", "urgent", "recv", "copy"},
                          msg : Content \cup {NoContent},
                          time : {"none", "ticks", "forever"}, slot : Slot \cup {NULL}]]
    /\ received \in Content \cup {NoContent}

InMq(op) == {t \in Thread : mq[t].op = op}
MqWoken == {t \in InMq("recv") : stat[t] = "READY" /\ error[t] = "EOK"}

\* The threads that have a slot in their hands, between two sections.
Handlers == {t \in Thread : mq[t].slot # NULL}

\* Every slot is on the free list, in the queue or in the hands of one thread,
\* mq->entry and the tail agree with the links, and what a thread has filled or
\* is to copy stays in its slot while it works without the lock.
ChainsExact ==
    LET free == Chain(msg_queue_free)
        queued == Chain(msg_queue_head)
    IN  /\ ToSet(free) \cup ToSet(queued) \cup {mq[t].slot : t \in Handlers} = Slot
        /\ Len(free) + Len(queued) + Cardinality(Handlers) = Cardinality(Slot)
        /\ mq_entry = Len(queued)
        /\ msg_queue_tail = IF queued = << >> THEN NULL ELSE Last(queued)
        /\ \A t \in Handlers : pc[t] # "fill" => content[mq[t].slot] = mq[t].msg

\* No wake-up is lost: while a thread waits, every message has a thread on its
\* way that was resumed for it.
NoLostMessage == suspend_mq_thread # << >> => mq_entry <= Cardinality(MqWoken)

\* The messages in the order of the queue.
MqQueue == LET queued == Chain(msg_queue_head)
           IN  [i \in 1 .. Len(queued) |-> content[queued[i]]]

=============================================================================
