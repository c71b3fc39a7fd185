----------------------------- MODULE IpcObjects ------------------------------
(***************************************************************************)
(* The objects that threads wait on, with those of their operations that   *)
(* are modelled (README, section 10), and a driver that puts three of them *)
(* together.  They share the waiting of IpcWait and nothing else, so one   *)
(* behaviour uses one of them, which Init chooses.                         *)
(***************************************************************************)
EXTENDS WifiTx, MessageQueue, DataQueue, Completion, Heap, Pipe

CONSTANTS
    Object,     \* the objects in use
    Call,       \* per thread: the arguments of the calls that it makes, by function
    IsrMsg      \* the messages that interrupt handlers send to the mailbox

\* The arguments are of their types.
ASSUME CallAssumption ==
    /\ IsrMsg \subseteq Msg
    /\ \A t \in Thread :
          /\ Call[t].mb_send \subseteq [msg : Msg, time : Time]
          /\ Call[t].mb_recv \subseteq Time
          /\ Call[t].mp_alloc \subseteq Time
          /\ Call[t].event_recv \subseteq
                [want : SUBSET EventBit, option : EventOption, time : Time]
          /\ Call[t].mq_send \subseteq [op : {"send", "urgent"}, msg : Content]
          /\ Call[t].mq_recv \subseteq Time
          /\ Call[t].dq_push \subseteq [data : Data, time : Time]
          /\ Call[t].dq_pop \subseteq Time
          /\ Call[t].completion_wait \subseteq Time
          /\ Call[t].ring_put \cup Call[t].ring_force \cup Call[t].ring_get \subseteq Nat
          /\ Call[t].pipe_open \subseteq (SUBSET {"read", "write"}) \ {{}}
          /\ Call[t].pipe_count \subseteq Nat

VARIABLE object

vars == <<waitvars, object, mbvars, mpvars, evvars, wifivars, mqvars, dqvars, cpvars, heapvars,
          ringvars, pipevars>>

\* The variables of all objects but one.
Drivers == <<mqvars, dqvars, cpvars, heapvars, ringvars, pipevars>>
NotMail == UNCHANGED <<object, mpvars, evvars, wifivars, Drivers>>
NotPool == UNCHANGED <<object, mbvars, evvars, wifivars, Drivers>>
NotEvent == UNCHANGED <<object, mbvars, mpvars, wifivars, Drivers>>
NotWifi == UNCHANGED <<object, Drivers>>
Kernel == <<object, mbvars, mpvars, evvars, wifivars>>
NotMq == UNCHANGED <<Kernel, dqvars, cpvars, heapvars, ringvars, pipevars>>
NotDq == UNCHANGED <<Kernel, mqvars, cpvars, heapvars, ringvars, pipevars>>
NotCompletion == UNCHANGED <<Kernel, mqvars, dqvars, heapvars, ringvars, pipevars>>
NotHeap == UNCHANGED <<Kernel, mqvars, dqvars, cpvars, ringvars, pipevars>>
NotPipe == UNCHANGED <<Kernel, mqvars, dqvars, cpvars, heapvars>>

Init ==
    /\ WaitInit
    /\ object \in Object
    /\ MailInit /\ PoolInit /\ EventInit /\ WifiInit /\ MqInit /\ DqInit /\ CompletionInit
    /\ HeapInit /\ RingInit /\ PipeInit

-----------------------------------------------------------------------------
(* What may happen to the object in use.                                   *)

MailNext ==
    \/ \E t \in Thread : \E c \in Call[t].mb_send : rt_mb_send_wait(t, c.msg, c.time)
    \/ \E t \in Thread : \E time \in Call[t].mb_recv : rt_mb_recv(t, time)
    \/ \E m \in IsrMsg : rt_mb_send(m)
    \/ rt_mb_control

\* A block in use is freed by a thread that was given it last, or by one that had it
\* before: rt_mp_free does not ask whose it is.
Has(t, b) == block_ptr[t] = b /\ \A i \in DOMAIN block_list : block_list[i] # b

PoolNext == \E t \in Thread :
    \/ \E time \in Call[t].mp_alloc : rt_mp_alloc(t, time)
    \/ \E b \in Block : Has(t, b) /\ pc[t] = "run" /\ rt_mp_free(b)

EventNext ==
    \/ \E t \in Thread : \E c \in Call[t].event_recv :
          rt_event_recv(t, c.want, c.option, c.time)
    \/ \E s \in (SUBSET EventBit) \ {{}} : rt_event_send(s)
    \/ rt_event_control

MqNext ==
    \/ \E t \in Thread : \E c \in Call[t].mq_send : MqSendTakes(t, c.op, c.msg)
    \/ \E t \in Thread : \E time \in Call[t].mq_recv : rt_mq_recv(t, time)
    \/ rt_mq_control

DqNext == \E t \in Thread :
    \/ \E c \in Call[t].dq_push : rt_data_queue_push(t, c.data, c.time)
    \/ \E time \in Call[t].dq_pop : rt_data_queue_pop(t, time)

CompletionNext == \E t \in Thread :
    \/ \E time \in Call[t].completion_wait : rt_completion_wait(t, time)
    \/ Call[t].completion_done /\ rt_completion_done(t)

HeapNext == \E t \in Thread :
    \/ \E size \in Call[t].malloc : rt_malloc(t, size)
    \/ \E size \in Call[t].realloc : rt_realloc(t, size)
    \/ rt_free(t)

\* The one user of a ring buffer, or several that have a lock of their own.
RingNext == \E t \in Thread :
    /\ \/ \E n \in Call[t].ring_put : RingPut(Fresh(n))
       \/ \E n \in Call[t].ring_force : RingPutForce(Fresh(n))
       \/ \E n \in Call[t].ring_get : RingGet(n)
       \/ \E force \in BOOLEAN : RingPutchar(force)
       \/ RingReset
    /\ UNCHANGED <<waitvars, pipevars>>

PipeNext == \E t \in Thread :
    \/ \E mode \in Call[t].pipe_open : pipe_fops_open(t, mode)
    \/ pipe_fops_close(t)
    \/ \E op \in fd[t], count \in Call[t].pipe_count, nonblock \in BOOLEAN :
          PipeCall(t, op, count, nonblock)

-----------------------------------------------------------------------------
(* The steps of a thread in a call.                                        *)

Back(t) ==
    \/ MailBack(t) /\ NotMail
    \/ AllocBack(t) /\ NotPool
    \/ EventBack(t) /\ NotEvent
    \/ MqBack(t) /\ NotMq
    \/ DqBack(t) /\ NotDq
    \/ CompletionBack(t) /\ NotCompletion

Section(t) ==
    \/ (MqSendFills(t) \/ MqSendLinks(t) \/ MqCopies(t) \/ MqReleases(t)) /\ NotMq
    \/ DoneLocked(t) /\ NotCompletion
    \/ HeapStep(t) /\ NotHeap
    \/ PipeStep(t) /\ NotPipe

Timeout(t) ==
    /\ rt_thread_timeout(t)
    /\ MailUnlink(t) /\ AllocUnlink(t) /\ EventUnlink(t)
    /\ MqUnlink(t) /\ DqUnlink(t) /\ CompletionUnlink(t)
    /\ UNCHANGED <<object, wifivars, heapvars, ringvars, pipevars>>

Proceed(t) ==
    /\ rt_schedule(t) \/ SwitchBack(t)
    /\ NotMail /\ UNCHANGED mbvars

Drive(t) == object = "wifi" /\ WifiStep(t) /\ NotWifi

Next ==
    \/ \E t \in Thread : Back(t) \/ Section(t) \/ Proceed(t) \/ Timeout(t)
    \/ object = "mailbox" /\ MailNext /\ NotMail
    \/ object = "mempool" /\ PoolNext /\ NotPool
    \/ object = "event" /\ EventNext /\ NotEvent
    \/ object = "message queue" /\ MqNext /\ NotMq
    \/ object = "data queue" /\ DqNext /\ NotDq
    \/ object = "completion" /\ CompletionNext /\ NotCompletion
    \/ object = "heap" /\ HeapNext /\ NotHeap
    \/ object = "ring buffer" /\ RingNext /\ NotPipe
    \/ object = "pipe" /\ PipeNext /\ NotPipe
    \/ \E t \in Thread : object = "wifi" /\ rw009_wifi_tx(t) /\ NotWifi
    \/ \E t \in Thread : Drive(t)
    \/ object = "wifi" /\ spi_wifi_isr /\ NotWifi

\* A READY thread goes on with its call.
Fairness == \A t \in Thread : WF_vars(Proceed(t) \/ Back(t) \/ Section(t) \/ Drive(t))

Spec == Init /\ [][Next]_vars /\ Fairness

-----------------------------------------------------------------------------
(* Properties.                                                             *)

\* Type invariant.
TypeOK ==
    /\ stat \in [Thread -> {"READY", "SUSPEND"}] /\ timer \subseteq Thread
    /\ error \in [Thread -> Error]
    /\ pc \in [Thread -> {"run", "schedule", "off", "check", "fill", "link", "copy",
                          "release", "done", "lock", "wake", "last wake", "wait"}]
    /\ MailTypeOK /\ PoolTypeOK /\ EventTypeOK /\ WifiTypeOK /\ MqTypeOK /\ DqTypeOK
    /\ CompletionTypeOK /\ HeapTypeOK /\ PipeTypeOK

\* No object forgets a waiting thread: what it waits for is not there, or as many
\* threads were resumed for it and are on their way.  Between the resume and the
\* moment the thread runs others may be faster, time out or reset the object.
NoLostWakeup ==
    /\ NoLostMail /\ NoLostBlock /\ NoneOverlooked
    /\ NoLostMessage /\ NoLostData /\ NoLostDone /\ NoLostPipe

\* The three queues are channels.
TheChannel == INSTANCE Channel WITH
    Msg <- Msg \cup Content \cup Data,
    NoMsg <- NoMsg,
    size <- CASE object = "message queue" -> Cardinality(Slot)
              [] object = "data queue" -> QueueSize
              [] OTHER -> Size,
    queue <- CASE object = "message queue" -> MqQueue
               [] object = "data queue" -> DqQueue
               [] OTHER -> MailQueue,
    received <- CASE object = "message queue" -> received
                  [] object = "data queue" -> data_ptr
                  [] OTHER -> value,
    wanting <- InCall("recv") \cup InMq("recv") \cup InDq("pop"),
    offering <- InCall("send") \cup InDq("push")

\* The mailbox, the message queue and the data queue implement the bounded queue:
\* a message is delivered once and in order, and a thread waits only if it must.
Implements == TheChannel!Spec

\* Nothing is lost or doubled while the lock is given up: the counts of the pool
\* agree with its lists, each message of the message queue is in one chain or in
\* the hands of one thread, each packet buffer of the driver is in one place, and the
\* ring buffer has the bytes that were put and not taken, over every wrap.
Conserved ==
    CountsExact /\ ChainsExact /\ RingExact /\ (object = "wifi" => BlocksConserved)

\* A message that somebody waits for is taken, and room in a mailbox that somebody
\* waits for is used.  A packet in the mailbox of the driver is transmitted and its
\* block freed: the event is never cleared without a look into the mailbox after it.
MessagesMove ==
    /\ TheChannel!GetFair
    /\ object = "mailbox" => TheChannel!PutFair
    /\ \A b \in Block :
          object = "wifi" /\ b \in ToSet(MailQueue) ~> b \in ToSet(block_list)

=============================================================================
