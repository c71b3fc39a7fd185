-------------------------- MODULE IpcWaitingProofs ---------------------------
(***************************************************************************)
(* Proofs about IpcObjects, first part: the waiting that the objects share *)
(* and the objects that threads wait on.  One object is in use and the     *)
(* others are as their initialisation left them (Base).  A list of waiting *)
(* threads has the property WaitList: it has the suspended callers, once   *)
(* each, and as long as it is not empty there is a thread on its way for   *)
(* each thing that can be had.  With it come the inductive invariants of   *)
(* the mailbox, the memory pool, the completion, the event, the data queue *)
(* and the message queue, each with one lemma for each operation.          *)
(***************************************************************************)
EXTENDS IpcObjects, ListTheorems, FiniteSetTheorems

-----------------------------------------------------------------------------
(* One object is in use: the others are as their initialisation left them. *)

MqLabel == {"fill", "link", "copy", "release"}
PipeLabel == {"lock", "wake", "last wake", "wait"}
Label == {"run", "schedule", "off", "check", "done"} \cup MqLabel \cup PipeLabel

\* Nobody is in a call of the mailbox.
MailIdle ==
    /\ mail = [t \in Thread |-> NoMail]
    /\ suspend_thread = << >> /\ suspend_sender_thread = << >>

Elsewhere ==
    /\ object # "mailbox" => MailIdle
    /\ object \notin {"mailbox", "wifi"} => MailInit
    /\ object \notin {"mempool", "wifi"} => PoolInit
    /\ object \notin {"event", "wifi"} => EventInit
    /\ object # "wifi" => WifiInit
    /\ object # "message queue" => MqInit
    /\ object # "data queue" => DqInit
    /\ object # "completion" => CompletionInit
    /\ object # "heap" => HeapInit
    /\ object \notin {"ring buffer", "pipe"} => RingInit
    /\ object # "pipe" => PipeInit

\* A suspended thread is on its way to rt_schedule or off its CPU, and only a
\* suspended thread has a timer.
WaitOK ==
    /\ stat \in [Thread -> {"READY", "SUSPEND"}] /\ timer \subseteq Thread
    /\ error \in [Thread -> Error] /\ pc \in [Thread -> Label] /\ sig = {}
    /\ \A t \in Thread : stat[t] = "SUSPEND" => pc[t] \in {"schedule", "off"}
    /\ \A t \in timer : stat[t] = "SUSPEND"
    /\ object # "message queue" => \A t \in Thread : pc[t] \notin MqLabel
    /\ object # "completion" => \A t \in Thread : pc[t] # "done"
    /\ object # "pipe" => \A t \in Thread : pc[t] \notin PipeLabel

Base == WaitOK /\ Elsewhere

\* The steps of each object, with those of the threads in its calls.
MailStep == MailNext \/ \E t \in Thread : MailBack(t)
PoolStep == PoolNext \/ \E t \in Thread : AllocBack(t)
EventStep == EventNext \/ \E t \in Thread : EventBack(t)
MqSection(t) == MqSendFills(t) \/ MqSendLinks(t) \/ MqCopies(t) \/ MqReleases(t)
MqStep == MqNext \/ \E t \in Thread : MqBack(t) \/ MqSection(t)
DqStep == DqNext \/ \E t \in Thread : DqBack(t)
CompletionStep == CompletionNext \/ \E t \in Thread : CompletionBack(t) \/ DoneLocked(t)
AnyHeapStep == HeapNext \/ \E t \in Thread : HeapStep(t)
AnyPipeStep == PipeNext \/ \E t \in Thread : PipeStep(t)
DriverStep ==
    \/ \E t \in Thread : rw009_wifi_tx(t) \/ WifiStep(t)
    \/ spi_wifi_isr

\* What a step is, once the others are idle.
StepOf ==
    \/ UNCHANGED vars
    \/ \E t \in Thread : Proceed(t) \/ Timeout(t)
    \/ object = "mailbox" /\ MailStep /\ NotMail
    \/ object = "mempool" /\ PoolStep /\ NotPool
    \/ object = "event" /\ EventStep /\ NotEvent
    \/ object = "message queue" /\ MqStep /\ NotMq
    \/ object = "data queue" /\ DqStep /\ NotDq
    \/ object = "completion" /\ CompletionStep /\ NotCompletion
    \/ object = "heap" /\ AnyHeapStep /\ NotHeap
    \/ object = "ring buffer" /\ RingNext /\ NotPipe
    \/ object = "pipe" /\ AnyPipeStep /\ NotPipe
    \/ object = "wifi" /\ NotPool /\ \E t \in Thread : AllocBack(t)
    \/ object = "wifi" /\ NotEvent /\ \E t \in Thread : EventBack(t)
    \/ object = "wifi" /\ NotWifi /\ DriverStep

\* Nothing comes off an empty list.
LEMMA NothingUnlinked == \A t : RemoveFirst(<< >>, t) = << >>
  <1> TAKE t
  <1>1. << >> \in Seq(Thread) /\ IsInjective(<< >>) /\ t \notin ToSet(<< >>)
    BY EmptyList
  <1> QED BY <1>1, UnlinkedList

\* What says that a thread is in no call.
LEMMA NoCall ==
    /\ NoMail.op = "none" /\ NoMq.op = "none" /\ NoDq.op = "none" /\ NoIo.op = "none"
    /\ NotGrowing.step = "none"
  BY DEF NoMail, NoMq, NoDq, NoIo, NotGrowing

\* A thread is in a call only of the object in use.
LEMMA OneObject == ASSUME Base, [Next]_vars PROVE StepOf
  <1>1. ASSUME NEW t \in Thread, Back(t) PROVE StepOf
    <2>1. CASE MailBack(t) /\ NotMail
      <3>1. object = "mailbox"
        BY <2>1, NoCall DEF MailBack, Base, Elsewhere, MailIdle
      <3> QED BY <2>1, <3>1 DEF StepOf, MailStep
    <2>2. CASE AllocBack(t) /\ NotPool
      <3>1. object \in {"mempool", "wifi"}
        BY <2>2 DEF AllocBack, Base, Elsewhere, PoolInit
      <3> QED BY <2>2, <3>1 DEF StepOf, PoolStep
    <2>3. CASE EventBack(t) /\ NotEvent
      <3>1. object \in {"event", "wifi"}
        BY <2>3 DEF EventBack, Base, Elsewhere, EventInit
      <3> QED BY <2>3, <3>1 DEF StepOf, EventStep
    <2>4. CASE MqBack(t) /\ NotMq
      <3>1. object = "message queue"
        BY <2>4, NoCall DEF MqBack, Base, Elsewhere, MqInit
      <3> QED BY <2>4, <3>1 DEF StepOf, MqStep
    <2>5. CASE DqBack(t) /\ NotDq
      <3>1. object = "data queue"
        BY <2>5, NoCall DEF DqBack, Base, Elsewhere, DqInit
      <3> QED BY <2>5, <3>1 DEF StepOf, DqStep
    <2>6. CASE CompletionBack(t) /\ NotCompletion
      <3>1. object = "completion"
        BY <2>6 DEF CompletionBack, Base, Elsewhere, CompletionInit
      <3> QED BY <2>6, <3>1 DEF StepOf, CompletionStep
    <2> QED BY <1>1, <2>1, <2>2, <2>3, <2>4, <2>5, <2>6 DEF Back
  <1>2. ASSUME NEW t \in Thread, Section(t) PROVE StepOf
    <2>1. CASE MqSection(t) /\ NotMq
      <3>1. object = "message queue"
        <4>1. pc[t] \in MqLabel
          BY <2>1 DEF MqSection, MqSendFills, MqSendLinks, MqCopies, MqReleases, MqLabel
        <4> QED BY <4>1 DEF Base, WaitOK
      <3> QED BY <2>1, <3>1 DEF StepOf, MqStep
    <2>2. CASE DoneLocked(t) /\ NotCompletion
      <3>1. object = "completion"
        BY <2>2 DEF DoneLocked, Base, WaitOK
      <3> QED BY <2>2, <3>1 DEF StepOf, CompletionStep
    <2>3. CASE HeapStep(t) /\ NotHeap
      <3>1. object = "heap"
        BY <2>3, NoCall DEF HeapStep, ReallocMallocs, ReallocFrees, Base, Elsewhere, HeapInit
      <3> QED BY <2>3, <3>1 DEF StepOf, AnyHeapStep
    <2>4. CASE PipeStep(t) /\ NotPipe
      <3>1. pc[t] \in PipeLabel \/ io[t].op # "none"
        BY <2>4 DEF PipeStep, ReadRound, WriteRound, PipeWakes, PipeWaits, PipeBack, PipeLabel
      <3>2. object = "pipe"
        BY <3>1, NoCall DEF Base, WaitOK, Elsewhere, PipeInit
      <3> QED BY <2>4, <3>2 DEF StepOf, AnyPipeStep
    <2> QED BY <1>2, <2>1, <2>2, <2>3, <2>4 DEF Section, MqSection
  <1>3. ASSUME NEW t \in Thread, Drive(t) PROVE StepOf
    BY <1>3 DEF Drive, StepOf, DriverStep
  <1>4. ASSUME NEW t \in Thread, object = "wifi", rw009_wifi_tx(t), NotWifi PROVE StepOf
    BY <1>4 DEF StepOf, DriverStep
  <1>5. CASE Next
    <2>1. ASSUME NEW t \in Thread, Proceed(t) \/ Timeout(t) PROVE StepOf
      BY <2>1 DEF StepOf
    <2>2. CASE object = "wifi" /\ spi_wifi_isr /\ NotWifi
      BY <2>2 DEF StepOf, DriverStep
    <2>3. CASE \/ object = "mailbox" /\ MailNext /\ NotMail
               \/ object = "mempool" /\ PoolNext /\ NotPool
               \/ object = "event" /\ EventNext /\ NotEvent
               \/ object = "message queue" /\ MqNext /\ NotMq
               \/ object = "data queue" /\ DqNext /\ NotDq
               \/ object = "completion" /\ CompletionNext /\ NotCompletion
               \/ object = "heap" /\ HeapNext /\ NotHeap
               \/ object = "ring buffer" /\ RingNext /\ NotPipe
               \/ object = "pipe" /\ PipeNext /\ NotPipe
      BY <2>3, Zenon DEF StepOf, MailStep, PoolStep, EventStep, MqStep, DqStep, CompletionStep,
           AnyHeapStep, AnyPipeStep
    <2> QED BY <1>1, <1>2, <1>3, <1>4, <1>5, <2>1, <2>2, <2>3, Zenon DEF Next
  <1>6. CASE UNCHANGED vars
    BY <1>6 DEF StepOf
  <1> QED BY <1>5, <1>6

\* An object that is left alone stays as it is.
LEMMA InitFrames ==
    /\ MailInit /\ UNCHANGED mbvars => MailInit'
    /\ MailIdle /\ UNCHANGED mbvars => MailIdle'
    /\ PoolInit /\ UNCHANGED mpvars => PoolInit'
    /\ EventInit /\ UNCHANGED evvars => EventInit'
    /\ WifiInit /\ UNCHANGED wifivars => WifiInit'
    /\ MqInit /\ UNCHANGED mqvars => MqInit'
    /\ DqInit /\ UNCHANGED dqvars => DqInit'
    /\ CompletionInit /\ UNCHANGED cpvars => CompletionInit'
    /\ HeapInit /\ UNCHANGED heapvars => HeapInit'
    /\ RingInit /\ UNCHANGED ringvars => RingInit'
    /\ PipeInit /\ UNCHANGED pipevars => PipeInit'
  <1>1. MailInit /\ UNCHANGED mbvars => MailInit'
    BY DEF MailInit, mbvars, ring
  <1>2. MailIdle /\ UNCHANGED mbvars => MailIdle'
    BY DEF MailIdle, mbvars
  <1>3. PoolInit /\ UNCHANGED mpvars => PoolInit'
    BY DEF PoolInit, mpvars
  <1>4. EventInit /\ UNCHANGED evvars => EventInit'
    BY DEF EventInit, evvars
  <1>5. WifiInit /\ UNCHANGED wifivars => WifiInit'
    BY DEF WifiInit, wifivars
  <1>6. MqInit /\ UNCHANGED mqvars => MqInit'
    <2>1. UNCHANGED mqvars =>
            /\ msg_queue_free' = msg_queue_free /\ msg_queue_head' = msg_queue_head
            /\ msg_queue_tail' = msg_queue_tail /\ next' = next /\ content' = content
            /\ mq_entry' = mq_entry /\ suspend_mq_thread' = suspend_mq_thread
            /\ mq' = mq /\ received' = received
      BY DEF mqvars, lists
    <2> QED BY <2>1, Zenon DEF MqInit
  <1>7. DqInit /\ UNCHANGED dqvars => DqInit'
    BY DEF DqInit, dqvars, indices
  <1>8. CompletionInit /\ UNCHANGED cpvars => CompletionInit'
    BY DEF CompletionInit, cpvars
  <1>9. HeapInit /\ UNCHANGED heapvars => HeapInit'
    BY DEF HeapInit, heapvars
  <1>10. RingInit /\ UNCHANGED ringvars => RingInit'
    BY DEF RingInit, ringvars
  <1>11. PipeInit /\ UNCHANGED pipevars => PipeInit'
    BY DEF PipeInit, pipevars
  <1> QED BY <1>1, <1>2, <1>3, <1>4, <1>5, <1>6, <1>7, <1>8, <1>9, <1>10, <1>11

\* What a timeout leaves of an object whose lists are empty.
LEMMA UnlinkFrames ==
    ASSUME NEW t
    PROVE  /\ MailIdle /\ MailUnlink(t) => UNCHANGED mbvars
           /\ PoolInit /\ AllocUnlink(t) => UNCHANGED mpvars
           /\ EventInit /\ EventUnlink(t) => UNCHANGED evvars
           /\ MqInit /\ MqUnlink(t) => UNCHANGED mqvars
           /\ DqInit /\ DqUnlink(t) => UNCHANGED dqvars
           /\ CompletionInit /\ CompletionUnlink(t) => UNCHANGED cpvars
  BY NothingUnlinked DEF MailIdle, MailUnlink, mbvars, PoolInit, AllocUnlink, mpvars,
       EventInit, EventUnlink, evvars, MqInit, MqUnlink, mqvars, DqInit, DqUnlink, dqvars,
       CompletionInit, CompletionUnlink, cpvars

\* The objects that are not in use stay as they are.
LEMMA ElsewhereStep == ASSUME Base, StepOf PROVE Elsewhere' /\ object' = object
  <1> USE DEF Elsewhere
  <1>0. Elsewhere /\ (MailInit => MailIdle)
    BY DEF Base, MailInit, MailIdle
  <1>1. ASSUME UNCHANGED <<object, mbvars, mpvars, evvars, wifivars, mqvars, dqvars, cpvars,
                           heapvars, ringvars, pipevars>>
        PROVE  Elsewhere' /\ object' = object
    BY <1>0, <1>1, InitFrames
  <1>2. CASE UNCHANGED vars
    BY <1>1, <1>2 DEF vars
  <1>3. ASSUME NEW t \in Thread, Proceed(t) PROVE Elsewhere' /\ object' = object
    BY <1>1, <1>3 DEF Proceed, NotMail, Drivers
  <1>4. ASSUME NEW t \in Thread, Timeout(t) PROVE Elsewhere' /\ object' = object
    <2>1. /\ MailUnlink(t) /\ AllocUnlink(t) /\ EventUnlink(t)
          /\ MqUnlink(t) /\ DqUnlink(t) /\ CompletionUnlink(t)
          /\ object' = object
          /\ UNCHANGED wifivars /\ UNCHANGED heapvars /\ UNCHANGED ringvars /\ UNCHANGED pipevars
      BY <1>4 DEF Timeout
    <2> QED BY <1>0, <2>1, UnlinkFrames, InitFrames
  <1>5. CASE object = "mailbox" /\ NotMail
    BY <1>0, <1>5, InitFrames DEF NotMail, Drivers
  <1>6. CASE object \in {"mempool", "wifi"} /\ NotPool
    BY <1>0, <1>6, InitFrames DEF NotPool, Drivers
  <1>7. CASE object \in {"event", "wifi"} /\ NotEvent
    BY <1>0, <1>7, InitFrames DEF NotEvent, Drivers
  <1>8. CASE object = "message queue" /\ NotMq
    BY <1>0, <1>8, InitFrames DEF NotMq, Kernel
  <1>9. CASE object = "data queue" /\ NotDq
    BY <1>0, <1>9, InitFrames DEF NotDq, Kernel
  <1>10. CASE object = "completion" /\ NotCompletion
    BY <1>0, <1>10, InitFrames DEF NotCompletion, Kernel
  <1>11. CASE object = "heap" /\ NotHeap
    BY <1>0, <1>11, InitFrames DEF NotHeap, Kernel
  <1>12. CASE object = "pipe" /\ NotPipe
    BY <1>0, <1>12, InitFrames DEF NotPipe, Kernel
  <1>13. CASE object = "ring buffer" /\ RingNext /\ NotPipe
    <2>1. UNCHANGED pipevars
      BY <1>13 DEF RingNext
    <2> QED BY <1>0, <1>13, <2>1, InitFrames DEF NotPipe, Kernel
  <1>14. CASE object = "wifi" /\ NotWifi /\ DriverStep
    <2>1. MailIdle
      BY <1>0, <1>14
    <2>2. MailIdle'
      <3>1. CASE UNCHANGED mbvars
        BY <2>1, <3>1, InitFrames
      <3>2. ASSUME NEW t \in Thread, TxSend(t) \/ TransferMail(t) PROVE MailIdle'
        <4>1. mail[t] = NoMail /\ (MailReturns(t) => mail' = mail)
          BY <2>1 DEF MailIdle, MailReturns
        <4>2. CASE TxSend(t)
          BY <2>1, <4>1, <4>2 DEF TxSend, rt_mb_send_wait, SendRound, Deposit, MailIdle
        <4>3. CASE TransferMail(t)
          BY <2>1, <4>1, <4>3 DEF TransferMail, rt_mb_recv, RecvRound, Withdraw, MailIdle
        <4> QED BY <3>2, <4>2, <4>3
      <3>3. UNCHANGED mbvars \/ \E t \in Thread : TxSend(t) \/ TransferMail(t)
        BY <1>14 DEF DriverStep, WifiStep, rw009_wifi_tx, TxEvent, DataRecv, DataAgain,
             TransferEnds, spi_wifi_isr
      <3> QED BY <3>1, <3>2, <3>3
    <2> QED BY <1>0, <1>14, <2>2, InitFrames DEF NotWifi, Drivers
  <1> QED BY <1>2, <1>3, <1>4, <1>5, <1>6, <1>7, <1>8, <1>9, <1>10, <1>11, <1>12, <1>13, <1>14
       DEF StepOf

\* The threads of S are resumed, and one that is not waiting goes on.
LEMMA ResumeWaitOK ==
    ASSUME WaitOK, object' = object, sig' = sig, error' \in [Thread -> Error],
           \/ \E S : Resume(S)
           \/ UNCHANGED <<stat, timer>>,
           \/ pc' = pc
           \/ \E t \in Thread : /\ pc[t] \notin {"schedule", "off"}
                                /\ \E l \in Label :
                                     /\ pc' = [pc EXCEPT ![t] = l]
                                     /\ \/ l \in {"run", "schedule", "off", "check"}
                                        \/ object = "message queue" /\ l \in MqLabel
                                        \/ object = "completion" /\ l = "done"
                                        \/ object = "pipe" /\ l \in PipeLabel
    PROVE  WaitOK'
  <1>1. /\ stat' \in [Thread -> {"READY", "SUSPEND"}] /\ timer' \subseteq timer
        /\ \A t \in Thread : stat'[t] = "SUSPEND" => stat[t] = "SUSPEND"
        /\ \A t \in timer' : stat'[t] = stat[t]
    BY DEF WaitOK, Resume
  <1>2. /\ pc' \in [Thread -> Label]
        /\ \A t \in Thread : pc[t] \in {"schedule", "off"} => pc'[t] = pc[t]
        /\ object # "message queue" => \A t \in Thread : pc'[t] \notin MqLabel
        /\ object # "completion" => \A t \in Thread : pc'[t] # "done"
        /\ object # "pipe" => \A t \in Thread : pc'[t] \notin PipeLabel
    <2>1. CASE pc' = pc
      BY <2>1 DEF WaitOK
    <2>2. ASSUME NEW t \in Thread, NEW l \in Label, pc[t] \notin {"schedule", "off"},
                 pc' = [pc EXCEPT ![t] = l],
                 \/ l \in {"run", "schedule", "off", "check"}
                 \/ object = "message queue" /\ l \in MqLabel
                 \/ object = "completion" /\ l = "done"
                 \/ object = "pipe" /\ l \in PipeLabel
          PROVE  <1>2!:
      <3>1. /\ pc' \in [Thread -> Label] /\ pc'[t] = l
            /\ \A u \in Thread \ {t} : pc'[u] = pc[u]
        BY <2>2 DEF WaitOK
      <3>2. /\ object # "message queue" => l \notin MqLabel
            /\ object # "completion" => l # "done"
            /\ object # "pipe" => l \notin PipeLabel
        BY <2>2 DEF MqLabel, PipeLabel
      <3> QED BY <2>2, <3>1, <3>2 DEF WaitOK
    <2> QED BY <2>1, <2>2
  <1> QED BY <1>1, <1>2 DEF WaitOK

\* A thread that is not waiting suspends itself.
LEMMA SuspendWaitOK ==
    ASSUME WaitOK, object' = object, sig' = sig, error' \in [Thread -> Error],
           NEW t \in Thread, NEW time, pc[t] \notin {"schedule", "off"}, Suspend(t, time)
    PROVE  WaitOK'
  <1>1. /\ stat' = [stat EXCEPT ![t] = "SUSPEND"]
        /\ timer' = timer \cup {t} \/ timer' = timer \ {t}
        /\ pc' = [pc EXCEPT ![t] = "schedule"]
    BY DEF Suspend
  <1>2. /\ stat' \in [Thread -> {"READY", "SUSPEND"}] /\ timer' \subseteq Thread
        /\ \A u \in Thread : stat'[u] = IF u = t THEN "SUSPEND" ELSE stat[u]
        /\ \A u \in timer' : stat'[u] = "SUSPEND"
    BY <1>1 DEF WaitOK
  <1>3. /\ pc' \in [Thread -> Label]
        /\ \A u \in Thread : pc'[u] = IF u = t THEN "schedule" ELSE pc[u]
    BY <1>1 DEF WaitOK, Label
  <1>4. "schedule" \notin MqLabel /\ "schedule" \notin PipeLabel
    BY DEF MqLabel, PipeLabel
  <1> QED BY <1>2, <1>3, <1>4 DEF WaitOK

\* Errors stay errors.
LEMMA ErrorTypes ==
    ASSUME WaitOK
    PROVE  /\ UNCHANGED error => error' \in [Thread -> Error]
           /\ \A S, e : Fail(S, e) /\ e \in Error => error' \in [Thread -> Error]
           /\ \A t : Return(t) => error' \in [Thread -> Error]
           /\ "EOK" \in Error /\ "ERROR" \in Error /\ "ETIMEOUT" \in Error
  BY DEF WaitOK, Fail, Return, Error

\* The labels that every call has.
LEMMA CommonLabels ==
    /\ {"run", "schedule", "off", "check", "done"} \subseteq Label
    /\ MqLabel \subseteq Label /\ PipeLabel \subseteq Label
  BY DEF Label

\* The common steps.
LEMMA ProceedWaitOK == ASSUME Base, NEW t \in Thread, Proceed(t) PROVE WaitOK'
  <1>1. object' = object
    BY DEF Proceed, NotMail
  <1>2. CASE rt_schedule(t)
    <2>1. UNCHANGED <<stat, timer, error, sig>> /\ pc[t] = "schedule"
      BY <1>2 DEF rt_schedule
    <2>2. \/ stat[t] = "READY" /\ pc' = [pc EXCEPT ![t] = "check"]
          \/ pc' = [pc EXCEPT ![t] = "off"]
      BY <1>2 DEF rt_schedule
    <2>3. pc' \in [Thread -> Label] /\ \A u \in Thread \ {t} : pc'[u] = pc[u]
      BY <2>2 DEF Base, WaitOK, Label
    <2>4. pc'[t] \in {"check", "off"} /\ (stat[t] = "SUSPEND" => pc'[t] = "off")
      BY <2>2 DEF Base, WaitOK
    <2> QED BY <1>1, <2>1, <2>3, <2>4 DEF Base, WaitOK, MqLabel, PipeLabel
  <1>3. CASE SwitchBack(t)
    <2>1. /\ UNCHANGED <<stat, timer>> /\ sig' = {} /\ error' = error
          /\ stat[t] = "READY" /\ pc' = [pc EXCEPT ![t] = "check"]
      BY <1>3 DEF SwitchBack, Base, WaitOK
    <2>2. /\ pc' \in [Thread -> Label] /\ \A u \in Thread \ {t} : pc'[u] = pc[u]
          /\ pc'[t] = "check"
      BY <2>1 DEF Base, WaitOK, Label
    <2> QED BY <1>1, <2>1, <2>2 DEF Base, WaitOK, MqLabel, PipeLabel
  <1> QED BY <1>2, <1>3 DEF Proceed

\* rt_thread_timeout resumes a thread and takes its timer.
LEMMA TimeoutWaitOK == ASSUME Base, NEW t \in Thread, Timeout(t) PROVE WaitOK'
  <1>1. object' = object /\ pc' = pc /\ sig' = sig /\ Resume({t}) /\ Fail({t}, "ETIMEOUT")
    BY DEF Timeout, rt_thread_timeout
  <1> QED BY <1>1, ErrorTypes, ResumeWaitOK DEF Base

\* The steps of the mailbox.
LEMMA MailRoundWaitOK ==
    ASSUME WaitOK, object' = object, sig' = sig, NEW t \in Thread, pc[t] \in {"run", "check"},
           (\E m, time : SendRound(t, m, time)) \/ (\E time : RecvRound(t, time))
    PROVE  WaitOK'
  <1>1. ASSUME MailReturns(t), (\E S : Resume(S)) \/ UNCHANGED <<stat, timer>> PROVE WaitOK'
    <2>1. pc' = [pc EXCEPT ![t] = "run"] /\ error' \in [Thread -> Error] /\ "run" \in Label
      BY <1>1, ErrorTypes, CommonLabels DEF MailReturns, Return
    <2> QED BY <1>1, <2>1, ResumeWaitOK
  <1>2. ASSUME NEW time, Suspend(t, time), Fail({t}, "EOK") PROVE WaitOK'
    BY <1>2, ErrorTypes, SuspendWaitOK
  <1>3. ASSUME NEW m, NEW time, SendRound(t, m, time) PROVE WaitOK'
    <2>1. CASE Deposit(m) /\ MailReturns(t)
      BY <2>1, <1>1 DEF Deposit
    <2>2. CASE entry = Size /\ time = "none"
      BY <1>3, <2>1, <2>2, <1>1 DEF SendRound
    <2>3. CASE SenderWaits(t, m, time)
      BY <2>3, <1>2 DEF SenderWaits
    <2> QED BY <1>3, <2>1, <2>2, <2>3 DEF SendRound
  <1>4. ASSUME NEW time, RecvRound(t, time) PROVE WaitOK'
    <2>1. CASE Withdraw /\ MailReturns(t)
      BY <2>1, <1>1 DEF Withdraw
    <2>2. CASE entry = 0 /\ time = "none"
      BY <1>4, <2>1, <2>2, <1>1 DEF RecvRound
    <2>3. CASE ReceiverWaits(t, time)
      BY <2>3, <1>2 DEF ReceiverWaits
    <2> QED BY <1>4, <2>1, <2>2, <2>3 DEF RecvRound
  <1> QED BY <1>3, <1>4

\* The steps of the mailbox.
LEMMA MailWaitOK == ASSUME Base, object' = object, MailStep PROVE WaitOK'
  <1>0. WaitOK
    BY DEF Base
  <1>1. ASSUME NEW t \in Thread, MailBack(t) PROVE WaitOK'
    <2>1. pc[t] = "check" /\ sig' = sig
      BY <1>1 DEF MailBack
    <2>2. CASE error[t] # "EOK"
      <3>1. MailReturns(t) /\ UNCHANGED <<stat, timer>>
        BY <1>1, <2>2 DEF MailBack
      <3>2. pc' = [pc EXCEPT ![t] = "run"] /\ error' \in [Thread -> Error] /\ "run" \in Label
        BY <1>0, <3>1, ErrorTypes, CommonLabels DEF MailReturns, Return
      <3> QED BY <1>0, <2>1, <3>1, <3>2, ResumeWaitOK
    <2>3. CASE error[t] = "EOK"
      <3>1. (\E m, time : SendRound(t, m, time)) \/ (\E time : RecvRound(t, time))
        BY <1>1, <2>3 DEF MailBack
      <3> QED BY <1>0, <2>1, <3>1, MailRoundWaitOK
    <2> QED BY <2>2, <2>3
  <1>2. ASSUME NEW t \in Thread, NEW m, NEW time, rt_mb_send_wait(t, m, time) PROVE WaitOK'
    BY <1>0, <1>2, MailRoundWaitOK DEF rt_mb_send_wait
  <1>3. ASSUME NEW t \in Thread, NEW time, rt_mb_recv(t, time) PROVE WaitOK'
    BY <1>0, <1>3, MailRoundWaitOK DEF rt_mb_recv
  <1>4. ASSUME NEW m, rt_mb_send(m) PROVE WaitOK'
    <2>1. pc' = pc /\ sig' = sig /\ error' \in [Thread -> Error]
      BY <1>0, <1>4, ErrorTypes DEF rt_mb_send
    <2>2. (\E S : Resume(S)) \/ UNCHANGED <<stat, timer>>
      BY <1>4 DEF rt_mb_send, Deposit
    <2> QED BY <1>0, <2>1, <2>2, ResumeWaitOK
  <1>5. CASE rt_mb_control
    <2>1. /\ pc' = pc /\ sig' = sig
          /\ \E S : Resume(S) /\ Fail(S, "ERROR")
      BY <1>5 DEF rt_mb_control
    <2> QED BY <1>0, <2>1, ErrorTypes, ResumeWaitOK
  <1> QED BY <1>1, <1>2, <1>3, <1>4, <1>5 DEF MailStep, MailNext

\* The steps of the memory pool.
LEMMA AllocRoundWaitOK ==
    ASSUME WaitOK, object' = object, sig' = sig, NEW t \in Thread, pc[t] \in {"run", "check"},
           NEW time, AllocRound(t, time)
    PROVE  WaitOK'
  <1>1. ASSUME AllocReturns(t), UNCHANGED <<stat, timer>> PROVE WaitOK'
    <2>1. pc' = [pc EXCEPT ![t] = "run"] /\ error' \in [Thread -> Error] /\ "run" \in Label
      BY <1>1, ErrorTypes, CommonLabels DEF AllocReturns, Return
    <2> QED BY <1>1, <2>1, ResumeWaitOK
  <1>2. ASSUME AllocWaits(t, time) PROVE WaitOK'
    BY <1>2, ErrorTypes, SuspendWaitOK DEF AllocWaits
  <1> QED BY <1>1, <1>2 DEF AllocRound, TakeBlock

\* rt_mp_free resumes at most one thread.
LEMMA FreeWaitOK == ASSUME WaitOK, object' = object, NEW b, rt_mp_free(b) PROVE WaitOK'
  <1>1. pc' = pc /\ sig' = sig
    BY DEF rt_mp_free
  <1>2. \/ UNCHANGED <<stat, timer, error>>
        \/ \E S : Resume(S) /\ Fail(S, "EOK")
    BY DEF rt_mp_free
  <1> QED BY <1>1, <1>2, ErrorTypes, ResumeWaitOK

\* The steps of the memory pool.
LEMMA PoolWaitOK ==
    ASSUME WaitOK, object' = object
    PROVE  /\ \A t \in Thread : AllocBack(t) => WaitOK'
           /\ \A t \in Thread : \A time : rt_mp_alloc(t, time) => WaitOK'
           /\ PoolStep => WaitOK'
  <1>1. ASSUME NEW t \in Thread, AllocBack(t) PROVE WaitOK'
    <2>1. pc[t] = "check" /\ sig' = sig
      BY <1>1 DEF AllocBack
    <2>2. CASE error[t] # "EOK"
      <3>1. AllocReturns(t) /\ UNCHANGED <<stat, timer>>
        BY <1>1, <2>2 DEF AllocBack
      <3>2. pc' = [pc EXCEPT ![t] = "run"] /\ error' \in [Thread -> Error] /\ "run" \in Label
        BY <3>1, ErrorTypes, CommonLabels DEF AllocReturns, Return
      <3> QED BY <2>1, <3>1, <3>2, ResumeWaitOK
    <2>3. CASE error[t] = "EOK"
      <3>1. \E time : AllocRound(t, time)
        BY <1>1, <2>3 DEF AllocBack
      <3> QED BY <2>1, <3>1, AllocRoundWaitOK
    <2> QED BY <2>2, <2>3
  <1>2. ASSUME NEW t \in Thread, NEW time, rt_mp_alloc(t, time) PROVE WaitOK'
    BY <1>2, AllocRoundWaitOK DEF rt_mp_alloc
  <1> QED BY <1>1, <1>2, FreeWaitOK DEF PoolStep, PoolNext

\* The steps of the event.
LEMMA EventWaitOK ==
    ASSUME WaitOK, object' = object
    PROVE  /\ \A t \in Thread : EventBack(t) => WaitOK'
           /\ \A t \in Thread : \A want, option, time : rt_event_recv(t, want, option, time) => WaitOK'
           /\ \A s : rt_event_send(s) => WaitOK'
           /\ EventStep => WaitOK'
  <1>1. ASSUME NEW t \in Thread, EventBack(t) PROVE WaitOK'
    <2>1. /\ pc[t] = "check" /\ sig' = sig /\ pc' = [pc EXCEPT ![t] = "run"]
          /\ error' \in [Thread -> Error] /\ "run" \in Label /\ UNCHANGED <<stat, timer>>
      BY <1>1, ErrorTypes, CommonLabels DEF EventBack, Return
    <2> QED BY <2>1, ResumeWaitOK
  <1>2. ASSUME NEW t \in Thread, NEW want, NEW option, NEW time,
               rt_event_recv(t, want, option, time)
        PROVE  WaitOK'
    <2>1. pc[t] = "run" /\ sig' = sig
      BY <1>2 DEF rt_event_recv
    <2>2. CASE UNCHANGED <<stat, timer, error, pc>>
      BY <2>1, <2>2, ErrorTypes, ResumeWaitOK
    <2>3. CASE RecvWaits(t, want, option, time)
      BY <2>1, <2>3, ErrorTypes, SuspendWaitOK DEF RecvWaits
    <2> QED BY <1>2, <2>2, <2>3 DEF rt_event_recv, RecvAtOnce, RecvRefused
  <1>3. ASSUME NEW s, rt_event_send(s) PROVE WaitOK'
    <2>1. pc' = pc /\ sig' = sig /\ error' = error /\ \E S : Resume(S)
      BY <1>3 DEF rt_event_send
    <2> QED BY <2>1, ErrorTypes, ResumeWaitOK
  <1>4. CASE rt_event_control
    <2>1. pc' = pc /\ sig' = sig /\ \E S : Resume(S) /\ Fail(S, "ERROR")
      BY <1>4 DEF rt_event_control
    <2> QED BY <2>1, ErrorTypes, ResumeWaitOK
  <1> QED BY <1>1, <1>2, <1>3, <1>4 DEF EventStep, EventNext

\* The steps of the message queue.
LEMMA MqWaitOK == ASSUME WaitOK, object' = object, object = "message queue", MqStep PROVE WaitOK'
  <1>1. ASSUME NEW t \in Thread, NEW l \in Label, pc[t] \notin {"schedule", "off"}, sig' = sig,
               pc' = [pc EXCEPT ![t] = l], l = "run" \/ l \in MqLabel,
               (\E S : Resume(S)) \/ UNCHANGED <<stat, timer>>,
               UNCHANGED error \/ Return(t)
        PROVE  WaitOK'
    BY <1>1, ErrorTypes, ResumeWaitOK
  <1>2. ASSUME NEW t \in Thread, pc[t] \in {"run", "check"}, sig' = sig, NEW time,
               MqRecvRound(t, time)
        PROVE  WaitOK'
    <2>1. CASE MqUnlinks(t)
      BY <1>1, <1>2, <2>1, CommonLabels DEF MqUnlinks, MqLabel
    <2>2. CASE MqRecvFails(t)
      BY <1>1, <1>2, <2>2, CommonLabels DEF MqRecvFails, Return
    <2>3. CASE MqWaits(t, time)
      BY <1>2, <2>3, ErrorTypes, SuspendWaitOK DEF MqWaits
    <2> QED BY <1>2, <2>1, <2>2, <2>3 DEF MqRecvRound
  <1>3. ASSUME NEW t \in Thread, MqBack(t) PROVE WaitOK'
    <2>1. pc[t] = "check" /\ sig' = sig
      BY <1>3 DEF MqBack
    <2>2. CASE MqRecvFails(t)
      BY <1>1, <2>1, <2>2, CommonLabels DEF MqRecvFails, Return
    <2>3. CASE \E time : MqRecvRound(t, time)
      BY <1>2, <2>1, <2>3
    <2> QED BY <1>3, <2>2, <2>3 DEF MqBack
  <1>4. ASSUME NEW t \in Thread, MqSection(t) PROVE WaitOK'
    <2>1. CASE MqSendFills(t)
      BY <1>1, <2>1, CommonLabels DEF MqSendFills, MqLabel
    <2>2. CASE MqSendLinks(t)
      <3>1. /\ pc[t] = "link" /\ sig' = sig /\ Return(t) /\ pc' = [pc EXCEPT ![t] = "run"]
            /\ (\E S : Resume(S)) \/ UNCHANGED <<stat, timer>>
        BY <2>2 DEF MqSendLinks, Return
      <3> QED BY <1>1, <3>1, CommonLabels
    <2>3. CASE MqCopies(t)
      BY <1>1, <2>3, CommonLabels DEF MqCopies, MqLabel
    <2>4. CASE MqReleases(t)
      BY <1>1, <2>4, CommonLabels DEF MqReleases, Return
    <2> QED BY <1>4, <2>1, <2>2, <2>3, <2>4 DEF MqSection
  <1>5. ASSUME NEW t \in Thread, NEW op, NEW m, MqSendTakes(t, op, m) PROVE WaitOK'
    BY <1>1, <1>5, CommonLabels DEF MqSendTakes, MqLabel
  <1>6. ASSUME NEW t \in Thread, NEW time, rt_mq_recv(t, time) PROVE WaitOK'
    BY <1>2, <1>6 DEF rt_mq_recv
  <1>7. CASE rt_mq_control
    <2>1. pc' = pc /\ sig' = sig /\ \E S : Resume(S) /\ Fail(S, "ERROR")
      BY <1>7 DEF rt_mq_control
    <2> QED BY <2>1, ErrorTypes, ResumeWaitOK
  <1> QED BY <1>3, <1>4, <1>5, <1>6, <1>7 DEF MqStep, MqNext

\* The steps of the data queue.
LEMMA DqWaitOK == ASSUME WaitOK, object' = object, DqStep PROVE WaitOK'
  <1>1. ASSUME NEW t \in Thread, pc[t] \in {"run", "check"}, sig' = sig, DqReturns(t),
               (\E S : Resume(S)) \/ UNCHANGED <<stat, timer>>
        PROVE  WaitOK'
    <2>1. pc' = [pc EXCEPT ![t] = "run"] /\ error' \in [Thread -> Error] /\ "run" \in Label
      BY <1>1, ErrorTypes, CommonLabels DEF DqReturns, Return
    <2> QED BY <1>1, <2>1, ResumeWaitOK
  <1>2. ASSUME NEW t \in Thread, pc[t] \in {"run", "check"}, sig' = sig, NEW d, NEW time,
               PushRound(t, d, time)
        PROVE  WaitOK'
    <2>1. CASE PushData(d) /\ DqReturns(t)
      BY <1>1, <1>2, <2>1 DEF PushData
    <2>2. CASE DqFails(t)
      BY <1>1, <1>2, <2>2 DEF DqFails
    <2>3. CASE Suspend(t, time) /\ Fail({t}, "EOK")
      BY <1>2, <2>3, ErrorTypes, SuspendWaitOK
    <2> QED BY <1>2, <2>1, <2>2, <2>3 DEF PushRound
  <1>3. ASSUME NEW t \in Thread, pc[t] \in {"run", "check"}, sig' = sig, NEW time,
               PopRound(t, time)
        PROVE  WaitOK'
    <2>1. CASE PopData /\ DqReturns(t)
      BY <1>1, <1>3, <2>1 DEF PopData
    <2>2. CASE DqFails(t)
      BY <1>1, <1>3, <2>2 DEF DqFails
    <2>3. CASE Suspend(t, time) /\ Fail({t}, "EOK")
      BY <1>3, <2>3, ErrorTypes, SuspendWaitOK
    <2> QED BY <1>3, <2>1, <2>2, <2>3 DEF PopRound
  <1>4. ASSUME NEW t \in Thread, DqBack(t) PROVE WaitOK'
    <2>1. CASE DqFails(t)
      BY <1>1, <1>4, <2>1 DEF DqBack, DqFails
    <2> QED BY <1>2, <1>3, <1>4, <2>1 DEF DqBack
  <1>5. ASSUME NEW t \in Thread, NEW d, NEW time, rt_data_queue_push(t, d, time) PROVE WaitOK'
    BY <1>2, <1>5 DEF rt_data_queue_push
  <1>6. ASSUME NEW t \in Thread, NEW time, rt_data_queue_pop(t, time) PROVE WaitOK'
    BY <1>3, <1>6 DEF rt_data_queue_pop
  <1> QED BY <1>4, <1>5, <1>6 DEF DqStep, DqNext

\* The steps of the completion.
LEMMA CompletionWaitOK ==
    ASSUME WaitOK, object' = object, object = "completion", CompletionStep PROVE WaitOK'
  <1>1. ASSUME NEW t \in Thread, NEW time, rt_completion_wait(t, time) PROVE WaitOK'
    <2>1. pc[t] = "run" /\ sig' = sig
      BY <1>1 DEF rt_completion_wait
    <2>2. CASE UNCHANGED <<stat, timer, error, pc>>
      BY <2>1, <2>2, ErrorTypes, ResumeWaitOK
    <2>3. CASE WaitSuspends(t, time)
      BY <2>1, <2>3, ErrorTypes, SuspendWaitOK DEF WaitSuspends
    <2> QED BY <1>1, <2>2, <2>3 DEF rt_completion_wait, WaitAtOnce, WaitRefused
  <1>2. ASSUME NEW t \in Thread, CompletionBack(t) \/ DoneLocked(t) PROVE WaitOK'
    <2>1. /\ pc[t] \in {"check", "done"} /\ sig' = sig /\ pc' = [pc EXCEPT ![t] = "run"]
          /\ Return(t)
          /\ (\E S : Resume(S)) \/ UNCHANGED <<stat, timer>>
      BY <1>2 DEF CompletionBack, DoneLocked, Return
    <2>2. error' \in [Thread -> Error] /\ "run" \in Label
      BY <2>1, ErrorTypes, CommonLabels
    <2> QED BY <2>1, <2>2, ResumeWaitOK
  <1>3. ASSUME NEW t \in Thread, rt_completion_done(t) PROVE WaitOK'
    <2>1. /\ pc[t] = "run" /\ sig' = sig /\ pc' = [pc EXCEPT ![t] = "done"]
          /\ UNCHANGED <<stat, timer>> /\ error' \in [Thread -> Error] /\ "done" \in Label
      BY <1>3, ErrorTypes, CommonLabels DEF rt_completion_done
    <2> QED BY <2>1, ResumeWaitOK
  <1> QED BY <1>1, <1>2, <1>3 DEF CompletionStep, CompletionNext

\* The steps of the pipe.
LEMMA PipeWaitOK == ASSUME WaitOK, object' = object, object = "pipe", AnyPipeStep PROVE WaitOK'
  <1>1. ASSUME NEW t \in Thread, NEW l \in Label, pc[t] \notin {"schedule", "off"}, sig' = sig,
               pc' = [pc EXCEPT ![t] = l], l = "run" \/ l \in PipeLabel,
               (\E S : Resume(S)) \/ UNCHANGED <<stat, timer>>, UNCHANGED error
        PROVE  WaitOK'
    BY <1>1, ErrorTypes, ResumeWaitOK
  <1>2. ASSUME NEW t \in Thread, NEW mode, pipe_fops_open(t, mode) PROVE WaitOK'
    BY <1>2 DEF pipe_fops_open, waitvars, WaitOK
  <1>3. ASSUME NEW t \in Thread, pipe_fops_close(t) PROVE WaitOK'
    <2>1. pc' = pc /\ sig' = sig /\ error' = error /\ \E S : Resume(S)
      BY <1>3 DEF pipe_fops_close, rt_wqueue_wakeup
    <2> QED BY <2>1, ErrorTypes, ResumeWaitOK
  <1>4. ASSUME NEW t \in Thread, NEW op, NEW count, NEW nonblock, PipeCall(t, op, count, nonblock)
        PROVE  WaitOK'
    BY <1>1, <1>4, CommonLabels DEF PipeCall, Begins, PipeLabel
  <1>5. ASSUME NEW t \in Thread, PipeStep(t) PROVE WaitOK'
    <2>1. sig' = sig /\ error' = error
      BY <1>5 DEF PipeStep
    <2>2. CASE ReadRound(t)
      <3>1. pc[t] = "lock" /\ ((\E S : Resume(S)) \/ UNCHANGED <<stat, timer>>)
        BY <2>2 DEF ReadRound, rt_wqueue_wakeup
      <3>2. \E l \in {"run", "wake"} : pc' = [pc EXCEPT ![t] = l]
        BY <2>2 DEF ReadRound, PipeReturns, PipeGoes
      <3> QED BY <1>1, <2>1, <3>1, <3>2, CommonLabels DEF PipeLabel
    <2>3. CASE WriteRound(t)
      <3>1. pc[t] = "lock" /\ UNCHANGED <<stat, timer>>
        BY <2>3 DEF WriteRound
      <3>2. \E l \in {"run", "wake", "last wake"} : pc' = [pc EXCEPT ![t] = l]
        <4>1. CASE readers = 0
          BY <2>3, <4>1 DEF WriteRound, PipeReturns, PipeGoes
        <4>2. CASE readers # 0
          <5>1. \E c : pc' = [pc EXCEPT ![t] = IF c THEN "last wake" ELSE "wake"]
            BY <2>3, <4>2 DEF WriteRound
          <5> QED BY <5>1
        <4> QED BY <4>1, <4>2
      <3> QED BY <1>1, <2>1, <3>1, <3>2, CommonLabels DEF PipeLabel
    <2>4. CASE PipeWakes(t)
      <3>1. pc[t] \in {"wake", "last wake"} /\ \E S : Resume(S)
        BY <2>4 DEF PipeWakes, rt_wqueue_wakeup
      <3>2. \E l \in {"run", "wait"} : pc' = [pc EXCEPT ![t] = l]
        BY <2>4 DEF PipeWakes, PipeReturns, PipeGoes
      <3> QED BY <1>1, <2>1, <3>1, <3>2, CommonLabels DEF PipeLabel
    <2>5. CASE PipeWaits(t)
      <3>1. pc[t] = "wait"
        BY <2>5 DEF PipeWaits
      <3>2. CASE Suspend(t, "forever")
        BY <2>1, <3>1, <3>2, ErrorTypes, SuspendWaitOK
      <3>3. CASE pc' = [pc EXCEPT ![t] = "lock"] /\ UNCHANGED <<stat, timer>>
        BY <1>1, <2>1, <3>1, <3>3, CommonLabels DEF PipeLabel
      <3> QED BY <2>5, <3>2, <3>3 DEF PipeWaits, rt_wqueue_wait
    <2>6. CASE PipeBack(t)
      <3>1. /\ pc[t] = "check" /\ UNCHANGED <<stat, timer>>
            /\ pc' = [pc EXCEPT ![t] = "lock"]
        BY <2>6 DEF PipeBack, PipeGoes
      <3> QED BY <1>1, <2>1, <3>1, CommonLabels DEF PipeLabel
    <2> QED BY <1>5, <2>2, <2>3, <2>4, <2>5, <2>6 DEF PipeStep
  <1> QED BY <1>2, <1>3, <1>4, <1>5 DEF AnyPipeStep, PipeNext

\* The steps of the driver.
LEMMA DriverWaitOK == ASSUME WaitOK, object' = object, DriverStep PROVE WaitOK'
  <1>1. CASE spi_wifi_isr
    BY <1>1, EventWaitOK DEF spi_wifi_isr
  <1>2. ASSUME NEW t \in Thread, rw009_wifi_tx(t) PROVE WaitOK'
    BY <1>2, PoolWaitOK DEF rw009_wifi_tx
  <1>3. ASSUME NEW t \in Thread, WifiStep(t) PROVE WaitOK'
    <2>1. CASE TxSend(t)
      BY <2>1, MailRoundWaitOK DEF TxSend, rt_mb_send_wait
    <2>2. CASE TxEvent(t) \/ DataAgain(t)
      BY <2>2, EventWaitOK DEF TxEvent, DataAgain
    <2>3. CASE DataRecv(t)
      BY <2>3, EventWaitOK DEF DataRecv
    <2>4. CASE TransferMail(t)
      BY <2>4, MailRoundWaitOK DEF TransferMail, rt_mb_recv
    <2>5. ASSUME NEW srdy, NEW s2m, TransferEnds(t, srdy, s2m) PROVE WaitOK'
      <3>1. (\E b : rt_mp_free(b)) \/ UNCHANGED waitvars
        BY <2>5 DEF TransferEnds
      <3>2. CASE UNCHANGED waitvars
        BY <3>2 DEF waitvars, WaitOK
      <3> QED BY <3>1, <3>2, FreeWaitOK
    <2> QED BY <1>3, <2>1, <2>2, <2>3, <2>4, <2>5 DEF WifiStep
  <1> QED BY <1>1, <1>2, <1>3 DEF DriverStep

\* Every step keeps what is known of waiting threads and of the objects not in use.
LEMMA BaseStep == ASSUME Base, [Next]_vars PROVE Base' /\ object' = object /\ StepOf
  <1>1. StepOf
    BY OneObject
  <1>2. Elsewhere' /\ object' = object
    BY <1>1, ElsewhereStep
  <1>3. WaitOK
    BY DEF Base
  <1>4. ASSUME UNCHANGED waitvars PROVE WaitOK'
    BY <1>2, <1>3, <1>4 DEF waitvars, WaitOK
  <1>5. ASSUME UNCHANGED vars PROVE WaitOK'
    BY <1>4, <1>5 DEF vars
  <1>6. ASSUME AnyHeapStep PROVE WaitOK'
    <2>1. UNCHANGED waitvars
      BY <1>6 DEF AnyHeapStep, HeapNext, HeapStep, rt_malloc, rt_free, rt_realloc, ReallocMallocs,
           ReallocFrees
    <2> QED BY <1>4, <2>1
  <1>7. ASSUME RingNext PROVE WaitOK'
    BY <1>4, <1>7 DEF RingNext
  <1>8. WaitOK'
    <2>1. ASSUME NEW t \in Thread, Proceed(t) \/ Timeout(t) PROVE WaitOK'
      BY <2>1, ProceedWaitOK, TimeoutWaitOK
    <2>2. ASSUME NEW t \in Thread, AllocBack(t) \/ EventBack(t) PROVE WaitOK'
      BY <1>2, <1>3, <2>2, PoolWaitOK, EventWaitOK
    <2>3. /\ MailStep => WaitOK'
          /\ PoolStep => WaitOK'
          /\ EventStep => WaitOK'
          /\ object = "message queue" /\ MqStep => WaitOK'
          /\ DqStep => WaitOK'
          /\ object = "completion" /\ CompletionStep => WaitOK'
          /\ object = "pipe" /\ AnyPipeStep => WaitOK'
          /\ DriverStep => WaitOK'
      BY <1>2, <1>3, MailWaitOK, PoolWaitOK, EventWaitOK, MqWaitOK, DqWaitOK, CompletionWaitOK,
         PipeWaitOK, DriverWaitOK, Zenon
    <2> QED BY <1>1, <1>5, <1>6, <1>7, <2>1, <2>2, <2>3, Zenon DEF StepOf
  <1> QED BY <1>1, <1>2, <1>8 DEF Base

\* At first no thread is in a call.
LEMMA BaseInit == Init => Base
  <1> SUFFICES ASSUME Init PROVE Base
    OBVIOUS
  <1>1. MailIdle
    BY DEF Init, MailInit, MailIdle
  <1>2. "run" \in Label /\ "run" \notin MqLabel /\ "run" \notin PipeLabel /\ "EOK" \in Error
    BY DEF Label, MqLabel, PipeLabel, Error
  <1>3. WaitOK
    BY <1>2 DEF Init, WaitInit, WaitOK
  <1> QED BY <1>1, <1>3 DEF Init, Base, Elsewhere

-----------------------------------------------------------------------------
(* Threads that wait in a call: what all lists of waiting threads share.   *)

Status == {"READY", "SUSPEND"}

\* The list has those threads of the call that are suspended.
Queued(list, S, st) ==
    /\ list \in Seq(Thread) /\ IsInjective(list)
    /\ ToSet(list) = {t \in S : st[t] = "SUSPEND"}

\* A thread in the call goes through rt_schedule, and has no error before it is resumed.
Calling(S, st, er, p) == S \subseteq Thread /\ \A t \in S :
    p[t] \in {"schedule", "off", "check"} /\ (st[t] = "SUSPEND" => er[t] = "EOK")

\* The threads that were resumed to look again.
Woke(S, st, er) == {t \in S : st[t] = "READY" /\ er[t] = "EOK"}

\* While a thread waits, each of the n things to be had has a thread on its way.
Awaited(list, S, n, st, er) == list # << >> => n <= Cardinality(Woke(S, st, er))

\* A list on which threads wait for n things.
WaitList(list, S, n, st, er, p) ==
    Queued(list, S, st) /\ Calling(S, st, er, p) /\ Awaited(list, S, n, st, er)

\* These threads are as they were.
SameFor(S) == \A u \in S : stat'[u] = stat[u] /\ error'[u] = error[u] /\ pc'[u] = pc[u]

\* A thread is ready or suspended.
LEMMA StatusType == ASSUME WaitOK PROVE stat \in [Thread -> Status]
  BY DEF WaitOK, Status

\* The number of threads that were resumed.
LEMMA WokeCount ==
    ASSUME NEW S, S \subseteq Thread, NEW st, NEW er
    PROVE  /\ IsFiniteSet(Woke(S, st, er)) /\ Cardinality(Woke(S, st, er)) \in Nat
           /\ Woke(S, st, er) \subseteq S
  <1>1. Woke(S, st, er) \subseteq Thread /\ Woke(S, st, er) \subseteq S
    BY DEF Woke
  <1>2. IsFiniteSet(Woke(S, st, er))
    BY <1>1, IpcAssumption, FS_Subset
  <1> QED BY <1>1, <1>2, FS_CardinalityType

\* A thread joins the list because there is nothing to be had.
LEMMA ListJoined ==
    ASSUME NEW list, NEW S, NEW n \in Int, stat \in [Thread -> Status],
           NEW list2, NEW S2, NEW n2 \in Int, NEW t \in Thread,
           WaitList(list, S, n, stat, error, pc), stat[t] = "READY",
           S2 = S \cup {t}, SameFor(S \ {t}),
           stat'[t] = "SUSPEND", error'[t] = "EOK", pc'[t] = "schedule",
           list2 \in Seq(Thread), ToSet(list2) = ToSet(list) \cup {t},
           t \notin ToSet(list) /\ IsInjective(list) => IsInjective(list2), n2 <= 0
    PROVE  WaitList(list2, S2, n2, stat', error', pc')
  <1>1. t \notin ToSet(list)
    BY DEF WaitList, Queued
  <1>2. Queued(list2, S2, stat')
    BY <1>1 DEF WaitList, Queued, SameFor
  <1>3. Calling(S2, stat', error', pc')
    BY DEF WaitList, Calling, SameFor
  <1>4. S2 \subseteq Thread
    BY DEF WaitList, Calling
  <1>5. Awaited(list2, S2, n2, stat', error')
    <2>1. Cardinality(Woke(S2, stat', error')) \in Nat
      BY <1>4, WokeCount
    <2> QED BY <2>1 DEF Awaited
  <1> QED BY <1>2, <1>3, <1>5 DEF WaitList

\* The threads of the list are left alone, and there is not more to be had.
LEMMA ListKept ==
    ASSUME NEW list, NEW S, NEW n \in Int,
           NEW n2 \in Int,
           WaitList(list, S, n, stat, error, pc), SameFor(S),
           n2 <= n \/ n2 <= 0 \/ list = << >>
    PROVE  WaitList(list, S, n2, stat', error', pc')
  <1>1. Queued(list, S, stat')
    BY DEF WaitList, Queued, SameFor
  <1>2. Calling(S, stat', error', pc')
    BY DEF WaitList, Calling, SameFor
  <1>3. Awaited(list, S, n2, stat', error')
    <2>1. Woke(S, stat', error') = Woke(S, stat, error)
      BY DEF Woke, SameFor
    <2>2. Cardinality(Woke(S, stat, error)) \in Nat
      BY WokeCount DEF WaitList, Calling
    <2>3. list # << >> => n <= Cardinality(Woke(S, stat, error))
      BY DEF WaitList, Awaited
    <2> QED BY <2>1, <2>2, <2>3 DEF Awaited
  <1> QED BY <1>1, <1>2, <1>3 DEF WaitList

\* The first thread of the list is resumed for one thing more.
LEMMA HeadServed ==
    ASSUME NEW list, NEW S, NEW n \in Int, stat \in [Thread -> Status],
           NEW n2 \in Int,
           WaitList(list, S, n, stat, error, pc), list # << >>,
           Resume({Head(list)}), \A u \in S : error'[u] = error[u] /\ pc'[u] = pc[u],
           n2 <= n + 1
    PROVE  /\ WaitList(Tail(list), S, n2, stat', error', pc')
           /\ \A u \in Thread \ S : stat'[u] = stat[u]
  <1> DEFINE h == Head(list)
             list2 == Tail(list)
  <1>6. \A u \in Thread : stat'[u] = IF u = h THEN "READY" ELSE stat[u]
    BY DEF Resume
  <1>1. /\ h \in ToSet(list) /\ list2 \in Seq(Thread) /\ IsInjective(list2)
        /\ ToSet(list2) = ToSet(list) \ {h}
    BY TailList DEF WaitList, Queued
  <1>2. h \in S /\ stat[h] = "SUSPEND" /\ error[h] = "EOK" /\ S \subseteq Thread
    BY <1>1 DEF WaitList, Queued, Calling
  <1> HIDE DEF h, list2
  <1>3. Queued(list2, S, stat')
    BY <1>1, <1>2, <1>6 DEF WaitList, Queued
  <1>4. Calling(S, stat', error', pc')
    BY <1>2, <1>6 DEF WaitList, Calling
  <1>5. Awaited(list2, S, n2, stat', error')
    <2> DEFINE W == Woke(S, stat, error)
    <2>1. Woke(S, stat', error') = W \cup {h} /\ h \notin W
      BY <1>2, <1>6 DEF Woke
    <2>2. IsFiniteSet(W) /\ Cardinality(W) \in Nat
      BY <1>2, WokeCount
    <2> HIDE DEF W
    <2>3. Cardinality(W \cup {h}) = Cardinality(W) + 1
      BY <2>1, <2>2, FS_AddElement
    <2>4. n <= Cardinality(W)
      BY DEF WaitList, Awaited, W
    <2> QED BY <2>1, <2>2, <2>3, <2>4 DEF Awaited
  <1> QED BY <1>2, <1>3, <1>4, <1>5, <1>6 DEF WaitList, list2

\* The first thread of the list, if there is one, is resumed for one thing more.
LEMMA Served ==
    ASSUME NEW list, NEW S, NEW n \in Int, stat \in [Thread -> Status],
           NEW n2 \in Int, NEW list2, WaitList(list, S, n, stat, error, pc),
           IF list # << >> THEN Resume({Head(list)}) /\ list2 = Tail(list)
                           ELSE stat' = stat /\ list2 = list,
           \A u \in S : error'[u] = error[u] /\ pc'[u] = pc[u], n2 <= n + 1
    PROVE  /\ WaitList(list2, S, n2, stat', error', pc')
           /\ \A u \in Thread \ S : stat'[u] = stat[u]
  <1>1. CASE list # << >>
    <2>1. Resume({Head(list)}) /\ list2 = Tail(list)
      BY <1>1
    <2>2. /\ WaitList(Tail(list), S, n2, stat', error', pc')
          /\ \A u \in Thread \ S : stat'[u] = stat[u]
      BY <1>1, <2>1, HeadServed
    <2> QED BY <2>1, <2>2
  <1>2. CASE list = << >>
    <2>1. list2 = list /\ stat' = stat /\ SameFor(S)
      BY <1>2 DEF SameFor
    <2>2. WaitList(list, S, n2, stat', error', pc')
      BY <1>2, <2>1, ListKept
    <2> QED BY <2>1, <2>2
  <1> QED BY <1>1, <1>2

\* A thread that does not wait takes one thing, or leaves without one when there is
\* none or it was not resumed for one.
LEMMA OneLeaves ==
    ASSUME NEW list, NEW S, NEW n \in Int, stat \in [Thread -> Status],
           NEW S2, NEW n2 \in Int, NEW t \in Thread,
           WaitList(list, S, n, stat, error, pc), stat[t] = "READY",
           S2 = S \ {t}, SameFor(S2),
           n2 <= n - 1 \/ n2 <= 0 \/ (n2 <= n /\ (t \in S => error[t] # "EOK"))
    PROVE  WaitList(list, S2, n2, stat', error', pc')
  <1>1. Queued(list, S2, stat')
    BY DEF WaitList, Queued, SameFor
  <1>2. Calling(S2, stat', error', pc')
    BY DEF WaitList, Calling, SameFor
  <1>3. Awaited(list, S2, n2, stat', error')
    <2> DEFINE W == Woke(S, stat, error)
    <2>1. Woke(S2, stat', error') = W \ {t}
      BY DEF Woke, SameFor
    <2>2. IsFiniteSet(W) /\ Cardinality(W) \in Nat
      BY WokeCount DEF WaitList, Calling
    <2>3. t \in W => t \in S /\ error[t] = "EOK"
      BY DEF Woke
    <2>4. list # << >> => n <= Cardinality(W)
      BY DEF WaitList, Awaited
    <2> HIDE DEF W
    <2>5. /\ IsFiniteSet(W \ {t})
          /\ Cardinality(W \ {t}) = IF t \in W THEN Cardinality(W) - 1 ELSE Cardinality(W)
      BY <2>2, FS_RemoveElement
    <2>6. Cardinality(W \ {t}) \in Nat
      BY <2>5, FS_CardinalityType
    <2>7. list # << >> => n2 <= Cardinality(W \ {t})
      <3>1. CASE t \in W
        BY <2>2, <2>3, <2>4, <2>5, <2>6, <3>1
      <3>2. CASE t \notin W
        BY <2>2, <2>4, <2>5, <2>6, <3>2
      <3> QED BY <3>1, <3>2
    <2> QED BY <2>1, <2>7 DEF Awaited
  <1> QED BY <1>1, <1>2, <1>3 DEF WaitList

\* All threads of the list are resumed, with an error or not.
LEMMA ListCleared ==
    ASSUME NEW list, NEW S, NEW n, NEW n2,
           WaitList(list, S, n, stat, error, pc), \A u \in S : stat'[u] # "SUSPEND" /\ pc'[u] = pc[u]
    PROVE  WaitList(<< >>, S, n2, stat', error', pc')
  <1>1. Queued(<< >>, S, stat')
    BY EmptyList DEF Queued
  <1>2. Calling(S, stat', error', pc')
    BY DEF WaitList, Calling
  <1> QED BY <1>1, <1>2 DEF WaitList, Awaited

\* A timeout takes a thread off the list, if it is on it.
LEMMA OneTimesOut ==
    ASSUME NEW list, NEW S, NEW n \in Int, stat \in [Thread -> Status],
           NEW t \in Thread, WaitList(list, S, n, stat, error, pc),
           stat[t] = "SUSPEND", stat'[t] = "READY", error'[t] = "ETIMEOUT", pc'[t] = pc[t],
           SameFor(Thread \ {t})
    PROVE  WaitList(RemoveFirst(list, t), S, n, stat', error', pc')
  <1> DEFINE list2 == RemoveFirst(list, t)
  <1>1. list2 \in Seq(Thread) /\ IsInjective(list2) /\ ToSet(list2) = ToSet(list) \ {t}
    BY UnlinkedList DEF WaitList, Queued
  <1>2. list = << >> => list2 = << >>
    BY NothingUnlinked
  <1> HIDE DEF list2
  <1>3. S \subseteq Thread
    BY DEF WaitList, Calling
  <1>4. Queued(list2, S, stat')
    BY <1>1, <1>3 DEF WaitList, Queued, SameFor
  <1>5. Calling(S, stat', error', pc')
    BY <1>3 DEF WaitList, Calling, SameFor
  <1>6. Awaited(list2, S, n, stat', error')
    <2>1. Woke(S, stat', error') = Woke(S, stat, error)
      BY <1>3 DEF Woke, SameFor
    <2> QED BY <1>2, <2>1 DEF WaitList, Awaited
  <1> QED BY <1>4, <1>5, <1>6 DEF WaitList, list2

\* A thread goes on in rt_schedule.
LEMMA ListProceeds ==
    ASSUME NEW list, NEW S, NEW n, Base, WaitList(list, S, n, stat, error, pc),
           NEW t \in Thread, Proceed(t)
    PROVE  WaitList(list, S, n, stat', error', pc')
  <1>1. /\ stat' = stat /\ error' = error
        /\ \A u \in Thread : pc'[u] = pc[u] \/ pc'[u] \in {"check", "off"}
    BY DEF Proceed, rt_schedule, SwitchBack, Base, WaitOK
  <1>2. Calling(S, stat', error', pc')
    BY <1>1 DEF WaitList, Calling
  <1> QED BY <1>1, <1>2 DEF WaitList

\* What a timeout does to threads.
LEMMA TimeoutEffect ==
    ASSUME Base, NEW t \in Thread, Timeout(t)
    PROVE  /\ stat[t] = "SUSPEND" /\ stat'[t] = "READY" /\ error'[t] = "ETIMEOUT" /\ pc' = pc
           /\ SameFor(Thread \ {t})
  BY DEF Timeout, rt_thread_timeout, Resume, Fail, Base, WaitOK, SameFor

\* What Suspend, Resume and Return do to threads.
LEMMA SuspendEffect ==
    ASSUME WaitOK, NEW t \in Thread, NEW time, Suspend(t, time), Fail({t}, "EOK")
    PROVE  /\ stat'[t] = "SUSPEND" /\ error'[t] = "EOK" /\ pc'[t] = "schedule"
           /\ SameFor(Thread \ {t})
  BY DEF Suspend, Fail, WaitOK, SameFor

\* Resume makes exactly these threads ready.
LEMMA ResumeEffect ==
    ASSUME WaitOK, NEW S, Resume(S)
    PROVE  \A u \in Thread : stat'[u] = IF u \in S THEN "READY" ELSE stat[u]
  BY DEF Resume

\* A thread that returns changes nothing for the others.
LEMMA ReturnEffect ==
    ASSUME WaitOK, NEW t \in Thread, Return(t)
    PROVE  /\ pc'[t] = "run" /\ error'[t] = "EOK"
           /\ \A u \in Thread \ {t} : pc'[u] = pc[u] /\ error'[u] = error[u]
  BY DEF Return, WaitOK

\* rt_ipc_list_suspend adds the thread to the list.
LEMMA PlacedList ==
    ASSUME NEW Flag, NEW s \in Seq(Thread), NEW t \in Thread
    PROVE  /\ Placed(Flag, s, t, Priority) \in Seq(Thread)
           /\ ToSet(Placed(Flag, s, t, Priority)) = ToSet(s) \cup {t}
           /\ IsInjective(s) /\ t \notin ToSet(s) => IsInjective(Placed(Flag, s, t, Priority))
  <1> DEFINE K == {i \in 1 .. Len(s) : Flag = "PRIO" /\ Priority[t] < Priority[s[i]]}
  <1>1. Len(s) \in Nat /\ DOMAIN s = 1 .. Len(s)
    BY ListIndices
  <1>2. Placed(Flag, s, t, Priority) = InsertedBefore(s, K, t)
    <2>1. ASSUME K # {} PROVE Min(K) # 0
      <3>1. K \subseteq Nat
        BY <1>1
      <3>2. Min(K) \in K
        BY <2>1, <3>1, LeastOfNat
      <3> QED BY <3>2, <1>1
    <2> QED BY <2>1 DEF Placed, InsertedBefore, SelectInSeq
  <1>3. K \subseteq 1 .. Len(s)
    OBVIOUS
  <1> HIDE DEF K
  <1>4. /\ InsertedBefore(s, K, t) \in Seq(Thread)
        /\ ToSet(InsertedBefore(s, K, t)) = ToSet(s) \cup {t}
        /\ IsInjective(s) /\ t \notin ToSet(s) => IsInjective(InsertedBefore(s, K, t))
    BY <1>3, InsertedList
  <1> QED BY <1>2, <1>4

-----------------------------------------------------------------------------
(* Rings.                                                                  *)

\* The n places of a ring of N from x on.
RingSeq(buf, x, n, N) == [i \in 1 .. n |-> buf[(x + i - 1) % N]]

\* The place i behind place x.
RingPlace(x, i, N) == (x + i) % N

\* A function on the first k numbers is a sequence.
LEMMA FunctionIsSeq ==
    ASSUME NEW V, NEW k \in Nat, NEW f \in [1 .. k -> V]
    PROVE  f \in Seq(V) /\ Len(f) = k
  OBVIOUS

\* i places behind place x.
LEMMA Wrapped ==
    ASSUME NEW N \in Nat \ {0}, NEW x \in 0 .. N - 1, NEW i \in 0 .. N
    PROVE  /\ (x + i) % N \in 0 .. N - 1
           /\ (x + i) % N = IF x + i < N THEN x + i ELSE x + i - N
  <1>2. CASE x + i < N
    BY <1>2
  <1>3. CASE x + i >= N
    <2>1. (x + i) % N = x + i - N
      BY <1>3
    <2> QED BY <1>3, <2>1
  <1> QED BY <1>2, <1>3

\* An index that only grows, and the place it stands for.
LEMMA GrowingIndex ==
    ASSUME NEW N \in Nat \ {0}, NEW g \in Nat, NEW j \in 0 .. N
    PROVE  g % N \in 0 .. N - 1 /\ (g + j) % N = ((g % N) + j) % N
  <1> DEFINE q == g \div N
             r == g % N
             r2 == (r + j) % N
  <1>1. q \in Int /\ r \in 0 .. N - 1 /\ g = N * q + r
    OBVIOUS
  <1>2. r2 = IF r + j < N THEN r + j ELSE r + j - N
    <2> HIDE DEF q, r
    <2> QED BY <1>1, Wrapped
  <1> DEFINE q2 == (g + j) \div N
             s == (g + j) % N
  <1>3. q2 \in Int /\ s \in 0 .. N - 1 /\ g + j = N * q2 + s
    OBVIOUS
  <1> HIDE DEF q, r, r2, q2, s
  <1>4. N * q2 + s = N * q + r + j
    BY <1>1, <1>3
  <1>5. s = r2
    <2>1. N * (q2 - q) = r + j - s
      BY <1>1, <1>3, <1>4
    <2> DEFINE d == q2 - q
    <2>2. d \in Int /\ N * d = r + j - s
      BY <1>1, <1>3, <2>1
    <2> HIDE DEF d
    <2>3. d < 2
      <3> SUFFICES ASSUME d >= 2 PROVE FALSE
        BY <2>2
      <3>1. N * d >= N * 2
        BY <2>2
      <3> QED BY <1>1, <1>3, <2>2, <3>1
    <2>4. d > -1
      <3> SUFFICES ASSUME d <= -1 PROVE FALSE
        BY <2>2
      <3>1. N * d <= N * (-1)
        BY <2>2
      <3> QED BY <1>1, <1>3, <2>2, <3>1
    <2>5. d = 0 \/ d = 1
      BY <2>2, <2>3, <2>4
    <2>6. CASE d = 0
      BY <1>1, <1>2, <1>3, <2>2, <2>6
    <2>7. CASE d = 1
      BY <1>1, <1>2, <1>3, <2>2, <2>7
    <2> QED BY <2>5, <2>6, <2>7
  <1> QED BY <1>1, <1>5 DEF r, r2, s

\* What it means to put value v behind the n places of a ring from x on ...
RingStore(N, V, buf, v, x, n) ==
    /\ RingSeq(buf, x, n, N) \in Seq(V)
    /\ RingSeq([buf EXCEPT ![RingPlace(x, n, N)] = v], x, n + 1, N) =
         Append(RingSeq(buf, x, n, N), v)
    /\ RingPlace(x, n, N) \in 0 .. N - 1
    /\ RingPlace(RingPlace(x, n, N), 1, N) = RingPlace(x, n + 1, N)
    /\ RingPlace(x, n + 1, N) \in 0 .. N - 1

\* ... and to take the value from the first of them.
RingTake(N, V, buf, x, n) ==
    /\ RingSeq(buf, x, n, N) \in Seq(V) /\ RingSeq(buf, x, n, N) # << >>
    /\ Head(RingSeq(buf, x, n, N)) = buf[x]
    /\ RingSeq(buf, RingPlace(x, 1, N), n - 1, N) = Tail(RingSeq(buf, x, n, N))
    /\ RingPlace(x, 1, N) \in 0 .. N - 1
    /\ RingPlace(RingPlace(x, 1, N), n - 1, N) = RingPlace(x, n, N)

\* A value is put behind the n places.
LEMMA RingPuts ==
    ASSUME NEW N \in Nat \ {0}, NEW V, NEW buf \in [0 .. N - 1 -> V], NEW v \in V,
           NEW x \in 0 .. N - 1, NEW n \in 0 .. N - 1
    PROVE  RingStore(N, V, buf, v, x, n)
  <1> DEFINE y == RingPlace(x, n, N)
             buf2 == [buf EXCEPT ![y] = v]
  <1>8. y = (x + n) % N /\ buf2 = [buf EXCEPT ![y] = v]
    BY DEF RingPlace
  <1> HIDE DEF y, buf2
  <1> DEFINE s == RingSeq(buf, x, n, N)
             s2 == RingSeq(buf2, x, n + 1, N)
  <1>0. n \in 0 .. N /\ n + 1 \in 0 .. N /\ 1 \in 0 .. N
    OBVIOUS
  <1>1. /\ y \in 0 .. N - 1 /\ y = IF x + n < N THEN x + n ELSE x + n - N
        /\ (x + (n + 1)) % N = IF x + (n + 1) < N THEN x + (n + 1) ELSE x + (n + 1) - N
        /\ (x + (n + 1)) % N \in 0 .. N - 1
    BY <1>0, <1>8, Wrapped
  <1>2. (y + 1) % N = IF y + 1 < N THEN y + 1 ELSE y + 1 - N
    BY <1>0, <1>1, Wrapped
  <1>3. RingPlace(y, 1, N) = RingPlace(x, n + 1, N)
    <2> DEFINE a == (y + 1) % N
               b == (x + (n + 1)) % N
    <2>2. /\ a = IF y + 1 < N THEN y + 1 ELSE y + 1 - N
          /\ b = IF x + (n + 1) < N THEN x + (n + 1) ELSE x + (n + 1) - N
      BY <1>1, <1>2
    <2> HIDE DEF a, b
    <2>3. a = b
      BY <1>1, <2>2
    <2> QED BY <2>3 DEF a, b, RingPlace
  <1>4. \A i \in 1 .. n : (x + i - 1) % N \in 0 .. N - 1 /\ (x + i - 1) % N # y
    <2> TAKE i \in 1 .. n
    <2> DEFINE j == i - 1
               z == (x + j) % N
    <2>1. j \in 0 .. N /\ j < n /\ x + i - 1 = x + j /\ j \in Nat
      OBVIOUS
    <2>2. z \in 0 .. N - 1 /\ z = IF x + j < N THEN x + j ELSE x + j - N
      BY <2>1, Wrapped
    <2> HIDE DEF j, z
    <2>3. z # y
      BY <1>1, <2>1, <2>2
    <2> QED BY <2>1, <2>2, <2>3 DEF z
  <1>5. s \in Seq(V) /\ Len(s) = n /\ \A i \in 1 .. n : s[i] = buf[(x + i - 1) % N]
    BY <1>4 DEF RingSeq
  <1>6. (x + (n + 1) - 1) % N = y
    <2>1. x + (n + 1) - 1 = x + n
      OBVIOUS
    <2> QED BY <2>1, <1>8
  <1>7. s2 = Append(s, v)
    <2>1. \A i \in 1 .. n + 1 : s2[i] = buf2[(x + i - 1) % N]
      BY DEF RingSeq
    <2>2. buf2[y] = v /\ \A z \in 0 .. N - 1 : z # y => buf2[z] = buf[z]
      BY <1>1, <1>8
    <2>5. s2 = [i \in 1 .. n + 1 |-> s2[i]]
      BY DEF RingSeq
    <2> HIDE DEF s, s2
    <2>3. ASSUME NEW i \in 1 .. n PROVE s2[i] = s[i] /\ s2[i] \in V
      <3>1. i \in 1 .. n + 1
        OBVIOUS
      <3> DEFINE z == (x + i - 1) % N
      <3>2. z \in 0 .. N - 1 /\ z # y /\ s2[i] = buf2[z] /\ s[i] = buf[z]
        BY <1>4, <1>5, <2>1, <3>1
      <3> HIDE DEF z
      <3> QED BY <2>2, <3>2
    <2>4. s2[n + 1] = v
      <3>1. n + 1 \in 1 .. n + 1
        OBVIOUS
      <3>2. s2[n + 1] = buf2[(x + (n + 1) - 1) % N]
        BY <2>1, <3>1
      <3> QED BY <1>6, <2>2, <3>2
    <2>6. \A i \in 1 .. n + 1 : s2[i] \in V
      <3> TAKE i \in 1 .. n + 1
      <3>1. i \in 1 .. n \/ i = n + 1
        OBVIOUS
      <3> QED BY <2>3, <2>4, <3>1
    <2>7. s2 \in Seq(V) /\ Len(s2) = n + 1
      <3> DEFINE k == n + 1
      <3>1. k \in Nat /\ s2 = [i \in 1 .. k |-> s2[i]] /\ \A i \in 1 .. k : s2[i] \in V
        BY <2>5, <2>6
      <3> HIDE DEF k
      <3>2. s2 \in [1 .. k -> V]
        BY <3>1
      <3>3. s2 \in Seq(V) /\ Len(s2) = k
        BY <3>1, <3>2, FunctionIsSeq
      <3> QED BY <3>3 DEF k
    <2> QED BY <1>5, <2>3, <2>4, <2>7
  <1>9. RingPlace(x, n + 1, N) \in 0 .. N - 1
    BY <1>1 DEF RingPlace
  <1> QED BY <1>1, <1>3, <1>5, <1>7, <1>9 DEF y, buf2, RingStore

\* A value is taken from the first of the n places.
LEMMA RingGetsAt ==
    ASSUME NEW N \in Nat \ {0}, NEW V, NEW buf \in [0 .. N - 1 -> V],
           NEW x \in 0 .. N - 1, NEW n \in 1 .. N
    PROVE  /\ RingSeq(buf, x, n, N) \in Seq(V) /\ RingSeq(buf, x, n, N) # << >>
           /\ Head(RingSeq(buf, x, n, N)) = buf[x]
           /\ RingSeq(buf, (x + 1) % N, n - 1, N) = Tail(RingSeq(buf, x, n, N))
           /\ (x + 1) % N \in 0 .. N - 1
           /\ (((x + 1) % N) + (n - 1)) % N = (x + n) % N
  <1> DEFINE s == RingSeq(buf, x, n, N)
             x2 == (x + 1) % N
             s2 == RingSeq(buf, x2, n - 1, N)
  <1>0. 1 \in 0 .. N /\ n \in 0 .. N /\ n - 1 \in 0 .. N
    OBVIOUS
  <1>1. x2 \in 0 .. N - 1 /\ x2 = IF x + 1 < N THEN x + 1 ELSE x + 1 - N
    BY <1>0, Wrapped
  <1>2. ASSUME NEW j \in 1 .. N PROVE (x2 + (j - 1)) % N = (x + j) % N
    <2> DEFINE a == (x2 + (j - 1)) % N
               b == (x + j) % N
    <2>1. j - 1 \in 0 .. N /\ j \in 0 .. N
      OBVIOUS
    <2>2. /\ a = IF x2 + (j - 1) < N THEN x2 + (j - 1) ELSE x2 + (j - 1) - N
          /\ b = IF x + j < N THEN x + j ELSE x + j - N
      BY <1>1, <2>1, Wrapped
    <2> HIDE DEF a, b, x2
    <2>3. a = b
      BY <1>1, <2>2
    <2> QED BY <2>3 DEF a, b
  <1>3. \A i \in 1 .. n : (x + i - 1) % N \in 0 .. N - 1
    <2> TAKE i \in 1 .. n
    <2>1. i - 1 \in 0 .. N /\ x + i - 1 = x + (i - 1)
      OBVIOUS
    <2> QED BY <2>1, Wrapped
  <1>4. s \in Seq(V) /\ Len(s) = n /\ \A i \in 1 .. n : s[i] = buf[(x + i - 1) % N]
    BY <1>3 DEF RingSeq
  <1>5. s # << >> /\ Head(s) = buf[x]
    <2>1. x + 1 - 1 = x /\ x % N = x
      OBVIOUS
    <2>2. s[1] = buf[x]
      BY <1>4, <2>1
    <2> HIDE DEF s
    <2> QED BY <1>4, <2>2
  <1>6. s2 = Tail(s)
    <2>1. \A i \in 1 .. n - 1 : s2[i] = s[i + 1]
      <3> TAKE i \in 1 .. n - 1
      <3>1. s2[i] = buf[(x2 + i - 1) % N] /\ s[i + 1] = buf[(x + (i + 1) - 1) % N]
        BY <1>4 DEF RingSeq
      <3>2. x2 + i - 1 = x2 + (i - 1) /\ x + (i + 1) - 1 = x + i
        BY <1>1
      <3>3. (x2 + (i - 1)) % N = (x + i) % N
        BY <1>2
      <3> HIDE DEF s, s2, x2
      <3> QED BY <3>1, <3>2, <3>3
    <2>2. s2 = [i \in 1 .. n - 1 |-> s2[i]]
      BY DEF RingSeq
    <2> HIDE DEF s, s2
    <2>3. Tail(s) \in Seq(V) /\ Len(Tail(s)) = n - 1 /\ \A i \in 1 .. n - 1 : Tail(s)[i] = s[i + 1]
      BY <1>4, <1>5
    <2>4. s2 \in Seq(V) /\ Len(s2) = n - 1
      <3>1. \A i \in 1 .. n - 1 : s2[i] \in V
        BY <1>4, <2>1
      <3> QED BY <2>2, <3>1
    <2> QED BY <2>1, <2>3, <2>4
  <1> QED BY <1>1, <1>2, <1>4, <1>5, <1>6

\* The same, of places.
LEMMA RingGets ==
    ASSUME NEW N \in Nat \ {0}, NEW V, NEW buf \in [0 .. N - 1 -> V],
           NEW x \in 0 .. N - 1, NEW n \in 1 .. N
    PROVE  RingTake(N, V, buf, x, n)
  BY RingGetsAt, Zenon DEF RingPlace, RingTake

-----------------------------------------------------------------------------
(* The mailbox.                                                            *)

\* The messages are in consecutive places of the ring.
MailRing ==
    /\ msg_pool \in [0 .. Size - 1 -> Msg \cup {NoMsg}]
    /\ in_offset \in 0 .. Size - 1 /\ out_offset \in 0 .. Size - 1 /\ entry \in 0 .. Size
    /\ in_offset = RingPlace(out_offset, entry, Size)
    /\ value \in Msg \cup {NoMsg}

MailCalls ==
    /\ mail \in [Thread -> [op : {"none", "send", "recv"}, msg : Msg \cup {NoMsg},
                            time : {"none", "ticks", "forever"}]]
    /\ \A t \in Thread : mail[t].op = "send" => mail[t].msg \in Msg

MailWait ==
    /\ WaitList(suspend_thread, InCall("recv"), entry, stat, error, pc)
    /\ WaitList(suspend_sender_thread, InCall("send"), Size - entry, stat, error, pc)

MailInv == MailRing /\ MailCalls /\ MailWait

\* The queue is what the ring has.
LEMMA MailQueueRing == MailQueue = RingSeq(msg_pool, out_offset, entry, Size)
  BY DEF MailQueue, RingSeq

\* Deposit appends the message to the queue.
LEMMA DepositRing ==
    ASSUME MailRing, NEW m \in Msg, Deposit(m)
    PROVE  /\ MailRing' /\ entry' = entry + 1 /\ value' = value
           /\ MailQueue \in Seq(Msg \cup {NoMsg}) /\ Len(MailQueue) = entry
           /\ MailQueue' = Append(MailQueue, m)
  <1> DEFINE V == Msg \cup {NoMsg}
  <1>1. /\ Size \in Nat \ {0} /\ msg_pool \in [0 .. Size - 1 -> V] /\ m \in V
        /\ out_offset \in 0 .. Size - 1 /\ entry \in 0 .. Size - 1
        /\ in_offset = RingPlace(out_offset, entry, Size) /\ in_offset \in 0 .. Size - 1
        /\ msg_pool' = [msg_pool EXCEPT ![in_offset] = m]
        /\ in_offset' = RingPlace(in_offset, 1, Size)
        /\ out_offset' = out_offset /\ entry' = entry + 1 /\ value' = value
    BY MailAssumption DEF MailRing, Deposit, RingPlace
  <1> HIDE DEF V
  <1>4. /\ Size \in Nat \ {0} /\ msg_pool \in [0 .. Size - 1 -> V] /\ m \in V
        /\ out_offset \in 0 .. Size - 1 /\ entry \in 0 .. Size - 1
    BY <1>1
  <1>5. RingStore(Size, V, msg_pool, m, out_offset, entry)
    BY <1>4, RingPuts
  <1>2. /\ RingSeq(msg_pool, out_offset, entry, Size) \in Seq(V)
        /\ RingSeq(msg_pool', out_offset, entry + 1, Size) =
             Append(RingSeq(msg_pool, out_offset, entry, Size), m)
        /\ RingPlace(in_offset, 1, Size) = RingPlace(out_offset, entry + 1, Size)
        /\ RingPlace(in_offset, 1, Size) \in 0 .. Size - 1
    BY <1>1, <1>5, Zenon DEF RingStore
  <1>3. entry + 1 \in 0 .. Size /\ msg_pool' \in [0 .. Size - 1 -> V]
    BY <1>1
  <1>6. MailRing'
    BY <1>1, <1>2, <1>3 DEF MailRing, V
  <1>7. MailQueue' = RingSeq(msg_pool', out_offset, entry + 1, Size)
    BY <1>1 DEF MailQueue, RingSeq
  <1>8. Len(MailQueue) = entry
    BY <1>1 DEF MailQueue
  <1> QED BY <1>1, <1>2, <1>6, <1>7, <1>8, MailQueueRing DEF V

\* Withdraw takes the first message off the queue.
LEMMA WithdrawRing ==
    ASSUME MailRing, Withdraw
    PROVE  /\ MailRing' /\ entry' = entry - 1
           /\ MailQueue \in Seq(Msg \cup {NoMsg}) /\ MailQueue # << >>
           /\ MailQueue' = Tail(MailQueue) /\ value' = Head(MailQueue)
  <1> DEFINE V == Msg \cup {NoMsg}
  <1>1. /\ Size \in Nat \ {0} /\ msg_pool \in [0 .. Size - 1 -> V]
        /\ out_offset \in 0 .. Size - 1 /\ entry \in 1 .. Size
        /\ in_offset = RingPlace(out_offset, entry, Size) /\ in_offset \in 0 .. Size - 1
        /\ msg_pool' = msg_pool /\ in_offset' = in_offset
        /\ out_offset' = RingPlace(out_offset, 1, Size) /\ entry' = entry - 1
        /\ value' = msg_pool[out_offset]
    BY MailAssumption DEF MailRing, Withdraw, RingPlace
  <1> HIDE DEF V
  <1>4. /\ Size \in Nat \ {0} /\ msg_pool \in [0 .. Size - 1 -> V]
        /\ out_offset \in 0 .. Size - 1 /\ entry \in 1 .. Size
    BY <1>1
  <1>5. RingTake(Size, V, msg_pool, out_offset, entry)
    BY <1>4, RingGets
  <1>2. /\ RingSeq(msg_pool, out_offset', entry - 1, Size) =
             Tail(RingSeq(msg_pool, out_offset, entry, Size))
        /\ out_offset' \in 0 .. Size - 1
        /\ RingPlace(out_offset', entry - 1, Size) = RingPlace(out_offset, entry, Size)
    BY <1>1, <1>5, Zenon DEF RingTake
  <1>3. entry - 1 \in 0 .. Size /\ value' \in V
    BY <1>1
  <1>6. MailRing'
    BY <1>1, <1>2, <1>3 DEF MailRing, V
  <1>7. MailQueue' = RingSeq(msg_pool, out_offset', entry - 1, Size)
    BY <1>1 DEF MailQueue, RingSeq
  <1> QED BY <1>1, <1>2, <1>5, <1>6, <1>7, MailQueueRing DEF V, RingTake

\* A message resumes the first thread that waits for one, a free place the first
\* that waits for room.
LEMMA DepositServes ==
    ASSUME WaitOK, MailRing, NEW m \in Msg, Deposit(m), NEW R \in SUBSET Thread,
           WaitList(suspend_thread, R, entry, stat, error, pc),
           \A u \in R : error'[u] = error[u] /\ pc'[u] = pc[u]
    PROVE  /\ WaitList(suspend_thread', R, entry', stat', error', pc')
           /\ \A u \in Thread \ R : stat'[u] = stat[u]
  <1>0. entry \in Int /\ entry' \in Int /\ entry' <= entry + 1 /\ stat \in [Thread -> Status]
    <2>1. entry' = entry + 1 /\ entry \in 0 .. Size /\ entry' \in 0 .. Size
      BY DepositRing, Zenon DEF MailRing
    <2>2. stat \in [Thread -> Status]
      BY DEF WaitOK, Status
    <2> QED BY <2>1, <2>2, MailAssumption
  <1>1. IF suspend_thread # << >>
        THEN Resume({Head(suspend_thread)}) /\ suspend_thread' = Tail(suspend_thread)
        ELSE stat' = stat /\ suspend_thread' = suspend_thread
    BY DEF Deposit
  <1> QED BY <1>0, <1>1, Served

\* Withdraw resumes the first thread that waits for room.
LEMMA WithdrawServes ==
    ASSUME WaitOK, MailRing, Withdraw, NEW R \in SUBSET Thread,
           WaitList(suspend_sender_thread, R, Size - entry, stat, error, pc),
           \A u \in R : error'[u] = error[u] /\ pc'[u] = pc[u]
    PROVE  /\ WaitList(suspend_sender_thread', R, Size - entry', stat', error', pc')
           /\ \A u \in Thread \ R : stat'[u] = stat[u]
  <1>0. /\ Size - entry \in Int /\ Size - entry' \in Int /\ Size - entry' <= Size - entry + 1
        /\ stat \in [Thread -> Status]
    <2>1. entry' = entry - 1 /\ entry \in 0 .. Size /\ entry' \in 0 .. Size
      BY WithdrawRing, Zenon DEF MailRing
    <2>2. stat \in [Thread -> Status]
      BY DEF WaitOK, Status
    <2> QED BY <2>1, <2>2, MailAssumption
  <1>1. IF suspend_sender_thread # << >>
        THEN Resume({Head(suspend_sender_thread)}) /\ suspend_sender_thread' = Tail(suspend_sender_thread)
        ELSE stat' = stat /\ suspend_sender_thread' = suspend_sender_thread
    BY DEF Withdraw
  <1> QED BY <1>0, <1>1, Served

\* The calls that threads are in after one of them returns.
LEMMA MailReturned ==
    ASSUME WaitOK, MailCalls, NEW t \in Thread, MailReturns(t)
    PROVE  /\ MailCalls' /\ \A op \in {"send", "recv"} : InCall(op)' = InCall(op) \ {t}
           /\ \A u \in Thread \ {t} : error'[u] = error[u] /\ pc'[u] = pc[u]
  <1>1. /\ mail' = [mail EXCEPT ![t] = NoMail] /\ NoMail.op = "none"
        /\ NoMail \in [op : {"none", "send", "recv"}, msg : Msg \cup {NoMsg},
                       time : {"none", "ticks", "forever"}]
    BY DEF MailReturns, NoMail
  <1>2. MailCalls'
    BY <1>1 DEF MailCalls
  <1>3. \A op \in {"send", "recv"} : InCall(op)' = InCall(op) \ {t}
    BY <1>1 DEF MailCalls, InCall
  <1>4. \A u \in Thread \ {t} : error'[u] = error[u] /\ pc'[u] = pc[u]
    BY ReturnEffect DEF MailReturns
  <1> QED BY <1>2, <1>3, <1>4

\* Nobody waits for a message and for room at a time.
LEMMA MailSplit ==
    /\ InCall("send") \subseteq Thread /\ InCall("recv") \subseteq Thread
    /\ InCall("send") \cap InCall("recv") = {}
  BY DEF InCall

\* A round of rt_mb_send_wait.
LEMMA SendRoundInv ==
    ASSUME WaitOK, MailInv, NEW t \in Thread, stat[t] = "READY", t \notin InCall("recv"),
           NEW m \in Msg, NEW time \in {"none", "ticks", "forever"}, SendRound(t, m, time)
    PROVE  MailInv'
  <1> DEFINE R == InCall("recv")
             S == InCall("send")
  <1>0. /\ WaitList(suspend_thread, R, entry, stat, error, pc)
        /\ WaitList(suspend_sender_thread, S, Size - entry, stat, error, pc)
        /\ MailRing /\ MailCalls /\ stat \in [Thread -> Status]
        /\ entry \in Int /\ Size - entry \in Int /\ Size \in Int
    <2>1. entry \in 0 .. Size /\ Size \in Nat
      BY MailAssumption DEF MailInv, MailRing
    <2>2. stat \in [Thread -> Status]
      BY DEF WaitOK, Status
    <2>3. /\ WaitList(suspend_thread, R, entry, stat, error, pc)
          /\ WaitList(suspend_sender_thread, S, Size - entry, stat, error, pc)
          /\ MailRing /\ MailCalls
      BY DEF MailInv, MailWait
    <2> QED BY <2>1, <2>2, <2>3
  <1>1. CASE Deposit(m) /\ MailReturns(t)
    <2>1. MailRing' /\ entry' = entry + 1 /\ entry' \in Int
      BY <1>0, <1>1, DepositRing
    <2>2. /\ MailCalls' /\ R' = R \ {t} /\ S' = S \ {t}
          /\ \A u \in Thread \ {t} : error'[u] = error[u] /\ pc'[u] = pc[u]
      BY <1>0, <1>1, MailReturned
    <2>3. R' = R /\ R \in SUBSET Thread /\ S' \subseteq Thread \ R /\ t \notin R
      BY <2>2, MailSplit
    <2>4. \A u \in R : error'[u] = error[u] /\ pc'[u] = pc[u]
      BY <2>2, <2>3
    <2> HIDE DEF R, S
    <2>5. /\ WaitList(suspend_thread', R, entry', stat', error', pc')
          /\ \A u \in Thread \ R : stat'[u] = stat[u]
      BY <1>0, <1>1, <2>3, <2>4, DepositServes
    <2>6. SameFor(S \ {t})
      BY <2>2, <2>3, <2>5 DEF SameFor
    <2>7. Size - entry' \in Int /\ Size - entry' <= Size - entry - 1
      BY <1>0, <2>1
    <2>8. WaitList(suspend_sender_thread, S \ {t}, Size - entry', stat', error', pc')
      BY <1>0, <2>6, <2>7, OneLeaves
    <2>9. suspend_sender_thread' = suspend_sender_thread
      BY <1>1 DEF Deposit
    <2> QED BY <2>1, <2>2, <2>3, <2>5, <2>8, <2>9 DEF MailInv, MailWait, R, S
  <1>2. CASE /\ entry = Size /\ MailReturns(t)
             /\ UNCHANGED <<stat, timer, ring, suspend_thread, suspend_sender_thread, value>>
    <2>1. MailRing' /\ entry' = entry
      BY <1>0, <1>2 DEF MailRing, ring
    <2>2. /\ MailCalls' /\ R' = R \ {t} /\ S' = S \ {t}
          /\ \A u \in Thread \ {t} : error'[u] = error[u] /\ pc'[u] = pc[u]
      BY <1>0, <1>2, MailReturned
    <2>3. R' = R /\ R \subseteq Thread /\ t \notin R /\ S \subseteq Thread
      BY <2>2, MailSplit
    <2> HIDE DEF R, S
    <2>4. SameFor(R) /\ SameFor(S \ {t})
      BY <1>2, <2>2, <2>3 DEF SameFor
    <2>5. WaitList(suspend_thread, R, entry, stat', error', pc')
      BY <1>0, <2>4, ListKept
    <2>6. WaitList(suspend_sender_thread, S \ {t}, Size - entry, stat', error', pc')
      <3>1. Size - entry <= 0
        BY <1>0, <1>2
      <3> QED BY <1>0, <2>4, <3>1, OneLeaves
    <2> QED BY <1>2, <2>1, <2>2, <2>3, <2>5, <2>6 DEF MailInv, MailWait, R, S
  <1>3. CASE entry = Size /\ SenderWaits(t, m, time)
    <2>1. MailRing' /\ entry' = entry /\ suspend_thread' = suspend_thread
      BY <1>0, <1>3 DEF MailRing, ring, SenderWaits
    <2>2. MailCalls' /\ R' = R /\ S' = S \cup {t}
      <3>1. mail' = [mail EXCEPT ![t] = [op |-> "send", msg |-> m, time |-> time]]
        BY <1>3 DEF SenderWaits
      <3>2. mail[t].op # "recv"
        BY DEF InCall
      <3>3. MailCalls'
        BY <1>0, <3>1 DEF MailCalls
      <3> QED BY <1>0, <3>1, <3>2, <3>3 DEF MailCalls, InCall
    <2>3. t \notin R /\ R \subseteq Thread /\ S \subseteq Thread
      BY MailSplit
    <2>4. /\ stat'[t] = "SUSPEND" /\ error'[t] = "EOK" /\ pc'[t] = "schedule"
          /\ SameFor(Thread \ {t})
      BY <1>3, SuspendEffect DEF SenderWaits
    <2> HIDE DEF R, S
    <2>5. SameFor(R) /\ SameFor(S \ {t})
      BY <2>3, <2>4 DEF SameFor
    <2>6. WaitList(suspend_thread, R, entry, stat', error', pc')
      BY <1>0, <2>5, ListKept
    <2> DEFINE l == suspend_sender_thread'
    <2>7. /\ l \in Seq(Thread) /\ ToSet(l) = ToSet(suspend_sender_thread) \cup {t}
          /\ t \notin ToSet(suspend_sender_thread) /\ IsInjective(suspend_sender_thread) =>
               IsInjective(l)
      <3>1. l = Placed(MailFlag, suspend_sender_thread, t, Priority)
        BY <1>3 DEF SenderWaits
      <3>2. suspend_sender_thread \in Seq(Thread)
        BY <1>0 DEF WaitList, Queued
      <3> QED BY <3>1, <3>2, PlacedList
    <2> HIDE DEF l
    <2>8. WaitList(l, S \cup {t}, Size - entry, stat', error', pc')
      <3>1. Size - entry <= 0
        BY <1>0, <1>3
      <3> QED BY <1>0, <2>4, <2>5, <2>7, <3>1, ListJoined
    <2> QED BY <2>1, <2>2, <2>6, <2>8 DEF MailInv, MailWait, R, S, l
  <1> QED BY <1>1, <1>2, <1>3 DEF SendRound

\* A round of rt_mb_recv.
LEMMA RecvRoundInv ==
    ASSUME WaitOK, MailInv, NEW t \in Thread, stat[t] = "READY", t \notin InCall("send"),
           NEW time \in {"none", "ticks", "forever"}, RecvRound(t, time)
    PROVE  MailInv'
  <1> DEFINE R == InCall("recv")
             S == InCall("send")
  <1>0. /\ WaitList(suspend_thread, R, entry, stat, error, pc)
        /\ WaitList(suspend_sender_thread, S, Size - entry, stat, error, pc)
        /\ MailRing /\ MailCalls /\ stat \in [Thread -> Status]
        /\ entry \in Int /\ Size - entry \in Int /\ Size \in Int
    <2>1. entry \in 0 .. Size /\ Size \in Nat
      BY MailAssumption DEF MailInv, MailRing
    <2>2. stat \in [Thread -> Status]
      BY DEF WaitOK, Status
    <2>3. /\ WaitList(suspend_thread, R, entry, stat, error, pc)
          /\ WaitList(suspend_sender_thread, S, Size - entry, stat, error, pc)
          /\ MailRing /\ MailCalls
      BY DEF MailInv, MailWait
    <2> QED BY <2>1, <2>2, <2>3
  <1>1. CASE Withdraw /\ MailReturns(t)
    <2>1. MailRing' /\ entry' = entry - 1 /\ entry' \in Int
      BY <1>0, <1>1, WithdrawRing
    <2>2. /\ MailCalls' /\ R' = R \ {t} /\ S' = S \ {t}
          /\ \A u \in Thread \ {t} : error'[u] = error[u] /\ pc'[u] = pc[u]
      BY <1>0, <1>1, MailReturned
    <2>3. S' = S /\ S \in SUBSET Thread /\ R' \subseteq Thread \ S /\ t \notin S
      BY <2>2, MailSplit
    <2>4. \A u \in S : error'[u] = error[u] /\ pc'[u] = pc[u]
      BY <2>2, <2>3
    <2> HIDE DEF R, S
    <2>5. /\ WaitList(suspend_sender_thread', S, Size - entry', stat', error', pc')
          /\ \A u \in Thread \ S : stat'[u] = stat[u]
      BY <1>0, <1>1, <2>3, <2>4, WithdrawServes
    <2>6. SameFor(R \ {t})
      BY <2>2, <2>3, <2>5 DEF SameFor
    <2>7. entry' <= entry - 1
      BY <1>0, <2>1
    <2>8. WaitList(suspend_thread, R \ {t}, entry', stat', error', pc')
      BY <1>0, <2>1, <2>6, <2>7, OneLeaves
    <2>9. suspend_thread' = suspend_thread
      BY <1>1 DEF Withdraw
    <2> QED BY <2>1, <2>2, <2>3, <2>5, <2>8, <2>9 DEF MailInv, MailWait, R, S
  <1>2. CASE /\ entry = 0 /\ MailReturns(t)
             /\ UNCHANGED <<stat, timer, ring, suspend_thread, suspend_sender_thread, value>>
    <2>1. MailRing' /\ entry' = entry
      BY <1>0, <1>2 DEF MailRing, ring
    <2>2. /\ MailCalls' /\ R' = R \ {t} /\ S' = S \ {t}
          /\ \A u \in Thread \ {t} : error'[u] = error[u] /\ pc'[u] = pc[u]
      BY <1>0, <1>2, MailReturned
    <2>3. S' = S /\ R \subseteq Thread /\ t \notin S /\ S \subseteq Thread
      BY <2>2, MailSplit
    <2> HIDE DEF R, S
    <2>4. SameFor(S) /\ SameFor(R \ {t})
      BY <1>2, <2>2, <2>3 DEF SameFor
    <2>5. WaitList(suspend_sender_thread, S, Size - entry, stat', error', pc')
      BY <1>0, <2>4, ListKept
    <2>6. WaitList(suspend_thread, R \ {t}, entry, stat', error', pc')
      <3>1. entry <= 0
        BY <1>0, <1>2
      <3> QED BY <1>0, <2>4, <3>1, OneLeaves
    <2> QED BY <1>2, <2>1, <2>2, <2>3, <2>5, <2>6 DEF MailInv, MailWait, R, S
  <1>3. CASE entry = 0 /\ ReceiverWaits(t, time)
    <2>1. MailRing' /\ entry' = entry /\ suspend_sender_thread' = suspend_sender_thread
      BY <1>0, <1>3 DEF MailRing, ring, ReceiverWaits
    <2>2. MailCalls' /\ S' = S /\ R' = R \cup {t}
      <3>1. mail' = [mail EXCEPT ![t] = [op |-> "recv", msg |-> NoMsg, time |-> time]]
        BY <1>3 DEF ReceiverWaits
      <3>2. mail[t].op # "send"
        BY DEF InCall
      <3>3. MailCalls'
        BY <1>0, <3>1 DEF MailCalls
      <3> QED BY <1>0, <3>1, <3>2, <3>3 DEF MailCalls, InCall
    <2>3. t \notin S /\ R \subseteq Thread /\ S \subseteq Thread
      BY MailSplit
    <2>4. /\ stat'[t] = "SUSPEND" /\ error'[t] = "EOK" /\ pc'[t] = "schedule"
          /\ SameFor(Thread \ {t})
      BY <1>3, SuspendEffect DEF ReceiverWaits
    <2> HIDE DEF R, S
    <2>5. SameFor(S) /\ SameFor(R \ {t})
      BY <2>3, <2>4 DEF SameFor
    <2>6. WaitList(suspend_sender_thread, S, Size - entry, stat', error', pc')
      BY <1>0, <2>5, ListKept
    <2> DEFINE l == suspend_thread'
    <2>7. /\ l \in Seq(Thread) /\ ToSet(l) = ToSet(suspend_thread) \cup {t}
          /\ t \notin ToSet(suspend_thread) /\ IsInjective(suspend_thread) => IsInjective(l)
      <3>1. l = Placed(MailFlag, suspend_thread, t, Priority)
        BY <1>3 DEF ReceiverWaits
      <3>2. suspend_thread \in Seq(Thread)
        BY <1>0 DEF WaitList, Queued
      <3> QED BY <3>1, <3>2, PlacedList
    <2> HIDE DEF l
    <2>8. WaitList(l, R \cup {t}, entry, stat', error', pc')
      <3>1. entry <= 0
        BY <1>0, <1>3
      <3> QED BY <1>0, <2>4, <2>5, <2>7, <3>1, ListJoined
    <2> QED BY <2>1, <2>2, <2>6, <2>8 DEF MailInv, MailWait, R, S, l
  <1> QED BY <1>1, <1>2, <1>3 DEF RecvRound

\* A step of the mailbox.
LEMMA MailStepInv ==
    ASSUME WaitOK, MailInv, MailStep PROVE MailInv'
  <1> DEFINE R == InCall("recv")
             S == InCall("send")
  <1>0. /\ WaitList(suspend_thread, R, entry, stat, error, pc)
        /\ WaitList(suspend_sender_thread, S, Size - entry, stat, error, pc)
        /\ MailRing /\ MailCalls /\ stat \in [Thread -> Status]
        /\ entry \in Int /\ Size - entry \in Int /\ Size \in Int
    <2>1. entry \in 0 .. Size /\ Size \in Nat
      BY MailAssumption DEF MailInv, MailRing
    <2>2. stat \in [Thread -> Status]
      BY DEF WaitOK, Status
    <2>3. /\ WaitList(suspend_thread, R, entry, stat, error, pc)
          /\ WaitList(suspend_sender_thread, S, Size - entry, stat, error, pc)
          /\ MailRing /\ MailCalls
      BY DEF MailInv, MailWait
    <2> QED BY <2>1, <2>2, <2>3
  <1>1. ASSUME NEW t \in Thread, pc[t] = "run" PROVE stat[t] = "READY" /\ t \notin R /\ t \notin S
    <2>1. stat[t] = "READY"
      BY <1>1 DEF WaitOK
    <2> QED BY <1>0, <1>1, <2>1 DEF WaitList, Calling
  <1>2. ASSUME NEW t \in Thread, NEW c \in Call[t].mb_send, rt_mb_send_wait(t, c.msg, c.time)
        PROVE  MailInv'
    <2>1. c.msg \in Msg /\ c.time \in {"none", "ticks", "forever"}
      <3>1. c \in [msg : Msg, time : Time]
        BY CallAssumption
      <3> QED BY <3>1, IpcAssumption
    <2>2. pc[t] = "run" /\ SendRound(t, c.msg, c.time)
      BY <1>2 DEF rt_mb_send_wait
    <2> QED BY <1>1, <2>1, <2>2, SendRoundInv
  <1>3. ASSUME NEW t \in Thread, NEW time \in Call[t].mb_recv, rt_mb_recv(t, time)
        PROVE  MailInv'
    <2>1. time \in {"none", "ticks", "forever"}
      BY CallAssumption, IpcAssumption
    <2>2. pc[t] = "run" /\ RecvRound(t, time)
      BY <1>3 DEF rt_mb_recv
    <2> QED BY <1>1, <2>1, <2>2, RecvRoundInv
  <1>4. ASSUME NEW m \in IsrMsg, rt_mb_send(m) PROVE MailInv'
    <2>1. /\ m \in Msg /\ Deposit(m) /\ mail' = mail /\ error' = error /\ pc' = pc
          /\ suspend_sender_thread' = suspend_sender_thread
      BY <1>4, CallAssumption DEF rt_mb_send, Deposit
    <2>2. MailRing' /\ entry' = entry + 1 /\ entry' \in Int
      BY <1>0, <2>1, DepositRing
    <2>3. MailCalls' /\ R' = R /\ S' = S
      BY <1>0, <2>1 DEF MailCalls, InCall
    <2>4. R \in SUBSET Thread /\ S \subseteq Thread /\ S \subseteq Thread \ R
      BY MailSplit
    <2> HIDE DEF R, S
    <2>5. /\ WaitList(suspend_thread', R, entry', stat', error', pc')
          /\ \A u \in Thread \ R : stat'[u] = stat[u]
      BY <1>0, <2>1, <2>4, DepositServes
    <2>6. SameFor(S)
      BY <2>1, <2>4, <2>5 DEF SameFor
    <2>7. WaitList(suspend_sender_thread, S, Size - entry', stat', error', pc')
      <3>1. Size - entry' \in Int /\ Size - entry' <= Size - entry
        BY <1>0, <2>2
      <3> QED BY <1>0, <2>6, <3>1, ListKept
    <2> QED BY <2>1, <2>2, <2>3, <2>5, <2>7 DEF MailInv, MailWait, R, S
  <1>5. CASE rt_mb_control
    <2> DEFINE W == ToSet(suspend_thread) \cup ToSet(suspend_sender_thread)
    <2>1. /\ Resume(W) /\ pc' = pc /\ mail' = mail
          /\ suspend_thread' = << >> /\ suspend_sender_thread' = << >>
          /\ entry' = 0 /\ in_offset' = 0 /\ out_offset' = 0 /\ msg_pool' = msg_pool
          /\ value' = value
      BY <1>5 DEF rt_mb_control
    <2>2. MailRing'
      <3>1. RingPlace(0, 0, Size) = 0
        BY MailAssumption DEF RingPlace
      <3> QED BY <1>0, <2>1, <3>1, MailAssumption DEF MailRing
    <2>3. MailCalls' /\ R' = R /\ S' = S
      BY <1>0, <2>1 DEF MailCalls, InCall
    <2>4. \A u \in Thread : stat'[u] = IF u \in W THEN "READY" ELSE stat[u]
      BY <2>1, ResumeEffect
    <2>5. \A u \in R \cup S : stat'[u] # "SUSPEND" /\ pc'[u] = pc[u]
      BY <1>0, <2>1, <2>4, MailSplit DEF WaitList, Queued
    <2> HIDE DEF R, S
    <2>6. WaitList(<< >>, R, entry', stat', error', pc')
      BY <1>0, <2>5, ListCleared
    <2>7. WaitList(<< >>, S, Size - entry', stat', error', pc')
      BY <1>0, <2>5, ListCleared
    <2> QED BY <2>1, <2>2, <2>3, <2>6, <2>7 DEF MailInv, MailWait, R, S
  <1>6. ASSUME NEW t \in Thread, MailBack(t) PROVE MailInv'
    <2>1. pc[t] = "check" /\ stat[t] = "READY"
      BY <1>6 DEF MailBack, WaitOK
    <2>2. CASE /\ error[t] # "EOK" /\ MailReturns(t)
               /\ UNCHANGED <<stat, timer, ring, suspend_thread, suspend_sender_thread, value>>
      <3>1. MailRing' /\ entry' = entry
        BY <1>0, <2>2 DEF MailRing, ring
      <3>2. /\ MailCalls' /\ R' = R \ {t} /\ S' = S \ {t}
            /\ \A u \in Thread \ {t} : error'[u] = error[u] /\ pc'[u] = pc[u]
        BY <1>0, <2>2, MailReturned
      <3>3. R \subseteq Thread /\ S \subseteq Thread
        BY MailSplit
      <3> HIDE DEF R, S
      <3>4. SameFor(S \ {t}) /\ SameFor(R \ {t})
        BY <2>2, <3>2, <3>3 DEF SameFor
      <3>5. WaitList(suspend_sender_thread, S \ {t}, Size - entry, stat', error', pc')
        BY <1>0, <2>1, <2>2, <3>4, OneLeaves
      <3>6. WaitList(suspend_thread, R \ {t}, entry, stat', error', pc')
        BY <1>0, <2>1, <2>2, <3>4, OneLeaves
      <3> QED BY <2>2, <3>1, <3>2, <3>5, <3>6 DEF MailInv, MailWait, R, S
    <2>3. ASSUME NEW time \in TimeLeft(mail[t].time),
                 mail[t].op = "send" /\ SendRound(t, mail[t].msg, time)
          PROVE  MailInv'
      <3>1. time \in {"none", "ticks", "forever"} /\ mail[t].msg \in Msg
        BY <1>0, <2>3 DEF MailCalls, TimeLeft
      <3>2. t \notin InCall("recv")
        BY <2>3 DEF InCall
      <3> QED BY <2>1, <2>3, <3>1, <3>2, SendRoundInv
    <2>4. ASSUME NEW time \in TimeLeft(mail[t].time),
                 mail[t].op = "recv" /\ RecvRound(t, time)
          PROVE  MailInv'
      <3>1. time \in {"none", "ticks", "forever"}
        BY <1>0, <2>4 DEF MailCalls, TimeLeft
      <3>2. t \notin InCall("send")
        BY <2>4 DEF InCall
      <3> QED BY <2>1, <2>4, <3>1, <3>2, RecvRoundInv
    <2> QED BY <1>6, <2>2, <2>3, <2>4 DEF MailBack
  <1> QED BY <1>2, <1>3, <1>4, <1>5, <1>6 DEF MailStep, MailNext

\* The other steps.
LEMMA MailOthersInv ==
    ASSUME Base, MailInv, NEW t \in Thread, Proceed(t) \/ Timeout(t) PROVE MailInv'
  <1> DEFINE R == InCall("recv")
             S == InCall("send")
  <1>0. /\ WaitList(suspend_thread, R, entry, stat, error, pc)
        /\ WaitList(suspend_sender_thread, S, Size - entry, stat, error, pc)
        /\ MailRing /\ MailCalls
    BY DEF MailInv, MailWait
  <1>1. entry \in Int /\ Size - entry \in Int
    <2>1. entry \in 0 .. Size /\ Size \in Nat
      BY <1>0, MailAssumption DEF MailRing
    <2> QED BY <2>1
  <1>2. stat \in [Thread -> Status]
    BY DEF Base, WaitOK, Status
  <1>3. CASE Proceed(t)
    <2>1. UNCHANGED mbvars
      BY <1>3 DEF Proceed
    <2>2. MailRing' /\ MailCalls' /\ R' = R /\ S' = S
      BY <1>0, <2>1 DEF MailRing, MailCalls, InCall, mbvars, ring
    <2> HIDE DEF R, S
    <2>3. /\ WaitList(suspend_thread, R, entry, stat', error', pc')
          /\ WaitList(suspend_sender_thread, S, Size - entry, stat', error', pc')
      BY <1>0, <1>3, ListProceeds
    <2> QED BY <2>1, <2>2, <2>3 DEF MailInv, MailWait, R, S, mbvars, ring
  <1>4. CASE Timeout(t)
    <2>1. MailUnlink(t)
      BY <1>4 DEF Timeout
    <2>2. MailRing' /\ MailCalls' /\ R' = R /\ S' = S
      BY <1>0, <2>1 DEF MailRing, MailCalls, InCall, MailUnlink, ring
    <2>3. /\ stat[t] = "SUSPEND" /\ stat'[t] = "READY" /\ error'[t] = "ETIMEOUT"
          /\ pc'[t] = pc[t] /\ SameFor(Thread \ {t})
      BY <1>4, TimeoutEffect
    <2> HIDE DEF R, S
    <2>4. /\ WaitList(RemoveFirst(suspend_thread, t), R, entry, stat', error', pc')
          /\ WaitList(RemoveFirst(suspend_sender_thread, t), S, Size - entry, stat', error', pc')
      BY <1>0, <1>1, <1>2, <2>3, OneTimesOut
    <2> QED BY <2>1, <2>2, <2>4 DEF MailInv, MailWait, R, S, MailUnlink, ring
  <1> QED BY <1>3, <1>4

\* A mailbox that nobody is in.
LEMMA MailAtRest ==
    ASSUME WaitOK, MailIdle, MailRing PROVE MailInv
  <1>1. MailCalls /\ InCall("recv") = {} /\ InCall("send") = {}
    BY DEF MailIdle, MailCalls, NoMail, InCall
  <1>2. /\ WaitList(<< >>, {}, entry, stat, error, pc)
        /\ WaitList(<< >>, {}, Size - entry, stat, error, pc)
    BY EmptyList DEF WaitList, Queued, Calling, Awaited
  <1> QED BY <1>1, <1>2 DEF MailIdle, MailInv, MailWait

\* rt_mb_init.
LEMMA MailInitRing ==
    ASSUME MailInit PROVE MailRing /\ MailIdle
  <1>1. RingPlace(0, 0, Size) = 0
    BY MailAssumption DEF RingPlace
  <1> QED BY <1>1, MailAssumption DEF MailInit, MailRing, MailIdle

\* The invariant of the mailbox says that no wake-up is lost.
LEMMA MailInvMeans ==
    ASSUME MailInv PROVE MailTypeOK /\ NoLostMail
  <1>1. MailTypeOK
    BY DEF MailInv, MailRing, MailCalls, MailWait, WaitList, Queued, MailTypeOK
  <1>2. \A op : Woken(op) = Woke(InCall(op), stat, error)
    BY DEF Woken, Woke
  <1> QED BY <1>1, <1>2 DEF MailInv, MailWait, WaitList, Awaited, NoLostMail

-----------------------------------------------------------------------------
(* Lists that have each node once.                                         *)

\* How long it is.
LEMMA CountedList ==
    ASSUME NEW S, NEW s \in Seq(S), IsInjective(s)
    PROVE  /\ IsFiniteSet(ToSet(s)) /\ Cardinality(ToSet(s)) = Len(s)
           /\ IsFiniteSet(S) => Len(s) <= Cardinality(S)
           /\ IsFiniteSet(S) /\ ToSet(s) # S => Len(s) < Cardinality(S)
  <1> DEFINE I == 1 .. Len(s)
  <1>1. Len(s) \in Nat /\ DOMAIN s = I /\ ToSet(s) \subseteq S
    BY ListIndices
  <1>2. IsFiniteSet(I) /\ Cardinality(I) = Len(s)
    BY <1>1, FS_Interval
  <1>3. s \in Bijection(I, ToSet(s))
    <2>1. s \in [I -> ToSet(s)]
      BY <1>1 DEF ToSet
    <2>2. \A a, b \in I : s[a] = s[b] => a = b
      BY <1>1 DEF IsInjective
    <2>3. \A y \in ToSet(s) : \E a \in I : s[a] = y
      BY <1>1 DEF ToSet
    <2> QED BY <2>1, <2>2, <2>3 DEF Bijection, Injection, Surjection, IsInjective
  <1>4. ExistsBijection(I, ToSet(s))
    BY <1>3 DEF ExistsBijection
  <1>5. IsFiniteSet(ToSet(s)) /\ Cardinality(ToSet(s)) = Len(s)
    BY <1>2, <1>4, FS_Bijection
  <1>6. ASSUME IsFiniteSet(S)
        PROVE  Len(s) <= Cardinality(S) /\ (ToSet(s) # S => Len(s) < Cardinality(S))
    <2>1. /\ Cardinality(ToSet(s)) <= Cardinality(S)
          /\ Cardinality(S) = Cardinality(ToSet(s)) => S = ToSet(s)
      BY <1>1, <1>6, FS_Subset
    <2>2. Cardinality(S) \in Nat
      BY <1>6, FS_CardinalityType
    <2> QED BY <1>1, <1>5, <2>1, <2>2
  <1> QED BY <1>5, <1>6

\* One node more, at the front.
LEMMA PrependedList ==
    ASSUME NEW S, NEW s \in Seq(S), NEW x \in S
    PROVE  /\ <<x>> \o s \in Seq(S) /\ Len(<<x>> \o s) = Len(s) + 1
           /\ ToSet(<<x>> \o s) = ToSet(s) \cup {x} /\ <<x>> \o s # << >>
           /\ IsInjective(s) /\ x \notin ToSet(s) => IsInjective(<<x>> \o s)
  <1> DEFINE w == <<x>> \o s
  <1>1. /\ w \in Seq(S) /\ Len(w) = Len(s) + 1 /\ Len(s) \in Nat
        /\ w[1] = x /\ \A i \in 1 .. Len(s) : w[i + 1] = s[i]
    OBVIOUS
  <1> HIDE DEF w
  <1>2. \A i \in 1 .. Len(w) : i = 1 \/ (i - 1 \in 1 .. Len(s) /\ w[i] = s[i - 1])
    <2> TAKE i \in 1 .. Len(w)
    <2> SUFFICES ASSUME i # 1 PROVE i - 1 \in 1 .. Len(s) /\ w[i] = s[i - 1]
      OBVIOUS
    <2>1. i - 1 \in 1 .. Len(s) /\ (i - 1) + 1 = i
      BY <1>1
    <2> QED BY <1>1, <2>1
  <1>3. /\ \A y : y \in ToSet(w) <=> \E i \in 1 .. Len(w) : w[i] = y
        /\ \A y : y \in ToSet(s) <=> \E i \in 1 .. Len(s) : s[i] = y
        /\ DOMAIN w = 1 .. Len(w) /\ DOMAIN s = 1 .. Len(s) /\ (w = << >> <=> Len(w) = 0)
    BY <1>1, ListIndices
  <1>4. ToSet(w) = ToSet(s) \cup {x}
    <2>1. ASSUME NEW y \in ToSet(w) PROVE y \in ToSet(s) \cup {x}
      <3>1. PICK i \in 1 .. Len(w) : w[i] = y
        BY <1>3
      <3> QED BY <1>1, <1>2, <1>3, <3>1
    <2>2. x \in ToSet(w)
      <3>1. 1 \in 1 .. Len(w)
        BY <1>1
      <3> QED BY <1>1, <1>3, <3>1
    <2>3. ASSUME NEW y \in ToSet(s) PROVE y \in ToSet(w)
      <3>1. PICK i \in 1 .. Len(s) : s[i] = y
        BY <1>3
      <3>2. i + 1 \in 1 .. Len(w) /\ w[i + 1] = y
        BY <1>1, <3>1
      <3> QED BY <1>3, <3>2
    <2> QED BY <2>1, <2>2, <2>3
  <1>5. ASSUME IsInjective(s), x \notin ToSet(s) PROVE IsInjective(w)
    <2> SUFFICES ASSUME NEW a \in 1 .. Len(w), NEW b \in 1 .. Len(w), w[a] = w[b]
                 PROVE  a = b
      BY <1>3 DEF IsInjective
    <2>1. \A i \in 1 .. Len(s) : s[i] # x
      BY <1>3, <1>5
    <2>2. a # 1 /\ b # 1 => a - 1 = b - 1
      BY <1>2, <1>3, <1>5 DEF IsInjective
    <2>3. ASSUME a = 1, b # 1 PROVE FALSE
      BY <1>1, <1>2, <2>1, <2>3
    <2>4. ASSUME b = 1, a # 1 PROVE FALSE
      BY <1>1, <1>2, <2>1, <2>4
    <2> QED BY <2>2, <2>3, <2>4
  <1> QED BY <1>1, <1>3, <1>4, <1>5 DEF w

\* A finite set as a list.
LEMMA ListedSet ==
    ASSUME NEW S, IsFiniteSet(S)
    PROVE  /\ SetToSeq(S) \in Seq(S) /\ IsInjective(SetToSeq(S))
           /\ ToSet(SetToSeq(S)) = S /\ Len(SetToSeq(S)) = Cardinality(S)
  <1> DEFINE n == Cardinality(S)
  <1>1. n \in Nat /\ ExistsBijection(1 .. n, S)
    BY FS_CardinalityType
  <1> HIDE DEF n
  <1>2. PICK g \in Bijection(1 .. n, S) : TRUE
    BY <1>1 DEF ExistsBijection
  <1>3. g \in [1 .. n -> S] /\ IsInjective(g)
    BY <1>2 DEF Bijection, Injection, IsInjective
  <1> DEFINE s == SetToSeq(S)
  <1>4. s \in [1 .. n -> S] /\ IsInjective(s)
    BY <1>3 DEF SetToSeq, n
  <1> HIDE DEF s
  <1>5. s \in Seq(S) /\ Len(s) = n
    BY <1>1, <1>4, FunctionIsSeq
  <1>6. ToSet(s) = S
    <2>1. Len(s) <= n /\ (ToSet(s) # S => Len(s) < n)
      BY <1>4, <1>5, CountedList DEF n
    <2> QED BY <1>1, <1>5, <2>1
  <1> QED BY <1>4, <1>5, <1>6 DEF s, n

\* How much shorter a list is without one of its nodes.
LEMMA UnlinkedLen ==
    ASSUME NEW S, NEW s \in Seq(S), NEW x, IsInjective(s)
    PROVE  Len(RemoveFirst(s, x)) = IF x \in ToSet(s) THEN Len(s) - 1 ELSE Len(s)
  <1> DEFINE w == RemoveFirst(s, x)
  <1>1. w \in Seq(S) /\ ToSet(w) = ToSet(s) \ {x} /\ IsInjective(w)
    BY UnlinkedList
  <1> HIDE DEF w
  <1>2. /\ IsFiniteSet(ToSet(s)) /\ Cardinality(ToSet(s)) = Len(s)
        /\ Cardinality(ToSet(w)) = Len(w)
    BY <1>1, CountedList
  <1>3. Cardinality(ToSet(s) \ {x}) =
          IF x \in ToSet(s) THEN Cardinality(ToSet(s)) - 1 ELSE Cardinality(ToSet(s))
    BY <1>2, FS_RemoveElement
  <1> QED BY <1>1, <1>2, <1>3 DEF w

-----------------------------------------------------------------------------
(* The memory pool.                                                        *)

\* The threads that wait in rt_mp_alloc.
Allocating == {t \in Thread : alloc[t] # "idle"}

PoolLists ==
    /\ block_list \in Seq(Block) /\ IsInjective(block_list)
    /\ block_free_count = Len(block_list)
    /\ alloc \in [Thread -> {"idle", "none", "ticks", "forever"}]
    /\ block_ptr \in [Thread -> Block \cup {NoBlock}]
    /\ wild_alloc \in BOOLEAN

\* rt_mp_free resumes a thread if there is one.
PoolCount ==
    /\ suspend_thread_count \in Nat
    /\ suspend_thread_count >= Len(suspend_alloc_thread)

PoolWait == WaitList(suspend_alloc_thread, Allocating, block_free_count, stat, error, pc)

PoolInv == PoolLists /\ PoolCount /\ PoolWait

\* As long as nobody limits the time that it waits.
PoolExact ==
    /\ suspend_thread_count = Len(suspend_alloc_thread) /\ ~wild_alloc
    /\ timer = {} /\ \A t \in Thread : alloc[t] # "ticks"

\* What the invariant of the pool says of its lists and counts.
LEMMA PoolFacts ==
    ASSUME WaitOK, PoolInv
    PROVE  /\ block_list \in Seq(Block) /\ IsInjective(block_list)
           /\ block_free_count = Len(block_list) /\ block_free_count \in Nat
           /\ suspend_alloc_thread \in Seq(Thread) /\ Len(suspend_alloc_thread) \in Nat
           /\ IsInjective(suspend_alloc_thread)
           /\ stat \in [Thread -> Status] /\ Allocating \subseteq Thread
           /\ \A t \in Thread : pc[t] = "run" => stat[t] = "READY" /\ t \notin Allocating
           /\ \A t \in Thread : pc[t] = "check" => stat[t] = "READY"
  <1>1. stat \in [Thread -> Status]
    BY DEF WaitOK, Status
  <1>2. \A t \in Thread : pc[t] \in {"run", "check"} => stat[t] = "READY"
    BY DEF WaitOK
  <1> QED BY <1>1, <1>2, ListIndices DEF PoolInv, PoolLists, PoolWait, WaitList, Queued, Calling,
       Allocating

\* One round of rt_mp_alloc.
LEMMA AllocRoundInv ==
    ASSUME WaitOK, PoolInv, NEW t \in Thread, stat[t] = "READY",
           NEW time \in {"none", "ticks", "forever"}, AllocRound(t, time), wild_alloc' = wild_alloc
    PROVE  PoolInv' /\ (PoolExact /\ time # "ticks" => PoolExact')
  <1> DEFINE R == Allocating
             l == suspend_alloc_thread
  <1>0. /\ WaitList(l, R, block_free_count, stat, error, pc)
        /\ block_list \in Seq(Block) /\ IsInjective(block_list)
        /\ block_free_count = Len(block_list) /\ block_free_count \in Int
        /\ block_free_count \in Nat
        /\ stat \in [Thread -> Status] /\ R \subseteq Thread
        /\ l \in Seq(Thread) /\ Len(l) \in Nat
    BY PoolFacts DEF PoolInv, PoolWait
  <1>a. /\ alloc \in [Thread -> {"idle", "none", "ticks", "forever"}]
        /\ block_ptr \in [Thread -> Block \cup {NoBlock}]
        /\ wild_alloc \in BOOLEAN
        /\ suspend_thread_count \in Nat /\ suspend_thread_count >= Len(l)
    BY DEF PoolInv, PoolLists, PoolCount
  <1>r. ASSUME AllocReturns(t)
        PROVE  /\ alloc' \in [Thread -> {"idle", "none", "ticks", "forever"}] /\ R' = R \ {t}
               /\ \A u \in Thread \ {t} : error'[u] = error[u] /\ pc'[u] = pc[u]
               /\ (\A u \in Thread : alloc[u] # "ticks") => \A u \in Thread : alloc'[u] # "ticks"
    <2>1. alloc' = [alloc EXCEPT ![t] = "idle"]
      BY <1>r DEF AllocReturns
    <2>2. \A u \in Thread \ {t} : error'[u] = error[u] /\ pc'[u] = pc[u]
      BY <1>r, ReturnEffect DEF AllocReturns
    <2> QED BY <1>a, <2>1, <2>2 DEF Allocating
  <1>1. CASE TakeBlock(t) /\ AllocReturns(t)
    <2>1. /\ block_free_count > 0 /\ block_free_count' = block_free_count - 1
          /\ block_ptr' = [block_ptr EXCEPT ![t] = Head(block_list)]
          /\ block_list' = Tail(block_list) /\ stat' = stat /\ timer' = timer
          /\ suspend_alloc_thread' = l /\ suspend_thread_count' = suspend_thread_count
      BY <1>1 DEF TakeBlock
    <2>2. block_list # << >>
      BY <1>0, <2>1
    <2>3. /\ Head(block_list) \in Block /\ block_list' \in Seq(Block) /\ IsInjective(block_list')
          /\ Len(block_list') = Len(block_list) - 1
      BY <1>0, <2>1, <2>2, TailList
    <2>4. PoolLists' /\ PoolCount'
      BY <1>0, <1>a, <1>r, <1>1, <2>1, <2>3 DEF PoolLists, PoolCount
    <2> HIDE DEF R, l
    <2>5. SameFor(R \ {t})
      BY <1>0, <1>1, <1>r, <2>1 DEF SameFor
    <2>6. WaitList(l, R \ {t}, block_free_count', stat', error', pc')
      <3>1. block_free_count' \in Int /\ block_free_count' <= block_free_count - 1
        BY <1>0, <2>1
      <3> QED BY <1>0, <2>5, <3>1, OneLeaves
    <2>7. PoolWait'
      BY <1>1, <1>r, <2>1, <2>6 DEF PoolWait, R, l
    <2>8. PoolExact => PoolExact'
      BY <1>1, <1>r, <2>1 DEF PoolExact, l
    <2> QED BY <2>4, <2>7, <2>8 DEF PoolInv
  <1>2. CASE /\ block_free_count = 0 /\ AllocReturns(t)
             /\ UNCHANGED <<stat, timer, block_list, block_free_count, block_ptr,
                            suspend_alloc_thread, suspend_thread_count>>
    <2>4. PoolLists' /\ PoolCount'
      BY <1>0, <1>a, <1>r, <1>2 DEF PoolLists, PoolCount
    <2>8. PoolExact => PoolExact'
      BY <1>2, <1>r DEF PoolExact
    <2> HIDE DEF R
    <2>5. SameFor(R \ {t})
      BY <1>0, <1>2, <1>r DEF SameFor
    <2>6. WaitList(l, R \ {t}, block_free_count, stat', error', pc')
      BY <1>0, <1>2, <2>5, OneLeaves
    <2>7. PoolWait'
      BY <1>2, <1>r, <2>6 DEF PoolWait, R
    <2> QED BY <2>4, <2>7, <2>8 DEF PoolInv
  <1>3. CASE block_free_count = 0 /\ time # "none" /\ AllocWaits(t, time)
    <2>1. /\ Suspend(t, time) /\ Fail({t}, "EOK")
          /\ suspend_alloc_thread' = <<t>> \o l
          /\ suspend_thread_count' = suspend_thread_count + 1
          /\ alloc' = [alloc EXCEPT ![t] = time]
          /\ UNCHANGED <<block_list, block_free_count, block_ptr>>
      BY <1>3 DEF AllocWaits
    <2>2. R' = R \cup {t} /\ alloc' \in [Thread -> {"idle", "none", "ticks", "forever"}]
      BY <1>a, <2>1 DEF Allocating
    <2>3. /\ <<t>> \o l \in Seq(Thread) /\ ToSet(<<t>> \o l) = ToSet(l) \cup {t}
          /\ Len(<<t>> \o l) = Len(l) + 1
          /\ t \notin ToSet(l) /\ IsInjective(l) => IsInjective(<<t>> \o l)
      BY <1>0, PrependedList
    <2>4. PoolLists' /\ PoolCount'
      BY <1>0, <1>a, <2>1, <2>2, <2>3 DEF PoolLists, PoolCount
    <2>8. PoolExact /\ time # "ticks" => PoolExact'
      <3>1. time # "ticks" => timer' = timer \ {t}
        BY <2>1 DEF Suspend
      <3> QED BY <1>a, <1>0, <2>1, <2>3, <3>1 DEF PoolExact
    <2>5. /\ stat'[t] = "SUSPEND" /\ error'[t] = "EOK" /\ pc'[t] = "schedule"
          /\ SameFor(Thread \ {t})
      BY <2>1, SuspendEffect
    <2> HIDE DEF R
    <2>6. SameFor(R \ {t})
      BY <1>0, <2>5 DEF SameFor
    <2> DEFINE l2 == <<t>> \o l
    <2> HIDE DEF l2, l
    <2>7. WaitList(l2, R \cup {t}, block_free_count, stat', error', pc')
      <3>1. /\ l2 \in Seq(Thread) /\ ToSet(l2) = ToSet(l) \cup {t}
            /\ t \notin ToSet(l) /\ IsInjective(l) => IsInjective(l2)
        BY <2>3 DEF l2
      <3>2. block_free_count <= 0
        BY <1>3
      <3> QED BY <1>0, <2>5, <2>6, <3>1, <3>2, ListJoined
    <2>9. PoolWait'
      BY <2>1, <2>2, <2>7 DEF PoolWait, R, l, l2
    <2> QED BY <2>4, <2>8, <2>9 DEF PoolInv
  <1> QED BY <1>1, <1>2, <1>3 DEF AllocRound

\* A thread is back in rt_mp_alloc.
LEMMA AllocBackInv ==
    ASSUME WaitOK, PoolInv, NEW t \in Thread, AllocBack(t)
    PROVE  PoolInv' /\ (PoolExact => PoolExact')
  <1>1. stat[t] = "READY" /\ t \in Allocating /\ wild_alloc' = wild_alloc
    BY PoolFacts DEF AllocBack, Allocating
  <1>2. CASE /\ error[t] # "EOK" /\ AllocReturns(t)
             /\ UNCHANGED <<stat, timer, block_list, block_free_count, block_ptr,
                            suspend_alloc_thread, suspend_thread_count>>
    <2>1. alloc' = [alloc EXCEPT ![t] = "idle"]
      BY <1>2 DEF AllocReturns
    <2>2. \A u \in Thread \ {t} : error'[u] = error[u] /\ pc'[u] = pc[u]
      BY <1>2, ReturnEffect DEF AllocReturns
    <2>3. PoolLists' /\ PoolCount' /\ Allocating' = Allocating \ {t}
      BY <1>1, <1>2, <2>1 DEF PoolInv, PoolLists, PoolCount, Allocating
    <2>4. PoolExact => PoolExact'
      BY <1>1, <1>2, <2>1 DEF PoolExact, PoolInv, PoolLists
    <2>5. /\ WaitList(suspend_alloc_thread, Allocating, block_free_count, stat, error, pc)
          /\ Allocating \subseteq Thread /\ stat \in [Thread -> Status] /\ block_free_count \in Int
      BY PoolFacts DEF PoolInv, PoolWait
    <2>6. SameFor(Allocating \ {t})
      BY <1>2, <2>2, <2>5 DEF SameFor
    <2>7. WaitList(suspend_alloc_thread, Allocating \ {t}, block_free_count, stat', error', pc')
      BY <1>1, <1>2, <2>5, <2>6, OneLeaves
    <2> QED BY <1>2, <2>3, <2>4, <2>7 DEF PoolInv, PoolWait
  <1>3. ASSUME NEW time \in IF alloc[t] = "ticks" THEN {"none", "ticks"} ELSE {alloc[t]},
               AllocRound(t, time)
        PROVE  PoolInv' /\ (PoolExact => PoolExact')
    <2>1. time \in {"none", "ticks", "forever"}
      BY <1>1 DEF PoolInv, PoolLists, Allocating
    <2>2. PoolExact => time # "ticks"
      BY DEF PoolExact
    <2> QED BY <1>1, <1>3, <2>1, <2>2, AllocRoundInv
  <1> QED BY <1>2, <1>3 DEF AllocBack

\* A block comes back.
LEMMA FreeInv ==
    ASSUME WaitOK, PoolInv, NEW b \in Block, b \notin ToSet(block_list), rt_mp_free(b)
    PROVE  /\ PoolInv' /\ (PoolExact => PoolExact')
           /\ block_list' = <<b>> \o block_list /\ block_ptr' = block_ptr /\ alloc' = alloc
           /\ pc' = pc
  <1> DEFINE R == Allocating
             l == suspend_alloc_thread
  <1>0. /\ WaitList(l, R, block_free_count, stat, error, pc)
        /\ block_list \in Seq(Block) /\ IsInjective(block_list)
        /\ block_free_count = Len(block_list) /\ block_free_count \in Int
        /\ stat \in [Thread -> Status] /\ R \subseteq Thread
        /\ l \in Seq(Thread) /\ Len(l) \in Nat /\ l = suspend_alloc_thread
        /\ suspend_thread_count \in Nat /\ suspend_thread_count >= Len(l)
    BY PoolFacts DEF PoolInv, PoolWait, PoolCount
  <1>1. /\ block_free_count' = block_free_count + 1 /\ block_list' = <<b>> \o block_list
        /\ alloc' = alloc /\ block_ptr' = block_ptr /\ pc' = pc
        /\ block_free_count' \in Int /\ block_free_count' <= block_free_count + 1
    BY <1>0 DEF rt_mp_free
  <1>2. /\ block_list' \in Seq(Block) /\ Len(block_list') = Len(block_list) + 1
        /\ IsInjective(block_list')
    BY <1>0, <1>1, PrependedList
  <1>3. wild_alloc' \in BOOLEAN
    BY DEF rt_mp_free, PoolInv, PoolLists
  <1>4. PoolLists' /\ R' = R
    BY <1>0, <1>1, <1>2, <1>3 DEF PoolInv, PoolLists, Allocating
  <1>5. IF l # << >> THEN Resume({Head(l)}) /\ suspend_alloc_thread' = Tail(l)
                     ELSE stat' = stat /\ suspend_alloc_thread' = l
    BY <1>0 DEF rt_mp_free
  <1>6. \A u \in R : error'[u] = error[u] /\ pc'[u] = pc[u]
    <2>1. CASE l # << >>
      <3>1. Fail({Head(l)}, "EOK")
        BY <1>0, <2>1 DEF rt_mp_free
      <3>2. Head(l) \in ToSet(l)
        BY <1>0, <2>1, TailList
      <3>3. error[Head(l)] = "EOK"
        BY <1>0, <3>2 DEF WaitList, Queued, Calling
      <3> HIDE DEF R
      <3> QED BY <1>0, <1>1, <3>1, <3>3 DEF Fail
    <2>2. CASE l = << >>
      BY <1>1, <2>2 DEF rt_mp_free
    <2> QED BY <2>1, <2>2
  <1> HIDE DEF R
  <1>7. WaitList(suspend_alloc_thread', R, block_free_count', stat', error', pc')
    BY <1>0, <1>1, <1>5, <1>6, Served
  <1>8. /\ PoolCount'
        /\ suspend_thread_count = Len(l) /\ ~wild_alloc =>
             suspend_thread_count' = Len(suspend_alloc_thread') /\ ~wild_alloc'
    <2>1. CASE l # << >>
      <3>1. suspend_thread_count' = suspend_thread_count - 1 /\ suspend_alloc_thread' = Tail(l)
            /\ wild_alloc' = wild_alloc
        BY <1>0, <2>1 DEF rt_mp_free
      <3>2. Len(Tail(l)) = Len(l) - 1 /\ Len(l) > 0
        BY <1>0, <2>1
      <3> QED BY <1>0, <3>1, <3>2 DEF PoolCount
    <2>2. CASE l = << >>
      <3>1. /\ suspend_alloc_thread' = l /\ Len(l) = 0
            /\ suspend_thread_count' =
                 IF suspend_thread_count > 0 THEN suspend_thread_count - 1 ELSE suspend_thread_count
            /\ wild_alloc' = IF suspend_thread_count > 0 THEN TRUE ELSE wild_alloc
        BY <1>0, <2>2 DEF rt_mp_free
      <3> HIDE DEF l
      <3> QED BY <1>0, <3>1 DEF PoolCount
    <2> QED BY <2>1, <2>2
  <1>9. PoolExact => PoolExact'
    <2>1. timer' \subseteq timer
      BY DEF rt_mp_free, Resume
    <2> QED BY <1>1, <1>8, <2>1 DEF PoolExact
  <1> QED BY <1>1, <1>4, <1>7, <1>8, <1>9 DEF PoolInv, PoolWait, R

\* No call of rt_mp_alloc limits its waiting time.
Untimed == \A t \in Thread : "ticks" \notin Call[t].mp_alloc

\* Every step of the pool keeps its invariant; the counts too, if nobody limits its
\* wait.
LEMMA PoolStepInv ==
    ASSUME WaitOK, PoolInv, PoolStep
    PROVE  PoolInv' /\ (Untimed /\ PoolExact => PoolExact')
  <1>1. ASSUME NEW t \in Thread, NEW time \in Call[t].mp_alloc, rt_mp_alloc(t, time)
        PROVE  PoolInv' /\ (Untimed /\ PoolExact => PoolExact')
    <2>1. time \in {"none", "ticks", "forever"} /\ (Untimed => time # "ticks")
      <3>1. time \in {"none", "ticks", "forever"}
        BY CallAssumption, IpcAssumption
      <3> QED BY <3>1, Zenon DEF Untimed
    <2>2. stat[t] = "READY" /\ AllocRound(t, time) /\ wild_alloc' = wild_alloc
      BY <1>1, PoolFacts DEF rt_mp_alloc
    <2> QED BY <2>1, <2>2, AllocRoundInv
  <1>2. ASSUME NEW t \in Thread, NEW b \in Block, Has(t, b), rt_mp_free(b)
        PROVE  PoolInv' /\ (PoolExact => PoolExact')
    <2>1. b \notin ToSet(block_list)
      BY <1>2 DEF Has, ToSet
    <2> QED BY <1>2, <2>1, FreeInv
  <1> QED BY <1>1, <1>2, AllocBackInv DEF PoolStep, PoolNext

\* A thread that goes on or times out keeps the invariant of the pool.
LEMMA PoolOthersInv ==
    ASSUME Base, PoolInv, NEW t \in Thread, Proceed(t) \/ Timeout(t)
    PROVE  PoolInv' /\ (PoolExact => PoolExact')
  <1> DEFINE R == Allocating
             l == suspend_alloc_thread
  <1>0. /\ WaitList(l, R, block_free_count, stat, error, pc)
        /\ block_free_count \in Int /\ stat \in [Thread -> Status]
        /\ l \in Seq(Thread) /\ Len(l) \in Nat /\ IsInjective(l)
    BY PoolFacts DEF PoolInv, PoolWait, Base
  <1>1. CASE Proceed(t)
    <2>1. UNCHANGED mpvars /\ timer' = timer
      BY <1>1 DEF Proceed, NotMail, rt_schedule, SwitchBack
    <2>2. /\ PoolLists' /\ PoolCount' /\ R' = R /\ block_free_count' = block_free_count
          /\ suspend_alloc_thread' = l
      BY <2>1 DEF PoolInv, PoolLists, PoolCount, Allocating, mpvars
    <2>4. PoolExact => PoolExact'
      BY <2>1 DEF PoolExact, mpvars
    <2> HIDE DEF R
    <2>3. WaitList(l, R, block_free_count, stat', error', pc')
      BY <1>0, <1>1, ListProceeds
    <2> QED BY <2>2, <2>3, <2>4 DEF PoolInv, PoolWait, R
  <1>2. CASE Timeout(t)
    <2>1. AllocUnlink(t) /\ t \in timer
      BY <1>2 DEF Timeout, rt_thread_timeout
    <2>2. /\ PoolLists' /\ R' = R /\ block_free_count' = block_free_count
          /\ suspend_alloc_thread' = RemoveFirst(l, t)
          /\ suspend_thread_count' = suspend_thread_count
      BY <2>1 DEF PoolInv, PoolLists, Allocating, AllocUnlink
    <2>3. PoolCount'
      <3>1. Len(RemoveFirst(l, t)) = IF t \in ToSet(l) THEN Len(l) - 1 ELSE Len(l)
        BY <1>0, UnlinkedLen
      <3> QED BY <1>0, <2>2, <3>1 DEF PoolInv, PoolCount
    <2>4. ~PoolExact
      BY <2>1 DEF PoolExact
    <2>5. /\ stat[t] = "SUSPEND" /\ stat'[t] = "READY" /\ error'[t] = "ETIMEOUT"
          /\ pc'[t] = pc[t] /\ SameFor(Thread \ {t})
      BY <1>2, TimeoutEffect
    <2> HIDE DEF R
    <2>6. WaitList(RemoveFirst(l, t), R, block_free_count, stat', error', pc')
      BY <1>0, <2>5, OneTimesOut
    <2> QED BY <2>2, <2>3, <2>4, <2>6 DEF PoolInv, PoolWait, R
  <1> QED BY <1>1, <1>2

\* rt_mp_init.
LEMMA PoolInitInv ==
    ASSUME WaitOK, PoolInit
    PROVE  PoolInv /\ (timer = {} => PoolExact)
  <1>1. /\ SetToSeq(Block) \in Seq(Block) /\ IsInjective(SetToSeq(Block))
        /\ Len(SetToSeq(Block)) = Cardinality(Block)
    BY PoolAssumption, ListedSet
  <1>2. PoolLists
    BY <1>1 DEF PoolInit, PoolLists
  <1>3. Allocating = {} /\ Len(<< >>) = 0
    BY DEF PoolInit, Allocating
  <1>4. WaitList(<< >>, {}, block_free_count, stat, error, pc)
    BY EmptyList DEF WaitList, Queued, Calling, Awaited
  <1> QED BY <1>2, <1>3, <1>4 DEF PoolInit, PoolInv, PoolCount, PoolWait, PoolExact

\* The invariant of the pool says that no wake-up is lost and, untimed, that its
\* counts agree.
LEMMA PoolInvMeans ==
    ASSUME WaitOK, PoolInv PROVE NoLostBlock /\ (PoolExact => PoolTypeOK /\ CountsExact)
  <1>1. WokenForBlock = Woke(Allocating, stat, error)
    BY DEF WokenForBlock, Woke, Allocating
  <1>2. NoLostBlock
    BY <1>1 DEF PoolInv, PoolWait, WaitList, Awaited, NoLostBlock
  <1>3. /\ Len(block_list) \in 0 .. Cardinality(Block)
        /\ Len(suspend_alloc_thread) \in 0 .. Cardinality(Thread)
    <2>1. /\ Len(block_list) <= Cardinality(Block) /\ Len(block_list) \in Nat
          /\ Len(suspend_alloc_thread) <= Cardinality(Thread) /\ Len(suspend_alloc_thread) \in Nat
      BY PoolFacts, PoolAssumption, IpcAssumption, CountedList
    <2>2. Cardinality(Block) \in Nat /\ Cardinality(Thread) \in Nat
      BY PoolAssumption, IpcAssumption, FS_CardinalityType
    <2> QED BY <2>1, <2>2
  <1>4. suspend_alloc_thread \in Seq(Thread)
    BY PoolFacts
  <1>5. ASSUME PoolExact PROVE PoolTypeOK /\ CountsExact
    BY <1>3, <1>4, <1>5 DEF PoolExact, PoolInv, PoolLists, PoolTypeOK, CountsExact
  <1> QED BY <1>2, <1>5

-----------------------------------------------------------------------------
(* The completion.                                                         *)

\* At most one thread waits, and only before it is done.
CompletionInv ==
    /\ completed \in BOOLEAN
    /\ WaitList(suspended_list, completing, 0, stat, error, pc)
    /\ \A u, v \in ToSet(suspended_list) : u = v
    /\ suspended_list # << >> => ~completed

\* Every step of the completion keeps its invariant.
LEMMA CompletionStepInv ==
    ASSUME WaitOK, CompletionInv, CompletionStep PROVE CompletionInv'
  <1> DEFINE l == suspended_list
             S == completing
  <1>0. /\ WaitList(l, S, 0, stat, error, pc) /\ l \in Seq(Thread) /\ S \subseteq Thread
        /\ stat \in [Thread -> Status] /\ 0 \in Int /\ 0 <= 0 /\ IsInjective(l)
    BY StatusType DEF CompletionInv, WaitList, Queued, Calling
  <1>1. \A t \in Thread : pc[t] \in {"run", "done"} => stat[t] = "READY" /\ t \notin S
    BY <1>0 DEF WaitOK, WaitList, Calling
  <1>2. ASSUME NEW t \in Thread, pc[t] = "run", l = << >>, WaitAtOnce(t) \/ WaitRefused(t)
        PROVE  CompletionInv'
    <2>1. stat' = stat /\ error' = error /\ pc' = pc /\ l' = l /\ S' = S /\ completed' \in BOOLEAN
      BY <1>2 DEF WaitAtOnce, WaitRefused, cpvars, CompletionInv
    <2> QED BY <1>0, <1>2, <2>1, EmptyList DEF CompletionInv
  <1>3. ASSUME NEW t \in Thread, NEW time, pc[t] = "run", l = << >>, WaitSuspends(t, time)
        PROVE  CompletionInv'
    <2>1. /\ ~completed /\ Suspend(t, time) /\ Fail({t}, "EOK") /\ l' = Append(l, t)
          /\ S' = S \cup {t} /\ completed' = completed
      BY <1>3 DEF WaitSuspends
    <2>2. /\ stat'[t] = "SUSPEND" /\ error'[t] = "EOK" /\ pc'[t] = "schedule"
          /\ SameFor(Thread \ {t})
      BY <2>1, SuspendEffect
    <2> DEFINE l2 == Append(l, t)
    <2>3. /\ l2 \in Seq(Thread) /\ ToSet(l2) = ToSet(l) \cup {t}
          /\ t \notin ToSet(l) /\ IsInjective(l) => IsInjective(l2)
      BY <1>0, AppendedList
    <2>4. stat[t] = "READY" /\ SameFor(S \ {t})
      BY <1>0, <1>1, <1>3, <2>2 DEF SameFor
    <2>5. ToSet(l) = {}
      BY <1>3, EmptyList
    <2> HIDE DEF l2, l
    <2>6. WaitList(l2, S \cup {t}, 0, stat', error', pc')
      BY <1>0, <2>2, <2>3, <2>4, ListJoined
    <2> QED BY <2>1, <2>3, <2>5, <2>6 DEF CompletionInv, l, l2
  <1>4. ASSUME NEW t \in Thread, CompletionBack(t) PROVE CompletionInv'
    <2>1. /\ pc[t] = "check" /\ Return(t) /\ completed' = FALSE /\ S' = S \ {t} /\ stat' = stat
          /\ l' = l
      BY <1>4 DEF CompletionBack
    <2>2. stat[t] = "READY"
      BY <2>1 DEF WaitOK
    <2>3. SameFor(S \ {t})
      BY <1>0, <2>1, ReturnEffect DEF SameFor
    <2>4. WaitList(l, S \ {t}, 0, stat', error', pc')
      BY <1>0, <2>2, <2>3, OneLeaves
    <2> QED BY <2>1, <2>4 DEF CompletionInv
  <1>5. ASSUME NEW t \in Thread, rt_completion_done(t) PROVE CompletionInv'
    <2>1. /\ pc[t] = "run" /\ pc' = [pc EXCEPT ![t] = "done"] /\ stat' = stat /\ error' = error
          /\ completed' = completed /\ l' = l /\ S' = S
      BY <1>5 DEF rt_completion_done, cpvars
    <2>2. SameFor(S)
      BY <1>0, <1>1, <2>1 DEF SameFor, WaitOK
    <2>3. WaitList(l, S, 0, stat', error', pc')
      BY <1>0, <2>2, ListKept
    <2> QED BY <2>1, <2>3 DEF CompletionInv
  <1>6. ASSUME NEW t \in Thread, DoneLocked(t) PROVE CompletionInv'
    <2>1. /\ pc[t] = "done" /\ completed' = TRUE /\ Return(t) /\ S' = S
          /\ IF l # << >> THEN Resume({Head(l)}) /\ suspended_list' = Tail(l)
                          ELSE stat' = stat /\ suspended_list' = l
      BY <1>6 DEF DoneLocked
    <2>2. \A u \in S : error'[u] = error[u] /\ pc'[u] = pc[u]
      BY <1>0, <1>1, <2>1, ReturnEffect
    <2>3. WaitList(suspended_list', S, 0, stat', error', pc')
      <3>1. 0 <= 0 + 1
        OBVIOUS
      <3> QED BY <1>0, <2>1, <2>2, <3>1, Served
    <2>4. suspended_list' = << >>
      <3>1. CASE l # << >>
        <4>1. /\ ToSet(Tail(l)) = ToSet(l) \ {Head(l)} /\ Head(l) \in ToSet(l)
              /\ Tail(l) \in Seq(Thread)
          BY <1>0, <3>1, TailList
        <4>2. ToSet(Tail(l)) = {}
          BY <4>1 DEF CompletionInv
        <4> QED BY <2>1, <3>1, <4>1, <4>2, ListIndices
      <3>2. CASE l = << >>
        BY <2>1, <3>2
      <3> QED BY <3>1, <3>2
    <2> QED BY <2>1, <2>3, <2>4, EmptyList DEF CompletionInv
  <1>7. ASSUME NEW t \in Thread, NEW time, rt_completion_wait(t, time) PROVE CompletionInv'
    BY <1>2, <1>3, <1>7 DEF rt_completion_wait
  <1> QED BY <1>4, <1>5, <1>6, <1>7 DEF CompletionStep, CompletionNext

\* A thread that goes on or times out keeps it.
LEMMA CompletionOthersInv ==
    ASSUME Base, CompletionInv, NEW t \in Thread, Proceed(t) \/ Timeout(t) PROVE CompletionInv'
  <1> DEFINE l == suspended_list
             S == completing
  <1>0. /\ WaitList(l, S, 0, stat, error, pc) /\ stat \in [Thread -> Status] /\ 0 \in Int
        /\ l \in Seq(Thread) /\ IsInjective(l)
    BY StatusType DEF CompletionInv, Base, WaitList, Queued
  <1>1. CASE Proceed(t)
    <2>1. UNCHANGED cpvars
      BY <1>1 DEF Proceed, NotMail, Drivers
    <2>2. WaitList(l, S, 0, stat', error', pc')
      BY <1>0, <1>1, ListProceeds
    <2> QED BY <2>1, <2>2 DEF CompletionInv, cpvars
  <1>2. CASE Timeout(t)
    <2>1. CompletionUnlink(t)
      BY <1>2 DEF Timeout
    <2>2. completed' = completed /\ S' = S /\ l' = RemoveFirst(l, t)
      BY <2>1 DEF CompletionUnlink
    <2>3. /\ stat[t] = "SUSPEND" /\ stat'[t] = "READY" /\ error'[t] = "ETIMEOUT"
          /\ pc'[t] = pc[t] /\ SameFor(Thread \ {t})
      BY <1>2, TimeoutEffect
    <2>4. WaitList(RemoveFirst(l, t), S, 0, stat', error', pc')
      BY <1>0, <2>3, OneTimesOut
    <2>5. ToSet(RemoveFirst(l, t)) \subseteq ToSet(l)
      BY <1>0, UnlinkedList
    <2>6. l = << >> => RemoveFirst(l, t) = << >>
      BY NothingUnlinked
    <2> QED BY <2>2, <2>4, <2>5, <2>6 DEF CompletionInv
  <1> QED BY <1>1, <1>2

\* rt_completion_init.
LEMMA CompletionInitInv == ASSUME CompletionInit PROVE CompletionInv
  <1>1. WaitList(<< >>, {}, 0, stat, error, pc)
    BY EmptyList DEF WaitList, Queued, Calling, Awaited
  <1> QED BY <1>1, EmptyList DEF CompletionInit, CompletionInv

\* The invariant of the completion says that no wake-up is lost.
LEMMA CompletionInvMeans == ASSUME CompletionInv PROVE CompletionTypeOK /\ NoLostDone
  BY DEF CompletionInv, CompletionTypeOK, NoLostDone, WaitList, Queued, Calling

-----------------------------------------------------------------------------
(* The event.                                                              *)

EventTypes ==
    /\ set \subseteq EventBit
    /\ event_set \in [Thread -> SUBSET EventBit]
    /\ event_info \in [Thread -> EventOption \cup {{}}]
    /\ consumers \in [EventBit -> Nat]

EventWait == WaitList(suspend_event_thread, receiving, 0, stat, error, pc)

\* A thread that was given events has them.
EventGiven ==
    /\ given \subseteq receiving /\ \A t \in given : stat[t] = "READY"
    /\ \A t \in receiving : stat[t] = "READY" => (error[t] = "EOK" <=> t \in given)

\* An event that is still there was given to nobody who cleared it.
EventOnce == \A b \in EventBit : consumers[b] + (IF b \in set THEN 1 ELSE 0) <= 1

EventInv == EventTypes /\ EventWait /\ EventGiven /\ EventOnce /\ NoneOverlooked

\* What rt_event_send starts with, and what its loop has after each thread.
WalkFirst(s) == [set |-> set \cup s, woken |-> {}, got |-> event_set,
                 list |-> suspend_event_thread]

IsWalk(w, s, n) == w = [i \in 0 .. n |->
    IF i = 0 THEN WalkFirst(s) ELSE Visit(w[i - 1], suspend_event_thread[i])]

\* The loop comes to its end.
LEMMA WalkExists ==
    ASSUME NEW s, NEW n \in Nat PROVE \E w : IsWalk(w, s, n)
  <1> DEFINE B == {k \in 0 .. n : ~ \E w : IsWalk(w, s, k)}
  <1>1. CASE B = {}
    <2>1. n \in 0 .. n
      OBVIOUS
    <2> QED BY <1>1, <2>1
  <1>2. CASE B # {}
    <2> DEFINE k == Min(B)
    <2>1. k \in B /\ \A j \in B : k <= j
      <3>1. B \subseteq Nat
        OBVIOUS
      <3> QED BY <1>2, <3>1, LeastOfNat
    <2> HIDE DEF k
    <2>2. k \in 0 .. n /\ ~ \E w : IsWalk(w, s, k)
      BY <2>1
    <2>3. k # 0
      <3>1. IsWalk([i \in 0 .. 0 |-> WalkFirst(s)], s, 0)
        BY DEF IsWalk
      <3> QED BY <2>2, <3>1
    <2>4. k - 1 \in 0 .. n /\ k - 1 \notin B
      BY <2>1, <2>2, <2>3
    <2>5. PICK w : IsWalk(w, s, k - 1)
      BY <2>4
    <2> DEFINE w2 == [i \in 0 .. k |-> IF i = k THEN Visit(w[k - 1], suspend_event_thread[k]) ELSE w[i]]
    <2>6. IsWalk(w2, s, k)
      <3>1. \A i \in 0 .. k - 1 : w[i] =
              IF i = 0 THEN WalkFirst(s) ELSE Visit(w[i - 1], suspend_event_thread[i])
        BY <2>5 DEF IsWalk
      <3>2. \A i \in 0 .. k : w2[i] = IF i = k THEN Visit(w[k - 1], suspend_event_thread[k]) ELSE w[i]
        OBVIOUS
      <3> HIDE DEF B
      <3>3. ASSUME NEW i \in 0 .. k
            PROVE  w2[i] = IF i = 0 THEN WalkFirst(s) ELSE Visit(w2[i - 1], suspend_event_thread[i])
        <4>1. CASE i = 0
          <5>1. 0 \in 0 .. k - 1
            BY <2>2, <2>3
          <5> QED BY <2>3, <3>1, <3>2, <4>1, <5>1
        <4>2. CASE i # 0
          <5>1. i - 1 \in 0 .. k /\ i - 1 # k /\ k \in Nat
            BY <2>2, <4>2
          <5>2. w2[i - 1] = w[i - 1]
            BY <3>2, <5>1
          <5>3. CASE i = k
            BY <3>2, <4>2, <5>2, <5>3
          <5>4. CASE i # k
            <6>1. i \in 0 .. k - 1
              BY <2>2, <5>4
            <6> QED BY <3>1, <3>2, <4>2, <5>2, <5>4, <6>1
          <5> QED BY <5>3, <5>4
        <4> QED BY <4>1, <4>2
      <3>4. w2 = [i \in 0 .. k |-> w2[i]]
        OBVIOUS
      <3> HIDE DEF w2
      <3> QED BY <3>3, <3>4 DEF IsWalk
    <2> QED BY <2>2, <2>6
  <1> QED BY <1>1, <1>2

\* What the loop has done after i threads.
Cleared(acc, b) == {t \in acc.woken : "CLEAR" \in event_info[t] /\ b \in acc.got[t]}

WalkOK(acc, s, i) ==
    /\ acc.set \subseteq EventBit
    /\ acc.woken \subseteq {suspend_event_thread[j] : j \in 1 .. i}
    /\ acc.got \in [Thread -> SUBSET EventBit]
    /\ \A t \in Thread \ acc.woken : acc.got[t] = event_set[t]
    /\ acc.list \in Seq(Thread) /\ IsInjective(acc.list)
    /\ ToSet(acc.list) = ToSet(suspend_event_thread) \ acc.woken
    /\ \A j \in 1 .. i : suspend_event_thread[j] \notin acc.woken =>
          ~Satisfied(event_info[suspend_event_thread[j]], event_set[suspend_event_thread[j]],
                     acc.set)
    /\ \A b \in EventBit :
          (IF b \in s THEN 0 ELSE consumers[b]) + Cardinality(Cleared(acc, b))
             + (IF b \in acc.set THEN 1 ELSE 0) <= 1

\* Who has less is not satisfied by less.
LEMMA LessSatisfies ==
    ASSUME NEW option, NEW want, NEW have, NEW less, less \subseteq have,
           ~Satisfied(option, want, have)
    PROVE  ~Satisfied(option, want, less)
  BY DEF Satisfied

\* One thread of the list is looked at.
LEMMA VisitKeeps ==
    ASSUME EventTypes, suspend_event_thread \in Seq(Thread), IsInjective(suspend_event_thread),
           NEW s \in SUBSET EventBit, NEW i \in 1 .. Len(suspend_event_thread), NEW acc,
           WalkOK(acc, s, i - 1)
    PROVE  WalkOK(Visit(acc, suspend_event_thread[i]), s, i)
  <1> DEFINE L == suspend_event_thread
             t == L[i]
             acc2 == Visit(acc, t)
  <1>0. /\ Len(L) \in Nat /\ DOMAIN L = 1 .. Len(L) /\ t \in Thread /\ t \in ToSet(L)
        /\ \A j \in 1 .. Len(L) : L[j] \in Thread
        /\ \A j, k \in 1 .. Len(L) : L[j] = L[k] => j = k
    BY ListIndices DEF IsInjective
  <1>1. /\ acc.set \subseteq EventBit /\ acc.woken \subseteq {L[j] : j \in 1 .. i - 1}
        /\ acc.got \in [Thread -> SUBSET EventBit]
        /\ \A u \in Thread \ acc.woken : acc.got[u] = event_set[u]
        /\ acc.list \in Seq(Thread) /\ IsInjective(acc.list)
        /\ ToSet(acc.list) = ToSet(L) \ acc.woken
        /\ \A j \in 1 .. i - 1 : L[j] \notin acc.woken =>
              ~Satisfied(event_info[L[j]], event_set[L[j]], acc.set)
        /\ \A b \in EventBit :
              (IF b \in s THEN 0 ELSE consumers[b]) + Cardinality(Cleared(acc, b))
                 + (IF b \in acc.set THEN 1 ELSE 0) <= 1
    BY DEF WalkOK
  <1>2. \A j \in 1 .. i : j \in 1 .. i - 1 \/ j = i
    BY <1>0
  <1>3. t \notin acc.woken
    <2>1. \A j \in 1 .. i - 1 : j \in 1 .. Len(L) /\ j # i
      BY <1>0
    <2>2. \A j \in 1 .. i - 1 : L[j] # t
      BY <1>0, <2>1
    <2> QED BY <1>1, <2>2
  <1> HIDE DEF L, t
  <1>4. CASE Satisfied(event_info[t], event_set[t], acc.set)
    <2> DEFINE got == acc.got[t] \cap acc.set
               clear == "CLEAR" \in event_info[t]
    <2>1. /\ acc2.set = IF clear THEN acc.set \ got ELSE acc.set
          /\ acc2.woken = acc.woken \cup {t}
          /\ acc2.got = [acc.got EXCEPT ![t] = got]
          /\ acc2.list = RemoveFirst(acc.list, t)
      BY <1>4 DEF Visit
    <2> HIDE DEF acc2
    <2>2. acc2.set \subseteq acc.set
      BY <2>1
    <2>3. acc2.woken \subseteq {L[j] : j \in 1 .. i}
      <3>1. \A j \in 1 .. i - 1 : j \in 1 .. i
        BY <1>0
      <3>2. i \in 1 .. i
        BY <1>0
      <3> QED BY <1>1, <2>1, <3>1, <3>2 DEF t
    <2>4. /\ acc2.got \in [Thread -> SUBSET EventBit]
          /\ \A u \in Thread \ acc2.woken : acc2.got[u] = event_set[u]
          /\ acc2.got[t] = got /\ \A u \in Thread : u # t => acc2.got[u] = acc.got[u]
      BY <1>0, <1>1, <2>1
    <2>5. /\ acc2.list \in Seq(Thread) /\ IsInjective(acc2.list)
          /\ ToSet(acc2.list) = ToSet(L) \ acc2.woken
      <3>1. /\ acc2.list \in Seq(Thread) /\ IsInjective(acc2.list)
            /\ ToSet(acc2.list) = ToSet(acc.list) \ {t}
        BY <1>1, <2>1, UnlinkedList
      <3> QED BY <1>1, <2>1, <3>1
    <2>6. \A j \in 1 .. i : L[j] \notin acc2.woken =>
            ~Satisfied(event_info[L[j]], event_set[L[j]], acc2.set)
      <3> TAKE j \in 1 .. i
      <3> SUFFICES ASSUME L[j] \notin acc2.woken
                   PROVE  ~Satisfied(event_info[L[j]], event_set[L[j]], acc2.set)
        OBVIOUS
      <3>1. j \in 1 .. i - 1 /\ L[j] \notin acc.woken
        BY <1>2, <2>1 DEF t
      <3>2. ~Satisfied(event_info[L[j]], event_set[L[j]], acc.set)
        BY <1>1, <3>1
      <3> QED BY <2>2, <3>2, LessSatisfies
    <2>7. ASSUME NEW b \in EventBit
          PROVE  (IF b \in s THEN 0 ELSE consumers[b]) + Cardinality(Cleared(acc2, b))
                    + (IF b \in acc2.set THEN 1 ELSE 0) <= 1
      <3> DEFINE C == Cleared(acc, b)
                 base == IF b \in s THEN 0 ELSE consumers[b]
      <3>1. acc.woken \subseteq Thread
        <4>1. \A j \in 1 .. i - 1 : j \in 1 .. Len(L)
          BY <1>0 DEF L
        <4> QED BY <1>0, <1>1, <4>1
      <3>2. Cleared(acc2, b) = IF clear /\ b \in got THEN C \cup {t} ELSE C
        <4>1. \A u \in acc.woken : acc2.got[u] = acc.got[u]
          BY <1>3, <2>4, <3>1
        <4> QED BY <2>1, <2>4, <4>1, <1>3 DEF Cleared
      <3>3. IsFiniteSet(C) /\ Cardinality(C) \in Nat /\ t \notin C
        <4>1. C \subseteq Thread /\ t \notin C
          BY <1>3, <3>1 DEF Cleared
        <4>2. IsFiniteSet(C)
          BY <4>1, IpcAssumption, FS_Subset
        <4> QED BY <4>1, <4>2, FS_CardinalityType
      <3>4. base \in Nat
        BY DEF EventTypes
      <3>5. base + Cardinality(C) + (IF b \in acc.set THEN 1 ELSE 0) <= 1
        BY <1>1
      <3> HIDE DEF C, base
      <3>6. CASE clear /\ b \in got
        <4>1. Cardinality(Cleared(acc2, b)) = Cardinality(C) + 1
          BY <3>2, <3>3, <3>6, FS_AddElement
        <4>2. b \in acc.set /\ b \notin acc2.set
          BY <2>1, <3>6
        <4> QED BY <3>3, <3>4, <3>5, <4>1, <4>2 DEF base
      <3>7. CASE ~(clear /\ b \in got)
        <4>1. b \in acc2.set => b \in acc.set
          BY <2>2
        <4>2. Cleared(acc2, b) = C
          BY <3>2, <3>7
        <4> QED BY <3>3, <3>4, <3>5, <4>1, <4>2 DEF base
      <3> QED BY <3>6, <3>7
    <2>8. acc2.set \subseteq EventBit
      BY <1>1, <2>2
    <2> QED BY <2>3, <2>4, <2>5, <2>6, <2>7, <2>8 DEF WalkOK, acc2, L, t
  <1>5. CASE ~Satisfied(event_info[t], event_set[t], acc.set)
    <2>1. acc2 = acc
      BY <1>5 DEF Visit
    <2>2. acc.woken \subseteq {L[j] : j \in 1 .. i}
      <3>1. \A j \in 1 .. i - 1 : j \in 1 .. i
        BY <1>0
      <3> QED BY <1>1, <3>1
    <2>3. \A j \in 1 .. i : L[j] \notin acc.woken =>
            ~Satisfied(event_info[L[j]], event_set[L[j]], acc.set)
      BY <1>1, <1>2, <1>5 DEF t
    <2> HIDE DEF acc2
    <2> QED BY <1>1, <2>1, <2>2, <2>3 DEF WalkOK, acc2, L, t
  <1> QED BY <1>4, <1>5

\* What the whole loop has done.
LEMMA WalkDone ==
    ASSUME EventTypes, EventOnce,
           suspend_event_thread \in Seq(Thread), IsInjective(suspend_event_thread),
           NEW s \in SUBSET EventBit
    PROVE  WalkOK(Walk(s), s, Len(suspend_event_thread))
  <1> DEFINE n == Len(suspend_event_thread)
             w == CHOOSE f : IsWalk(f, s, n)
  <1>1. n \in Nat
    BY ListIndices
  <1>2. IsWalk(w, s, n)
    BY <1>1, WalkExists
  <1>3. Walk(s) = w[n]
    BY DEF Walk, IsWalk, WalkFirst
  <1> HIDE DEF n, w
  <1>4. WalkOK(w[0], s, 0)
    <2>1. w[0] = WalkFirst(s)
      BY <1>1, <1>2 DEF IsWalk
    <2>2. \A b : Cleared(w[0], b) = {}
      BY <2>1 DEF WalkFirst, Cleared
    <2>3. Cardinality({}) = 0
      BY FS_EmptySet
    <2>4. \A b \in EventBit :
            (IF b \in s THEN 0 ELSE consumers[b]) + 0 + (IF b \in set \cup s THEN 1 ELSE 0) <= 1
      <3> TAKE b \in EventBit
      <3>1. consumers[b] + (IF b \in set THEN 1 ELSE 0) <= 1 /\ consumers[b] \in Nat
        BY DEF EventOnce, EventTypes
      <3> QED BY <3>1
    <2>5. /\ w[0].set = set \cup s /\ w[0].woken = {} /\ w[0].got = event_set
          /\ w[0].list = suspend_event_thread
      BY <2>1 DEF WalkFirst
    <2>6. /\ set \cup s \subseteq EventBit /\ event_set \in [Thread -> SUBSET EventBit]
      BY DEF EventTypes
    <2>7. \A j \in 1 .. 0 : FALSE
      OBVIOUS
    <2> DEFINE a == w[0]
    <2> HIDE DEF a
    <2>8. \A b \in EventBit :
            (IF b \in s THEN 0 ELSE consumers[b]) + Cardinality(Cleared(a, b))
               + (IF b \in a.set THEN 1 ELSE 0) <= 1
      BY <2>2, <2>3, <2>4, <2>5 DEF a
    <2> QED BY <2>5, <2>6, <2>7, <2>8 DEF WalkOK, a
  <1> DEFINE B == {i \in 0 .. n : ~WalkOK(w[i], s, i)}
  <1>5. ASSUME B # {} PROVE FALSE
    <2> DEFINE k == Min(B)
    <2>1. k \in B /\ \A j \in B : k <= j
      <3>1. B \subseteq Nat
        OBVIOUS
      <3> QED BY <1>5, <3>1, LeastOfNat
    <2> HIDE DEF k
    <2>2. k \in 0 .. n /\ ~WalkOK(w[k], s, k)
      BY <2>1
    <2>3. k \in 1 .. n
      BY <1>1, <1>4, <2>2
    <2>4. k - 1 \in 0 .. n /\ k - 1 < k
      BY <1>1, <2>3
    <2>5. WalkOK(w[k - 1], s, k - 1)
      BY <2>1, <2>4
    <2>6. w[k] = Visit(w[k - 1], suspend_event_thread[k])
      BY <1>1, <1>2, <2>3 DEF IsWalk
    <2> QED BY <2>2, <2>3, <2>5, <2>6, VisitKeeps DEF n
  <1>6. n \in 0 .. n
    BY <1>1
  <1> QED BY <1>3, <1>5, <1>6 DEF n

\* What the invariant of the event says of its list.
LEMMA EventFacts ==
    ASSUME WaitOK, EventInv
    PROVE  /\ suspend_event_thread \in Seq(Thread) /\ IsInjective(suspend_event_thread)
           /\ ToSet(suspend_event_thread) = {t \in receiving : stat[t] = "SUSPEND"}
           /\ receiving \subseteq Thread /\ stat \in [Thread -> Status]
           /\ \A t \in Thread : pc[t] = "run" => stat[t] = "READY" /\ t \notin receiving
           /\ \A t \in Thread : pc[t] = "check" => stat[t] = "READY"
  <1>1. \A t \in Thread : pc[t] \in {"run", "check"} => stat[t] = "READY"
    BY DEF WaitOK
  <1> QED BY <1>1, StatusType DEF EventInv, EventWait, WaitList, Queued, Calling

\* rt_event_send.
LEMMA EventSendInv ==
    ASSUME WaitOK, EventInv, NEW s \in SUBSET EventBit, rt_event_send(s)
    PROVE  EventInv' /\ receiving' = receiving /\ pc' = pc
  <1> DEFINE L == suspend_event_thread
             a == Walk(s)
             n == Len(L)
  <1>0. /\ L \in Seq(Thread) /\ IsInjective(L)
        /\ ToSet(L) = {t \in receiving : stat[t] = "SUSPEND"}
        /\ receiving \subseteq Thread
        /\ EventTypes /\ EventOnce /\ EventGiven
        /\ WaitList(L, receiving, 0, stat, error, pc)
    BY EventFacts DEF EventInv, EventWait
  <1>1. WalkOK(a, s, n)
    BY <1>0, WalkDone
  <1>2. /\ set' = a.set /\ event_set' = a.got /\ suspend_event_thread' = a.list
        /\ Resume(a.woken)
        /\ consumers' = [b \in EventBit |->
              (IF b \in s THEN 0 ELSE consumers[b]) + Cardinality(Cleared(a, b))]
        /\ given' = given \cup a.woken
        /\ error' = error /\ pc' = pc /\ event_info' = event_info /\ receiving' = receiving
    BY DEF rt_event_send, Cleared
  <1>3. \A x : x \in ToSet(L) <=> \E j \in 1 .. n : L[j] = x
    BY <1>0, ListIndices
  <1> HIDE DEF a, n, L
  <1>4. /\ a.set \subseteq EventBit /\ a.woken \subseteq {L[j] : j \in 1 .. n}
        /\ a.got \in [Thread -> SUBSET EventBit]
        /\ \A t \in Thread \ a.woken : a.got[t] = event_set[t]
        /\ a.list \in Seq(Thread) /\ IsInjective(a.list)
        /\ ToSet(a.list) = ToSet(L) \ a.woken
        /\ \A j \in 1 .. n : L[j] \notin a.woken =>
              ~Satisfied(event_info[L[j]], event_set[L[j]], a.set)
        /\ \A b \in EventBit :
              (IF b \in s THEN 0 ELSE consumers[b]) + Cardinality(Cleared(a, b))
                 + (IF b \in a.set THEN 1 ELSE 0) <= 1
    BY <1>1 DEF WalkOK, L
  <1>5. a.woken \subseteq ToSet(L)
    BY <1>3, <1>4
  <1>6. \A u \in Thread : stat'[u] = IF u \in a.woken THEN "READY" ELSE stat[u]
    BY <1>2, ResumeEffect
  <1>7. EventTypes'
    <2>1. consumers' \in [EventBit -> Nat]
      <3>1. ASSUME NEW b \in EventBit PROVE Cardinality(Cleared(a, b)) \in Nat
        <4>1. Cleared(a, b) \subseteq Thread
          BY <1>0, <1>5 DEF Cleared
        <4>2. IsFiniteSet(Cleared(a, b))
          BY <4>1, IpcAssumption, FS_Subset
        <4> QED BY <4>2, FS_CardinalityType
      <3>2. \A b \in EventBit : consumers[b] \in Nat
        BY <1>0 DEF EventTypes
      <3> QED BY <1>2, <3>1, <3>2
    <2> QED BY <1>0, <1>2, <1>4, <2>1 DEF EventTypes
  <1>8. EventOnce'
    BY <1>2, <1>4 DEF EventOnce
  <1>9. NoneOverlooked'
    <2> SUFFICES ASSUME NEW t \in ToSet(a.list)
                 PROVE  ~Satisfied(event_info[t], a.got[t], a.set)
      BY <1>2 DEF NoneOverlooked
    <2>1. t \in ToSet(L) /\ t \notin a.woken /\ t \in Thread
      BY <1>0, <1>4
    <2>2. PICK j \in 1 .. n : L[j] = t
      BY <1>3, <2>1
    <2> QED BY <1>4, <2>1, <2>2
  <1>10. WaitList(a.list, receiving, 0, stat', error, pc)
    <2>1. Queued(a.list, receiving, stat')
      BY <1>0, <1>4, <1>5, <1>6 DEF Queued
    <2>2. Calling(receiving, stat', error, pc)
      BY <1>0, <1>6 DEF WaitList, Calling
    <2>3. Awaited(a.list, receiving, 0, stat', error)
      <3>1. Cardinality(Woke(receiving, stat', error)) \in Nat
        BY <1>0, WokeCount
      <3> QED BY <3>1 DEF Awaited
    <2> QED BY <2>1, <2>2, <2>3 DEF WaitList
  <1>11. EventGiven'
    <2>1. \A t \in a.woken : t \in receiving /\ error[t] = "EOK" /\ stat'[t] = "READY"
      BY <1>0, <1>5, <1>6 DEF WaitList, Calling
    <2>2. given \subseteq receiving /\ \A t \in given : stat'[t] = "READY"
      BY <1>0, <1>6 DEF EventGiven
    <2>3. \A t \in receiving : stat'[t] = "READY" => (error[t] = "EOK" <=> t \in given \cup a.woken)
      BY <1>0, <1>6, <2>1 DEF EventGiven
    <2> QED BY <1>2, <2>1, <2>2, <2>3 DEF EventGiven
  <1> QED BY <1>2, <1>7, <1>8, <1>9, <1>10, <1>11 DEF EventInv, EventWait

\* rt_event_recv up to its rt_schedule.
LEMMA EventRecvInv ==
    ASSUME WaitOK, EventInv, NEW t \in Thread, NEW want \in SUBSET EventBit,
           NEW option \in EventOption, NEW time \in {"none", "ticks", "forever"},
           rt_event_recv(t, want, option, time)
    PROVE  /\ EventInv' /\ receiving' \subseteq receiving \cup {t}
           /\ \A u \in Thread \ {t} : pc'[u] = pc[u]
  <1> DEFINE L == suspend_event_thread
  <1>0. /\ L \in Seq(Thread) /\ IsInjective(L)
        /\ ToSet(L) = {u \in receiving : stat[u] = "SUSPEND"}
        /\ receiving \subseteq Thread /\ stat[t] = "READY" /\ t \notin receiving
        /\ EventTypes /\ EventOnce /\ EventGiven /\ NoneOverlooked
        /\ WaitList(L, receiving, 0, stat, error, pc) /\ stat \in [Thread -> Status]
    BY EventFacts DEF EventInv, EventWait, rt_event_recv
  <1>1. CASE RecvAtOnce(t, want, option)
    <2>1. /\ set' = IF "CLEAR" \in option THEN set \ want ELSE set
          /\ consumers' = [b \in EventBit |->
                IF "CLEAR" \in option /\ b \in set \cap want THEN consumers[b] + 1
                                                             ELSE consumers[b]]
          /\ UNCHANGED <<stat, timer, error, pc, suspend_event_thread, event_set, event_info,
                         receiving, given>>
      BY <1>1 DEF RecvAtOnce
    <2>2. EventTypes'
      BY <1>0, <2>1 DEF EventTypes
    <2>3. EventOnce'
      <3> SUFFICES ASSUME NEW b \in EventBit
                   PROVE  consumers'[b] + (IF b \in set' THEN 1 ELSE 0) <= 1
        BY DEF EventOnce
      <3>1. consumers[b] + (IF b \in set THEN 1 ELSE 0) <= 1 /\ consumers[b] \in Nat
        BY <1>0 DEF EventOnce, EventTypes
      <3>2. CASE "CLEAR" \in option /\ b \in set \cap want
        <4>1. consumers'[b] = consumers[b] + 1 /\ b \notin set' /\ b \in set
          BY <2>1, <3>2
        <4> QED BY <3>1, <4>1
      <3>3. CASE ~("CLEAR" \in option /\ b \in set \cap want)
        <4>1. consumers'[b] = consumers[b] /\ (b \in set' => b \in set)
          BY <2>1, <3>3
        <4> QED BY <3>1, <4>1
      <3> QED BY <3>2, <3>3
    <2>4. NoneOverlooked'
      <3>1. set' \subseteq set
        BY <2>1
      <3>2. \A u \in ToSet(L) : ~Satisfied(event_info[u], event_set[u], set')
        BY <1>0, <3>1, LessSatisfies DEF NoneOverlooked
      <3> QED BY <2>1, <3>2 DEF NoneOverlooked
    <2>5. EventGiven' /\ EventWait'
      BY <1>0, <2>1 DEF EventGiven, EventWait
    <2> QED BY <2>1, <2>2, <2>3, <2>4, <2>5 DEF EventInv
  <1>2. CASE RecvRefused(t, want, option)
    <2>1. UNCHANGED <<stat, timer, error, pc, evvars>>
      BY <1>2 DEF RecvRefused
    <2>2. /\ EventTypes' /\ EventOnce' /\ EventGiven' /\ NoneOverlooked' /\ EventWait'
          /\ receiving' = receiving /\ pc' = pc
      BY <1>0, <2>1 DEF EventTypes, EventOnce, EventGiven, NoneOverlooked, EventWait, evvars
    <2> QED BY <2>2 DEF EventInv
  <1>3. CASE RecvWaits(t, want, option, time)
    <2>1. /\ ~Satisfied(option, want, set)
          /\ event_set' = [event_set EXCEPT ![t] = want]
          /\ event_info' = [event_info EXCEPT ![t] = option]
          /\ receiving' = receiving \cup {t}
          /\ Suspend(t, time) /\ Fail({t}, "EOK")
          /\ suspend_event_thread' = Placed(EventFlag, L, t, Priority)
          /\ set' = set /\ given' = given /\ consumers' = consumers
      BY <1>3 DEF RecvWaits
    <2>2. EventTypes' /\ EventOnce'
      BY <1>0, <2>1 DEF EventTypes, EventOnce
    <2>3. /\ stat'[t] = "SUSPEND" /\ error'[t] = "EOK" /\ pc'[t] = "schedule"
          /\ SameFor(Thread \ {t})
      BY <2>1, SuspendEffect
    <2> DEFINE L2 == Placed(EventFlag, L, t, Priority)
    <2>4. /\ L2 \in Seq(Thread) /\ ToSet(L2) = ToSet(L) \cup {t}
          /\ t \notin ToSet(L) /\ IsInjective(L) => IsInjective(L2)
      BY <1>0, PlacedList
    <2> HIDE DEF L2, L
    <2>5. WaitList(L2, receiving \cup {t}, 0, stat', error', pc')
      <3>1. SameFor(receiving \ {t}) /\ 0 \in Int /\ 0 <= 0
        BY <1>0, <2>3 DEF SameFor
      <3> QED BY <1>0, <2>3, <2>4, <3>1, ListJoined
    <2>6. EventGiven'
      <3>1. t \notin given /\ given \subseteq receiving
        BY <1>0 DEF EventGiven
      <3>2. \A u \in receiving : stat'[u] = stat[u] /\ error'[u] = error[u]
        BY <1>0, <2>3 DEF SameFor
      <3> QED BY <1>0, <2>1, <2>3, <3>1, <3>2 DEF EventGiven
    <2>7. NoneOverlooked'
      <3> SUFFICES ASSUME NEW u \in ToSet(L2) PROVE ~Satisfied(event_info'[u], event_set'[u], set)
        BY <2>1 DEF NoneOverlooked, L2
      <3>1. CASE u = t
        BY <1>0, <2>1, <3>1 DEF EventTypes
      <3>2. CASE u # t
        <4>1. u \in ToSet(L) /\ u \in Thread
          BY <1>0, <2>4, <3>2
        <4>2. event_info'[u] = event_info[u] /\ event_set'[u] = event_set[u]
          BY <1>0, <2>1, <3>2, <4>1 DEF EventTypes
        <4> QED BY <1>0, <4>1, <4>2 DEF NoneOverlooked, L
      <3> QED BY <3>1, <3>2
    <2> QED BY <2>1, <2>2, <2>3, <2>5, <2>6, <2>7 DEF EventInv, EventWait, L2, L, SameFor
  <1> QED BY <1>1, <1>2, <1>3 DEF rt_event_recv

\* A thread is back from its wait for the event.
LEMMA EventBackInv ==
    ASSUME WaitOK, EventInv, NEW t \in Thread, EventBack(t)
    PROVE  EventInv' /\ receiving' = receiving \ {t} /\ \A u \in Thread \ {t} : pc'[u] = pc[u]
  <1> DEFINE L == suspend_event_thread
  <1>0. /\ L \in Seq(Thread) /\ IsInjective(L)
        /\ ToSet(L) = {u \in receiving : stat[u] = "SUSPEND"}
        /\ receiving \subseteq Thread
        /\ EventTypes /\ EventOnce /\ EventGiven /\ NoneOverlooked
        /\ WaitList(L, receiving, 0, stat, error, pc) /\ stat \in [Thread -> Status]
    BY EventFacts DEF EventInv, EventWait
  <1>1. /\ pc[t] = "check" /\ t \in receiving /\ Return(t)
        /\ event_set' = [event_set EXCEPT ![t] = {}]
        /\ event_info' = [event_info EXCEPT ![t] = {}]
        /\ receiving' = receiving \ {t} /\ given' = given \ {t}
        /\ stat' = stat /\ set' = set /\ suspend_event_thread' = L /\ consumers' = consumers
    BY DEF EventBack
  <1>2. stat[t] = "READY"
    BY <1>1, EventFacts
  <1>3. \A u \in Thread \ {t} : pc'[u] = pc[u] /\ error'[u] = error[u]
    BY <1>1, ReturnEffect
  <1>4. EventTypes' /\ EventOnce'
    BY <1>0, <1>1 DEF EventTypes, EventOnce
  <1>5. EventGiven'
    BY <1>0, <1>1, <1>3 DEF EventGiven
  <1>6. NoneOverlooked'
    <2>1. t \notin ToSet(L)
      BY <1>0, <1>2
    <2> QED BY <1>0, <1>1, <2>1 DEF NoneOverlooked, EventTypes
  <1>7. WaitList(L, receiving \ {t}, 0, stat', error', pc')
    <2>1. SameFor(receiving \ {t}) /\ 0 \in Int /\ 0 <= 0
      BY <1>0, <1>1, <1>3 DEF SameFor
    <2> QED BY <1>0, <1>2, <2>1, OneLeaves
  <1> QED BY <1>1, <1>3, <1>4, <1>5, <1>6, <1>7 DEF EventInv, EventWait

\* Every step of the event keeps its invariant.
LEMMA EventStepInv ==
    ASSUME WaitOK, EventInv, EventStep PROVE EventInv'
  <1>1. ASSUME NEW t \in Thread, NEW c \in Call[t].event_recv,
               rt_event_recv(t, c.want, c.option, c.time)
        PROVE  EventInv'
    <2>1. c \in [want : SUBSET EventBit, option : EventOption, time : Time]
      BY CallAssumption
    <2>2. /\ c.want \in SUBSET EventBit /\ c.option \in EventOption
          /\ c.time \in {"none", "ticks", "forever"}
      BY <2>1, IpcAssumption
    <2> QED BY <1>1, <2>2, EventRecvInv
  <1>2. CASE rt_event_control
    <2> DEFINE L == suspend_event_thread
    <2>0. /\ L \in Seq(Thread) /\ IsInjective(L)
          /\ ToSet(L) = {u \in receiving : stat[u] = "SUSPEND"}
          /\ receiving \subseteq Thread
          /\ EventTypes /\ EventOnce /\ EventGiven /\ NoneOverlooked
          /\ WaitList(L, receiving, 0, stat, error, pc) /\ stat \in [Thread -> Status]
      BY EventFacts DEF EventInv, EventWait
    <2>1. /\ Resume(ToSet(L)) /\ Fail(ToSet(L), "ERROR")
          /\ suspend_event_thread' = << >> /\ set' = {}
          /\ pc' = pc /\ UNCHANGED <<event_set, event_info, receiving, given, consumers>>
      BY <1>2 DEF rt_event_control
    <2>2. /\ \A u \in Thread : stat'[u] = IF u \in ToSet(L) THEN "READY" ELSE stat[u]
          /\ \A u \in Thread : error'[u] = IF u \in ToSet(L) THEN "ERROR" ELSE error[u]
      BY <2>1, ResumeEffect DEF Fail
    <2>3. EventTypes' /\ EventOnce'
      <3>1. \A b \in EventBit : consumers[b] \in Nat /\ consumers[b] + (IF b \in set THEN 1 ELSE 0) <= 1
        BY <2>0 DEF EventTypes, EventOnce
      <3> QED BY <2>0, <2>1, <3>1 DEF EventTypes, EventOnce
    <2>4. EventGiven'
      <3>1. \A u \in ToSet(L) : u \notin given
        BY <2>0 DEF EventGiven
      <3> QED BY <2>0, <2>1, <2>2, <3>1 DEF EventGiven
    <2>5. NoneOverlooked'
      BY <2>1, EmptyList DEF NoneOverlooked
    <2>6. WaitList(<< >>, receiving, 0, stat', error', pc')
      <3>1. \A u \in receiving : stat'[u] # "SUSPEND" /\ pc'[u] = pc[u]
        BY <2>0, <2>1, <2>2
      <3> QED BY <2>0, <3>1, ListCleared
    <2> QED BY <2>1, <2>3, <2>4, <2>5, <2>6 DEF EventInv, EventWait
  <1> QED BY <1>1, <1>2, EventSendInv, EventBackInv DEF EventStep, EventNext

\* A thread that goes on or times out keeps it.
LEMMA EventOthersInv ==
    ASSUME Base, EventInv, NEW t \in Thread, Proceed(t) \/ Timeout(t) PROVE EventInv'
  <1> DEFINE L == suspend_event_thread
  <1>0. /\ L \in Seq(Thread) /\ IsInjective(L)
        /\ ToSet(L) = {u \in receiving : stat[u] = "SUSPEND"}
        /\ receiving \subseteq Thread
        /\ EventTypes /\ EventOnce /\ EventGiven /\ NoneOverlooked
        /\ WaitList(L, receiving, 0, stat, error, pc) /\ stat \in [Thread -> Status] /\ 0 \in Int
    BY EventFacts DEF EventInv, EventWait, Base
  <1>1. CASE Proceed(t)
    <2>1. UNCHANGED evvars /\ stat' = stat /\ error' = error
      <3>1. sig = {}
        BY DEF Base, WaitOK
      <3> QED BY <1>1, <3>1 DEF Proceed, NotMail, rt_schedule, SwitchBack
    <2>2. /\ EventTypes' /\ EventOnce' /\ EventGiven' /\ NoneOverlooked'
          /\ receiving' = receiving /\ suspend_event_thread' = L
      BY <1>0, <2>1 DEF EventTypes, EventOnce, EventGiven, NoneOverlooked, evvars
    <2>3. WaitList(L, receiving, 0, stat', error', pc')
      BY <1>0, <1>1, ListProceeds
    <2> QED BY <2>2, <2>3 DEF EventInv, EventWait
  <1>2. CASE Timeout(t)
    <2>1. EventUnlink(t)
      BY <1>2 DEF Timeout
    <2>2. /\ suspend_event_thread' = RemoveFirst(L, t)
          /\ UNCHANGED <<set, event_set, event_info, receiving, given, consumers>>
      BY <2>1 DEF EventUnlink
    <2>3. /\ stat[t] = "SUSPEND" /\ stat'[t] = "READY" /\ error'[t] = "ETIMEOUT"
          /\ pc'[t] = pc[t] /\ SameFor(Thread \ {t})
      BY <1>2, TimeoutEffect
    <2>4. WaitList(RemoveFirst(L, t), receiving, 0, stat', error', pc')
      BY <1>0, <2>3, OneTimesOut
    <2>5. EventTypes' /\ EventOnce'
      BY <1>0, <2>2 DEF EventTypes, EventOnce
    <2>6. EventGiven'
      <3>1. t \notin given
        BY <1>0, <2>3 DEF EventGiven
      <3>2. \A u \in receiving : u # t => stat'[u] = stat[u] /\ error'[u] = error[u]
        BY <1>0, <2>3 DEF SameFor
      <3> QED BY <1>0, <2>2, <2>3, <3>1, <3>2 DEF EventGiven
    <2>7. NoneOverlooked'
      <3>1. ToSet(RemoveFirst(L, t)) \subseteq ToSet(L)
        BY <1>0, UnlinkedList
      <3> QED BY <1>0, <2>2, <3>1 DEF NoneOverlooked
    <2> QED BY <2>2, <2>4, <2>5, <2>6, <2>7 DEF EventInv, EventWait
  <1> QED BY <1>1, <1>2

\* rt_event_init.
LEMMA EventInitInv == ASSUME WaitOK, EventInit PROVE EventInv
  <1>1. WaitList(<< >>, {}, 0, stat, error, pc)
    BY EmptyList DEF WaitList, Queued, Calling, Awaited
  <1>2. EventTypes /\ EventOnce /\ EventGiven
    BY DEF EventInit, EventTypes, EventOnce, EventGiven
  <1> QED BY <1>1, <1>2, EmptyList DEF EventInit, EventInv, EventWait, NoneOverlooked

\* The invariant of the event says that each event is given once and nobody is
\* overlooked.
LEMMA EventInvMeans == ASSUME EventInv PROVE EventTypeOK /\ NoneOverlooked /\ ConsumedOnce
  <1>1. EventTypeOK
    BY DEF EventInv, EventTypes, EventWait, EventGiven, WaitList, Queued, Calling, EventTypeOK
  <1>2. \A b \in EventBit : consumers[b] <= 1
    <2> TAKE b \in EventBit
    <2>1. consumers[b] + (IF b \in set THEN 1 ELSE 0) <= 1 /\ consumers[b] \in Nat
      BY DEF EventInv, EventOnce, EventTypes
    <2> QED BY <2>1
  <1> QED BY <1>1, <1>2 DEF EventInv, EventGiven, ConsumedOnce

-----------------------------------------------------------------------------
(* The data queue.                                                         *)

DqValue == Data \cup {NoData}

DqRing ==
    /\ items \in [0 .. QueueSize - 1 -> DqValue]
    /\ get_index \in Nat /\ put_index \in get_index .. get_index + QueueSize
    /\ data_ptr \in DqValue

DqCalls ==
    /\ dq \in [Thread -> [op : {"none", "push", "pop"}, data : DqValue,
                          time : {"none", "ticks", "forever"}]]
    /\ \A t \in Thread : dq[t].op = "push" => dq[t].data \in Data

\* How many items there are, and from how many on no place is to be had.
DqCount == put_index - get_index
DqMark == Min({Lwm + 1, QueueSize})

DqWait ==
    /\ WaitList(suspended_pop_list, InDq("pop"), DqCount, stat, error, pc)
    /\ WaitList(suspended_push_list, InDq("push"), DqMark - DqCount, stat, error, pc)

DqInv == DqRing /\ DqCalls /\ DqWait

\* The mark is the least of two numbers.
LEMMA DqMarkType ==
    /\ DqMark \in Nat /\ DqMark <= QueueSize /\ DqMark <= Lwm + 1
    /\ QueueSize \in Nat \ {0} /\ Lwm \in Nat
  <1>1. QueueSize \in Nat \ {0} /\ Lwm \in Nat
    BY DqAssumption
  <1> DEFINE K == {Lwm + 1, QueueSize}
  <1>2. K \subseteq Nat /\ K # {}
    BY <1>1
  <1>3. Min(K) \in K /\ \A y \in K : Min(K) <= y
    BY <1>2, LeastOfNat
  <1> QED BY <1>1, <1>2, <1>3 DEF DqMark

\* The place of an index.
DqAt(i) == i % QueueSize

\* The queue is what is in the ring between the two growing indices.
LEMMA DqQueueRing ==
    ASSUME DqRing
    PROVE  /\ DqCount \in 0 .. QueueSize /\ QueueSize \in Nat \ {0}
           /\ DqAt(get_index) \in 0 .. QueueSize - 1
           /\ DqAt(put_index) = RingPlace(DqAt(get_index), DqCount, QueueSize)
           /\ DqAt(get_index + 1) = RingPlace(DqAt(get_index), 1, QueueSize)
           /\ DqQueue = RingSeq(items, DqAt(get_index), DqCount, QueueSize)
  <1> DEFINE c == DqCount
             x == get_index % QueueSize
  <1>1. /\ QueueSize \in Nat \ {0} /\ get_index \in Nat /\ put_index \in Nat
        /\ c \in 0 .. QueueSize /\ get_index + c = put_index /\ 1 \in 0 .. QueueSize
    BY DqAssumption DEF DqRing, DqCount
  <1>2. \A j \in 0 .. QueueSize : x \in 0 .. QueueSize - 1 /\ (get_index + j) % QueueSize = (x + j) % QueueSize
    BY <1>1, GrowingIndex
  <1>3. DqQueue = RingSeq(items, x, c, QueueSize)
    <2>1. ASSUME NEW i \in 1 .. c
          PROVE  (get_index + i - 1) % QueueSize = (x + i - 1) % QueueSize
      <3> DEFINE j == i - 1
      <3>1. j \in 0 .. QueueSize /\ get_index + i - 1 = get_index + j
        BY <1>1
      <3>2. x \in 0 .. QueueSize - 1
        BY <1>1, <1>2
      <3> HIDE DEF x
      <3>3. x + i - 1 = x + j
        BY <1>1, <3>2
      <3>4. (get_index + j) % QueueSize = (x + j) % QueueSize
        BY <1>2, <3>1 DEF x
      <3> HIDE DEF j
      <3> QED BY <3>1, <3>3, <3>4
    <2> HIDE DEF x
    <2> QED BY <2>1 DEF DqQueue, RingSeq, DqCount
  <1> HIDE DEF x, c
  <1> QED BY <1>1, <1>2, <1>3 DEF DqAt, RingPlace, x, c

\* PushData appends to the queue.
LEMMA PushRing ==
    ASSUME DqRing, NEW d \in Data, PushData(d)
    PROVE  /\ DqRing' /\ DqCount' = DqCount + 1 /\ data_ptr' = data_ptr
           /\ DqQueue \in Seq(DqValue) /\ Len(DqQueue) = DqCount /\ DqCount < QueueSize
           /\ DqQueue' = Append(DqQueue, d)
  <1> DEFINE x == DqAt(get_index)
             n == DqCount
             y == DqAt(put_index)
  <1>1. /\ n \in 0 .. QueueSize - 1 /\ put_index' = put_index + 1 /\ get_index' = get_index
        /\ items' = [items EXCEPT ![y] = d] /\ data_ptr' = data_ptr
        /\ items \in [0 .. QueueSize - 1 -> DqValue] /\ d \in DqValue
        /\ get_index \in Nat /\ put_index \in Nat /\ QueueSize \in Nat \ {0}
    <2>1. n \in 0 .. QueueSize /\ n # QueueSize /\ QueueSize \in Nat \ {0}
      BY DqQueueRing DEF PushData, Full, DqCount
    <2>2. /\ put_index' = put_index + 1 /\ get_index' = get_index
          /\ items' = [items EXCEPT ![y] = d] /\ data_ptr' = data_ptr
      BY DEF PushData, DqAt
    <2>3. items \in [0 .. QueueSize - 1 -> DqValue] /\ d \in DqValue
          /\ get_index \in Nat /\ put_index \in get_index .. get_index + QueueSize
      BY DEF DqRing, DqValue
    <2> HIDE DEF n, y
    <2> QED BY <2>1, <2>2, <2>3
  <1>2. /\ x \in 0 .. QueueSize - 1 /\ y = RingPlace(x, n, QueueSize)
        /\ DqQueue = RingSeq(items, x, n, QueueSize)
    BY DqQueueRing
  <1>3. DqCount' = n + 1
    BY <1>1 DEF DqCount
  <1> HIDE DEF x, n, y
  <1>4. RingStore(QueueSize, DqValue, items, d, x, n)
    BY <1>1, <1>2, RingPuts
  <1>5. DqRing'
    <2>1. items' \in [0 .. QueueSize - 1 -> DqValue]
      BY <1>1
    <2>2. put_index' \in get_index' .. get_index' + QueueSize
      BY <1>1 DEF n, DqCount
    <2> QED BY <1>1, <2>1, <2>2 DEF DqRing
  <1>6. DqQueue' = RingSeq(items', x, n + 1, QueueSize)
    <2>1. (DqRing => DqQueue = RingSeq(items, DqAt(get_index), DqCount, QueueSize))'
      BY DqQueueRing, PTL
    <2>2. DqAt(get_index)' = x
      BY <1>1 DEF DqAt, x
    <2> QED BY <1>3, <1>5, <2>1, <2>2
  <1>7. Len(DqQueue) = n
    BY <1>1 DEF DqQueue, n, DqCount
  <1>8. DqQueue \in Seq(DqValue) /\ RingSeq(items', x, n + 1, QueueSize) = Append(DqQueue, d)
    BY <1>1, <1>2, <1>4, Zenon DEF RingStore
  <1>9. n < QueueSize
    BY <1>1
  <1>10. data_ptr' = data_ptr
    BY <1>1
  <1> QED BY <1>3, <1>5, <1>6, <1>7, <1>8, <1>9, <1>10 DEF n

\* PopData takes the first item off the queue.
LEMMA PopRing ==
    ASSUME DqRing, PopData
    PROVE  /\ DqRing' /\ DqCount' = DqCount - 1
           /\ DqQueue \in Seq(DqValue) /\ DqQueue # << >>
           /\ DqQueue' = Tail(DqQueue) /\ data_ptr' = Head(DqQueue)
  <1> DEFINE x == DqAt(get_index)
             n == DqCount
  <1>1. /\ n \in 1 .. QueueSize /\ get_index' = get_index + 1 /\ put_index' = put_index
        /\ items' = items /\ data_ptr' = items[x]
        /\ items \in [0 .. QueueSize - 1 -> DqValue]
        /\ get_index \in Nat /\ put_index \in Nat /\ QueueSize \in Nat \ {0}
    <2>1. n \in 0 .. QueueSize /\ QueueSize \in Nat \ {0}
      BY DqQueueRing
    <2>2. /\ get_index' = get_index + 1 /\ put_index' = put_index
          /\ items' = items /\ data_ptr' = items[x] /\ get_index # put_index
      BY DEF PopData, DqAt, Empty
    <2>3. items \in [0 .. QueueSize - 1 -> DqValue]
          /\ get_index \in Nat /\ put_index \in get_index .. get_index + QueueSize
      BY DEF DqRing, DqValue
    <2>4. n # 0
      BY <2>1, <2>2, <2>3 DEF DqCount
    <2> HIDE DEF n, x
    <2> QED BY <2>1, <2>2, <2>3, <2>4
  <1>2. /\ x \in 0 .. QueueSize - 1 /\ DqAt(get_index + 1) = RingPlace(x, 1, QueueSize)
        /\ DqQueue = RingSeq(items, x, n, QueueSize)
    BY DqQueueRing
  <1>3. DqCount' = n - 1
    BY <1>1 DEF DqCount
  <1> HIDE DEF x, n
  <1>4. RingTake(QueueSize, DqValue, items, x, n)
    BY <1>1, <1>2, RingGets
  <1>5. DqRing'
    <2>1. items[x] \in DqValue
      BY <1>1, <1>2
    <2>2. put_index' \in get_index' .. get_index' + QueueSize
      BY <1>1 DEF n, DqCount
    <2> QED BY <1>1, <2>1, <2>2 DEF DqRing
  <1>6. DqQueue' = RingSeq(items, RingPlace(x, 1, QueueSize), n - 1, QueueSize)
    <2>1. (DqRing => DqQueue = RingSeq(items, DqAt(get_index), DqCount, QueueSize))'
      BY DqQueueRing, PTL
    <2>2. DqAt(get_index)' = RingPlace(x, 1, QueueSize)
      BY <1>1, <1>2 DEF DqAt
    <2> QED BY <1>1, <1>3, <1>5, <2>1, <2>2
  <1>7. /\ DqQueue \in Seq(DqValue) /\ DqQueue # << >> /\ Head(DqQueue) = items[x]
        /\ RingSeq(items, RingPlace(x, 1, QueueSize), n - 1, QueueSize) = Tail(DqQueue)
    BY <1>2, <1>4, Zenon DEF RingTake
  <1> QED BY <1>1, <1>3, <1>5, <1>6, <1>7 DEF n

\* The calls that threads are in after one of them returns.
LEMMA DqReturned ==
    ASSUME WaitOK, DqCalls, NEW t \in Thread, DqReturns(t)
    PROVE  /\ DqCalls' /\ \A op \in {"push", "pop"} : InDq(op)' = InDq(op) \ {t}
           /\ \A u \in Thread \ {t} : error'[u] = error[u] /\ pc'[u] = pc[u]
  <1>1. /\ dq' = [dq EXCEPT ![t] = NoDq] /\ NoDq.op = "none"
        /\ NoDq \in [op : {"none", "push", "pop"}, data : DqValue,
                     time : {"none", "ticks", "forever"}]
    BY DEF DqReturns, NoDq, DqValue
  <1>2. DqCalls'
    BY <1>1 DEF DqCalls
  <1>3. \A op \in {"push", "pop"} : InDq(op)' = InDq(op) \ {t}
    BY <1>1 DEF DqCalls, InDq
  <1>4. \A u \in Thread \ {t} : error'[u] = error[u] /\ pc'[u] = pc[u]
    BY ReturnEffect DEF DqReturns
  <1> QED BY <1>2, <1>3, <1>4

\* Nobody pushes and pops at a time.
LEMMA DqSplit ==
    /\ InDq("push") \subseteq Thread /\ InDq("pop") \subseteq Thread
    /\ InDq("push") \cap InDq("pop") = {}
  BY DEF InDq

\* What the invariant of the data queue says of its lists and threads.
LEMMA DqFacts ==
    ASSUME WaitOK, DqInv
    PROVE  /\ WaitList(suspended_pop_list, InDq("pop"), DqCount, stat, error, pc)
           /\ WaitList(suspended_push_list, InDq("push"), DqMark - DqCount, stat, error, pc)
           /\ DqRing /\ DqCalls /\ stat \in [Thread -> Status]
           /\ DqCount \in Int /\ DqMark - DqCount \in Int /\ DqMark \in Nat
           /\ suspended_pop_list \in Seq(Thread) /\ suspended_push_list \in Seq(Thread)
           /\ \A t \in Thread : pc[t] = "run" =>
                 stat[t] = "READY" /\ t \notin InDq("pop") /\ t \notin InDq("push")
           /\ \A t \in Thread : pc[t] = "check" => stat[t] = "READY"
  <1>1. /\ WaitList(suspended_pop_list, InDq("pop"), DqCount, stat, error, pc)
        /\ WaitList(suspended_push_list, InDq("push"), DqMark - DqCount, stat, error, pc)
        /\ DqRing /\ DqCalls
    BY DEF DqInv, DqWait
  <1>2. DqCount \in 0 .. QueueSize /\ DqMark \in Nat
    BY <1>1, DqQueueRing, DqMarkType
  <1>3. DqCount \in Int /\ DqMark - DqCount \in Int
    BY <1>2
  <1>4. \A t \in Thread : pc[t] \in {"run", "check"} => stat[t] = "READY"
    BY DEF WaitOK
  <1>5. \A t \in Thread : pc[t] = "run" => t \notin InDq("pop") /\ t \notin InDq("push")
    BY <1>1 DEF WaitList, Calling
  <1>6. suspended_pop_list \in Seq(Thread) /\ suspended_push_list \in Seq(Thread)
    BY <1>1 DEF WaitList, Queued
  <1> QED BY <1>1, <1>2, <1>3, <1>4, <1>5, <1>6, StatusType

\* A call fails: there is nothing to be had or the thread has an error.
LEMMA DqFailsInv ==
    ASSUME WaitOK, DqInv, NEW t \in Thread, stat[t] = "READY", DqFails(t),
           \/ error[t] # "EOK"
           \/ t \notin InDq("push") /\ DqCount <= 0
           \/ t \notin InDq("pop") /\ DqMark - DqCount <= 0
    PROVE  DqInv'
  <1> DEFINE R == InDq("pop")
             S == InDq("push")
  <1>0. /\ WaitList(suspended_pop_list, R, DqCount, stat, error, pc)
        /\ WaitList(suspended_push_list, S, DqMark - DqCount, stat, error, pc)
        /\ DqRing /\ DqCalls /\ stat \in [Thread -> Status]
        /\ DqCount \in Int /\ DqMark - DqCount \in Int /\ R \subseteq Thread /\ S \subseteq Thread
    BY DqFacts, DqSplit
  <1>1. /\ DqReturns(t) /\ stat' = stat
        /\ UNCHANGED <<indices, suspended_push_list, suspended_pop_list, data_ptr>>
    BY DEF DqFails
  <1>2. DqRing' /\ DqCount' = DqCount
    BY <1>0, <1>1 DEF DqRing, DqCount, indices
  <1>3. /\ DqCalls' /\ R' = R \ {t} /\ S' = S \ {t}
        /\ \A u \in Thread \ {t} : error'[u] = error[u] /\ pc'[u] = pc[u]
    BY <1>0, <1>1, DqReturned
  <1> HIDE DEF R, S
  <1>4. SameFor(R \ {t}) /\ SameFor(S \ {t})
    BY <1>0, <1>1, <1>3 DEF SameFor
  <1>5. WaitList(suspended_pop_list, R \ {t}, DqCount, stat', error', pc')
    <2>1. DqCount <= 0 \/ (DqCount <= DqCount /\ (t \in R => error[t] # "EOK"))
      BY <1>0 DEF R
    <2> QED BY <1>0, <1>4, <2>1, OneLeaves
  <1>6. WaitList(suspended_push_list, S \ {t}, DqMark - DqCount, stat', error', pc')
    <2> DEFINE m == DqMark - DqCount
    <2>1. m <= 0 \/ (m <= m /\ (t \in S => error[t] # "EOK"))
      BY <1>0 DEF S
    <2> HIDE DEF m
    <2>2. WaitList(suspended_push_list, S, m, stat, error, pc) /\ m \in Int
      BY <1>0 DEF m
    <2>3. WaitList(suspended_push_list, S \ {t}, m, stat', error', pc')
      BY <1>0, <1>4, <2>1, <2>2, OneLeaves
    <2> QED BY <2>3 DEF m
  <1>7. DqMark' = DqMark
    BY DEF DqMark
  <1> QED BY <1>1, <1>2, <1>3, <1>5, <1>6, <1>7 DEF DqInv, DqWait, R, S

\* A round of rt_data_queue_push.
LEMMA PushRoundInv ==
    ASSUME WaitOK, DqInv, NEW t \in Thread, stat[t] = "READY", t \notin InDq("pop"),
           NEW d \in Data, NEW time \in {"none", "ticks", "forever"}, PushRound(t, d, time)
    PROVE  DqInv'
  <1> DEFINE R == InDq("pop")
             S == InDq("push")
             m == DqMark - DqCount
  <1>0. /\ WaitList(suspended_pop_list, R, DqCount, stat, error, pc)
        /\ WaitList(suspended_push_list, S, m, stat, error, pc)
        /\ DqRing /\ DqCalls /\ stat \in [Thread -> Status]
        /\ DqCount \in Int /\ m \in Int /\ DqMark \in Nat
        /\ R \subseteq Thread /\ S \subseteq Thread /\ S \cap R = {} /\ t \notin R
        /\ suspended_push_list \in Seq(Thread)
    BY DqFacts, DqSplit
  <1>m. DqMark' = DqMark
    BY DEF DqMark
  <1>1. CASE PushData(d) /\ DqReturns(t)
    <2>1. DqRing' /\ DqCount' = DqCount + 1 /\ DqCount' \in Int /\ DqCount' <= DqCount + 1
      <3>1. DqRing' /\ DqCount' = DqCount + 1
        BY <1>0, <1>1, PushRing
      <3> QED BY <1>0, <3>1
    <2>2. /\ DqCalls' /\ R' = R \ {t} /\ S' = S \ {t}
          /\ \A u \in Thread \ {t} : error'[u] = error[u] /\ pc'[u] = pc[u]
      BY <1>0, <1>1, DqReturned
    <2>3. R' = R /\ suspended_push_list' = suspended_push_list
      BY <1>0, <1>1, <2>2 DEF PushData
    <2>4. \A u \in R : error'[u] = error[u] /\ pc'[u] = pc[u]
      BY <1>0, <2>2
    <2>5. IF suspended_pop_list # << >>
          THEN Resume({Head(suspended_pop_list)}) /\ suspended_pop_list' = Tail(suspended_pop_list)
          ELSE stat' = stat /\ suspended_pop_list' = suspended_pop_list
      BY <1>1 DEF PushData
    <2> HIDE DEF R, S
    <2>6. /\ WaitList(suspended_pop_list', R, DqCount', stat', error', pc')
          /\ \A u \in Thread \ R : stat'[u] = stat[u]
      BY <1>0, <2>1, <2>4, <2>5, Served
    <2>7. SameFor(S \ {t})
      BY <1>0, <2>2, <2>6 DEF SameFor
    <2> DEFINE m2 == DqMark - DqCount'
    <2>8. m2 \in Int /\ m2 <= m - 1
      BY <1>0, <2>1
    <2> HIDE DEF m2, m
    <2>9. WaitList(suspended_push_list, S \ {t}, m2, stat', error', pc')
      BY <1>0, <2>7, <2>8, OneLeaves
    <2> QED BY <1>m, <2>1, <2>2, <2>3, <2>6, <2>9 DEF DqInv, DqWait, R, S, m2
  <1>2. Full => m <= 0
    BY <1>0, DqMarkType DEF Full, DqCount
  <1>3. CASE Full /\ DqFails(t)
    BY <1>0, <1>2, <1>3, DqFailsInv
  <1>4. CASE /\ Full /\ Suspend(t, time) /\ Fail({t}, "EOK")
             /\ suspended_push_list' = Append(suspended_push_list, t)
             /\ dq' = [dq EXCEPT ![t] = [op |-> "push", data |-> d, time |-> time]]
             /\ UNCHANGED <<indices, suspended_pop_list, data_ptr>>
    <2>1. DqRing' /\ DqCount' = DqCount /\ suspended_pop_list' = suspended_pop_list
      BY <1>0, <1>4 DEF DqRing, DqCount, indices
    <2>2. DqCalls' /\ R' = R /\ S' = S \cup {t}
      <3>1. dq[t].op # "pop"
        BY DEF InDq
      <3>2. DqCalls'
        BY <1>0, <1>4 DEF DqCalls, DqValue
      <3> QED BY <1>0, <1>4, <3>1, <3>2 DEF DqCalls, InDq
    <2>3. /\ stat'[t] = "SUSPEND" /\ error'[t] = "EOK" /\ pc'[t] = "schedule"
          /\ SameFor(Thread \ {t})
      BY <1>4, SuspendEffect
    <2> HIDE DEF R, S, m
    <2>4. SameFor(R) /\ SameFor(S \ {t})
      BY <1>0, <2>3 DEF SameFor
    <2>5. WaitList(suspended_pop_list, R, DqCount, stat', error', pc')
      BY <1>0, <2>4, ListKept
    <2> DEFINE l == suspended_push_list
               l2 == Append(l, t)
    <2>6. /\ l2 \in Seq(Thread) /\ ToSet(l2) = ToSet(l) \cup {t}
          /\ t \notin ToSet(l) /\ IsInjective(l) => IsInjective(l2)
      BY <1>0, AppendedList
    <2> HIDE DEF l2
    <2>7. WaitList(l2, S \cup {t}, m, stat', error', pc')
      BY <1>0, <1>2, <1>4, <2>3, <2>4, <2>6, ListJoined
    <2> QED BY <1>m, <1>4, <2>1, <2>2, <2>5, <2>7 DEF DqInv, DqWait, R, S, l2, m
  <1> QED BY <1>1, <1>3, <1>4 DEF PushRound

\* A round of rt_data_queue_pop, which resumes a pusher only below the mark.
LEMMA PopRoundInv ==
    ASSUME WaitOK, DqInv, NEW t \in Thread, stat[t] = "READY", t \notin InDq("push"),
           NEW time \in {"none", "ticks", "forever"}, PopRound(t, time)
    PROVE  DqInv'
  <1> DEFINE R == InDq("pop")
             S == InDq("push")
             m == DqMark - DqCount
             l == suspended_push_list
  <1>0. /\ WaitList(suspended_pop_list, R, DqCount, stat, error, pc)
        /\ WaitList(l, S, m, stat, error, pc)
        /\ DqRing /\ DqCalls /\ stat \in [Thread -> Status]
        /\ DqCount \in Int /\ m \in Int /\ DqMark \in Nat
        /\ R \subseteq Thread /\ S \subseteq Thread /\ S \cap R = {} /\ t \notin S
        /\ suspended_pop_list \in Seq(Thread)
    BY DqFacts, DqSplit
  <1>m. DqMark' = DqMark
    BY DEF DqMark
  <1>1. CASE PopData /\ DqReturns(t)
    <2>1. DqRing' /\ DqCount' = DqCount - 1 /\ DqCount' \in Int /\ DqCount' <= DqCount - 1
      <3>1. DqRing' /\ DqCount' = DqCount - 1
        BY <1>0, <1>1, PopRing
      <3> QED BY <1>0, <3>1
    <2>2. /\ DqCalls' /\ R' = R \ {t} /\ S' = S \ {t}
          /\ \A u \in Thread \ {t} : error'[u] = error[u] /\ pc'[u] = pc[u]
      BY <1>0, <1>1, DqReturned
    <2>3. S' = S /\ suspended_pop_list' = suspended_pop_list
      BY <1>0, <1>1, <2>2 DEF PopData
    <2>4. \A u \in S : error'[u] = error[u] /\ pc'[u] = pc[u]
      BY <1>0, <2>2
    <2> DEFINE m2 == DqMark - DqCount'
    <2>5. m2 \in Int /\ m2 <= m + 1
      BY <1>0, <2>1
    <2>8. /\ WaitList(suspended_push_list', S, m2, stat', error', pc')
          /\ \A u \in Thread \ S : stat'[u] = stat[u]
      <3>1. CASE DqCount' <= Lwm \/ l = << >>
        <4>1. IF l # << >> THEN Resume({Head(l)}) /\ suspended_push_list' = Tail(l)
                           ELSE stat' = stat /\ suspended_push_list' = l
          <5>1. DqCount' = put_index - get_index'
            BY <1>1 DEF PopData, DqCount
          <5> QED BY <1>1, <3>1, <5>1 DEF PopData
        <4> HIDE DEF R, S, m, m2, l
        <4> QED BY <1>0, <2>4, <2>5, <4>1, Served
      <3>2. CASE ~(DqCount' <= Lwm \/ l = << >>)
        <4>1. stat' = stat /\ suspended_push_list' = l
          <5>1. DqCount' = put_index - get_index'
            BY <1>1 DEF PopData, DqCount
          <5> QED BY <1>1, <3>2, <5>1 DEF PopData
        <4>2. m2 <= 0
          BY <1>0, <2>1, <3>2, DqMarkType
        <4>3. SameFor(S)
          BY <2>4, <4>1 DEF SameFor
        <4> HIDE DEF R, S, m, m2, l
        <4>4. WaitList(l, S, m2, stat', error', pc')
          BY <1>0, <2>5, <4>2, <4>3, ListKept
        <4> QED BY <4>1, <4>4
      <3> QED BY <3>1, <3>2
    <2> HIDE DEF R, S, m, m2, l
    <2>9. SameFor(R \ {t})
      BY <1>0, <2>2, <2>8 DEF SameFor
    <2>10. WaitList(suspended_pop_list, R \ {t}, DqCount', stat', error', pc')
      BY <1>0, <2>1, <2>9, OneLeaves
    <2> QED BY <1>m, <2>1, <2>2, <2>3, <2>8, <2>10 DEF DqInv, DqWait, R, S, m2
  <1>2. Empty => DqCount <= 0
    BY <1>0 DEF Empty, DqCount, DqRing
  <1>3. CASE Empty /\ DqFails(t)
    BY <1>0, <1>2, <1>3, DqFailsInv
  <1>4. CASE /\ Empty /\ Suspend(t, time) /\ Fail({t}, "EOK")
             /\ suspended_pop_list' = Append(suspended_pop_list, t)
             /\ dq' = [dq EXCEPT ![t] = [op |-> "pop", data |-> NoData, time |-> time]]
             /\ UNCHANGED <<indices, suspended_push_list, data_ptr>>
    <2>1. DqRing' /\ DqCount' = DqCount /\ suspended_push_list' = l
      BY <1>0, <1>4 DEF DqRing, DqCount, indices
    <2>2. DqCalls' /\ S' = S /\ R' = R \cup {t}
      <3>1. dq[t].op # "push"
        BY DEF InDq
      <3>2. DqCalls'
        BY <1>0, <1>4 DEF DqCalls, DqValue
      <3> QED BY <1>0, <1>4, <3>1, <3>2 DEF DqCalls, InDq
    <2>3. /\ stat'[t] = "SUSPEND" /\ error'[t] = "EOK" /\ pc'[t] = "schedule"
          /\ SameFor(Thread \ {t})
      BY <1>4, SuspendEffect
    <2> HIDE DEF R, S, m
    <2>4. SameFor(S) /\ SameFor(R \ {t})
      BY <1>0, <2>3 DEF SameFor
    <2>5. WaitList(l, S, m, stat', error', pc')
      BY <1>0, <2>4, ListKept
    <2> DEFINE l2 == Append(suspended_pop_list, t)
    <2>6. /\ l2 \in Seq(Thread) /\ ToSet(l2) = ToSet(suspended_pop_list) \cup {t}
          /\ t \notin ToSet(suspended_pop_list) /\ IsInjective(suspended_pop_list) =>
               IsInjective(l2)
      BY <1>0, AppendedList
    <2> HIDE DEF l2
    <2>7. WaitList(l2, R \cup {t}, DqCount, stat', error', pc')
      BY <1>0, <1>2, <1>4, <2>3, <2>4, <2>6, ListJoined
    <2> QED BY <1>m, <1>4, <2>1, <2>2, <2>5, <2>7 DEF DqInv, DqWait, R, S, l2, m
  <1> QED BY <1>1, <1>3, <1>4 DEF PopRound

\* Every step of the data queue keeps its invariant.
LEMMA DqStepInv == ASSUME WaitOK, DqInv, DqStep PROVE DqInv'
  <1>1. ASSUME NEW t \in Thread, NEW c \in Call[t].dq_push, rt_data_queue_push(t, c.data, c.time)
        PROVE  DqInv'
    <2>1. c \in [data : Data, time : Time]
      BY CallAssumption
    <2>2. c.data \in Data /\ c.time \in {"none", "ticks", "forever"}
      BY <2>1, IpcAssumption
    <2>3. pc[t] = "run" /\ PushRound(t, c.data, c.time)
      BY <1>1 DEF rt_data_queue_push
    <2> QED BY <2>2, <2>3, DqFacts, PushRoundInv
  <1>2. ASSUME NEW t \in Thread, NEW time \in Call[t].dq_pop, rt_data_queue_pop(t, time)
        PROVE  DqInv'
    <2>1. time \in {"none", "ticks", "forever"}
      BY CallAssumption, IpcAssumption
    <2>2. pc[t] = "run" /\ PopRound(t, time)
      BY <1>2 DEF rt_data_queue_pop
    <2> QED BY <2>1, <2>2, DqFacts, PopRoundInv
  <1>3. ASSUME NEW t \in Thread, DqBack(t) PROVE DqInv'
    <2>1. pc[t] = "check" /\ stat[t] = "READY" /\ DqCalls
      BY <1>3, DqFacts DEF DqBack
    <2>2. dq[t].time \in {"none", "ticks", "forever"}
      BY <2>1 DEF DqCalls
    <2>3. CASE error[t] # "EOK" /\ DqFails(t)
      BY <2>1, <2>3, DqFailsInv
    <2>4. CASE dq[t].op = "push" /\ PushRound(t, dq[t].data, dq[t].time)
      <3>1. t \notin InDq("pop") /\ dq[t].data \in Data
        BY <2>1, <2>4 DEF InDq, DqCalls
      <3> QED BY <2>1, <2>2, <2>4, <3>1, PushRoundInv
    <2>5. CASE dq[t].op = "pop" /\ PopRound(t, dq[t].time)
      <3>1. t \notin InDq("push")
        BY <2>5 DEF InDq
      <3> QED BY <2>1, <2>2, <2>5, <3>1, PopRoundInv
    <2> QED BY <1>3, <2>3, <2>4, <2>5 DEF DqBack
  <1> QED BY <1>1, <1>2, <1>3 DEF DqStep, DqNext

\* A thread that goes on or times out keeps it.
LEMMA DqOthersInv ==
    ASSUME Base, DqInv, NEW t \in Thread, Proceed(t) \/ Timeout(t) PROVE DqInv'
  <1> DEFINE R == InDq("pop")
             S == InDq("push")
             m == DqMark - DqCount
  <1>0. /\ WaitList(suspended_pop_list, R, DqCount, stat, error, pc)
        /\ WaitList(suspended_push_list, S, m, stat, error, pc)
        /\ DqRing /\ DqCalls /\ stat \in [Thread -> Status]
        /\ DqCount \in Int /\ m \in Int
    BY DqFacts DEF Base
  <1>m. DqMark' = DqMark
    BY DEF DqMark
  <1>1. CASE Proceed(t)
    <2>1. UNCHANGED dqvars
      BY <1>1 DEF Proceed, NotMail, Drivers
    <2>2. /\ DqRing' /\ DqCalls' /\ R' = R /\ S' = S /\ DqCount' = DqCount
          /\ suspended_pop_list' = suspended_pop_list /\ suspended_push_list' = suspended_push_list
      BY <1>0, <2>1 DEF DqRing, DqCalls, InDq, DqCount, dqvars, indices
    <2> HIDE DEF R, S, m
    <2>3. /\ WaitList(suspended_pop_list, R, DqCount, stat', error', pc')
          /\ WaitList(suspended_push_list, S, m, stat', error', pc')
      BY <1>0, <1>1, ListProceeds
    <2> QED BY <1>m, <2>2, <2>3 DEF DqInv, DqWait, R, S, m
  <1>2. CASE Timeout(t)
    <2>1. DqUnlink(t)
      BY <1>2 DEF Timeout
    <2>2. /\ DqRing' /\ DqCalls' /\ R' = R /\ S' = S /\ DqCount' = DqCount
          /\ suspended_push_list' = RemoveFirst(suspended_push_list, t)
          /\ suspended_pop_list' = RemoveFirst(suspended_pop_list, t)
      BY <1>0, <2>1 DEF DqRing, DqCalls, InDq, DqCount, DqUnlink, indices
    <2>3. /\ stat[t] = "SUSPEND" /\ stat'[t] = "READY" /\ error'[t] = "ETIMEOUT"
          /\ pc'[t] = pc[t] /\ SameFor(Thread \ {t})
      BY <1>2, TimeoutEffect
    <2> HIDE DEF R, S, m
    <2>4. /\ WaitList(RemoveFirst(suspended_pop_list, t), R, DqCount, stat', error', pc')
          /\ WaitList(RemoveFirst(suspended_push_list, t), S, m, stat', error', pc')
      BY <1>0, <2>3, OneTimesOut
    <2> QED BY <1>m, <2>2, <2>4 DEF DqInv, DqWait, R, S, m
  <1> QED BY <1>1, <1>2

\* rt_data_queue_init.
LEMMA DqInitInv == ASSUME WaitOK, DqInit PROVE DqInv
  <1>1. DqRing /\ DqCalls /\ InDq("pop") = {} /\ InDq("push") = {}
    <2>1. QueueSize \in Nat \ {0}
      BY DqAssumption
    <2> QED BY <2>1 DEF DqInit, DqRing, DqCalls, InDq, NoDq, DqValue
  <1>2. \A n : WaitList(<< >>, {}, n, stat, error, pc)
    BY EmptyList DEF WaitList, Queued, Calling, Awaited
  <1> QED BY <1>1, <1>2 DEF DqInit, DqInv, DqWait

\* The invariant of the data queue says that no wake-up is lost.
LEMMA DqInvMeans == ASSUME DqInv PROVE DqTypeOK /\ NoLostData
  <1>1. DqTypeOK
    BY DEF DqInv, DqRing, DqCalls, DqWait, WaitList, Queued, DqTypeOK, DqValue
  <1>2. \A op : DqWoken(op) = Woke(InDq(op), stat, error)
    BY DEF DqWoken, Woke
  <1> QED BY <1>1, <1>2 DEF DqInv, DqWait, WaitList, Awaited, NoLostData, DqMark, DqCount

-----------------------------------------------------------------------------
(* The message queue: its two linked lists.                                *)

\* The slots of q are linked from p on.
Linked(p, q, nx) ==
    /\ q \in Seq(Slot) /\ IsInjective(q)
    /\ p = IF q = << >> THEN NULL ELSE q[1]
    /\ \A i \in 1 .. Len(q) : nx[q[i]] = IF i = Len(q) THEN NULL ELSE q[i + 1]

\* What is linked is what Chain finds.
LEMMA ChainIs ==
    ASSUME NEW p, NEW q, Linked(p, q, next) PROVE Chain(p) = q
  <1> DEFINE N == Cardinality(Slot) + 1
             rec(f) == [i \in 1 .. N |->
                IF i = 1 THEN p ELSE IF f[i - 1] = NULL THEN NULL ELSE next[f[i - 1]]]
             node == CHOOSE f : f = rec(f)
             g == [i \in 1 .. N |-> IF i <= Len(q) THEN q[i] ELSE NULL]
  <1>1. /\ Len(q) \in Nat /\ DOMAIN q = 1 .. Len(q) /\ \A i \in 1 .. Len(q) : q[i] \in Slot
        /\ NULL \notin Slot /\ (q = << >> <=> Len(q) = 0)
    BY ListIndices, MqAssumption DEF Linked
  <1>2. N \in Nat /\ Len(q) < N /\ 1 \in 1 .. N
    <2>1. Cardinality(Slot) \in Nat /\ Len(q) <= Cardinality(Slot)
      BY MqAssumption, FS_CardinalityType, CountedList DEF Linked
    <2> QED BY <1>1, <2>1
  <1> HIDE DEF N
  <1>3. g = rec(g)
    <2>1. ASSUME NEW i \in 1 .. N
          PROVE  g[i] = IF i = 1 THEN p ELSE IF g[i - 1] = NULL THEN NULL ELSE next[g[i - 1]]
      <3>1. CASE i = 1
        <4>1. p = IF Len(q) = 0 THEN NULL ELSE q[1]
          BY <1>1 DEF Linked
        <4>2. g[1] = IF 1 <= Len(q) THEN q[1] ELSE NULL
          BY <1>2
        <4> HIDE DEF g
        <4> QED BY <1>1, <3>1, <4>1, <4>2
      <3>2. CASE i # 1
        <4>1. i - 1 \in 1 .. N
          BY <1>2, <3>2
        <4>2. CASE i - 1 <= Len(q)
          <5>1. i - 1 \in 1 .. Len(q) /\ g[i - 1] = q[i - 1] /\ q[i - 1] # NULL
            BY <1>1, <1>2, <4>1, <4>2
          <5>2. next[q[i - 1]] = IF i - 1 = Len(q) THEN NULL ELSE q[i - 1 + 1]
            BY <5>1 DEF Linked
          <5>3. g[i] = IF i - 1 = Len(q) THEN NULL ELSE q[i - 1 + 1]
            BY <1>1, <1>2, <5>1
          <5> QED BY <3>2, <5>1, <5>2, <5>3
        <4>3. CASE ~(i - 1 <= Len(q))
          BY <1>1, <1>2, <3>2, <4>1, <4>3
        <4> QED BY <4>2, <4>3
      <3> QED BY <3>1, <3>2
    <2>2. g = [i \in 1 .. N |-> g[i]]
      OBVIOUS
    <2> HIDE DEF g
    <2> QED BY <2>1, <2>2
  <1>4. node = rec(node)
    <2> HIDE DEF g
    <2> QED BY <1>3
  <1>5. DOMAIN node = 1 .. N /\ \A i \in 1 .. N : node[i] =
           IF i = 1 THEN p ELSE IF node[i - 1] = NULL THEN NULL ELSE next[node[i - 1]]
    <2> HIDE DEF node
    <2> QED BY <1>4
  <1>6. \A i \in 1 .. N : g[i] =
           IF i = 1 THEN p ELSE IF g[i - 1] = NULL THEN NULL ELSE next[g[i - 1]]
    <2> HIDE DEF g
    <2> QED BY <1>3
  <1>d. Chain(p) = [i \in 1 .. Cardinality({k \in DOMAIN node : node[k] # NULL}) |-> node[i]]
    BY DEF Chain, N
  <1>7. \A i \in 1 .. N : node[i] = g[i]
    <2> HIDE DEF g, node
    <2> DEFINE B == {i \in 1 .. N : node[i] # g[i]}
    <2>1. ASSUME B # {} PROVE FALSE
      <3>1. B \subseteq Nat
        BY <1>2
      <3> DEFINE k == Min(B)
      <3>2. k \in B /\ \A j \in B : k <= j
        BY <2>1, <3>1, LeastOfNat
      <3> HIDE DEF k
      <3>3. k \in 1 .. N /\ node[k] # g[k] /\ k # 1
        BY <1>5, <1>6, <3>2
      <3>4. k - 1 \in 1 .. N /\ k - 1 \notin B
        BY <1>2, <3>2, <3>3
      <3>5. node[k - 1] = g[k - 1]
        BY <3>4
      <3> QED BY <1>5, <1>6, <3>3, <3>5
    <2> QED BY <2>1
  <1>8. {k \in DOMAIN node : node[k] # NULL} = 1 .. Len(q)
    <2> HIDE DEF node
    <2>1. \A k \in 1 .. N : node[k] # NULL <=> k <= Len(q)
      BY <1>1, <1>2, <1>7
    <2> HIDE DEF g
    <2> QED BY <1>1, <1>2, <1>5, <2>1
  <1>9. Cardinality(1 .. Len(q)) = Len(q)
    BY <1>1, FS_Interval
  <1> HIDE DEF node
  <1>10. \A i \in 1 .. Len(q) : node[i] = q[i]
    BY <1>1, <1>2, <1>7
  <1>11. q = [i \in 1 .. Len(q) |-> q[i]]
    BY <1>1 DEF Linked
  <1>12. Chain(p) = [i \in 1 .. Len(q) |-> node[i]]
    BY <1>d, <1>8, <1>9
  <1> QED BY <1>10, <1>11, <1>12

\* A list is as it was when its links are.
LEMMA LinkedKept ==
    ASSUME NEW p, NEW q, NEW nx, NEW nx2, Linked(p, q, nx), \A s \in ToSet(q) : nx2[s] = nx[s]
    PROVE  Linked(p, q, nx2)
  <1>1. \A i \in 1 .. Len(q) : q[i] \in ToSet(q)
    BY ListIndices DEF Linked
  <1> QED BY <1>1 DEF Linked

\* A slot is put in front of a list.
LEMMA LinkedFirst ==
    ASSUME NEW p, NEW q, NEW nx, NEW nx2, NEW s \in Slot, Linked(p, q, nx), s \notin ToSet(q),
           nx2[s] = p, \A x \in ToSet(q) : nx2[x] = nx[x]
    PROVE  Linked(s, <<s>> \o q, nx2)
  <1> DEFINE w == <<s>> \o q
  <1>0. q \in Seq(Slot) /\ IsInjective(q)
    BY DEF Linked
  <1>1. /\ w \in Seq(Slot) /\ Len(w) = Len(q) + 1 /\ IsInjective(w) /\ w # << >>
        /\ w[1] = s /\ \A i \in 1 .. Len(q) : w[i + 1] = q[i]
    <2>1. w[1] = s /\ \A i \in 1 .. Len(q) : w[i + 1] = q[i]
      BY <1>0
    <2> QED BY <1>0, <2>1, PrependedList
  <1>2. /\ Len(q) \in Nat /\ \A i \in 1 .. Len(q) : q[i] \in ToSet(q)
        /\ (q = << >> <=> Len(q) = 0)
    BY <1>0, ListIndices
  <1> HIDE DEF w
  <1>3. ASSUME NEW i \in 1 .. Len(w) PROVE nx2[w[i]] = IF i = Len(w) THEN NULL ELSE w[i + 1]
    <2>1. CASE i = 1
      BY <1>1, <1>2, <2>1 DEF Linked
    <2>2. CASE i # 1
      <3> DEFINE j == i - 1
      <3>1. j \in 1 .. Len(q) /\ i = j + 1 /\ (i = Len(w) <=> j = Len(q))
        BY <1>1, <1>2, <2>2
      <3> HIDE DEF j
      <3>2. w[i] = q[j] /\ nx2[q[j]] = IF j = Len(q) THEN NULL ELSE q[j + 1]
        BY <1>1, <1>2, <3>1 DEF Linked
      <3>3. j # Len(q) => j + 1 \in 1 .. Len(q) /\ w[i + 1] = q[j + 1]
        BY <1>1, <1>2, <3>1
      <3> QED BY <3>1, <3>2, <3>3
    <2> QED BY <2>1, <2>2
  <1> QED BY <1>1, <1>3 DEF Linked, w

\* The first slot is taken off a list.
LEMMA LinkedTail ==
    ASSUME NEW p, NEW q, NEW nx, Linked(p, q, nx), p # NULL
    PROVE  /\ q # << >> /\ p = Head(q) /\ p \in Slot /\ p \in ToSet(q)
           /\ ToSet(Tail(q)) = ToSet(q) \ {p} /\ Len(Tail(q)) = Len(q) - 1
           /\ Linked(nx[p], Tail(q), nx)
           /\ Tail(q) # << >> => Last(Tail(q)) = Last(q)
           /\ Tail(q) = << >> <=> Last(q) = p
  <1> DEFINE w == Tail(q)
  <1>1. q # << >> /\ q \in Seq(Slot) /\ IsInjective(q) /\ p = q[1]
    BY DEF Linked
  <1>2. /\ p = Head(q) /\ p \in Slot /\ p \in ToSet(q) /\ w \in Seq(Slot) /\ IsInjective(w)
        /\ ToSet(w) = ToSet(q) \ {p}
    BY <1>1, TailList
  <1>3. Len(w) = Len(q) - 1 /\ \A i \in 1 .. Len(w) : w[i] = q[i + 1]
    BY <1>1
  <1>4. Len(q) \in Nat \ {0} /\ DOMAIN q = 1 .. Len(q)
    BY <1>1, ListIndices
  <1>5. w = << >> <=> Len(w) = 0
    BY <1>2, ListIndices
  <1>6. Last(q) = q[Len(q)] /\ Last(w) = w[Len(w)]
    BY DEF Last
  <1> HIDE DEF w
  <1>7. ASSUME NEW i \in 1 .. Len(w) PROVE nx[w[i]] = IF i = Len(w) THEN NULL ELSE w[i + 1]
    <2>1. i + 1 \in 1 .. Len(q) /\ w[i] = q[i + 1]
      BY <1>3, <1>4
    <2>2. nx[q[i + 1]] = IF i + 1 = Len(q) THEN NULL ELSE q[i + 1 + 1]
      BY <2>1 DEF Linked
    <2>3. i # Len(w) => i + 1 \in 1 .. Len(w)
      BY <1>3, <1>4
    <2> QED BY <1>3, <1>4, <2>1, <2>2, <2>3
  <1>8. nx[p] = IF w = << >> THEN NULL ELSE w[1]
    <2>1. 1 \in 1 .. Len(q) /\ nx[q[1]] = IF 1 = Len(q) THEN NULL ELSE q[1 + 1]
      <3>1. 1 \in 1 .. Len(q)
        BY <1>4
      <3> QED BY <3>1, Zenon DEF Linked
    <2> QED BY <1>1, <1>3, <1>4, <1>5, <2>1
  <1>9. w # << >> => Last(w) = Last(q)
    BY <1>3, <1>4, <1>5, <1>6
  <1>10. w = << >> <=> Last(q) = p
    <2>1. Len(q) \in DOMAIN q /\ 1 \in DOMAIN q
      BY <1>4
    <2> QED BY <1>1, <1>3, <1>4, <1>5, <1>6, <2>1 DEF IsInjective
  <1> QED BY <1>1, <1>2, <1>3, <1>7, <1>8, <1>9, <1>10 DEF Linked, w

\* A slot is put at the end of a list.
LEMMA LinkedLast ==
    ASSUME NEW p, NEW q, NEW nx, NEW nx2, NEW s \in Slot, Linked(p, q, nx), s \notin ToSet(q),
           nx2[s] = NULL, q # << >> => nx2[Last(q)] = s,
           \A x \in ToSet(q) : q # << >> /\ x # Last(q) => nx2[x] = nx[x]
    PROVE  /\ Linked(IF p = NULL THEN s ELSE p, Append(q, s), nx2) /\ Last(Append(q, s)) = s
           /\ Append(q, s) # << >> /\ Len(Append(q, s)) = Len(q) + 1
  <1> DEFINE w == Append(q, s)
  <1>0. /\ q \in Seq(Slot) /\ IsInjective(q) /\ p = IF q = << >> THEN NULL ELSE q[1]
        /\ \A i \in 1 .. Len(q) : nx[q[i]] = IF i = Len(q) THEN NULL ELSE q[i + 1]
    BY DEF Linked
  <1>1. /\ w \in Seq(Slot) /\ IsInjective(w) /\ w # << >> /\ Len(w) = Len(q) + 1
        /\ w[Len(q) + 1] = s /\ \A i \in 1 .. Len(q) : w[i] = q[i]
    <2>1. /\ w # << >> /\ Len(w) = Len(q) + 1
          /\ w[Len(q) + 1] = s /\ \A i \in 1 .. Len(q) : w[i] = q[i]
      BY <1>0
    <2> QED BY <1>0, <2>1, AppendedList
  <1>2. /\ Len(q) \in Nat /\ DOMAIN q = 1 .. Len(q) /\ (q = << >> <=> Len(q) = 0)
        /\ \A i \in 1 .. Len(q) : q[i] \in ToSet(q) /\ q[i] \in Slot
    BY <1>0, ListIndices
  <1>3. Last(q) = q[Len(q)] /\ Last(w) = w[Len(w)]
    BY DEF Last
  <1>4. \A i, j \in 1 .. Len(q) : q[i] = q[j] => i = j
    BY <1>0, <1>2 DEF IsInjective
  <1> HIDE DEF w
  <1>5. ASSUME NEW i \in 1 .. Len(w) PROVE nx2[w[i]] = IF i = Len(w) THEN NULL ELSE w[i + 1]
    <2>1. CASE i = Len(w)
      BY <1>1, <1>2, <2>1
    <2>2. CASE i # Len(w)
      <3>1. i \in 1 .. Len(q) /\ w[i] = q[i] /\ q # << >>
        BY <1>1, <1>2, <2>2
      <3>2. CASE i = Len(q)
        BY <1>1, <1>2, <1>3, <2>2, <3>1, <3>2
      <3>3. CASE i # Len(q)
        <4>1. Len(q) \in 1 .. Len(q) /\ i + 1 \in 1 .. Len(q)
          <5> DEFINE n == Len(q)
          <5>1. n \in Nat /\ i \in 1 .. n /\ i # n
            BY <1>2, <3>1, <3>3
          <5> HIDE DEF n
          <5>2. n \in 1 .. n /\ i + 1 \in 1 .. n
            BY <5>1
          <5> QED BY <5>2 DEF n
        <4>2. q[i] # Last(q)
          BY <1>3, <1>4, <3>1, <3>3, <4>1
        <4>3. nx2[q[i]] = q[i + 1]
          BY <1>0, <1>2, <3>1, <3>3, <4>2
        <4> QED BY <1>1, <2>2, <3>1, <4>1, <4>3
      <3> QED BY <3>2, <3>3
    <2> QED BY <2>1, <2>2
  <1>6. (IF p = NULL THEN s ELSE p) = w[1]
    <2>1. CASE q = << >>
      BY <1>0, <1>1, <1>2, <2>1
    <2>2. CASE q # << >>
      <3>1. 1 \in 1 .. Len(q) /\ q[1] # NULL
        BY <1>2, <2>2, MqAssumption
      <3> QED BY <1>0, <1>1, <2>2, <3>1
    <2> QED BY <2>1, <2>2
  <1> QED BY <1>1, <1>2, <1>3, <1>5, <1>6 DEF Linked, w

\* A list that is put on another one slot by slot.
Stacked(q, f) == [i \in 1 .. Len(q) + Len(f) |->
    IF i <= Len(q) THEN q[Len(q) + 1 - i] ELSE f[i - Len(q)]]

\* Slots that are put on top of a list one by one are linked from the last one on.
LEMMA LinkedStack ==
    ASSUME NEW p, NEW f, NEW q, NEW nx, NEW nx2, Linked(p, f, nx), q \in Seq(Slot),
           IsInjective(q), ToSet(q) \cap ToSet(f) = {},
           \A s \in ToSet(q) : nx2[s] = Before(q, s, p), \A s \in ToSet(f) : nx2[s] = nx[s]
    PROVE  /\ Linked(IF q = << >> THEN p ELSE Last(q), Stacked(q, f), nx2)
           /\ ToSet(Stacked(q, f)) = ToSet(q) \cup ToSet(f)
  <1> DEFINE w == Stacked(q, f)
             n == Len(q)
             m == Len(f)
  <1>0. /\ f \in Seq(Slot) /\ IsInjective(f) /\ p = IF f = << >> THEN NULL ELSE f[1]
        /\ \A i \in 1 .. m : nx[f[i]] = IF i = m THEN NULL ELSE f[i + 1]
    BY DEF Linked
  <1>1. /\ n \in Nat /\ DOMAIN q = 1 .. n /\ (q = << >> <=> n = 0)
        /\ \A i \in 1 .. n : q[i] \in Slot
        /\ \A x : x \in ToSet(q) <=> \E i \in 1 .. n : q[i] = x
    BY ListIndices
  <1>2. /\ m \in Nat /\ DOMAIN f = 1 .. m /\ (f = << >> <=> m = 0)
        /\ \A i \in 1 .. m : f[i] \in Slot
        /\ \A x : x \in ToSet(f) <=> \E i \in 1 .. m : f[i] = x
    BY <1>0, ListIndices
  <1>i. /\ \A i, j \in 1 .. n : q[i] = q[j] => i = j
        /\ \A i, j \in 1 .. m : f[i] = f[j] => i = j
        /\ \A i \in 1 .. n, j \in 1 .. m : q[i] # f[j]
    BY <1>0, <1>1, <1>2 DEF IsInjective
  <1>l. Last(q) = q[n]
    BY DEF Last
  <1>w. w = [i \in 1 .. n + m |-> IF i <= n THEN q[n + 1 - i] ELSE f[i - n]]
    BY DEF Stacked
  <1>b. ASSUME NEW i \in 1 .. n PROVE Before(q, q[i], p) = IF i = 1 THEN p ELSE q[i - 1]
    <2> DEFINE k == CHOOSE k \in DOMAIN q : q[k] = q[i]
    <2>1. k \in DOMAIN q /\ q[k] = q[i]
      BY <1>1
    <2> HIDE DEF k
    <2>2. k = i
      BY <1>1, <1>i, <2>1
    <2>3. Before(q, q[i], p) = IF k = 1 THEN p ELSE q[k - 1]
      BY DEF Before, k
    <2> QED BY <2>2, <2>3
  <1>k. \A i \in 1 .. n : nx2[q[i]] = IF i = 1 THEN p ELSE q[i - 1]
    BY <1>1, <1>b
  <1>j. \A i \in 1 .. m : nx2[f[i]] = IF i = m THEN NULL ELSE f[i + 1]
    BY <1>0, <1>2
  <1> HIDE DEF n, m, w
  <1>3. \A i \in 1 .. n + m : (i <= n /\ n + 1 - i \in 1 .. n) \/ (i > n /\ i - n \in 1 .. m)
    BY <1>1, <1>2
  <1>u. ASSUME NEW i \in 1 .. n PROVE i \in 1 .. n + m /\ w[i] = q[n + 1 - i]
    <2>1. i \in 1 .. n + m /\ i <= n
      BY <1>1, <1>2
    <2> QED BY <1>w, <2>1
  <1>v. ASSUME NEW i \in 1 .. m PROVE n + i \in 1 .. n + m /\ w[n + i] = f[i]
    <2> DEFINE k == n + i
    <2>1. k \in 1 .. n + m /\ ~(k <= n) /\ k - n = i
      BY <1>1, <1>2
    <2> HIDE DEF k
    <2>2. w[k] = IF k <= n THEN q[n + 1 - k] ELSE f[k - n]
      BY <1>w, <2>1
    <2>3. w[k] = f[i] /\ k \in 1 .. n + m
      BY <2>1, <2>2
    <2> QED BY <2>3 DEF k
  <1>4. \A i \in 1 .. n + m : w[i] \in Slot
    BY <1>1, <1>2, <1>3, <1>w
  <1>5. /\ w \in Seq(Slot) /\ DOMAIN w = 1 .. n + m /\ n + m \in Nat
    <2>1. n + m \in Nat
      BY <1>1, <1>2
    <2>2. w = [i \in 1 .. n + m |-> w[i]]
      BY <1>w
    <2>3. w \in [1 .. n + m -> Slot]
      BY <1>4, <2>2
    <2> QED BY <2>1, <2>2, <2>3, FunctionIsSeq
  <1>6. Len(w) = n + m
    <2>1. Len(w) \in Nat /\ DOMAIN w = 1 .. Len(w)
      BY <1>5, ListIndices
    <2> QED BY <1>5, <2>1
  <1>7. IsInjective(w)
    <2>1. ASSUME NEW i \in 1 .. n + m, NEW j \in 1 .. n + m, w[i] = w[j] PROVE i = j
      <3>1. \A k \in 1 .. n + m : k \in 1 .. n \/ \E l \in 1 .. m : k = n + l
        <4>1. ASSUME NEW k \in 1 .. n + m, k \notin 1 .. n PROVE k - n \in 1 .. m /\ k = n + (k - n)
          BY <1>1, <1>2, <4>1
        <4> QED BY <4>1
      <3>2. \A k \in 1 .. n : n + 1 - k \in 1 .. n
        BY <1>1
      <3>3. CASE i \in 1 .. n /\ j \in 1 .. n
        <4> DEFINE k == n + 1 - i
                   l == n + 1 - j
        <4>1. k \in 1 .. n /\ l \in 1 .. n
          BY <3>2, <3>3
        <4>2. q[k] = q[l]
          BY <1>u, <2>1, <3>3
        <4> HIDE DEF k, l
        <4>3. k = l
          BY <1>i, <4>1, <4>2
        <4>4. n + 1 - i = n + 1 - j
          BY <4>3 DEF k, l
        <4> QED BY <1>1, <3>3, <4>4
      <3>4. ASSUME NEW k \in 1 .. m, NEW l \in 1 .. m, i = n + k, j = n + l PROVE i = j
        BY <1>i, <1>v, <2>1, <3>4
      <3>5. ASSUME NEW k \in 1 .. n, NEW l \in 1 .. m PROVE w[k] # w[n + l]
        <4>1. w[k] = q[n + 1 - k] /\ w[n + l] = f[l]
          BY <1>u, <1>v
        <4> QED BY <1>i, <3>2, <4>1
      <3> QED BY <2>1, <3>1, <3>3, <3>4, <3>5
    <2> QED BY <1>5, <2>1 DEF IsInjective
  <1>8. ToSet(w) = ToSet(q) \cup ToSet(f)
    <2>0. \A x : x \in ToSet(w) <=> \E i \in 1 .. n + m : w[i] = x
      BY <1>5, <1>6, ListIndices
    <2>1. ASSUME NEW x \in ToSet(w) PROVE x \in ToSet(q) \cup ToSet(f)
      BY <1>1, <1>2, <1>3, <1>w, <2>0
    <2>2. ASSUME NEW i \in 1 .. n PROVE q[i] \in ToSet(w)
      <3>1. n + 1 - i \in 1 .. n + m /\ n + 1 - i <= n /\ n + 1 - (n + 1 - i) = i
        BY <1>1, <1>2
      <3> QED BY <1>w, <2>0, <3>1
    <2>3. ASSUME NEW i \in 1 .. m PROVE f[i] \in ToSet(w)
      BY <1>v, <2>0
    <2> QED BY <1>1, <1>2, <2>1, <2>2, <2>3
  <1>9. (IF q = << >> THEN p ELSE Last(q)) = IF w = << >> THEN NULL ELSE w[1]
    <2>1. w = << >> <=> n + m = 0
      BY <1>5, <1>6, ListIndices
    <2>2. CASE n = 0 /\ m = 0
      BY <1>0, <1>1, <1>2, <2>1, <2>2
    <2>3. CASE n = 0 /\ m > 0
      <3>1. 1 \in 1 .. n + m /\ w[1] = f[1] /\ w # << >>
        BY <1>1, <1>2, <1>w, <2>1, <2>3
      <3> QED BY <1>0, <1>1, <1>2, <2>3, <3>1
    <2>4. CASE n > 0
      <3>1. 1 \in 1 .. n + m /\ w[1] = q[n] /\ w # << >>
        <4>1. 1 \in 1 .. n + m /\ 1 <= n /\ n + 1 - 1 = n
          BY <1>1, <1>2, <2>4
        <4> QED BY <1>1, <1>2, <1>w, <2>1, <4>1
      <3> QED BY <1>1, <1>l, <2>4, <3>1
    <2> QED BY <1>1, <1>2, <2>2, <2>3, <2>4
  <1>10. ASSUME NEW i \in 1 .. Len(w) PROVE nx2[w[i]] = IF i = Len(w) THEN NULL ELSE w[i + 1]
    <2>0. i \in 1 .. n + m /\ w[i] = IF i <= n THEN q[n + 1 - i] ELSE f[i - n]
      BY <1>6, <1>w
    <2>1. CASE i < n
      <3>1. /\ n + 1 - i \in 1 .. n /\ n + 1 - i # 1 /\ n + 1 - i - 1 = n + 1 - (i + 1)
            /\ i + 1 \in 1 .. n + m /\ i + 1 <= n /\ i # n + m /\ i <= n
        BY <1>1, <1>2, <2>0, <2>1
      <3>2. w[i + 1] = q[n + 1 - (i + 1)]
        BY <1>w, <3>1
      <3> DEFINE k == n + 1 - i
      <3>3. k \in 1 .. n /\ k # 1 /\ q[k - 1] = w[i + 1] /\ w[i] = q[k] /\ i # Len(w)
        <4>1. k \in 1 .. n /\ k # 1 /\ i # Len(w) /\ k - 1 = n + 1 - (i + 1)
          <5>1. k \in 1 .. n /\ k # 1 /\ k - 1 = n + 1 - (i + 1)
            BY <1>1, <2>0, <3>1
          <5> HIDE DEF k
          <5> QED BY <1>6, <3>1, <5>1
        <4>2. w[i] = q[k]
          BY <2>0, <3>1
        <4> HIDE DEF k
        <4> QED BY <3>2, <4>1, <4>2
      <3> HIDE DEF k
      <3> QED BY <1>k, <3>3
    <2>2. CASE i = n
      <3>1. w[i] = q[1] /\ nx2[q[1]] = p
        <4>1. n + 1 - i = 1 /\ i <= n /\ 1 \in 1 .. n
          BY <1>1, <2>0, <2>2
        <4> QED BY <1>k, <2>0, <4>1
      <3>2. CASE m = 0
        BY <1>0, <1>1, <1>2, <1>6, <2>2, <3>1, <3>2
      <3>3. CASE m # 0
        <4>1. i + 1 \in 1 .. n + m /\ ~(i + 1 <= n) /\ i + 1 - n = 1 /\ i # n + m
          BY <1>1, <1>2, <2>2, <3>3
        <4>2. w[i + 1] = f[1]
          <5>1. 1 \in 1 .. m
            BY <1>2, <3>3
          <5> QED BY <1>v, <2>2, <5>1
        <4> QED BY <1>0, <1>2, <1>6, <3>1, <3>3, <4>1, <4>2
      <3> QED BY <3>2, <3>3
    <2>3. CASE i > n
      <3> DEFINE j == i - n
      <3>1. j \in 1 .. m /\ i = j + n /\ ~(i <= n) /\ (i = n + m <=> j = m)
        BY <1>1, <1>2, <2>0, <2>3
      <3>2. w[i] = f[j] /\ nx2[f[j]] = IF j = m THEN NULL ELSE f[j + 1]
        BY <1>j, <2>0, <3>1
      <3>3. ASSUME j # m PROVE w[i + 1] = f[j + 1]
        <4>1. j + 1 \in 1 .. m /\ i + 1 = n + (j + 1)
          BY <1>1, <1>2, <3>1, <3>3
        <4> HIDE DEF j
        <4> QED BY <1>v, <4>1
      <3> QED BY <1>6, <3>1, <3>2, <3>3
    <2> QED BY <1>1, <2>0, <2>1, <2>2, <2>3
  <1> QED BY <1>5, <1>7, <1>8, <1>9, <1>10 DEF Linked, w

-----------------------------------------------------------------------------
(* The slots of the message queue.                                         *)

MqTypes ==
    /\ next \in [Slot -> Slot \cup {NULL}]
    /\ content \in [Slot -> Content \cup {NoContent}]
    /\ received \in Content \cup {NoContent}

MqRecord == [op : {"none", "send", "urgent", "recv", "copy"}, msg : Content \cup {NoContent},
             time : {"none", "ticks", "forever"}, slot : Slot \cup {NULL}]

\* What a thread has in its hands at each place of its call.
MqCalls ==
    /\ mq \in [Thread -> MqRecord]
    /\ \A t \in Thread :
          /\ mq[t].op \in {"send", "urgent"} <=> pc[t] \in {"fill", "link"}
          /\ mq[t].op = "copy" <=> pc[t] \in {"copy", "release"}
          /\ mq[t].slot # NULL <=> mq[t].op \in {"send", "urgent", "copy"}
          /\ mq[t].slot # NULL /\ pc[t] # "fill" => content[mq[t].slot] = mq[t].msg
          /\ mq[t].op = "send" /\ pc[t] = "link" => next[mq[t].slot] = NULL
    /\ \A t, u \in Thread : mq[t].slot = mq[u].slot /\ mq[t].slot # NULL => t = u

\* The slots that are in no thread's hands.
Hands(U) ==
    /\ U \subseteq Slot /\ \A t \in Thread : mq[t].slot \notin U
    /\ \A s \in Slot : s \in U \/ \E t \in Thread : mq[t].slot = s

\* Each slot is on the free list f, in the queue q or in the hands of a thread.
MqLists(f, q) ==
    /\ Linked(msg_queue_free, f, next) /\ Linked(msg_queue_head, q, next)
    /\ msg_queue_tail = IF q = << >> THEN NULL ELSE Last(q)
    /\ mq_entry = Len(q)
    /\ ToSet(f) \cap ToSet(q) = {}
    /\ Hands(ToSet(f) \cup ToSet(q))

MqData(f, q) == MqTypes /\ MqCalls /\ MqLists(f, q)

\* What the two lists say of heads, tails and the count.
LEMMA MqDataFacts ==
    ASSUME NEW f, NEW q, MqData(f, q)
    PROVE  /\ f \in Seq(Slot) /\ q \in Seq(Slot) /\ IsInjective(f) /\ IsInjective(q)
           /\ ToSet(f) \subseteq Slot /\ ToSet(q) \subseteq Slot /\ NULL \notin Slot
           /\ Len(q) \in Nat /\ mq_entry \in Nat
           /\ q # << >> => Last(q) \in ToSet(q)
           /\ msg_queue_free = NULL \/ msg_queue_free \in ToSet(f)
           /\ msg_queue_head = NULL \/ msg_queue_head \in ToSet(q)
           /\ q = << >> <=> msg_queue_head = NULL
           /\ q = << >> <=> msg_queue_tail = NULL
           /\ mq_entry > 0 => msg_queue_head # NULL
  <1>1. /\ f \in Seq(Slot) /\ q \in Seq(Slot) /\ IsInjective(f) /\ IsInjective(q)
        /\ msg_queue_free = IF f = << >> THEN NULL ELSE f[1]
        /\ msg_queue_head = IF q = << >> THEN NULL ELSE q[1]
        /\ mq_entry = Len(q) /\ msg_queue_tail = IF q = << >> THEN NULL ELSE Last(q)
    BY DEF MqData, MqLists, Linked
  <1>2. /\ ToSet(f) \subseteq Slot /\ Len(f) \in Nat /\ (f = << >> <=> Len(f) = 0)
        /\ \A x : x \in ToSet(f) <=> \E i \in 1 .. Len(f) : f[i] = x
    BY <1>1, ListIndices
  <1>3. /\ ToSet(q) \subseteq Slot /\ Len(q) \in Nat /\ (q = << >> <=> Len(q) = 0)
        /\ \A x : x \in ToSet(q) <=> \E i \in 1 .. Len(q) : q[i] = x
    BY <1>1, ListIndices
  <1>4. q # << >> => q[1] \in ToSet(q) /\ q[Len(q)] \in ToSet(q)
    <2>1. q # << >> => 1 \in 1 .. Len(q) /\ Len(q) \in 1 .. Len(q)
      BY <1>3
    <2> QED BY <1>3, <2>1
  <1>5. f # << >> => f[1] \in ToSet(f)
    <2>1. f # << >> => 1 \in 1 .. Len(f)
      BY <1>2
    <2> QED BY <1>2, <2>1
  <1>6. Last(q) = q[Len(q)]
    BY DEF Last
  <1>7. NULL \notin Slot
    BY MqAssumption
  <1> QED BY <1>1, <1>2, <1>3, <1>4, <1>5, <1>6, <1>7

\* A sender takes the first free slot.
LEMMA TakesData ==
    ASSUME WaitOK, NEW f, NEW q, MqData(f, q), NEW t \in Thread, NEW op \in {"send", "urgent"},
           NEW m \in Content, MqSendTakes(t, op, m)
    PROVE  MqData(Tail(f), q)'
  <1> DEFINE s == msg_queue_free
  <1>0. /\ ToSet(f) \subseteq Slot /\ ToSet(q) \subseteq Slot /\ NULL \notin Slot
    BY MqDataFacts
  <1>1. /\ pc[t] = "run" /\ s # NULL /\ msg_queue_free' = next[s]
        /\ mq' = [mq EXCEPT ![t] = [op |-> op, msg |-> m, time |-> "none", slot |-> s]]
        /\ pc' = [pc EXCEPT ![t] = "fill"]
        /\ UNCHANGED <<msg_queue_head, msg_queue_tail, next, content, mq_entry, received>>
    BY DEF MqSendTakes
  <1>2. /\ s \in Slot /\ s \in ToSet(f) /\ ToSet(Tail(f)) = ToSet(f) \ {s}
        /\ Linked(next[s], Tail(f), next)
    BY <1>1, LinkedTail DEF MqData, MqLists
  <1> HIDE DEF s
  <1>3. MqTypes'
    BY <1>1 DEF MqData, MqTypes
  <1>4. pc \in [Thread -> Label] /\ mq \in [Thread -> MqRecord]
    BY DEF WaitOK, MqData, MqCalls
  <1>5. /\ mq'[t] = [op |-> op, msg |-> m, time |-> "none", slot |-> s] /\ pc'[t] = "fill"
        /\ \A u \in Thread \ {t} : mq'[u] = mq[u] /\ pc'[u] = pc[u]
    BY <1>1, <1>4
  <1>6. mq' \in [Thread -> MqRecord]
    BY <1>1, <1>2, <1>4 DEF MqRecord
  <1>7. MqCalls'
    <2>1. \A u \in Thread :
          /\ mq'[u].op \in {"send", "urgent"} <=> pc'[u] \in {"fill", "link"}
          /\ mq'[u].op = "copy" <=> pc'[u] \in {"copy", "release"}
          /\ mq'[u].slot # NULL <=> mq'[u].op \in {"send", "urgent", "copy"}
          /\ mq'[u].slot # NULL /\ pc'[u] # "fill" => content'[mq'[u].slot] = mq'[u].msg
          /\ mq'[u].op = "send" /\ pc'[u] = "link" => next'[mq'[u].slot] = NULL
      <3>1. TAKE u \in Thread
      <3>2. CASE u = t
        BY <1>0, <1>2, <1>5, <3>2
      <3>3. CASE u # t
        BY <1>1, <1>5, <3>3 DEF MqData, MqCalls
      <3> QED BY <3>2, <3>3
    <2>2. \A u, v \in Thread : mq'[u].slot = mq'[v].slot /\ mq'[u].slot # NULL => u = v
      BY <1>2, <1>5 DEF MqData, MqCalls, MqLists, Hands
    <2> QED BY <1>6, <2>1, <2>2 DEF MqCalls
  <1>8. MqLists(Tail(f), q)'
    <2>1. Linked(msg_queue_free', Tail(f), next') /\ Linked(msg_queue_head', q, next')
      BY <1>1, <1>2 DEF MqData, MqLists, s
    <2>2. \A u \in Thread : mq'[u].slot \notin ToSet(Tail(f)) \cup ToSet(q)
      BY <1>2, <1>5 DEF MqData, MqLists, Hands
    <2>3. ASSUME NEW x \in Slot, x \notin ToSet(Tail(f)) \cup ToSet(q)
          PROVE \E u \in Thread : mq'[u].slot = x
      <3>1. CASE x = s
        BY <1>5, <3>1
      <3>2. CASE x # s
        <4>1. PICK u \in Thread : mq[u].slot = x
          BY <1>2, <2>3, <3>2 DEF MqData, MqLists, Hands
        <4>2. u # t
          <5>1. mq[t].slot = NULL
            BY <1>1 DEF MqData, MqCalls
          <5> QED BY <1>0, <4>1, <5>1
        <4> QED BY <1>5, <4>1, <4>2
      <3> QED BY <3>1, <3>2
    <2>4. Hands(ToSet(Tail(f)) \cup ToSet(q))'
      BY <1>0, <1>2, <2>2, <2>3 DEF Hands
    <2> QED BY <1>1, <1>2, <2>1, <2>4 DEF MqData, MqLists
  <1> QED BY <1>3, <1>7, <1>8 DEF MqData

\* A sender fills its slot, and no message in the queue changes.
LEMMA FillsData ==
    ASSUME WaitOK, NEW f, NEW q, MqData(f, q), NEW t \in Thread, MqSendFills(t)
    PROVE  /\ MqData(f, q)' /\ \A i \in 1 .. Len(q) : content'[q[i]] = content[q[i]]
  <1> DEFINE s == mq[t].slot
  <1>0. /\ ToSet(f) \subseteq Slot /\ ToSet(q) \subseteq Slot /\ NULL \notin Slot
        /\ q \in Seq(Slot)
    BY MqDataFacts
  <1>1. /\ pc[t] = "fill" /\ pc' = [pc EXCEPT ![t] = "link"]
        /\ next' = IF mq[t].op = "send" THEN [next EXCEPT ![s] = NULL] ELSE next
        /\ content' = [content EXCEPT ![s] = mq[t].msg]
        /\ UNCHANGED <<msg_queue_free, msg_queue_head, msg_queue_tail, mq_entry, mq, received>>
    BY DEF MqSendFills
  <1>2. /\ mq[t].op \in {"send", "urgent"} /\ s \in Slot /\ mq[t].msg \in Content \cup {NoContent}
        /\ s \notin ToSet(f) \cup ToSet(q)
        /\ \A u \in Thread \ {t} : mq[u].slot # s
        /\ next \in [Slot -> Slot \cup {NULL}] /\ content \in [Slot -> Content \cup {NoContent}]
    BY <1>1 DEF MqData, MqCalls, MqRecord, MqLists, Hands, MqTypes
  <1> HIDE DEF s
  <1>3. MqTypes'
    BY <1>1, <1>2 DEF MqData, MqTypes
  <1>4. /\ pc'[t] = "link" /\ \A u \in Thread \ {t} : pc'[u] = pc[u]
    BY <1>1 DEF WaitOK
  <1>5. /\ content'[s] = mq[t].msg /\ \A x \in Slot \ {s} : content'[x] = content[x]
        /\ mq[t].op = "send" => next'[s] = NULL
        /\ \A x \in Slot \ {s} : next'[x] = next[x]
    BY <1>1, <1>2
  <1>6. MqCalls'
    <2>1. \A u \in Thread :
          /\ mq'[u].op \in {"send", "urgent"} <=> pc'[u] \in {"fill", "link"}
          /\ mq'[u].op = "copy" <=> pc'[u] \in {"copy", "release"}
          /\ mq'[u].slot # NULL <=> mq'[u].op \in {"send", "urgent", "copy"}
          /\ mq'[u].slot # NULL /\ pc'[u] # "fill" => content'[mq'[u].slot] = mq'[u].msg
          /\ mq'[u].op = "send" /\ pc'[u] = "link" => next'[mq'[u].slot] = NULL
      <3>1. TAKE u \in Thread
      <3>2. CASE u = t
        BY <1>0, <1>1, <1>2, <1>4, <1>5, <3>2 DEF s, MqData, MqCalls
      <3>3. CASE u # t
        <4>1. mq[u].slot \in Slot \cup {NULL} /\ mq[u].slot # s
          BY <1>2, <3>3 DEF MqData, MqCalls, MqRecord
        <4>2. mq[u].op = "send" => mq[u].slot # NULL
          BY DEF MqData, MqCalls
        <4> QED BY <1>1, <1>4, <1>5, <3>3, <4>1, <4>2 DEF MqData, MqCalls
      <3> QED BY <3>2, <3>3
    <2> QED BY <1>1, <2>1 DEF MqData, MqCalls
  <1>7. Linked(msg_queue_free, f, next') /\ Linked(msg_queue_head, q, next')
    <2>1. \A x \in ToSet(f) \cup ToSet(q) : next'[x] = next[x]
      BY <1>0, <1>2, <1>5
    <2>2. Linked(msg_queue_free, f, next) /\ Linked(msg_queue_head, q, next)
      BY DEF MqData, MqLists
    <2> QED BY <2>1, <2>2, LinkedKept
  <1>8. MqLists(f, q)'
    BY <1>1, <1>7 DEF MqData, MqLists, Hands
  <1>9. \A i \in 1 .. Len(q) : content'[q[i]] = content[q[i]]
    <2>1. \A i \in 1 .. Len(q) : q[i] \in ToSet(q)
      BY <1>0, ListIndices
    <2> QED BY <1>0, <1>2, <1>5, <2>1
  <1> QED BY <1>3, <1>6, <1>8, <1>9 DEF MqData

\* A thread returns and leaves its slot, if it has one, to the two lists.
LEMMA HandsBack ==
    ASSUME WaitOK, MqTypes, MqCalls, NEW U, Hands(U), NEW t \in Thread, Return(t),
           mq' = [mq EXCEPT ![t] = NoMq], content' = content, received' = received,
           next' \in [Slot -> Slot \cup {NULL}],
           \A u \in Thread \ {t} : mq[u].slot # NULL => next'[mq[u].slot] = next[mq[u].slot],
           NEW U2, U2 = U \cup ({mq[t].slot} \ {NULL})
    PROVE  MqTypes' /\ MqCalls' /\ Hands(U2)'
  <1> DEFINE NoSlot == [op |-> "none", msg |-> NoContent, time |-> "none", slot |-> NULL]
  <1>0. U \subseteq Slot /\ NULL \notin Slot
    BY MqAssumption DEF Hands
  <1>1. /\ mq \in [Thread -> MqRecord]
        /\ \A u \in Thread : mq[u].slot \in Slot \cup {NULL}
    BY DEF MqCalls, MqRecord
  <1>2. NoMq = NoSlot /\ NoMq \in MqRecord
    BY DEF NoMq, MqRecord
  <1>3. /\ pc'[t] = "run" /\ mq'[t] = NoSlot
        /\ \A u \in Thread \ {t} : mq'[u] = mq[u] /\ pc'[u] = pc[u]
    BY <1>1, <1>2, ReturnEffect
  <1>4. MqTypes'
    BY DEF MqTypes
  <1>5. MqCalls'
    <2>0. mq' \in [Thread -> MqRecord]
      BY <1>1, <1>2
    <2>1. \A u \in Thread :
          /\ mq'[u].op \in {"send", "urgent"} <=> pc'[u] \in {"fill", "link"}
          /\ mq'[u].op = "copy" <=> pc'[u] \in {"copy", "release"}
          /\ mq'[u].slot # NULL <=> mq'[u].op \in {"send", "urgent", "copy"}
          /\ mq'[u].slot # NULL /\ pc'[u] # "fill" => content'[mq'[u].slot] = mq'[u].msg
          /\ mq'[u].op = "send" /\ pc'[u] = "link" => next'[mq'[u].slot] = NULL
      <3>1. TAKE u \in Thread
      <3>2. CASE u = t
        BY <1>3, <3>2
      <3>3. CASE u # t
        <4>1. mq[u].op = "send" => mq[u].slot # NULL
          BY DEF MqCalls
        <4> QED BY <1>3, <3>3, <4>1 DEF MqCalls
      <3> QED BY <3>2, <3>3
    <2>2. \A u, v \in Thread : mq'[u].slot = mq'[v].slot /\ mq'[u].slot # NULL => u = v
      BY <1>3 DEF MqCalls
    <2> QED BY <2>0, <2>1, <2>2 DEF MqCalls
  <1>6. \A u \in Thread : mq'[u].slot \notin U2
    <2>1. \A u \in Thread \ {t} : mq[u].slot \notin U
      BY DEF Hands
    <2>2. \A u \in Thread \ {t} : mq[u].slot = mq[t].slot => mq[t].slot = NULL
      BY DEF MqCalls
    <2>3. mq'[t].slot = NULL
      BY <1>3
    <2>4. NULL \notin U2
      BY <1>0
    <2> QED BY <1>3, <2>1, <2>2, <2>3, <2>4
  <1>7. ASSUME NEW s \in Slot, s \notin U2
        PROVE  \E u \in Thread : mq'[u].slot = s
    <2>1. s \notin U /\ s # mq[t].slot
      BY <1>0, <1>7
    <2>2. PICK u \in Thread : mq[u].slot = s
      BY <2>1 DEF Hands
    <2> QED BY <1>3, <2>1, <2>2
  <1>8. U2 \subseteq Slot
    BY <1>0, <1>1
  <1> QED BY <1>4, <1>5, <1>6, <1>7, <1>8 DEF Hands

\* The filled slot joins the queue, at its end or in front.
LEMMA LinksData ==
    ASSUME WaitOK, NEW f, NEW q, MqData(f, q), NEW t \in Thread, MqSendLinks(t)
    PROVE  /\ mq[t].slot \in Slot /\ content[mq[t].slot] = mq[t].msg /\ content' = content
           /\ \E q2 : /\ MqData(f, q2)'
                      /\ \/ mq[t].op = "send" /\ q2 = Append(q, mq[t].slot)
                         \/ mq[t].op = "urgent" /\ q2 = <<mq[t].slot>> \o q
  <1> DEFINE s == mq[t].slot
  <1>0. /\ ToSet(f) \subseteq Slot /\ ToSet(q) \subseteq Slot /\ NULL \notin Slot
        /\ q \in Seq(Slot) /\ (q # << >> => Last(q) \in ToSet(q))
        /\ (q = << >> <=> msg_queue_tail = NULL) /\ (q = << >> <=> msg_queue_head = NULL)
        /\ msg_queue_tail = IF q = << >> THEN NULL ELSE Last(q)
        /\ mq_entry = Len(q) /\ ToSet(f) \cap ToSet(q) = {}
        /\ msg_queue_head \in Slot \cup {NULL}
    <2>1. msg_queue_tail = (IF q = << >> THEN NULL ELSE Last(q)) /\ mq_entry = Len(q)
          /\ ToSet(f) \cap ToSet(q) = {}
      BY DEF MqData, MqLists
    <2> QED BY <2>1, MqDataFacts
  <1>1. /\ pc[t] = "link" /\ mq_entry' = mq_entry + 1 /\ Return(t)
        /\ mq' = [mq EXCEPT ![t] = NoMq] /\ content' = content /\ received' = received
        /\ msg_queue_free' = msg_queue_free
        /\ \/ mq[t].op = "send" /\ LinkLast(s)
           \/ mq[t].op = "urgent" /\ LinkFirst(s)
    BY DEF MqSendLinks
  <1>2. /\ s \in Slot /\ content[s] = mq[t].msg /\ s \notin ToSet(f) \cup ToSet(q)
        /\ (mq[t].op = "send" => next[s] = NULL)
        /\ next \in [Slot -> Slot \cup {NULL}]
        /\ \A u \in Thread \ {t} : mq[u].slot # s
        /\ \A u \in Thread : mq[u].slot \in Slot \cup {NULL} /\ mq[u].slot \notin ToSet(q)
        /\ Linked(msg_queue_free, f, next) /\ Linked(msg_queue_head, q, next)
    BY <1>1 DEF MqData, MqCalls, MqRecord, MqLists, Hands, MqTypes
  <1> HIDE DEF s
  <1>3. CASE mq[t].op = "send" /\ LinkLast(s)
    <2>q. PICK q2 : q2 = Append(q, s)
      OBVIOUS
    <2>1. /\ next' = IF msg_queue_tail = NULL THEN next ELSE [next EXCEPT ![msg_queue_tail] = s]
          /\ msg_queue_head' = IF msg_queue_head = NULL THEN s ELSE msg_queue_head
          /\ msg_queue_tail' = s
      BY <1>3 DEF LinkLast
    <2>2. /\ next' \in [Slot -> Slot \cup {NULL}]
          /\ \A x \in Slot : x # msg_queue_tail => next'[x] = next[x]
          /\ q # << >> => next'[Last(q)] = s
      BY <1>0, <1>2, <2>1
    <2>3. Linked(msg_queue_free, f, next')
      <3>1. \A x \in ToSet(f) : next'[x] = next[x]
        BY <1>0, <2>2
      <3> QED BY <1>2, <3>1, LinkedKept
    <2>4. /\ Linked(msg_queue_head', q2, next') /\ Last(q2) = s /\ q2 # << >>
          /\ Len(q2) = Len(q) + 1
      <3>1. next'[s] = NULL
        BY <1>0, <1>2, <1>3, <2>2
      <3>2. \A x \in ToSet(q) : q # << >> /\ x # Last(q) => next'[x] = next[x]
        BY <1>0, <2>2
      <3>3. s \notin ToSet(q)
        BY <1>2
      <3>4. /\ Linked(IF msg_queue_head = NULL THEN s ELSE msg_queue_head, q2, next')
            /\ Last(q2) = s /\ q2 # << >> /\ Len(q2) = Len(q) + 1
        BY <1>2, <2>2, <3>1, <3>2, <3>3, LinkedLast, <2>q
      <3> QED BY <2>1, <3>4
    <2>5. ToSet(q2) = ToSet(q) \cup {s}
      BY <1>0, <1>2, <2>q, AppendedList
    <2>6. MqTypes' /\ MqCalls' /\ Hands(ToSet(f) \cup ToSet(q2))'
      <3>1. ToSet(f) \cup ToSet(q2) = (ToSet(f) \cup ToSet(q)) \cup ({mq[t].slot} \ {NULL})
        BY <1>0, <1>2, <2>5 DEF s
      <3>2. \A u \in Thread \ {t} : mq[u].slot # NULL => next'[mq[u].slot] = next[mq[u].slot]
        BY <1>0, <1>2, <2>2
      <3>u. PICK U, U2 : U = ToSet(f) \cup ToSet(q) /\ U2 = ToSet(f) \cup ToSet(q2)
        OBVIOUS
      <3>3. MqTypes /\ MqCalls /\ Hands(U) /\ U2 = U \cup ({mq[t].slot} \ {NULL})
        BY <3>1, <3>u DEF MqData, MqLists
      <3>4. MqTypes' /\ MqCalls' /\ Hands(U2)'
        BY <1>1, <2>2, <3>2, <3>3, HandsBack
      <3> QED BY <3>4, <3>u
    <2>7. MqLists(f, q2)'
      <3>1. ToSet(f) \cap ToSet(q2) = {}
        BY <1>0, <1>2, <2>5
      <3>2. msg_queue_tail' = (IF q2 = << >> THEN NULL ELSE Last(q2)) /\ mq_entry' = Len(q2)
        BY <1>0, <1>1, <2>1, <2>4
      <3> QED BY <1>1, <2>3, <2>4, <2>6, <3>1, <3>2 DEF MqLists
    <2> QED BY <1>1, <1>2, <1>3, <2>6, <2>7, <2>q DEF MqData, s
  <1>4. CASE mq[t].op = "urgent" /\ LinkFirst(s)
    <2>q. PICK q2 : q2 = <<s>> \o q
      OBVIOUS
    <2>1. /\ next' = [next EXCEPT ![s] = msg_queue_head] /\ msg_queue_head' = s
          /\ msg_queue_tail' = IF msg_queue_tail = NULL THEN s ELSE msg_queue_tail
      BY <1>4 DEF LinkFirst
    <2>2. /\ next' \in [Slot -> Slot \cup {NULL}] /\ next'[s] = msg_queue_head
          /\ \A x \in Slot : x # s => next'[x] = next[x]
      BY <1>0, <1>2, <2>1
    <2>3. Linked(msg_queue_free, f, next')
      <3>1. \A x \in ToSet(f) : next'[x] = next[x]
        BY <1>0, <1>2, <2>2
      <3> QED BY <1>2, <3>1, LinkedKept
    <2>4. Linked(s, q2, next')
      <3>1. \A x \in ToSet(q) : next'[x] = next[x]
        BY <1>0, <1>2, <2>2
      <3>2. s \notin ToSet(q)
        BY <1>2
      <3> QED BY <1>2, <2>2, <2>q, <3>1, <3>2, LinkedFirst
    <2>5. /\ ToSet(q2) = ToSet(q) \cup {s} /\ Len(q2) = Len(q) + 1 /\ q2 # << >>
      BY <1>0, <1>2, <2>q, PrependedList
    <2>6. Last(q2) = IF q = << >> THEN s ELSE Last(q)
      <3>1. Len(q) \in Nat /\ (q = << >> <=> Len(q) = 0)
        BY <1>0, ListIndices
      <3>2. q2[1] = s /\ \A i \in 1 .. Len(q) : q2[i + 1] = q[i]
        BY <1>0, <2>q
      <3>3. Last(q2) = q2[Len(q) + 1] /\ Last(q) = q[Len(q)]
        BY <2>5 DEF Last
      <3>4. CASE q = << >>
        BY <3>1, <3>2, <3>3, <3>4
      <3>5. CASE q # << >>
        <4>1. Len(q) \in 1 .. Len(q)
          BY <3>1, <3>5
        <4> QED BY <3>2, <3>3, <3>5, <4>1
      <3> QED BY <3>4, <3>5
    <2>7. MqTypes' /\ MqCalls' /\ Hands(ToSet(f) \cup ToSet(q2))'
      <3>1. ToSet(f) \cup ToSet(q2) = (ToSet(f) \cup ToSet(q)) \cup ({mq[t].slot} \ {NULL})
        BY <1>0, <1>2, <2>5 DEF s
      <3>2. \A u \in Thread \ {t} : mq[u].slot # NULL => next'[mq[u].slot] = next[mq[u].slot]
        BY <1>2, <2>2
      <3>u. PICK U, U2 : U = ToSet(f) \cup ToSet(q) /\ U2 = ToSet(f) \cup ToSet(q2)
        OBVIOUS
      <3>3. MqTypes /\ MqCalls /\ Hands(U) /\ U2 = U \cup ({mq[t].slot} \ {NULL})
        BY <3>1, <3>u DEF MqData, MqLists
      <3>4. MqTypes' /\ MqCalls' /\ Hands(U2)'
        BY <1>1, <2>2, <3>2, <3>3, HandsBack
      <3> QED BY <3>4, <3>u
    <2>8. MqLists(f, q2)'
      <3>1. ToSet(f) \cap ToSet(q2) = {}
        BY <1>0, <1>2, <2>5
      <3>2. msg_queue_tail' = (IF q2 = << >> THEN NULL ELSE Last(q2)) /\ mq_entry' = Len(q2)
        BY <1>0, <1>1, <2>1, <2>5, <2>6
      <3> QED BY <1>1, <2>1, <2>3, <2>4, <2>7, <3>1, <3>2 DEF MqLists
    <2> QED BY <1>1, <1>2, <1>4, <2>7, <2>8, <2>q DEF MqData, s
  <1> QED BY <1>1, <1>3, <1>4

\* The slot goes to the free list.
LEMMA ReleasesData ==
    ASSUME WaitOK, NEW f, NEW q, MqData(f, q), NEW t \in Thread, MqReleases(t)
    PROVE  \E f2 : MqData(f2, q)'
  <1> DEFINE s == mq[t].slot
  <1>f. PICK f2 : f2 = <<s>> \o f
    OBVIOUS
  <1>0. /\ ToSet(f) \subseteq Slot /\ ToSet(q) \subseteq Slot /\ NULL \notin Slot
        /\ f \in Seq(Slot) /\ msg_queue_free \in Slot \cup {NULL}
    BY MqDataFacts
  <1>1. /\ pc[t] = "release" /\ Return(t) /\ mq' = [mq EXCEPT ![t] = NoMq]
        /\ next' = [next EXCEPT ![s] = msg_queue_free] /\ msg_queue_free' = s
        /\ UNCHANGED <<msg_queue_head, msg_queue_tail, content, mq_entry, received>>
    BY DEF MqReleases
  <1>2. /\ s \in Slot /\ s \notin ToSet(f) \cup ToSet(q)
        /\ next \in [Slot -> Slot \cup {NULL}]
        /\ \A u \in Thread \ {t} : mq[u].slot # s
        /\ \A u \in Thread : mq[u].slot \in Slot \cup {NULL}
        /\ Linked(msg_queue_free, f, next) /\ Linked(msg_queue_head, q, next)
    BY <1>1 DEF MqData, MqCalls, MqRecord, MqLists, Hands, MqTypes
  <1> HIDE DEF s
  <1>3. /\ next' \in [Slot -> Slot \cup {NULL}] /\ next'[s] = msg_queue_free
        /\ \A x \in Slot : x # s => next'[x] = next[x]
    BY <1>0, <1>1, <1>2
  <1>4. Linked(msg_queue_head, q, next')
    <2>1. \A x \in ToSet(q) : next'[x] = next[x]
      BY <1>0, <1>2, <1>3
    <2> QED BY <1>2, <2>1, LinkedKept
  <1>5. Linked(s, f2, next')
    <2>1. \A x \in ToSet(f) : next'[x] = next[x]
      BY <1>0, <1>2, <1>3
    <2>2. s \notin ToSet(f)
      BY <1>2
    <2> QED BY <1>2, <1>3, <1>f, <2>1, <2>2, LinkedFirst
  <1>6. ToSet(f2) = ToSet(f) \cup {s}
    BY <1>0, <1>2, <1>f, PrependedList
  <1>7. MqTypes' /\ MqCalls' /\ Hands(ToSet(f2) \cup ToSet(q))'
    <2>1. ToSet(f2) \cup ToSet(q) = (ToSet(f) \cup ToSet(q)) \cup ({mq[t].slot} \ {NULL})
      BY <1>0, <1>2, <1>6 DEF s
    <2>2. \A u \in Thread \ {t} : mq[u].slot # NULL => next'[mq[u].slot] = next[mq[u].slot]
      BY <1>2, <1>3
    <2>3. content' = content /\ received' = received
      BY <1>1
    <2>u. PICK U, U2 : U = ToSet(f) \cup ToSet(q) /\ U2 = ToSet(f2) \cup ToSet(q)
      OBVIOUS
    <2>4. MqTypes /\ MqCalls /\ Hands(U) /\ U2 = U \cup ({mq[t].slot} \ {NULL})
      BY <2>1, <2>u DEF MqData, MqLists
    <2>5. MqTypes' /\ MqCalls' /\ Hands(U2)'
      BY <1>1, <1>3, <2>2, <2>3, <2>4, HandsBack
    <2> QED BY <2>5, <2>u
  <1>8. MqLists(f2, q)'
    <2>1. ToSet(f2) \cap ToSet(q) = {}
      BY <1>2, <1>6 DEF MqData, MqLists
    <2> QED BY <1>1, <1>2, <1>4, <1>5, <1>7, <2>1 DEF MqData, MqLists
  <1> QED BY <1>7, <1>8 DEF MqData

\* The first message is taken off the queue.
LEMMA UnlinksData ==
    ASSUME WaitOK, NEW f, NEW q, MqData(f, q), NEW t \in Thread,
           pc[t] = "run" \/ mq[t].op = "recv", MqUnlinks(t)
    PROVE  /\ MqData(f, Tail(q))' /\ q # << >> /\ received' = content[Head(q)]
           /\ Head(q) \in Slot /\ content' = content
  <1> DEFINE s == msg_queue_head
  <1>0. /\ ToSet(f) \subseteq Slot /\ ToSet(q) \subseteq Slot /\ NULL \notin Slot
        /\ (mq_entry > 0 => s # NULL)
    BY MqDataFacts
  <1>1. /\ mq_entry > 0 /\ msg_queue_head' = next[s]
        /\ msg_queue_tail' = (IF msg_queue_tail = s THEN NULL ELSE msg_queue_tail)
        /\ mq_entry' = mq_entry - 1 /\ received' = content[s]
        /\ mq' = [mq EXCEPT ![t] = [op |-> "copy", msg |-> content[s], time |-> "none",
                                    slot |-> s]]
        /\ pc' = [pc EXCEPT ![t] = "copy"]
        /\ UNCHANGED <<msg_queue_free, next, content>>
    BY DEF MqUnlinks
  <1>2. /\ q # << >> /\ s = Head(q) /\ s \in Slot /\ s \in ToSet(q)
        /\ ToSet(Tail(q)) = ToSet(q) \ {s} /\ Len(Tail(q)) = Len(q) - 1
        /\ Linked(next[s], Tail(q), next)
        /\ (Tail(q) # << >> => Last(Tail(q)) = Last(q))
        /\ (Tail(q) = << >> <=> Last(q) = s)
    <2>1. Linked(s, q, next) /\ s # NULL
      BY <1>0, <1>1 DEF MqData, MqLists
    <2> QED BY <2>1, LinkedTail
  <1>c. content[s] \in Content \cup {NoContent}
    BY <1>2 DEF MqData, MqTypes
  <1> HIDE DEF s
  <1>3. MqTypes'
    BY <1>1, <1>c DEF MqData, MqTypes
  <1>4. pc \in [Thread -> Label] /\ mq \in [Thread -> MqRecord]
    BY DEF WaitOK, MqData, MqCalls
  <1>5. /\ mq'[t] = [op |-> "copy", msg |-> content[s], time |-> "none", slot |-> s]
        /\ pc'[t] = "copy"
        /\ \A u \in Thread \ {t} : mq'[u] = mq[u] /\ pc'[u] = pc[u]
    BY <1>1, <1>4
  <1>6. mq' \in [Thread -> MqRecord]
    BY <1>1, <1>2, <1>4, <1>c DEF MqRecord
  <1>7. MqCalls'
    <2>1. \A u \in Thread :
          /\ mq'[u].op \in {"send", "urgent"} <=> pc'[u] \in {"fill", "link"}
          /\ mq'[u].op = "copy" <=> pc'[u] \in {"copy", "release"}
          /\ mq'[u].slot # NULL <=> mq'[u].op \in {"send", "urgent", "copy"}
          /\ mq'[u].slot # NULL /\ pc'[u] # "fill" => content'[mq'[u].slot] = mq'[u].msg
          /\ mq'[u].op = "send" /\ pc'[u] = "link" => next'[mq'[u].slot] = NULL
      <3>1. TAKE u \in Thread
      <3>2. CASE u = t
        BY <1>0, <1>1, <1>2, <1>5, <3>2
      <3>3. CASE u # t
        BY <1>1, <1>5, <3>3 DEF MqData, MqCalls
      <3> QED BY <3>2, <3>3
    <2>2. \A u, v \in Thread : mq'[u].slot = mq'[v].slot /\ mq'[u].slot # NULL => u = v
      BY <1>2, <1>5 DEF MqData, MqCalls, MqLists, Hands
    <2> QED BY <1>6, <2>1, <2>2 DEF MqCalls
  <1>8. MqLists(f, Tail(q))'
    <2>1. Linked(msg_queue_free', f, next') /\ Linked(msg_queue_head', Tail(q), next')
      BY <1>1, <1>2 DEF MqData, MqLists
    <2>2. \A u \in Thread : mq'[u].slot \notin ToSet(f) \cup ToSet(Tail(q))
      BY <1>2, <1>5 DEF MqData, MqLists, Hands
    <2>3. ASSUME NEW x \in Slot, x \notin ToSet(f) \cup ToSet(Tail(q))
          PROVE \E u \in Thread : mq'[u].slot = x
      <3>1. CASE x = s
        BY <1>5, <3>1
      <3>2. CASE x # s
        <4>1. PICK u \in Thread : mq[u].slot = x
          BY <1>2, <2>3, <3>2 DEF MqData, MqLists, Hands
        <4>2. u # t
          <5>1. mq[t].slot = NULL
            BY DEF MqData, MqCalls
          <5> QED BY <1>0, <4>1, <5>1
        <4> QED BY <1>5, <4>1, <4>2
      <3> QED BY <3>1, <3>2
    <2>4. Hands(ToSet(f) \cup ToSet(Tail(q)))'
      BY <1>0, <1>2, <2>2, <2>3 DEF Hands
    <2>5. /\ msg_queue_tail' = (IF Tail(q) = << >> THEN NULL ELSE Last(Tail(q)))
          /\ mq_entry' = Len(Tail(q))
      BY <1>1, <1>2 DEF MqData, MqLists
    <2> QED BY <1>2, <2>1, <2>4, <2>5 DEF MqData, MqLists
  <1> QED BY <1>1, <1>2, <1>3, <1>7, <1>8 DEF MqData, s

\* A receiver returns without a message.
LEMMA FailsData ==
    ASSUME WaitOK, NEW f, NEW q, MqData(f, q), NEW t \in Thread,
           pc[t] = "run" \/ mq[t].op = "recv", MqRecvFails(t)
    PROVE  MqData(f, q)'
  <1>1. /\ Return(t) /\ mq' = [mq EXCEPT ![t] = NoMq] /\ content' = content
        /\ received' = received /\ next' = next /\ mq_entry' = mq_entry
        /\ msg_queue_free' = msg_queue_free /\ msg_queue_head' = msg_queue_head
        /\ msg_queue_tail' = msg_queue_tail
    BY DEF MqRecvFails, lists
  <1>2. PICK U : U = ToSet(f) \cup ToSet(q)
    OBVIOUS
  <1>3. /\ MqTypes /\ MqCalls /\ Hands(U) /\ U = U \cup ({mq[t].slot} \ {NULL})
        /\ next' \in [Slot -> Slot \cup {NULL}]
    BY <1>1, <1>2 DEF MqData, MqLists, MqCalls, MqTypes
  <1>4. MqTypes' /\ MqCalls' /\ Hands(U)'
    BY <1>1, <1>3, HandsBack
  <1>5. MqLists(f, q)'
    BY <1>1, <1>2, <1>4 DEF MqData, MqLists
  <1> QED BY <1>4, <1>5 DEF MqData

\* A receiver waits.
LEMMA WaitsData ==
    ASSUME WaitOK, NEW f, NEW q, MqData(f, q), NEW t \in Thread,
           pc[t] = "run" \/ mq[t].op = "recv", NEW time \in {"none", "ticks", "forever"},
           MqWaits(t, time)
    PROVE  MqData(f, q)'
  <1>1. /\ mq' = [mq EXCEPT ![t] =
                     [op |-> "recv", msg |-> NoContent, time |-> time, slot |-> NULL]]
        /\ Suspend(t, time) /\ Fail({t}, "EOK")
        /\ content' = content /\ received' = received /\ next' = next /\ mq_entry' = mq_entry
        /\ msg_queue_free' = msg_queue_free /\ msg_queue_head' = msg_queue_head
        /\ msg_queue_tail' = msg_queue_tail
    BY DEF MqWaits, lists
  <1>2. mq \in [Thread -> MqRecord] /\ mq[t].slot = NULL
    BY DEF MqData, MqCalls
  <1>4. /\ mq'[t] = [op |-> "recv", msg |-> NoContent, time |-> time, slot |-> NULL]
        /\ \A u \in Thread \ {t} : mq'[u] = mq[u]
    BY <1>1, <1>2
  <1>5. mq' \in [Thread -> MqRecord]
    BY <1>1, <1>2 DEF MqRecord
  <1>6. pc'[t] = "schedule" /\ \A u \in Thread \ {t} : pc'[u] = pc[u]
    BY <1>1, SuspendEffect DEF SameFor
  <1>7. MqCalls'
    <2>1. \A u \in Thread :
          /\ mq'[u].op \in {"send", "urgent"} <=> pc'[u] \in {"fill", "link"}
          /\ mq'[u].op = "copy" <=> pc'[u] \in {"copy", "release"}
          /\ mq'[u].slot # NULL <=> mq'[u].op \in {"send", "urgent", "copy"}
          /\ mq'[u].slot # NULL /\ pc'[u] # "fill" => content'[mq'[u].slot] = mq'[u].msg
          /\ mq'[u].op = "send" /\ pc'[u] = "link" => next'[mq'[u].slot] = NULL
      <3>1. TAKE u \in Thread
      <3>2. CASE u = t
        BY <1>4, <1>6, <3>2
      <3>3. CASE u # t
        BY <1>1, <1>4, <1>6, <3>3 DEF MqData, MqCalls
      <3> QED BY <3>2, <3>3
    <2>2. \A u, v \in Thread : mq'[u].slot = mq'[v].slot /\ mq'[u].slot # NULL => u = v
      BY <1>4 DEF MqData, MqCalls
    <2> QED BY <1>5, <2>1, <2>2 DEF MqCalls
  <1>8. \A u \in Thread : mq'[u].slot = mq[u].slot
    BY <1>2, <1>4
  <1>9. MqLists(f, q)'
    BY <1>1, <1>8 DEF MqData, MqLists, Hands
  <1>10. MqTypes'
    BY <1>1 DEF MqData, MqTypes
  <1> QED BY <1>7, <1>9, <1>10 DEF MqData

\* Threads go on, and nobody touches a slot.
LEMMA SameData ==
    ASSUME NEW f, NEW q, MqData(f, q), UNCHANGED <<lists, content, mq_entry, mq, received>>,
           \A t \in Thread : pc'[t] = pc[t] \/ (pc[t] = "copy" /\ pc'[t] = "release")
              \/ {pc[t], pc'[t]} \cap MqLabel = {}
    PROVE  MqData(f, q)'
  <1>1. /\ content' = content /\ received' = received /\ next' = next /\ mq_entry' = mq_entry
        /\ msg_queue_free' = msg_queue_free /\ msg_queue_head' = msg_queue_head
        /\ msg_queue_tail' = msg_queue_tail /\ mq' = mq
    BY DEF lists
  <1>2. MqTypes' /\ MqLists(f, q)'
    BY <1>1 DEF MqData, MqTypes, MqLists, Hands
  <1>3. \A t \in Thread :
          /\ mq'[t].op \in {"send", "urgent"} <=> pc'[t] \in {"fill", "link"}
          /\ mq'[t].op = "copy" <=> pc'[t] \in {"copy", "release"}
          /\ mq'[t].slot # NULL <=> mq'[t].op \in {"send", "urgent", "copy"}
          /\ mq'[t].slot # NULL /\ pc'[t] # "fill" => content'[mq'[t].slot] = mq'[t].msg
          /\ mq'[t].op = "send" /\ pc'[t] = "link" => next'[mq'[t].slot] = NULL
    BY <1>1 DEF MqData, MqCalls, MqLabel
  <1>4. MqCalls'
    BY <1>1, <1>3 DEF MqData, MqCalls
  <1> QED BY <1>2, <1>4 DEF MqData

\* A reset puts the queue on the free list.
LEMMA ResetData ==
    ASSUME WaitOK, NEW f, NEW q, MqData(f, q), rt_mq_control
    PROVE  MqData(Stacked(q, f), << >>)'
  <1>0. /\ f \in Seq(Slot) /\ q \in Seq(Slot) /\ IsInjective(q) /\ (q # << >> => Last(q) \in ToSet(q))
        /\ ToSet(f) \subseteq Slot /\ ToSet(q) \subseteq Slot /\ NULL \notin Slot
        /\ msg_queue_free \in Slot \cup {NULL}
    BY MqDataFacts
  <1>1. /\ Linked(msg_queue_free, f, next) /\ Linked(msg_queue_head, q, next)
        /\ ToSet(f) \cap ToSet(q) = {} /\ Hands(ToSet(f) \cup ToSet(q))
        /\ msg_queue_tail = (IF q = << >> THEN NULL ELSE Last(q))
        /\ next \in [Slot -> Slot \cup {NULL}]
        /\ \A t \in Thread : mq[t].slot \in Slot \cup {NULL}
    BY DEF MqData, MqLists, MqTypes, MqCalls, MqRecord
  <1>2. Chain(msg_queue_head) = q
    BY <1>1, ChainIs
  <1>3. /\ next' = [s \in Slot |->
              IF s \notin ToSet(q) THEN next[s] ELSE Before(q, s, msg_queue_free)]
        /\ msg_queue_free' = (IF q = << >> THEN msg_queue_free ELSE Last(q))
        /\ msg_queue_head' = NULL
        /\ msg_queue_tail' = (IF msg_queue_tail \in ToSet(q) THEN NULL ELSE msg_queue_tail)
        /\ mq_entry' = 0 /\ pc' = pc /\ content' = content /\ mq' = mq /\ received' = received
    BY <1>2 DEF rt_mq_control
  <1>4. PICK f2 : f2 = Stacked(q, f)
    OBVIOUS
  <1>5. Linked(msg_queue_free', f2, next') /\ ToSet(f2) = ToSet(q) \cup ToSet(f)
    <2>1. /\ \A s \in ToSet(q) : next'[s] = Before(q, s, msg_queue_free)
          /\ \A s \in ToSet(f) : next'[s] = next[s]
      BY <1>0, <1>1, <1>3
    <2>2. ToSet(q) \cap ToSet(f) = {}
      BY <1>1
    <2> QED BY <1>0, <1>1, <1>3, <1>4, <2>1, <2>2, LinkedStack
  <1>6. next' \in [Slot -> Slot \cup {NULL}]
    <2>1. ASSUME NEW s \in ToSet(q) PROVE Before(q, s, msg_queue_free) \in Slot \cup {NULL}
      <3>1. /\ DOMAIN q = 1 .. Len(q) /\ Len(q) \in Nat /\ \A i \in 1 .. Len(q) : q[i] \in Slot
            /\ \E i \in 1 .. Len(q) : q[i] = s
        BY <1>0, ListIndices
      <3> DEFINE i == CHOOSE k \in DOMAIN q : q[k] = s
      <3>2. i \in 1 .. Len(q)
        BY <3>1
      <3>3. Before(q, s, msg_queue_free) = IF i = 1 THEN msg_queue_free ELSE q[i - 1]
        BY DEF Before
      <3> HIDE DEF i
      <3>4. i # 1 => i - 1 \in 1 .. Len(q)
        BY <3>1, <3>2
      <3> QED BY <1>0, <3>1, <3>3, <3>4
    <2> QED BY <1>1, <1>3, <2>1
  <1>7. /\ \A s : s \notin ToSet(q) /\ s \in Slot => next'[s] = next[s]
        /\ \A t \in Thread : mq[t].slot \notin ToSet(q)
    BY <1>1, <1>3 DEF Hands
  <1>8. MqCalls'
    <2>1. \A t \in Thread :
          /\ mq'[t].op \in {"send", "urgent"} <=> pc'[t] \in {"fill", "link"}
          /\ mq'[t].op = "copy" <=> pc'[t] \in {"copy", "release"}
          /\ mq'[t].slot # NULL <=> mq'[t].op \in {"send", "urgent", "copy"}
          /\ mq'[t].slot # NULL /\ pc'[t] # "fill" => content'[mq'[t].slot] = mq'[t].msg
          /\ mq'[t].op = "send" /\ pc'[t] = "link" => next'[mq'[t].slot] = NULL
      <3>1. TAKE t \in Thread
      <3>2. mq[t].op = "send" => mq[t].slot \in Slot
        BY <1>1 DEF MqData, MqCalls
      <3> QED BY <1>3, <1>7, <3>2 DEF MqData, MqCalls
    <2> QED BY <1>3, <2>1 DEF MqData, MqCalls
  <1>9. MqTypes'
    BY <1>3, <1>6 DEF MqData, MqTypes
  <1>10. Linked(NULL, << >>, next') /\ ToSet(<< >>) = {} /\ Len(<< >>) = 0
    BY EmptyList DEF Linked
  <1>11. msg_queue_tail' = NULL
    BY <1>0, <1>1, <1>3
  <1>12. Hands(ToSet(f2) \cup ToSet(<< >>))'
    <2>1. ToSet(f2) \cup ToSet(<< >>) = ToSet(f) \cup ToSet(q)
      BY <1>5, <1>10
    <2>2. Hands(ToSet(f) \cup ToSet(q))'
      BY <1>1, <1>3 DEF Hands
    <2> QED BY <2>1, <2>2
  <1>13. MqLists(f2, << >>)'
    BY <1>3, <1>5, <1>10, <1>11, <1>12 DEF MqLists
  <1> QED BY <1>4, <1>8, <1>9, <1>13 DEF MqData

\* rt_mq_init links all slots on the free list.
LEMMA MqInitData == ASSUME WaitOK, MqInit, \A t \in Thread : pc[t] \notin MqLabel PROVE \E f : MqData(f, << >>)
  <1> DEFINE o == SetToSeq(Slot)
  <1>0. /\ o \in Seq(Slot) /\ IsInjective(o) /\ ToSet(o) = Slot /\ NULL \notin Slot /\ o # << >>
    <2>1. o \in Seq(Slot) /\ IsInjective(o) /\ ToSet(o) = Slot
      BY MqAssumption, ListedSet
    <2> HIDE DEF o
    <2> QED BY <2>1, MqAssumption, EmptyList
  <1>1. /\ msg_queue_free = Last(o) /\ next = [s \in Slot |-> Before(o, s, NULL)]
        /\ msg_queue_head = NULL /\ msg_queue_tail = NULL
        /\ content = [s \in Slot |-> NoContent] /\ mq_entry = 0
        /\ mq = [t \in Thread |-> [op |-> "none", msg |-> NoContent, time |-> "none", slot |-> NULL]]
        /\ received = NoContent
    BY DEF MqInit, NoMq
  <1> HIDE DEF o
  <1>2. PICK f : f = Stacked(o, << >>)
    OBVIOUS
  <1>3. Linked(NULL, << >>, next) /\ ToSet(<< >>) = {} /\ Len(<< >>) = 0
    BY EmptyList DEF Linked
  <1>4. Linked(msg_queue_free, f, next) /\ ToSet(f) = Slot
    <2>1. \A s \in ToSet(o) : next[s] = Before(o, s, NULL)
      BY <1>0, <1>1
    <2>2. ToSet(o) \cap ToSet(<< >>) = {} /\ \A s \in ToSet(<< >>) : next[s] = next[s]
      BY <1>3
    <2>3. /\ Linked(IF o = << >> THEN NULL ELSE Last(o), f, next)
          /\ ToSet(f) = ToSet(o) \cup ToSet(<< >>)
      BY <1>0, <1>2, <1>3, <2>1, <2>2, LinkedStack
    <2> QED BY <1>0, <1>1, <1>3, <2>3
  <1>5. next \in [Slot -> Slot \cup {NULL}]
    <2>1. ASSUME NEW s \in Slot PROVE Before(o, s, NULL) \in Slot \cup {NULL}
      <3>1. /\ DOMAIN o = 1 .. Len(o) /\ Len(o) \in Nat /\ \A i \in 1 .. Len(o) : o[i] \in Slot
            /\ \E i \in 1 .. Len(o) : o[i] = s
        BY <1>0, ListIndices
      <3> DEFINE i == CHOOSE k \in DOMAIN o : o[k] = s
      <3>2. i \in 1 .. Len(o)
        BY <3>1
      <3>3. Before(o, s, NULL) = IF i = 1 THEN NULL ELSE o[i - 1]
        BY DEF Before
      <3> HIDE DEF i
      <3>4. i # 1 => i - 1 \in 1 .. Len(o)
        BY <3>1, <3>2
      <3> QED BY <1>0, <3>1, <3>3, <3>4
    <2> QED BY <1>1, <2>1
  <1>6. MqTypes
    BY <1>1, <1>5 DEF MqTypes
  <1>7. MqCalls
    BY <1>1 DEF MqCalls, MqRecord, MqLabel
  <1>8. Hands(ToSet(f) \cup ToSet(<< >>))
    BY <1>0, <1>1, <1>3, <1>4 DEF Hands
  <1>9. MqLists(f, << >>)
    BY <1>1, <1>3, <1>4, <1>8 DEF MqLists
  <1> QED BY <1>6, <1>7, <1>9 DEF MqData

MqWait == WaitList(suspend_mq_thread, InMq("recv"), mq_entry, stat, error, pc)

MqInv == (\E f, q : MqData(f, q)) /\ MqWait

\* What the invariant of the message queue says of its list and threads.
LEMMA MqFacts ==
    ASSUME WaitOK, MqInv
    PROVE  /\ WaitList(suspend_mq_thread, InMq("recv"), mq_entry, stat, error, pc)
           /\ mq \in [Thread -> MqRecord] /\ stat \in [Thread -> Status]
           /\ InMq("recv") \subseteq Thread /\ mq_entry \in Int
           /\ suspend_mq_thread \in Seq(Thread)
           /\ \A t \in Thread : stat[t] = "SUSPEND" => pc[t] \in {"schedule", "off"}
           /\ \A t \in Thread : pc[t] \in {"run", "fill", "link", "copy", "release"} =>
                 t \notin InMq("recv")
  <1>1. PICK f, q : MqData(f, q)
    BY DEF MqInv
  <1>2. mq \in [Thread -> MqRecord] /\ mq_entry \in Int
    BY <1>1, MqDataFacts DEF MqData, MqCalls
  <1>3. WaitList(suspend_mq_thread, InMq("recv"), mq_entry, stat, error, pc)
    BY DEF MqInv, MqWait
  <1>4. suspend_mq_thread \in Seq(Thread)
    BY <1>3 DEF WaitList, Queued
  <1>5. \A t \in InMq("recv") : pc[t] \in {"schedule", "off", "check"}
    BY <1>3 DEF WaitList, Calling
  <1>6. \A t \in Thread : pc[t] \in {"run", "fill", "link", "copy", "release"} =>
           t \notin InMq("recv")
    BY <1>5
  <1>7. \A t \in Thread : stat[t] = "SUSPEND" => pc[t] \in {"schedule", "off"}
    BY DEF WaitOK
  <1> QED BY <1>2, <1>3, <1>4, <1>6, <1>7, StatusType DEF InMq

\* What a thread that is not waiting does with a slot changes nothing for those that
\* wait.
LEMMA MqWaitKept ==
    ASSUME WaitOK, MqInv, NEW t \in Thread, stat[t] = "READY", stat' = stat,
           \A u \in Thread \ {t} : pc'[u] = pc[u] /\ error'[u] = error[u] /\ mq'[u] = mq[u],
           mq'[t].op # "recv", suspend_mq_thread' = suspend_mq_thread, mq_entry' \in Int,
           \/ mq_entry' <= mq_entry - 1
           \/ mq_entry' <= 0
           \/ mq_entry' <= mq_entry /\ (t \in InMq("recv") => error[t] # "EOK")
    PROVE  MqWait'
  <1> DEFINE S == InMq("recv")
  <1>1. /\ WaitList(suspend_mq_thread, S, mq_entry, stat, error, pc)
        /\ stat \in [Thread -> Status] /\ S \subseteq Thread /\ mq_entry \in Int
    BY MqFacts
  <1>2. S' = S \ {t}
    BY DEF InMq
  <1> HIDE DEF S
  <1>3. SameFor(S \ {t})
    BY <1>1 DEF SameFor
  <1>4. \/ mq_entry' <= mq_entry - 1
        \/ mq_entry' <= 0
        \/ mq_entry' <= mq_entry /\ (t \in S => error[t] # "EOK")
    BY DEF S
  <1>5. WaitList(suspend_mq_thread, S \ {t}, mq_entry', stat', error', pc')
    BY <1>1, <1>3, <1>4, OneLeaves
  <1> QED BY <1>2, <1>5 DEF MqWait, S

\* A round of rt_mq_recv.
LEMMA RecvRoundWait ==
    ASSUME WaitOK, MqInv, NEW t \in Thread, stat[t] = "READY",
           pc[t] = "run" \/ mq[t].op = "recv", NEW time \in {"none", "ticks", "forever"},
           MqRecvRound(t, time)
    PROVE  MqInv'
  <1>0. PICK f, q : MqData(f, q)
    BY DEF MqInv
  <1>1. /\ mq_entry \in Int /\ mq \in [Thread -> MqRecord]
        /\ pc \in [Thread -> Label]
    BY MqFacts DEF WaitOK
  <1>2. CASE MqUnlinks(t)
    <2>1. MqData(f, Tail(q))'
      BY <1>0, <1>2, UnlinksData
    <2>2. /\ stat' = stat /\ error' = error /\ suspend_mq_thread' = suspend_mq_thread
          /\ mq_entry' = mq_entry - 1 /\ mq'[t].op = "copy"
          /\ \A u \in Thread \ {t} : pc'[u] = pc[u] /\ mq'[u] = mq[u]
      BY <1>1, <1>2 DEF MqUnlinks
    <2>3. mq_entry' \in Int /\ mq_entry' <= mq_entry - 1
      BY <1>1, <2>2
    <2>4. MqWait'
      BY <2>2, <2>3, MqWaitKept
    <2> QED BY <2>1, <2>4 DEF MqInv
  <1>3. CASE mq_entry = 0 /\ MqRecvFails(t)
    <2>1. MqData(f, q)'
      BY <1>0, <1>3, FailsData
    <2>2. /\ stat' = stat /\ suspend_mq_thread' = suspend_mq_thread
          /\ mq_entry' = mq_entry /\ mq'[t].op = "none" /\ Return(t)
          /\ \A u \in Thread \ {t} : mq'[u] = mq[u]
      BY <1>1, <1>3 DEF MqRecvFails, NoMq
    <2>3. \A u \in Thread \ {t} : pc'[u] = pc[u] /\ error'[u] = error[u]
      BY <2>2, ReturnEffect
    <2>4. mq_entry' \in Int /\ mq_entry' <= 0
      BY <1>3, <2>2
    <2>5. MqWait'
      BY <2>2, <2>3, <2>4, MqWaitKept
    <2> QED BY <2>1, <2>5 DEF MqInv
  <1>4. CASE mq_entry = 0 /\ MqWaits(t, time)
    <2> DEFINE S == InMq("recv")
               l == suspend_mq_thread
               l2 == Placed(MqFlag, l, t, Priority)
    <2>1. MqData(f, q)'
      BY <1>0, <1>4, WaitsData
    <2>2. /\ Suspend(t, time) /\ Fail({t}, "EOK") /\ suspend_mq_thread' = l2
          /\ mq_entry' = mq_entry /\ mq'[t].op = "recv"
          /\ \A u \in Thread \ {t} : mq'[u] = mq[u]
      BY <1>1, <1>4 DEF MqWaits
    <2>3. /\ stat'[t] = "SUSPEND" /\ error'[t] = "EOK" /\ pc'[t] = "schedule"
          /\ SameFor(Thread \ {t})
      BY <2>2, SuspendEffect
    <2>4. /\ WaitList(l, S, mq_entry, stat, error, pc)
          /\ stat \in [Thread -> Status] /\ S \subseteq Thread /\ l \in Seq(Thread)
      BY MqFacts
    <2>5. S' = S \cup {t}
      BY <2>2 DEF InMq
    <2>6. /\ l2 \in Seq(Thread) /\ ToSet(l2) = ToSet(l) \cup {t}
          /\ t \notin ToSet(l) /\ IsInjective(l) => IsInjective(l2)
      BY <2>4, PlacedList
    <2> HIDE DEF S, l, l2
    <2>7. SameFor(S \ {t}) /\ mq_entry <= 0
      BY <1>4, <2>3, <2>4 DEF SameFor
    <2>8. WaitList(l2, S \cup {t}, mq_entry, stat', error', pc')
      BY <1>1, <2>3, <2>4, <2>6, <2>7, ListJoined
    <2>9. MqWait'
      BY <2>2, <2>5, <2>8 DEF MqWait, S
    <2> QED BY <2>1, <2>9 DEF MqInv
  <1> QED BY <1>2, <1>3, <1>4 DEF MqRecvRound

\* Every step of the message queue keeps its invariant.
LEMMA MqStepInv == ASSUME WaitOK, MqInv, MqStep PROVE MqInv'
  <1>0. PICK f, q : MqData(f, q)
    BY DEF MqInv
  <1>f. /\ WaitList(suspend_mq_thread, InMq("recv"), mq_entry, stat, error, pc)
        /\ mq \in [Thread -> MqRecord] /\ stat \in [Thread -> Status] /\ pc \in [Thread -> Label]
        /\ InMq("recv") \subseteq Thread /\ mq_entry \in Int
        /\ \A t \in Thread : stat[t] = "SUSPEND" => pc[t] \in {"schedule", "off"}
        /\ \A t \in Thread : pc[t] \in {"run", "fill", "link", "copy", "release"} =>
              t \notin InMq("recv") /\ stat[t] = "READY"
    <2>1. pc \in [Thread -> Label]
      BY DEF WaitOK
    <2>2. stat \in [Thread -> Status] /\ \A t \in Thread : stat[t] = "SUSPEND" => pc[t] \in {"schedule", "off"}
      BY MqFacts
    <2>3. \A t \in Thread : pc[t] \in {"run", "fill", "link", "copy", "release"} => stat[t] = "READY"
      BY <2>2 DEF Status
    <2> QED BY <2>1, <2>3, MqFacts
  <1>1. ASSUME NEW t \in Thread, NEW c \in Call[t].mq_send, MqSendTakes(t, c.op, c.msg)
        PROVE  MqInv'
    <2>1. c \in [op : {"send", "urgent"}, msg : Content]
      BY CallAssumption
    <2>2. c.op \in {"send", "urgent"} /\ c.msg \in Content
      BY <2>1
    <2>3. MqData(Tail(f), q)'
      BY <1>0, <1>1, <2>2, TakesData
    <2>4. /\ pc[t] = "run" /\ stat' = stat /\ error' = error /\ mq'[t].op # "recv"
          /\ mq_entry' = mq_entry /\ suspend_mq_thread' = suspend_mq_thread
          /\ \A u \in Thread \ {t} : pc'[u] = pc[u] /\ mq'[u] = mq[u]
      BY <1>1, <1>f, <2>2 DEF MqSendTakes
    <2>5. stat[t] = "READY" /\ mq_entry' \in Int /\ mq_entry' <= mq_entry /\ t \notin InMq("recv")
      BY <1>f, <2>4
    <2>6. MqWait'
      BY <2>4, <2>5, MqWaitKept
    <2> QED BY <2>3, <2>6 DEF MqInv
  <1>2. ASSUME NEW t \in Thread, NEW time \in Call[t].mq_recv, rt_mq_recv(t, time) PROVE MqInv'
    <2>1. time \in {"none", "ticks", "forever"}
      BY CallAssumption, IpcAssumption
    <2>2. pc[t] = "run" /\ MqRecvRound(t, time) /\ stat[t] = "READY"
      BY <1>2, <1>f DEF rt_mq_recv
    <2> QED BY <2>1, <2>2, RecvRoundWait
  <1>3. ASSUME NEW t \in Thread, MqBack(t) PROVE MqInv'
    <2>1. pc[t] = "check" /\ mq[t].op = "recv"
      BY <1>3 DEF MqBack
    <2>2. stat[t] = "READY" /\ mq[t].time \in {"none", "ticks", "forever"}
      BY <1>f, <2>1 DEF MqRecord, Status
    <2>3. CASE error[t] # "EOK" /\ MqRecvFails(t)
      <3>1. MqData(f, q)'
        BY <1>0, <2>1, <2>3, FailsData
      <3>2. /\ stat' = stat /\ suspend_mq_thread' = suspend_mq_thread
            /\ mq_entry' = mq_entry /\ mq'[t].op = "none" /\ Return(t)
            /\ \A u \in Thread \ {t} : mq'[u] = mq[u]
        BY <1>f, <2>3 DEF MqRecvFails, NoMq
      <3>3. \A u \in Thread \ {t} : pc'[u] = pc[u] /\ error'[u] = error[u]
        BY <3>2, ReturnEffect
      <3>4. mq_entry' \in Int /\ mq_entry' <= mq_entry
        BY <1>f, <3>2
      <3>5. MqWait'
        BY <2>2, <2>3, <3>2, <3>3, <3>4, MqWaitKept
      <3> QED BY <3>1, <3>5 DEF MqInv
    <2>4. ASSUME NEW time \in IF mq[t].time = "ticks" THEN {"none", "ticks"} ELSE {mq[t].time},
                 MqRecvRound(t, time)
          PROVE  MqInv'
      <3>1. time \in {"none", "ticks", "forever"}
        BY <2>2
      <3> QED BY <2>1, <2>2, <2>4, <3>1, RecvRoundWait
    <2> QED BY <1>3, <2>3, <2>4 DEF MqBack
  <1>4. ASSUME NEW t \in Thread, MqSendFills(t) \/ MqCopies(t) PROVE MqInv'
    <2>1. MqData(f, q)'
      <3>1. CASE MqSendFills(t)
        BY <1>0, <3>1, FillsData
      <3>2. CASE MqCopies(t)
        <4>1. /\ UNCHANGED <<lists, content, mq_entry, mq, received>>
              /\ \A u \in Thread : pc'[u] = pc[u] \/ (pc[u] = "copy" /\ pc'[u] = "release")
          BY <1>f, <3>2 DEF MqCopies, mqvars
        <4> QED BY <1>0, <4>1, SameData
      <3> QED BY <1>4, <3>1, <3>2
    <2>2. /\ pc[t] \in {"fill", "copy"} /\ stat' = stat /\ error' = error /\ mq' = mq
          /\ mq_entry' = mq_entry /\ suspend_mq_thread' = suspend_mq_thread
          /\ \A u \in Thread \ {t} : pc'[u] = pc[u]
      BY <1>4, <1>f DEF MqSendFills, MqCopies, mqvars
    <2>3. /\ stat[t] = "READY" /\ mq_entry' \in Int /\ mq_entry' <= mq_entry /\ t \notin InMq("recv")
          /\ mq'[t].op # "recv"
      BY <1>f, <2>2 DEF InMq
    <2>4. MqWait'
      BY <2>2, <2>3, MqWaitKept
    <2> QED BY <2>1, <2>4 DEF MqInv
  <1>5. ASSUME NEW t \in Thread, MqReleases(t) PROVE MqInv'
    <2>1. \E f2 : MqData(f2, q)'
      BY <1>0, <1>5, ReleasesData
    <2>2. /\ pc[t] = "release" /\ stat' = stat /\ mq'[t].op = "none" /\ Return(t)
          /\ mq_entry' = mq_entry /\ suspend_mq_thread' = suspend_mq_thread
          /\ \A u \in Thread \ {t} : mq'[u] = mq[u]
      BY <1>5, <1>f DEF MqReleases, NoMq
    <2>3. \A u \in Thread \ {t} : pc'[u] = pc[u] /\ error'[u] = error[u]
      BY <2>2, ReturnEffect
    <2>4. stat[t] = "READY" /\ mq_entry' \in Int /\ mq_entry' <= mq_entry /\ t \notin InMq("recv")
      BY <1>f, <2>2
    <2>5. MqWait'
      BY <2>2, <2>3, <2>4, MqWaitKept
    <2> QED BY <2>1, <2>5 DEF MqInv
  <1>6. ASSUME NEW t \in Thread, MqSendLinks(t) PROVE MqInv'
    <2> DEFINE S == InMq("recv")
               l == suspend_mq_thread
    <2>1. \E q2 : MqData(f, q2)'
      BY <1>0, <1>6, LinksData
    <2>2. /\ pc[t] = "link" /\ mq'[t].op = "none" /\ Return(t)
          /\ mq_entry' = mq_entry + 1
          /\ IF l # << >> THEN Resume({Head(l)}) /\ suspend_mq_thread' = Tail(l)
                          ELSE stat' = stat /\ suspend_mq_thread' = l
          /\ \A u \in Thread \ {t} : mq'[u] = mq[u]
      BY <1>6, <1>f DEF MqSendLinks, NoMq
    <2>3. \A u \in Thread \ {t} : pc'[u] = pc[u] /\ error'[u] = error[u]
      BY <2>2, ReturnEffect
    <2>4. t \notin S /\ mq_entry' \in Int /\ mq_entry' <= mq_entry + 1
      BY <1>f, <2>2
    <2>5. S' = S
      BY <2>2, <2>4 DEF InMq
    <2>6. /\ WaitList(l, S, mq_entry, stat, error, pc)
          /\ \A u \in S : error'[u] = error[u] /\ pc'[u] = pc[u]
      BY <1>f, <2>3, <2>4
    <2> HIDE DEF S, l
    <2>7. WaitList(suspend_mq_thread', S, mq_entry', stat', error', pc')
      BY <1>f, <2>2, <2>4, <2>6, Served
    <2>8. MqWait'
      BY <2>5, <2>7 DEF MqWait, S
    <2> QED BY <2>1, <2>8 DEF MqInv
  <1>7. CASE rt_mq_control
    <2> DEFINE S == InMq("recv")
               l == suspend_mq_thread
    <2>1. MqData(Stacked(q, f), << >>)'
      BY <1>0, <1>7, ResetData
    <2>2. /\ Resume(ToSet(l)) /\ suspend_mq_thread' = << >> /\ pc' = pc /\ mq' = mq
      BY <1>7 DEF rt_mq_control
    <2>3. WaitList(l, S, mq_entry, stat, error, pc) /\ S' = S
      BY <1>f, <2>2 DEF InMq
    <2>4. \A u \in Thread : stat'[u] = IF u \in ToSet(l) THEN "READY" ELSE stat[u]
      BY <2>2, ResumeEffect
    <2>5. \A u \in S : stat'[u] # "SUSPEND" /\ pc'[u] = pc[u]
      BY <1>f, <2>2, <2>3, <2>4 DEF WaitList, Queued
    <2> HIDE DEF S, l
    <2>6. WaitList(<< >>, S, mq_entry', stat', error', pc')
      BY <2>3, <2>5, ListCleared
    <2>7. MqWait'
      BY <2>2, <2>3, <2>6 DEF MqWait, S
    <2> QED BY <2>1, <2>7 DEF MqInv
  <1> QED BY <1>1, <1>2, <1>3, <1>4, <1>5, <1>6, <1>7 DEF MqStep, MqNext, MqSection

\* A thread that goes on or times out keeps it.
LEMMA MqOthersInv ==
    ASSUME Base, MqInv, NEW t \in Thread, Proceed(t) \/ Timeout(t) PROVE MqInv'
  <1> DEFINE S == InMq("recv")
             l == suspend_mq_thread
  <1>0. PICK f, q : MqData(f, q)
    BY DEF MqInv
  <1>1. /\ WaitList(l, S, mq_entry, stat, error, pc) /\ mq_entry \in Int
        /\ stat \in [Thread -> Status] /\ WaitOK
    BY MqFacts DEF Base
  <1>2. CASE Proceed(t)
    <2>1. UNCHANGED mqvars
      BY <1>2 DEF Proceed, NotMail, Drivers
    <2>2. UNCHANGED <<lists, content, mq_entry, mq, received>> /\ suspend_mq_thread' = l /\ S' = S
      BY <2>1 DEF mqvars, InMq
    <2>3. \A u \in Thread : pc'[u] = pc[u] \/ {pc[u], pc'[u]} \cap MqLabel = {}
      BY <1>1, <1>2 DEF Proceed, rt_schedule, SwitchBack, WaitOK, MqLabel
    <2>4. MqData(f, q)'
      BY <1>0, <2>2, <2>3, SameData
    <2> HIDE DEF S, l
    <2>5. WaitList(l, S, mq_entry, stat', error', pc')
      BY <1>1, <1>2, ListProceeds
    <2> QED BY <2>2, <2>4, <2>5 DEF MqInv, MqWait, S
  <1>3. CASE Timeout(t)
    <2>1. MqUnlink(t)
      BY <1>3 DEF Timeout
    <2>2. /\ UNCHANGED <<lists, content, mq_entry, mq, received>>
          /\ suspend_mq_thread' = RemoveFirst(l, t) /\ S' = S
      BY <2>1 DEF MqUnlink, InMq
    <2>3. /\ stat[t] = "SUSPEND" /\ stat'[t] = "READY" /\ error'[t] = "ETIMEOUT"
          /\ pc' = pc /\ SameFor(Thread \ {t})
      BY <1>3, TimeoutEffect
    <2>4. MqData(f, q)'
      BY <1>0, <2>2, <2>3, SameData
    <2> HIDE DEF S, l
    <2>5. WaitList(RemoveFirst(l, t), S, mq_entry, stat', error', pc')
      BY <1>1, <2>3, OneTimesOut
    <2> QED BY <2>2, <2>4, <2>5 DEF MqInv, MqWait, S
  <1> QED BY <1>2, <1>3

\* rt_mq_init.
LEMMA MqInitInv == ASSUME WaitOK, MqInit, \A t \in Thread : pc[t] \notin MqLabel PROVE MqInv
  <1>1. \E f : MqData(f, << >>)
    BY MqInitData
  <1>2. InMq("recv") = {} /\ suspend_mq_thread = << >>
    BY DEF MqInit, NoMq, InMq
  <1>3. WaitList(<< >>, {}, mq_entry, stat, error, pc)
    BY EmptyList DEF WaitList, Queued, Calling, Awaited
  <1> QED BY <1>1, <1>2, <1>3 DEF MqInv, MqWait

\* Disjoint sets are counted one after the other.
LEMMA DisjointUnion ==
    ASSUME NEW S, NEW T, IsFiniteSet(S), IsFiniteSet(T), S \cap T = {}
    PROVE  IsFiniteSet(S \cup T) /\ Cardinality(S \cup T) = Cardinality(S) + Cardinality(T)
  <1>1. /\ IsFiniteSet(S \cup T)
        /\ Cardinality(S \cup T) = Cardinality(S) + Cardinality(T) - Cardinality(S \cap T)
    BY FS_Union, Zenon
  <1>2. Cardinality(S \cap T) = 0
    BY FS_EmptySet
  <1>3. Cardinality(S) \in Nat /\ Cardinality(T) \in Nat
    BY FS_CardinalityType
  <1> QED BY <1>1, <1>2, <1>3

\* The invariant of the message queue says that slots are conserved and no wake-up is
\* lost.
LEMMA MqInvMeans == ASSUME MqInv PROVE MqTypeOK /\ NoLostMessage /\ ChainsExact
  <1>0. PICK f, q : MqData(f, q)
    BY DEF MqInv
  <1>1. /\ f \in Seq(Slot) /\ q \in Seq(Slot) /\ IsInjective(f) /\ IsInjective(q)
        /\ ToSet(f) \subseteq Slot /\ ToSet(q) \subseteq Slot /\ NULL \notin Slot
        /\ (q # << >> => Last(q) \in ToSet(q))
        /\ msg_queue_free \in Slot \cup {NULL} /\ msg_queue_head \in Slot \cup {NULL}
    BY <1>0, MqDataFacts
  <1>2. /\ MqTypes /\ MqCalls /\ mq_entry = Len(q) /\ ToSet(f) \cap ToSet(q) = {}
        /\ msg_queue_tail = (IF q = << >> THEN NULL ELSE Last(q))
        /\ Linked(msg_queue_free, f, next) /\ Linked(msg_queue_head, q, next)
        /\ Hands(ToSet(f) \cup ToSet(q))
    BY <1>0 DEF MqData, MqLists
  <1>3. /\ IsFiniteSet(ToSet(f)) /\ Cardinality(ToSet(f)) = Len(f)
        /\ IsFiniteSet(ToSet(q)) /\ Cardinality(ToSet(q)) = Len(q) /\ Len(q) <= Cardinality(Slot)
        /\ Len(q) \in Nat /\ Len(f) \in Nat /\ Cardinality(Slot) \in Nat
    BY <1>1, CountedList, ListIndices, MqAssumption, FS_CardinalityType
  <1>4. MqTypeOK
    <2>1. mq_entry \in 0 .. Cardinality(Slot)
      BY <1>2, <1>3
    <2>2. suspend_mq_thread \in Seq(Thread)
      BY DEF MqInv, MqWait, WaitList, Queued
    <2>3. msg_queue_tail \in Slot \cup {NULL}
      BY <1>1, <1>2
    <2> QED BY <1>1, <1>2, <2>1, <2>2, <2>3 DEF MqTypeOK, MqTypes, MqCalls, MqRecord
  <1>5. NoLostMessage
    <2>1. MqWoken = Woke(InMq("recv"), stat, error)
      BY DEF MqWoken, Woke
    <2> QED BY <2>1 DEF MqInv, MqWait, WaitList, Awaited, NoLostMessage
  <1>6. Chain(msg_queue_free) = f /\ Chain(msg_queue_head) = q
    BY <1>2, ChainIs
  <1> DEFINE H == {mq[t].slot : t \in Handlers}
  <1>7. \A s \in Slot : s \in H <=> s \notin ToSet(f) \cup ToSet(q)
    BY <1>1, <1>2 DEF Hands, Handlers
  <1>8. H \subseteq Slot
    BY <1>2 DEF MqCalls, MqRecord, Handlers
  <1>9. ToSet(f) \cup ToSet(q) \cup H = Slot /\ (ToSet(f) \cup ToSet(q)) \cap H = {}
    BY <1>1, <1>7, <1>8
  <1>10. IsFiniteSet(H) /\ Cardinality(H) = Cardinality(Handlers) /\ Cardinality(H) \in Nat
    <2>1. IsFiniteSet(Handlers)
      <3>1. Handlers \subseteq Thread
        BY DEF Handlers
      <3> QED BY <3>1, IpcAssumption, FS_Subset
    <2> DEFINE g == [t \in Handlers |-> mq[t].slot]
    <2>2. g \in Bijection(Handlers, H)
      BY <1>2 DEF MqCalls, Handlers, Bijection, Injection, Surjection, IsInjective
    <2> HIDE DEF g, H
    <2>3. ExistsBijection(Handlers, H)
      BY <2>2 DEF ExistsBijection
    <2>4. IsFiniteSet(H) /\ Cardinality(H) = Cardinality(Handlers)
      BY <2>1, <2>3, FS_Bijection
    <2> QED BY <2>4, FS_CardinalityType
  <1> HIDE DEF H
  <1>11. Len(f) + Len(q) + Cardinality(Handlers) = Cardinality(Slot)
    <2> DEFINE A == ToSet(f)
               B == ToSet(q)
               C == A \cup B
    <2>0. IsFiniteSet(A) /\ IsFiniteSet(B) /\ A \cap B = {}
      BY <1>2, <1>3
    <2>c. C \cap H = {} /\ C \cup H = Slot /\ Cardinality(A) = Len(f) /\ Cardinality(B) = Len(q)
      BY <1>3, <1>9
    <2> HIDE DEF A, B
    <2>1. IsFiniteSet(C) /\ Cardinality(C) = Cardinality(A) + Cardinality(B)
      BY <2>0, DisjointUnion
    <2> HIDE DEF C
    <2>2. Cardinality(C \cup H) = Cardinality(C) + Cardinality(H)
      BY <1>10, <2>1, <2>c, DisjointUnion
    <2> QED BY <1>3, <1>10, <2>1, <2>2, <2>c
  <1>12. \A t \in Handlers : pc[t] # "fill" => content[mq[t].slot] = mq[t].msg
    BY <1>2 DEF MqCalls, Handlers
  <1>13. ChainsExact
    BY <1>2, <1>6, <1>9, <1>11, <1>12 DEF ChainsExact, H
  <1> QED BY <1>4, <1>5, <1>13

=============================================================================
