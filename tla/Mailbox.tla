------------------------------ MODULE Mailbox --------------------------------
(***************************************************************************)
(* The mailbox of src/ipc.c: a ring of messages, a list of threads that    *)
(* wait for one and a list of threads that wait for room.  A thread that   *)
(* is resumed looks again, and may find that another one was faster.       *)
(***************************************************************************)
EXTENDS IpcWait

CONSTANTS
    Msg, NoMsg,
    Size,        \* mb->size
    MailFlag     \* the order of its lists, "FIFO" or "PRIO"

ASSUME MailAssumption == Size \in Nat \ {0} /\ NoMsg \notin Msg

VARIABLES
    msg_pool, in_offset, out_offset, entry,
    suspend_thread,          \* threads that wait for a message
    suspend_sender_thread,   \* threads that wait for room
    mail,                    \* per thread: the call it is in
    value                    \* *value of the last rt_mb_recv that got a message

ring == <<msg_pool, in_offset, out_offset, entry>>
mbvars == <<ring, suspend_thread, suspend_sender_thread, mail, value>>

NoMail == [op |-> "none", msg |-> NoMsg, time |-> "none"]

\* The call of t returns.
MailReturns(t) ==
    /\ Return(t)
    /\ mail' = [mail EXCEPT ![t] = NoMail]

\* The waiting time that is left when a thread is back.
TimeLeft(time) == IF time = "ticks" THEN {"none", "ticks"} ELSE {time}

-----------------------------------------------------------------------------
(* Sending.                                                                *)

\* The message goes into the ring and the first thread that waits is resumed.
Deposit(m) ==
    /\ entry < Size
    /\ msg_pool' = [msg_pool EXCEPT ![in_offset] = m]
    /\ in_offset' = (in_offset + 1) % Size
    /\ entry' = entry + 1
    /\ IF suspend_thread # << >>
       THEN Resume({Head(suspend_thread)}) /\ suspend_thread' = Tail(suspend_thread)
       ELSE UNCHANGED <<stat, timer, suspend_thread>>
    /\ UNCHANGED <<out_offset, suspend_sender_thread, value>>

SenderWaits(t, m, time) ==
    /\ Suspend(t, time)
    /\ Fail({t}, "EOK")
    /\ suspend_sender_thread' = Placed(MailFlag, suspend_sender_thread, t, Priority)
    /\ mail' = [mail EXCEPT ![t] = [op |-> "send", msg |-> m, time |-> time]]
    /\ UNCHANGED <<ring, suspend_thread, value>>

\* One round of rt_mb_send_wait under the lock.
SendRound(t, m, time) ==
    \/ Deposit(m) /\ MailReturns(t)
    \/ /\ entry = Size /\ time = "none"
       /\ MailReturns(t)
       /\ UNCHANGED <<stat, timer, ring, suspend_thread, suspend_sender_thread, value>>
    \/ entry = Size /\ time # "none" /\ SenderWaits(t, m, time)

rt_mb_send_wait(t, m, time) ==
    /\ pc[t] = "run"
    /\ SendRound(t, m, time)
    /\ UNCHANGED <<sig, delivering>>

\* rt_mb_send of an interrupt handler; it changes nothing if there is no room.
rt_mb_send(m) == Deposit(m) /\ UNCHANGED <<error, pc, sig, delivering, mail>>

-----------------------------------------------------------------------------
(* Receiving.                                                              *)

WithdrawReadsLate ==
    /\ entry > 0
    /\ value' = msg_pool[(out_offset + 1) % Size]
    /\ out_offset' = (out_offset + 1) % Size
    /\ entry' = entry - 1
    /\ IF suspend_sender_thread # << >>
       THEN /\ Resume({Head(suspend_sender_thread)})
            /\ suspend_sender_thread' = Tail(suspend_sender_thread)
       ELSE UNCHANGED <<stat, timer, suspend_sender_thread>>
    /\ UNCHANGED <<msg_pool, in_offset, suspend_thread>>

\* The oldest message is handed over and the first waiting sender is resumed.
Withdraw ==
    /\ entry > 0
    /\ value' = msg_pool[out_offset]
    /\ out_offset' = (out_offset + 1) % Size
    /\ entry' = entry - 1
    /\ IF suspend_sender_thread # << >>
       THEN /\ Resume({Head(suspend_sender_thread)})
            /\ suspend_sender_thread' = Tail(suspend_sender_thread)
       ELSE UNCHANGED <<stat, timer, suspend_sender_thread>>
    /\ UNCHANGED <<msg_pool, in_offset, suspend_thread>>

ReceiverWaits(t, time) ==
    /\ Suspend(t, time)
    /\ Fail({t}, "EOK")
    /\ suspend_thread' = Placed(MailFlag, suspend_thread, t, Priority)
    /\ mail' = [mail EXCEPT ![t] = [op |-> "recv", msg |-> NoMsg, time |-> time]]
    /\ UNCHANGED <<ring, suspend_sender_thread, value>>

\* One round of rt_mb_recv under the lock.
RecvRound(t, time) ==
    \/ Withdraw /\ MailReturns(t)
    \/ /\ entry = 0 /\ time = "none"
       /\ MailReturns(t)
       /\ UNCHANGED <<stat, timer, ring, suspend_thread, suspend_sender_thread, value>>
    \/ entry = 0 /\ time # "none" /\ ReceiverWaits(t, time)

rt_mb_recv(t, time) ==
    /\ pc[t] = "run"
    /\ RecvRound(t, time)
    /\ UNCHANGED <<sig, delivering>>

-----------------------------------------------------------------------------
\* A thread is back from rt_schedule, with an error or to look again.
MailBack(t) ==
    /\ pc[t] = "check" /\ mail[t].op # "none"
    /\ \/ /\ error[t] # "EOK"
          /\ MailReturns(t)
          /\ UNCHANGED <<stat, timer, ring, suspend_thread, suspend_sender_thread, value>>
       \/ /\ error[t] = "EOK"
          /\ \E time \in TimeLeft(mail[t].time) :
                \/ mail[t].op = "send" /\ SendRound(t, mail[t].msg, time)
                \/ mail[t].op = "recv" /\ RecvRound(t, time)
    /\ UNCHANGED <<sig, delivering>>

\* rt_mb_control with RT_IPC_CMD_RESET.
rt_mb_control ==
    LET waiting == ToSet(suspend_thread) \cup ToSet(suspend_sender_thread) IN
    /\ Resume(waiting) /\ Fail(waiting, "ERROR")
    /\ suspend_thread' = << >> /\ suspend_sender_thread' = << >>
    /\ entry' = 0 /\ in_offset' = 0 /\ out_offset' = 0
    /\ UNCHANGED <<pc, sig, delivering, msg_pool, mail, value>>

\* What resumes a thread otherwise takes it off the list it is on.
MailUnlink(t) ==
    /\ suspend_thread' = RemoveFirst(suspend_thread, t)
    /\ suspend_sender_thread' = RemoveFirst(suspend_sender_thread, t)
    /\ UNCHANGED <<ring, mail, value>>

\* rt_mb_init
MailInit ==
    /\ msg_pool = [i \in 0 .. Size - 1 |-> NoMsg]
    /\ in_offset = 0 /\ out_offset = 0 /\ entry = 0
    /\ suspend_thread = << >> /\ suspend_sender_thread = << >>
    /\ mail = [t \in Thread |-> NoMail]
    /\ value = NoMsg

-----------------------------------------------------------------------------
(* Properties.                                                             *)

\* Type invariant.
MailTypeOK ==
    /\ msg_pool \in [0 .. Size - 1 -> Msg \cup {NoMsg}]
    /\ in_offset \in 0 .. Size - 1 /\ out_offset \in 0 .. Size - 1
    /\ entry \in 0 .. Size
    /\ suspend_thread \in Seq(Thread) /\ suspend_sender_thread \in Seq(Thread)
    /\ mail \in [Thread -> [op : {"none", "send", "recv"}, msg : Msg \cup {NoMsg}, time : {"none", "ticks", "forever"}]]
    /\ value \in Msg \cup {NoMsg}

InCall(op) == {t \in Thread : mail[t].op = op}

\* The threads of such a call that were resumed to look again.
Woken(op) == {t \in InCall(op) : stat[t] = "READY" /\ error[t] = "EOK"}

\* No wake-up is lost: while a thread waits for a message, every message that
\* is there has a thread on its way that was resumed for it; while a thread
\* waits for room, so has every free place.  A thread that was resumed may lose
\* its message to a faster one, and a timeout may race with the wake-up.
NoLostMail ==
    /\ suspend_thread # << >> => entry <= Cardinality(Woken("recv"))
    /\ suspend_sender_thread # << >> => Size - entry <= Cardinality(Woken("send"))

\* The mailbox is a channel.
MailQueue == [i \in 1 .. entry |-> msg_pool[(out_offset + i - 1) % Size]]

=============================================================================
