-------------------------------- MODULE Pipe ---------------------------------
(***************************************************************************)
(* The pipe of components/drivers/src/pipe.c as a file: a ring buffer, a   *)
(* mutex and two wait queues (waitqueue.c).  A thread gives the mutex up   *)
(* before it goes to sleep; the flag of the wait queue is what keeps a     *)
(* wake-up of the time in between.                                         *)
(*                                                                         *)
(* What is done under pipe->lock is one step, with the wake-ups inside:    *)
(* rt_wqueue_wakeup only touches the queue, and the rest only the pipe.    *)
(***************************************************************************)
EXTENDS IpcWait, RingBuffer

VARIABLES
    readers, writers, ref_count,
    waiting_list,   \* per wait queue ("reader" and "writer"): the threads in it
    wq_flag,        \* the wait queues whose flag is RT_WQ_FLAG_WAKEUP
    fd,             \* per thread: how it has opened the pipe, {} if it has not
    io              \* per thread: the call it is in and the bytes left to do

pipevars == <<readers, writers, ref_count, waiting_list, wq_flag, fd, io>>

NoIo == [op |-> "none", left |-> 0, nonblock |-> FALSE, wakeup |-> FALSE]
Queue == {"reader", "writer"}

-----------------------------------------------------------------------------
(* Wait queues.                                                            *)

\* rt_wqueue_wakeup of each queue in Q.
rt_wqueue_wakeup(Q) ==
    LET woken == {q \in Q : waiting_list[q] # << >>} IN
    /\ wq_flag' = wq_flag \cup Q
    /\ Resume({Head(waiting_list[q]) : q \in woken})
    /\ waiting_list' = [q \in Queue |-> IF q \in woken THEN Tail(waiting_list[q])
                                                       ELSE waiting_list[q]]

\* A wait that only trusts its caller's test.
WaitIgnoresFlag(t, q) ==
    /\ waiting_list' = [waiting_list EXCEPT ![q] = Append(@, t)]
    /\ Suspend(t, "forever")
    /\ UNCHANGED wq_flag

\* rt_wqueue_wait up to its rt_schedule; if the queue was woken it ends here.
rt_wqueue_wait(t, q) ==
    IF q \in wq_flag
    THEN /\ wq_flag' = wq_flag \ {q}
         /\ pc' = [pc EXCEPT ![t] = "lock"]
         /\ UNCHANGED <<stat, timer, waiting_list>>
    ELSE /\ waiting_list' = [waiting_list EXCEPT ![q] = Append(@, t)]
         /\ Suspend(t, "forever")
         /\ UNCHANGED wq_flag

\* The queue a thread waits in, and the one it wakes up.
Own(t) == IF io[t].op = "read" THEN "reader" ELSE "writer"
Other(t) == IF io[t].op = "read" THEN "writer" ELSE "reader"

-----------------------------------------------------------------------------
(* Open and close.                                                         *)

Counts(n, mode, m) == n + (IF m \in mode THEN 1 ELSE 0)

pipe_fops_open(t, mode) ==
    /\ pc[t] = "run" /\ fd[t] = {}
    /\ IF ref_count = 0 THEN RingCreate ELSE UNCHANGED ringvars
    /\ readers' = Counts(readers, mode, "read")
    /\ writers' = Counts(writers, mode, "write")
    /\ ref_count' = ref_count + 1
    /\ fd' = [fd EXCEPT ![t] = mode]
    /\ UNCHANGED <<waitvars, waiting_list, wq_flag, io>>

\* The last one to close the pipe destroys the ring buffer; the next to open it
\* makes a new one.
pipe_fops_close(t) ==
    /\ pc[t] = "run" /\ fd[t] # {}
    /\ readers' = readers - Counts(0, fd[t], "read")
    /\ writers' = writers - Counts(0, fd[t], "write")
    /\ ref_count' = ref_count - 1
    /\ rt_wqueue_wakeup({q \in Queue : \/ q = "reader" /\ writers' = 0
                                       \/ q = "writer" /\ readers' = 0})
    /\ fd' = [fd EXCEPT ![t] = {}]
    /\ UNCHANGED <<pc, error, sig, delivering, ringvars, io>>

-----------------------------------------------------------------------------
(* Read and write.                                                         *)

Begins(t, call) ==
    /\ io' = [io EXCEPT ![t] = call]
    /\ pc' = [pc EXCEPT ![t] = "lock"]

\* Both look at the other side without the lock first.
PipeCall(t, op, count, nonblock) ==
    /\ pc[t] = "run" /\ op \in fd[t]
    /\ \/ op = "read" /\ writers > 0
       \/ op = "write" /\ readers > 0 /\ count > 0
    /\ Begins(t, [op |-> op, left |-> count, nonblock |-> nonblock, wakeup |-> FALSE])
    /\ UNCHANGED <<stat, timer, error, sig, delivering, ringvars,
                   readers, writers, ref_count, waiting_list, wq_flag, fd>>

PipeReturns(t) == pc' = [pc EXCEPT ![t] = "run"] /\ io' = [io EXCEPT ![t] = NoIo]

PipeGoes(t, place) == pc' = [pc EXCEPT ![t] = place] /\ UNCHANGED io

\* A round of pipe_fops_read under the lock.
ReadRound(t) ==
    /\ pc[t] = "lock" /\ io[t].op = "read"
    /\ LET some == writers > 0 /\ Got(rb, io[t].left) > 0 IN
       /\ IF some THEN RingGet(io[t].left) ELSE UNCHANGED ringvars
       /\ IF some THEN rt_wqueue_wakeup({"writer"})
                  ELSE UNCHANGED <<stat, timer, waiting_list, wq_flag>>
       /\ IF some \/ writers = 0 \/ io[t].nonblock THEN PipeReturns(t)
                                                   ELSE PipeGoes(t, "wake")

\* A round of pipe_fops_write under the lock; a call that has come to the put ends
\* with a wake-up.
WriteRound(t) ==
    /\ pc[t] = "lock" /\ io[t].op = "write"
    /\ IF readers = 0
       THEN /\ UNCHANGED ringvars
            /\ IF io[t].wakeup THEN PipeGoes(t, "last wake") ELSE PipeReturns(t)
       ELSE LET s == Fresh(io[t].left)
                left == io[t].left - Len(Accepted(rb, s))
            IN  /\ RingPut(s)
                /\ io' = [io EXCEPT ![t].left = left, ![t].wakeup = TRUE]
                /\ pc' = [pc EXCEPT ![t] = IF left = 0 \/ io[t].nonblock THEN "last wake"
                                                                         ELSE "wake"]
    /\ UNCHANGED <<stat, timer, waiting_list, wq_flag>>

\* The wake-up after the release of the lock: before the wait, or at the end.
PipeWakes(t) ==
    /\ pc[t] \in {"wake", "last wake"}
    /\ rt_wqueue_wakeup({Other(t)})
    /\ IF pc[t] = "wake" THEN PipeGoes(t, "wait") ELSE PipeReturns(t)
    /\ UNCHANGED ringvars

PipeWaits(t) ==
    /\ pc[t] = "wait"
    /\ rt_wqueue_wait(t, Own(t))
    /\ UNCHANGED <<io, ringvars>>

\* A thread is back from the rt_schedule of rt_wqueue_wait.
PipeBack(t) ==
    /\ pc[t] = "check" /\ io[t].op # "none"
    /\ wq_flag' = wq_flag \ {Own(t)}
    /\ waiting_list' = [waiting_list EXCEPT ![Own(t)] = RemoveFirst(@, t)]
    /\ PipeGoes(t, "lock")
    /\ UNCHANGED <<stat, timer, ringvars>>

PipeStep(t) ==
    /\ ReadRound(t) \/ WriteRound(t) \/ PipeWakes(t) \/ PipeWaits(t) \/ PipeBack(t)
    /\ UNCHANGED <<error, sig, delivering, readers, writers, ref_count, fd>>

\* rt_pipe_create
PipeInit ==
    /\ readers = 0 /\ writers = 0 /\ ref_count = 0
    /\ waiting_list = [q \in Queue |-> << >>]
    /\ wq_flag = {}
    /\ fd = [t \in Thread |-> {}]
    /\ io = [t \in Thread |-> NoIo]

-----------------------------------------------------------------------------
(* Properties.                                                             *)

\* Type invariant.
PipeTypeOK ==
    /\ {readers, writers, ref_count} \subseteq 0 .. Cardinality(Thread)
    /\ waiting_list \in [Queue -> Seq(Thread)] /\ wq_flag \subseteq Queue
    /\ fd \in [Thread -> SUBSET {"read", "write"}]
    /\ \A t \in Thread : io[t].op \in {"none", "read", "write"} /\ io[t].left \in Nat

\* No wake-up is lost with one reader and one writer: a sleeping reader has
\* nothing to read and somebody to wait for, or a writer is about to wake it up;
\* a sleeping writer has no room and a reader.
NoLostPipe ==
    /\ waiting_list["reader"] # << >> =>
          \/ stream = << >> /\ writers > 0
          \/ \E t \in Thread : io[t].op = "write" /\ pc[t] \in {"wake", "last wake"}
    /\ waiting_list["writer"] # << >> =>
          rt_ringbuffer_space_len(rb) = 0 /\ readers > 0

=============================================================================
