------------------------------ MODULE Channel --------------------------------
(***************************************************************************)
(* What the mailbox, the message queue and the data queue promise: a       *)
(* bounded queue of messages.  A thread begins to wait for a message only  *)
(* if there is none and with a message only if there is no room, a message *)
(* goes to one thread, in the order of the queue, and whoever waits is not *)
(* forgotten.                                                              *)
(***************************************************************************)
EXTENDS Integers, Sequences

CONSTANTS Thread, Msg, NoMsg

VARIABLES
    size,       \* how many messages it has room for
    queue,      \* the messages, the oldest first
    received,   \* the last message that a thread was given
    wanting,    \* the threads that wait for a message
    offering    \* the threads that wait with one

channel == <<size, queue, received, wanting, offering>>

Init ==
    /\ size \in Nat
    /\ queue = << >>
    /\ received = NoMsg
    /\ wanting = {} /\ offering = {}

Ask(t) ==
    /\ queue = << >>
    /\ wanting' = wanting \cup {t}
    /\ UNCHANGED <<queue, received, offering>>

Offer(t) ==
    /\ Len(queue) = size
    /\ offering' = offering \cup {t}
    /\ UNCHANGED <<queue, received, wanting>>

GiveUp(t) ==
    /\ wanting' = wanting \ {t} /\ offering' = offering \ {t}
    /\ UNCHANGED <<queue, received>>

\* An interrupt handler, in no thread, puts a message with S = {}.
Put(S, m) ==
    /\ Len(queue) < size
    /\ queue' = Append(queue, m)
    /\ offering' = offering \ S
    /\ UNCHANGED <<received, wanting>>

\* An urgent message.
PutFirst(m) ==
    /\ Len(queue) < size
    /\ queue' = <<m>> \o queue
    /\ UNCHANGED <<received, wanting, offering>>

Get(t) ==
    /\ queue # << >>
    /\ queue' = Tail(queue)
    /\ received' = Head(queue)
    /\ wanting' = wanting \ {t}
    /\ UNCHANGED offering

Clear == queue' = << >> /\ UNCHANGED <<received, wanting, offering>>

Next ==
    /\ \/ \E t \in Thread : Ask(t) \/ Offer(t) \/ GiveUp(t) \/ Get(t)
       \/ \E m \in Msg : PutFirst(m) \/ Put({}, m) \/ \E t \in Thread : Put({t}, m)
       \/ Clear
    /\ UNCHANGED size

Spec == Init /\ [][Next]_channel

\* A message that somebody waits for does not stay in the queue, and room that
\* somebody waits for does not stay empty: weak fairness of Get and Put for those
\* who wait, with what enables them written out.
GetFair ==
    \/ []<>(queue = << >> \/ wanting = {})
    \/ []<><<\E t \in wanting : Get(t)>>_channel
PutFair ==
    \/ []<>(Len(queue) = size \/ offering = {})
    \/ []<><<\E t \in offering, m \in Msg : Put({t}, m)>>_channel

=============================================================================
