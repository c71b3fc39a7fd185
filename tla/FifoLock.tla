------------------------------ MODULE FifoLock -------------------------------
(***************************************************************************)
(* What a spinlock promises: the CPUs that ask for it get it one at a time *)
(* and in the order in which they asked.                                   *)
(***************************************************************************)
EXTENDS Naturals, Sequences

CONSTANT CPU

VARIABLES
    queue,   \* the CPUs that asked, the first one has the lock or may take it
    has      \* the CPUs that know that they have it

fvars == <<queue, has>>

FInit == queue = << >> /\ has = {}

Ask(c) ==
    /\ \A i \in DOMAIN queue : queue[i] # c
    /\ queue' = Append(queue, c)
    /\ UNCHANGED has

Get(c) ==
    /\ queue # << >> /\ Head(queue) = c /\ c \notin has
    /\ has' = has \cup {c}
    /\ UNCHANGED queue

Release(c) ==
    /\ c \in has
    /\ queue' = Tail(queue)
    /\ has' = has \ {c}

FNext == \E c \in CPU : Ask(c) \/ Get(c) \/ Release(c)

FSpec == FInit /\ [][FNext]_fvars

\* The first of the queue gets the lock.
FLive == \A c \in CPU : WF_fvars(Get(c))

=============================================================================
