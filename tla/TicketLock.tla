----------------------------- MODULE TicketLock ------------------------------
(***************************************************************************)
(* rt_hw_spin_lock and rt_hw_spin_unlock of the Cortex-A9 port             *)
(* (drivers/board.c): a ticket lock of two unsigned short counters in one  *)
(* word.  The ldrex/strex loop draws a ticket in one step: a store of      *)
(* another CPU in between makes it start again.                            *)
(***************************************************************************)
EXTENDS Naturals, Sequences, FiniteSets

CONSTANTS
    Core,
    TICKETS      \* number of values of a counter: 2^16

ASSUME TicketAssumption ==
    /\ IsFiniteSet(Core)
    /\ TICKETS \in Nat \ {0}
    /\ Cardinality(Core) <= TICKETS

VARIABLES
    next, owner,   \* the two halves of slock
    ticket,        \* lockval.tickets.next of each CPU
    phase          \* where each CPU is in rt_hw_spin_lock

tvars == <<next, owner, ticket, phase>>

TicketInit ==
    /\ next = 0 /\ owner = 0
    /\ ticket = [c \in Core |-> 0]
    /\ phase = [c \in Core |-> "out"]

\* rt_hw_spin_lock: the ticket is the old value of next.
DrawTicket(c) ==
    /\ phase[c] = "out"
    /\ ticket' = [ticket EXCEPT ![c] = next]
    /\ next' = (next + 1) % TICKETS
    /\ phase' = [phase EXCEPT ![c] = "spin"]
    /\ UNCHANGED owner

SpinWhileBehind(c) ==
    /\ phase[c] = "spin"
    /\ ticket[c] <= owner
    /\ phase' = [phase EXCEPT ![c] = "in"]
    /\ UNCHANGED <<next, owner, ticket>>

SpinOnNext(c) ==
    /\ phase[c] = "spin"
    /\ ticket[c] = next
    /\ phase' = [phase EXCEPT ![c] = "in"]
    /\ UNCHANGED <<next, owner, ticket>>

\* The loop until owner is the ticket.
SpinDone(c) ==
    /\ phase[c] = "spin"
    /\ ticket[c] = owner
    /\ phase' = [phase EXCEPT ![c] = "in"]
    /\ UNCHANGED <<next, owner, ticket>>

\* rt_hw_spin_unlock: the next ticket is the owner.
PassOn(c) ==
    /\ phase[c] = "in"
    /\ owner' = (owner + 1) % TICKETS
    /\ phase' = [phase EXCEPT ![c] = "out"]
    /\ UNCHANGED <<next, ticket>>

TicketNext == \E c \in Core : DrawTicket(c) \/ SpinDone(c) \/ PassOn(c)

\* A spinning CPU keeps reading owner.
TicketSpec == TicketInit /\ [][TicketNext]_tvars /\ \A c \in Core : WF_tvars(SpinDone(c))

-----------------------------------------------------------------------------
Waiting == {c \in Core : phase[c] # "out"}

\* The CPUs with a ticket, in the order in which owner will reach them.
Queue == [i \in 1 .. Cardinality(Waiting) |->
            CHOOSE c \in Waiting : ticket[c] = (owner + i - 1) % TICKETS]

\* The counters, which wrap around, implement a queue: CPUs get the lock one at
\* a time in the order of their tickets.
Fifo == INSTANCE FifoLock
        WITH CPU <- Core, queue <- Queue, has <- {c \in Core : phase[c] = "in"}
ImplementsFifo == Fifo!FSpec

\* The CPU that is next always gets it: owner comes to its ticket, over every wrap.
NextGets == Fifo!FLive

=============================================================================
