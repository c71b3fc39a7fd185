----------------------------- MODULE KernelLock ------------------------------
(***************************************************************************)
(* What rt_cpus_lock promises the rest of the kernel, with no lock and no  *)
(* counter in it: at most one CPU is inside a kernel section, and a thread *)
(* that gave up its CPU in the middle of a section is inside it again when *)
(* it gets a CPU back.  CpusLock implements it.                            *)
(***************************************************************************)
EXTENDS Naturals

CONSTANTS CPU, Thread, NoCpu, NoThread

VARIABLES
    owner,     \* the CPU inside a section, or NoCpu
    running,   \* the thread each CPU runs, or NoThread before its first one
    inside     \* the threads that are in the middle of a section

kvars == <<owner, running, inside>>

KInit ==
    /\ owner = NoCpu
    /\ running = [c \in CPU |-> NoThread]
    /\ inside = {}

\* The outermost lock of CPU c; a CPU that starts has no thread yet.
Enter(c) ==
    /\ owner = NoCpu
    /\ owner' = c
    /\ inside' = inside \cup ({running[c]} \ {NoThread})
    /\ UNCHANGED running

\* The outermost unlock.
Leave(c) ==
    /\ owner = c
    /\ owner' = NoCpu
    /\ inside' = inside \ {running[c]}
    /\ UNCHANGED running

\* CPU c, in a section, goes on with thread t.  The thread it leaves stays in
\* its section, or has ended it (finished) if it was interrupted.  The CPU
\* stays in a section exactly when t is in the middle of one.
Hand(c, t, finished) ==
    /\ owner = c
    /\ \A d \in CPU : running[d] # t
    /\ running' = [running EXCEPT ![c] = t]
    /\ inside' = IF finished THEN inside \ {running[c]} ELSE inside
    /\ owner' = IF t \in inside THEN c ELSE NoCpu

KNext ==
    \E c \in CPU :
        \/ Enter(c)
        \/ Leave(c)
        \/ \E t \in Thread, finished \in BOOLEAN : Hand(c, t, finished)

KSpec == KInit /\ [][KNext]_kvars

=============================================================================
