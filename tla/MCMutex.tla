------------------------------ MODULE MCMutex --------------------------------
(***************************************************************************)
(* Model-checking instances of Mutex.                                      *)
(***************************************************************************)
EXTENDS Mutex

CONSTANTS t1, t2, t3

\* t1 is the most urgent thread, t3 the least.
ThreeLevels == [t \in Thread |-> CASE t = t1 -> 0 [] t = t2 -> 1 [] t = t3 -> 2]

AnyTime == [t \in Thread |-> Time]
Forever == [t \in Thread |-> {"forever"}]

\* One mutex of either flag with every waiting time; two that are taken in order,
\* for ever; and two that are taken in any order while t2 gives up after a time.
MCUse ==
    [flag : {"FIFO", "PRIO"}, mutex : {{1}}, time : {AnyTime}, ordered : {TRUE}]
    \cup [flag : {"FIFO"}, mutex : {Mutex}, time : {Forever}, ordered : {TRUE}]
    \cup [flag : {"FIFO"}, mutex : {Mutex}, time : {[Forever EXCEPT ![t2] = {"ticks"}]},
          ordered : {FALSE}]

=============================================================================
