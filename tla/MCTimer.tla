------------------------------- MODULE MCTimer -------------------------------
(* Instances of Timer: a periodic timer that its function may stop and a   *)
(* timer that is switched, both of one thread, and the timer of a thread.  *)
EXTENDS Timer

CONSTANTS x1, x2, x3, u1, u2

MCOwner == [x \in Timer |-> CASE x \in {x1, x2} -> u1 [] x = x3 -> Locked]
MCInitTick == [x \in Timer |-> CASE x = x1 -> {1, 2} [] x = x2 -> {2} [] x = x3 -> {1}]
=============================================================================
