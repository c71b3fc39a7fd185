---------------------------- MODULE MCTicketLock -----------------------------
(***************************************************************************)
(* Model-checking instance of TicketLock: as many CPUs as ticket values,   *)
(* so that the counters wrap with every CPU in the queue.                  *)
(***************************************************************************)
EXTENDS TicketLock

=============================================================================
