----------------------------- MODULE Completion ------------------------------
(***************************************************************************)
(* The completion of components/drivers/src/completion.c: one thread waits *)
(* for an event that others announce.                                      *)
(***************************************************************************)
EXTENDS IpcWait

VARIABLES
    completed,        \* completion->flag = RT_COMPLETED
    suspended_list,   \* completion->suspended_list
    completing        \* the threads in rt_completion_wait that were suspended

cpvars == <<completed, suspended_list, completing>>

WaitAtOnce(t) ==
    /\ completed
    /\ completed' = FALSE
    /\ UNCHANGED <<stat, timer, error, pc, suspended_list, completing>>

WaitRefused(t) == ~completed /\ UNCHANGED <<stat, timer, error, pc, cpvars>>

WaitSuspends(t, time) ==
    /\ ~completed
    /\ Suspend(t, time)
    /\ Fail({t}, "EOK")
    /\ suspended_list' = Append(suspended_list, t)
    /\ completing' = completing \cup {t}
    /\ UNCHANGED completed

\* rt_completion_wait up to its rt_schedule; its assertion admits one thread.
rt_completion_wait(t, time) ==
    /\ pc[t] = "run" /\ suspended_list = << >>
    /\ \/ WaitAtOnce(t)
       \/ time = "none" /\ WaitRefused(t)
       \/ time # "none" /\ WaitSuspends(t, time)
    /\ UNCHANGED <<sig, delivering>>

\* The rest of it clears the flag, after a timeout too.
CompletionBack(t) ==
    /\ pc[t] = "check" /\ t \in completing
    /\ Return(t)
    /\ completed' = FALSE
    /\ completing' = completing \ {t}
    /\ UNCHANGED <<stat, timer, sig, delivering, suspended_list>>

\* rt_completion_done looks at the flag without the lock ...
rt_completion_done(t) ==
    /\ pc[t] = "run"
    /\ ~completed
    /\ pc' = [pc EXCEPT ![t] = "done"]
    /\ UNCHANGED <<stat, timer, error, sig, delivering, cpvars>>

\* ... and sets it with the lock.
DoneLocked(t) ==
    /\ pc[t] = "done"
    /\ completed' = TRUE
    /\ IF suspended_list # << >>
       THEN Resume({Head(suspended_list)}) /\ suspended_list' = Tail(suspended_list)
       ELSE UNCHANGED <<stat, timer, suspended_list>>
    /\ Return(t)
    /\ UNCHANGED <<sig, delivering, completing>>

CompletionUnlink(t) ==
    /\ suspended_list' = RemoveFirst(suspended_list, t)
    /\ UNCHANGED <<completed, completing>>

\* rt_completion_init
CompletionInit == completed = FALSE /\ suspended_list = << >> /\ completing = {}

-----------------------------------------------------------------------------
(* Properties.                                                             *)

\* Type invariant.
CompletionTypeOK ==
    /\ completed \in BOOLEAN
    /\ suspended_list \in Seq(Thread)
    /\ completing \subseteq Thread

\* No thread waits for what is done already.
NoLostDone == suspended_list # << >> => ~completed

=============================================================================
