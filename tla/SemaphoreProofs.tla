--------------------------- MODULE SemaphoreProofs ---------------------------
(***************************************************************************)
(* Proofs about module Semaphore, for any number of threads, priorities    *)
(* and values.  The inductive invariant Inv joins the properties of        *)
(* Semaphore with two facts that make them inductive: what is known of a   *)
(* thread that waits or was given a token, and how far a detaching thread  *)
(* has come.                                                               *)
(***************************************************************************)
EXTENDS Semaphore, ListTheorems

\* Pairs of threads of which the first is not less urgent.
NotLessUrgent == {tu \in Thread \X Thread : Priority[tu[1]] <= Priority[tu[2]]}

\* A suspended thread is in a call and has neither an answer nor a token yet; one
\* that a release gave a token is in its call.
Waiting == \A t \in Thread :
    /\ stat[t] = "SUSPEND" =>
          /\ pc[t] \in {"schedule", "off"}
          /\ t \notin granted
          /\ t \notin Signalled => error[t] = "EOK"
    /\ t \in granted => pc[t] \in {"schedule", "off", "check"}

InResumeAll(t) == pc[t] \in {"test", "resume"}

\* One thread at most is in rt_ipc_list_resume_all; if it began while no thread
\* waited that a timeout or a signal can resume, the list it found not empty
\* stays so, and it never takes the head of the list for a thread.
Detaching ==
    /\ \A t \in Thread : InResumeAll(t) => gone
    /\ \A t, u \in Thread : InResumeAll(t) /\ InResumeAll(u) => t = u
    /\ Careful =>
          /\ ~wild
          /\ gone => ToSet(suspend_thread) \cap (timer \cup Signalled) = {}
          /\ \A t \in Thread : pc[t] = "resume" => suspend_thread # << >>

Inv ==
    /\ TypeOK
    /\ ListExact
    /\ NoIdleToken
    /\ PrioFirst
    /\ Waiting
    /\ AnswerIsTrue
    /\ Detaching

-----------------------------------------------------------------------------
\* PrioFirst as an order on the list.
LEMMA PrioFirstOrder ==
    ASSUME NEW s \in Seq(Thread)
    PROVE  Ordered(s, NotLessUrgent) <=>
              \A i, j \in DOMAIN s : i < j => Priority[s[i]] <= Priority[s[j]]
  <1>1. \A i \in DOMAIN s : s[i] \in Thread
    BY ListIndices
  <1> QED BY <1>1 DEF Ordered, NotLessUrgent

\* rt_ipc_list_suspend adds the thread to the list, and with RT_IPC_FLAG_PRIO it
\* keeps the list in the order of the priorities.
LEMMA PlacedList ==
    ASSUME NEW s \in Seq(Thread), NEW t \in Thread
    PROVE  /\ Placed(Flag, s, t, Priority) \in Seq(Thread)
           /\ ToSet(Placed(Flag, s, t, Priority)) = ToSet(s) \cup {t}
           /\ IsInjective(s) /\ t \notin ToSet(s) => IsInjective(Placed(Flag, s, t, Priority))
           /\ Flag = "PRIO" /\ Ordered(s, NotLessUrgent) =>
                 Ordered(Placed(Flag, s, t, Priority), NotLessUrgent)
  <1> DEFINE K == {i \in 1 .. Len(s) : Flag = "PRIO" /\ Priority[t] < Priority[s[i]]}
  <1>1. Len(s) \in Nat /\ DOMAIN s = 1 .. Len(s) /\ \A i \in 1 .. Len(s) : s[i] \in Thread
    BY ListIndices
  <1>2. Placed(Flag, s, t, Priority) = InsertedBefore(s, K, t)
    <2>1. ASSUME K # {} PROVE Min(K) # 0
      <3>1. K \subseteq Nat
        BY <1>1
      <3>2. Min(K) \in K
        BY <2>1, <3>1, LeastOfNat
      <3> QED BY <3>2, <1>1
    <2> QED BY <2>1 DEF Placed, InsertedBefore, SelectInSeq
  <1>3. ASSUME Flag = "PRIO", Ordered(s, NotLessUrgent)
        PROVE  /\ \A i \in 1 .. Len(s) : (\A k \in K : i < k) => <<s[i], t>> \in NotLessUrgent
               /\ \A i \in 1 .. Len(s) : (\E k \in K : k <= i) => <<t, s[i]>> \in NotLessUrgent
    <2>1. Priority[t] \in Nat /\ \A u \in Thread : Priority[u] \in Nat
      BY IpcAssumption
    <2>2. ASSUME NEW i \in 1 .. Len(s), \A k \in K : i < k PROVE <<s[i], t>> \in NotLessUrgent
      <3>1. i \notin K
        BY <1>1, <2>2
      <3>2. ~(Priority[t] < Priority[s[i]])
        BY <3>1, <1>3
      <3> QED BY <3>2, <1>1, <2>1 DEF NotLessUrgent
    <2>3. ASSUME NEW i \in 1 .. Len(s), NEW k \in K, k <= i PROVE <<t, s[i]>> \in NotLessUrgent
      <3>1. k \in 1 .. Len(s) /\ Priority[t] < Priority[s[k]]
        OBVIOUS
      <3>2. Priority[s[k]] <= Priority[s[i]]
        BY <1>1, <1>3, <2>1, <2>3, <3>1, PrioFirstOrder
      <3> QED BY <3>1, <3>2, <1>1, <2>1 DEF NotLessUrgent
    <2> QED BY <2>2, <2>3
  <1>4. K \subseteq 1 .. Len(s)
    OBVIOUS
  <1> HIDE DEF K
  <1>5. /\ InsertedBefore(s, K, t) \in Seq(Thread)
        /\ ToSet(InsertedBefore(s, K, t)) = ToSet(s) \cup {t}
        /\ IsInjective(s) /\ t \notin ToSet(s) => IsInjective(InsertedBefore(s, K, t))
    BY <1>4, InsertedList
  <1>6. ASSUME Flag = "PRIO", Ordered(s, NotLessUrgent)
        PROVE  Ordered(InsertedBefore(s, K, t), NotLessUrgent)
    BY <1>3, <1>4, <1>6, InsertedOrder
  <1> QED BY <1>2, <1>5, <1>6

\* PrioFirst of a new list follows from the order of the new list.
LEMMA PrioFirstNext ==
    ASSUME TypeOK, PrioFirst, suspend_thread' \in Seq(Thread),
           Flag = "PRIO" /\ Ordered(suspend_thread, NotLessUrgent) =>
              Ordered(suspend_thread', NotLessUrgent)
    PROVE  PrioFirst'
  <1>1. CASE Flag = "PRIO"
    <2>1. Ordered(suspend_thread, NotLessUrgent)
      BY <1>1, PrioFirstOrder DEF TypeOK, PrioFirst
    <2>2. Ordered(suspend_thread', NotLessUrgent)
      BY <1>1, <2>1
    <2> QED BY <2>2, PrioFirstOrder DEF PrioFirst
  <1>2. CASE Flag # "PRIO"
    BY <1>2 DEF PrioFirst
  <1> QED BY <1>1, <1>2

-----------------------------------------------------------------------------
(* The initial states.                                                     *)

\* sem->value stays in the range of its type.
LEMMA ModRange == ASSUME NEW v \in Nat PROVE v % ValueRange \in 0 .. ValueRange - 1
  BY SemaphoreAssumption

\* rt_sem_init leaves an empty list.
LEMMA InitInv == Init => Inv
  <1> SUFFICES ASSUME Init PROVE Inv
    OBVIOUS
  <1> USE DEF Init, WaitInit
  <1>1. TypeOK
    BY ModRange, EmptyList, SemaphoreAssumption DEF TypeOK, Error
  <1>2. ListExact
    BY EmptyList DEF ListExact
  <1>3. NoIdleToken /\ PrioFirst
    BY DEF NoIdleToken, PrioFirst
  <1>4. Waiting /\ AnswerIsTrue
    BY DEF Waiting, AnswerIsTrue
  <1>5. Detaching
    BY DEF Detaching, InResumeAll
  <1> QED BY <1>1, <1>2, <1>3, <1>4, <1>5 DEF Inv

-----------------------------------------------------------------------------
(* rt_sem_take.                                                            *)

\* A take that does not wait changes the value of the semaphore at most.
LEMMA TakeNoWaitInv ==
    ASSUME Inv, TakeAtOnce \/ TakeRefused,
           UNCHANGED <<sig, delivering, gone, wild, granted>>
    PROVE  Inv'
  <1>0. value' \in 0 .. ValueRange - 1 /\ (value = 0 => value' = 0)
    BY SemaphoreAssumption DEF Inv, TypeOK, TakeAtOnce, TakeRefused
  <1>1. UNCHANGED <<suspend_thread, stat, timer, error, pc>>
    BY DEF TakeAtOnce, TakeRefused
  <1> QED BY <1>0, <1>1 DEF Inv, TypeOK, ListExact, NoIdleToken, PrioFirst, Waiting,
                 AnswerIsTrue, Detaching, InResumeAll

\* A take that waits: the thread is on the list, in its place.
LEMMA TakeWaitsInv ==
    ASSUME Inv, NEW t \in Thread, NEW time \in Time, pc[t] = "run", ~gone,
           TakeWaits(t, time), UNCHANGED <<sig, delivering, gone, wild, granted>>
    PROVE  Inv'
  <1> DEFINE s == suspend_thread'
  <1>1. /\ stat' = [stat EXCEPT ![t] = "SUSPEND"]
        /\ pc' = [pc EXCEPT ![t] = "schedule"]
        /\ error' = [error EXCEPT ![t] = "EOK"]
        /\ timer \ {t} \subseteq timer' /\ timer' \subseteq timer \cup {t}
        /\ value = 0 /\ value' = value
        /\ s = Placed(Flag, suspend_thread, t, Priority)
    BY DEF TakeWaits, Suspend
  <1>2. stat[t] = "READY" /\ t \notin granted
    BY DEF Inv, TypeOK, Waiting
  <1>3. t \notin ToSet(suspend_thread)
    BY <1>2 DEF Inv, ListExact
  <1>4. /\ s \in Seq(Thread)
        /\ ToSet(s) = ToSet(suspend_thread) \cup {t}
        /\ IsInjective(s)
        /\ Flag = "PRIO" /\ Ordered(suspend_thread, NotLessUrgent) => Ordered(s, NotLessUrgent)
    BY <1>1, <1>3, PlacedList DEF Inv, TypeOK, ListExact
  <1>5. TypeOK'
    BY <1>1, <1>4 DEF Inv, TypeOK, Error
  <1>6. ListExact'
    BY <1>1, <1>4 DEF Inv, TypeOK, ListExact
  <1>7. NoIdleToken'
    BY <1>1 DEF NoIdleToken
  <1>8. PrioFirst'
    BY <1>4, PrioFirstNext DEF Inv
  <1>9. Waiting' /\ AnswerIsTrue'
    BY <1>1, <1>2 DEF Inv, TypeOK, Waiting, AnswerIsTrue
  <1>10. Detaching'
    BY <1>1 DEF Inv, TypeOK, Detaching, InResumeAll
  <1> QED BY <1>5, <1>6, <1>7, <1>8, <1>9, <1>10 DEF Inv

\* rt_sem_take up to its rt_schedule.
LEMMA TakeInv ==
    ASSUME Inv, NEW t \in Thread, NEW time \in Time, rt_sem_take(t, time)
    PROVE  Inv'
  BY TakeNoWaitInv, TakeWaitsInv DEF rt_sem_take

\* A call that returns forgets that it was given a token.
LEMMA TakeReturnsInv ==
    ASSUME Inv, NEW t \in Thread, TakeReturns(t)
    PROVE  Inv'
  <1>1. /\ pc[t] = "check" /\ pc' = [pc EXCEPT ![t] = "run"]
        /\ granted' = granted \ {t}
        /\ UNCHANGED <<stat, timer, error, sig, delivering, value, suspend_thread, gone, wild>>
    BY DEF TakeReturns
  <1>2. TypeOK' /\ ListExact' /\ NoIdleToken' /\ PrioFirst'
    BY <1>1 DEF Inv, TypeOK, ListExact, NoIdleToken, PrioFirst
  <1>3. Waiting' /\ AnswerIsTrue'
    BY <1>1 DEF Inv, TypeOK, Waiting, AnswerIsTrue
  <1>4. Detaching'
    BY <1>1 DEF Inv, TypeOK, Detaching, InResumeAll
  <1> QED BY <1>2, <1>3, <1>4 DEF Inv

-----------------------------------------------------------------------------
(* What resumes a thread.                                                  *)

\* What holds of the list, the states and the timers after the threads of S were
\* resumed and left the list, and no thread's place in its call changed: common to
\* a release, a reset, a timeout, a signal and a round of a detach.
LEMMA ResumedList ==
    ASSUME Inv, NEW S, S \subseteq Thread, Resume(S),
           suspend_thread' \in Seq(Thread), IsInjective(suspend_thread'),
           ToSet(suspend_thread') = ToSet(suspend_thread) \ S,
           Flag = "PRIO" /\ Ordered(suspend_thread, NotLessUrgent) =>
              Ordered(suspend_thread', NotLessUrgent)
    PROVE  /\ ListExact' /\ PrioFirst'
           /\ stat' \in [Thread -> {"READY", "SUSPEND"}]
           /\ timer' \subseteq Thread /\ timer' = timer \ S
           /\ \A t \in Thread : stat'[t] = IF t \in S THEN "READY" ELSE stat[t]
  <1>1. /\ timer' = timer \ S
        /\ \A t \in Thread : stat'[t] = IF t \in S THEN "READY" ELSE stat[t]
    BY DEF Resume
  <1>2. stat' \in [Thread -> {"READY", "SUSPEND"}] /\ timer' \subseteq Thread
    BY <1>1 DEF Inv, TypeOK, Resume
  <1>3. ListExact'
    BY <1>1, <1>2 DEF Inv, TypeOK, ListExact
  <1>4. PrioFirst'
    BY PrioFirstNext DEF Inv
  <1> QED BY <1>1, <1>2, <1>3, <1>4

\* Taking the first thread off the list.
LEMMA FirstResumed ==
    ASSUME Inv, suspend_thread # << >>, Resume({Head(suspend_thread)}),
           suspend_thread' = Tail(suspend_thread)
    PROVE  /\ ListExact' /\ PrioFirst' /\ suspend_thread' \in Seq(Thread)
           /\ ToSet(suspend_thread') = ToSet(suspend_thread) \ {Head(suspend_thread)}
           /\ stat' \in [Thread -> {"READY", "SUSPEND"}]
           /\ timer' \subseteq Thread /\ timer' = timer \ {Head(suspend_thread)}
           /\ \A t \in Thread : stat'[t] = IF t = Head(suspend_thread) THEN "READY" ELSE stat[t]
           /\ Head(suspend_thread) \in Thread
           /\ stat[Head(suspend_thread)] = "SUSPEND"
  <1> DEFINE h == Head(suspend_thread)
  <1>1. suspend_thread \in Seq(Thread) /\ IsInjective(suspend_thread)
    BY DEF Inv, TypeOK, ListExact
  <1>2. /\ h \in Thread /\ h \in ToSet(suspend_thread)
        /\ suspend_thread' \in Seq(Thread) /\ IsInjective(suspend_thread')
        /\ ToSet(suspend_thread') = ToSet(suspend_thread) \ {h}
    BY <1>1, TailList
  <1>3. Ordered(suspend_thread, NotLessUrgent) => Ordered(suspend_thread', NotLessUrgent)
    BY <1>1, TailList
  <1>4. stat[h] = "SUSPEND"
    BY <1>2 DEF Inv, ListExact
  <1> HIDE DEF h
  <1>5. Resume({h}) /\ {h} \subseteq Thread
    BY <1>2 DEF h
  <1>6. /\ ListExact' /\ PrioFirst'
        /\ stat' \in [Thread -> {"READY", "SUSPEND"}]
        /\ timer' \subseteq Thread /\ timer' = timer \ {h}
        /\ \A t \in Thread : stat'[t] = IF t \in {h} THEN "READY" ELSE stat[t]
    BY <1>2, <1>3, <1>5, ResumedList
  <1> QED BY <1>2, <1>4, <1>6 DEF h

\* rt_sem_release gives the token to the first thread, or keeps it.
LEMMA ReleaseInv == ASSUME Inv, rt_sem_release PROVE Inv'
  <1>1. ~gone /\ UNCHANGED <<error, pc, sig, delivering, gone, wild>>
    BY DEF rt_sem_release
  <1>2. CASE suspend_thread # << >>
    <2> DEFINE h == Head(suspend_thread)
    <2>1. /\ Resume({h}) /\ suspend_thread' = Tail(suspend_thread)
          /\ granted' = granted \cup {h} /\ value' = value
      BY <1>2 DEF rt_sem_release
    <2>2. /\ ListExact' /\ PrioFirst' /\ suspend_thread' \in Seq(Thread)
          /\ ToSet(suspend_thread') = ToSet(suspend_thread) \ {h}
          /\ stat' \in [Thread -> {"READY", "SUSPEND"}]
          /\ timer' \subseteq Thread /\ timer' = timer \ {h}
          /\ \A t \in Thread : stat'[t] = IF t = h THEN "READY" ELSE stat[t]
          /\ h \in Thread /\ stat[h] = "SUSPEND"
      BY <1>2, <2>1, FirstResumed
    <2> HIDE DEF h
    <2>3. TypeOK'
      BY <1>1, <2>1, <2>2 DEF Inv, TypeOK
    <2>4. NoIdleToken'
      BY <1>2, <2>1 DEF Inv, NoIdleToken
    <2>5. Waiting' /\ AnswerIsTrue'
      BY <1>1, <2>1, <2>2 DEF Inv, TypeOK, Waiting, AnswerIsTrue
    <2>6. Detaching'
      BY <1>1 DEF Inv, Detaching, InResumeAll
    <2> QED BY <2>2, <2>3, <2>4, <2>5, <2>6 DEF Inv
  <1>3. CASE suspend_thread = << >>
    <2>1. value' = (value + 1) % ValueRange /\ UNCHANGED <<stat, timer, suspend_thread, granted>>
      BY <1>3 DEF rt_sem_release
    <2>2. value' \in 0 .. ValueRange - 1
      <3>1. value + 1 \in Nat
        BY SemaphoreAssumption DEF Inv, TypeOK
      <3> QED BY <2>1, <3>1, ModRange
    <2>3. NoIdleToken'
      BY <1>3, <2>1 DEF NoIdleToken
    <2> QED BY <1>1, <2>1, <2>2, <2>3 DEF Inv, TypeOK, ListExact, PrioFirst, Waiting,
                   AnswerIsTrue, Detaching, InResumeAll
  <1> QED BY <1>2, <1>3

\* rt_sem_control resumes them all, with an error.
LEMMA ControlInv ==
    ASSUME Inv, NEW v \in ResetValue, rt_sem_control(v)
    PROVE  Inv'
  <1> DEFINE S == ToSet(suspend_thread)
  <1>1. /\ ~gone /\ Resume(S) /\ Fail(S, "ERROR")
        /\ suspend_thread' = << >> /\ value' = v % ValueRange
        /\ UNCHANGED <<pc, sig, delivering, gone, wild, granted>>
    BY DEF rt_sem_control
  <1>2. S \subseteq Thread /\ S = {t \in Thread : stat[t] = "SUSPEND"}
    BY DEF Inv, ListExact
  <1>3. /\ suspend_thread' \in Seq(Thread) /\ IsInjective(suspend_thread')
        /\ ToSet(suspend_thread') = S \ S
        /\ Ordered(suspend_thread', NotLessUrgent)
    BY <1>1, EmptyList
  <1>4. /\ ListExact' /\ PrioFirst'
        /\ stat' \in [Thread -> {"READY", "SUSPEND"}] /\ timer' \subseteq Thread
        /\ \A t \in Thread : stat'[t] = IF t \in S THEN "READY" ELSE stat[t]
    BY <1>1, <1>2, <1>3, ResumedList
  <1> HIDE DEF S
  <1>5. error' = [t \in Thread |-> IF t \in S THEN "ERROR" ELSE error[t]]
    BY <1>1 DEF Fail
  <1>6. TypeOK'
    <2>1. value' \in 0 .. ValueRange - 1
      BY <1>1, ModRange, SemaphoreAssumption
    <2>2. error' \in [Thread -> Error]
      BY <1>5 DEF Inv, TypeOK, Error
    <2> QED BY <1>1, <1>3, <1>4, <2>1, <2>2 DEF Inv, TypeOK
  <1>7. NoIdleToken'
    BY <1>1 DEF NoIdleToken
  <1>8. Waiting' /\ AnswerIsTrue'
    BY <1>1, <1>2, <1>4, <1>5 DEF Inv, TypeOK, Waiting, AnswerIsTrue
  <1>9. Detaching'
    BY <1>1 DEF Inv, Detaching, InResumeAll
  <1> QED BY <1>4, <1>6, <1>7, <1>8, <1>9 DEF Inv

\* A timeout or a signal takes one thread off the list; if it was suspended then
\* detaching has not begun.
LEMMA OneResumed ==
    ASSUME Inv, NEW t \in Thread, Resume({t}), Unlink(t), stat[t] = "SUSPEND",
           t \in timer \cup Signalled, UNCHANGED pc
    PROVE  /\ ListExact' /\ PrioFirst' /\ NoIdleToken'
           /\ suspend_thread' \in Seq(Thread)
           /\ stat' \in [Thread -> {"READY", "SUSPEND"}]
           /\ timer' \subseteq Thread
           /\ \A u \in Thread : stat'[u] = IF u = t THEN "READY" ELSE stat[u]
           /\ Detaching'
  <1>1. /\ suspend_thread' = RemoveFirst(suspend_thread, t)
        /\ UNCHANGED <<value, gone, wild, granted>>
    BY DEF Unlink
  <1>2. suspend_thread \in Seq(Thread) /\ IsInjective(suspend_thread)
    BY DEF Inv, TypeOK, ListExact
  <1>3. /\ suspend_thread' \in Seq(Thread) /\ IsInjective(suspend_thread')
        /\ ToSet(suspend_thread') = ToSet(suspend_thread) \ {t}
    BY <1>1, <1>2, UnlinkedList
  <1>4. Ordered(suspend_thread, NotLessUrgent) => Ordered(suspend_thread', NotLessUrgent)
    BY <1>1, <1>2, UnlinkedList
  <1>5. /\ ListExact' /\ PrioFirst'
        /\ stat' \in [Thread -> {"READY", "SUSPEND"}]
        /\ timer' \subseteq Thread /\ timer' = timer \ {t}
        /\ \A u \in Thread : stat'[u] = IF u \in {t} THEN "READY" ELSE stat[u]
    BY <1>3, <1>4, ResumedList
  <1>6. t \in ToSet(suspend_thread)
    BY DEF Inv, ListExact
  <1>7. NoIdleToken'
    <2>1. suspend_thread # << >>
      BY <1>6, EmptyList
    <2> QED BY <1>1, <2>1 DEF Inv, NoIdleToken
  <1>8. Careful => ~gone
    BY <1>6 DEF Inv, Detaching
  <1>9. Detaching'
    BY <1>1, <1>8 DEF Inv, Detaching, InResumeAll
  <1> QED BY <1>3, <1>5, <1>7, <1>9

\* rt_thread_timeout: the answer is -RT_ETIMEOUT and there was no token.
LEMMA TimeoutInv == ASSUME Inv, NEW t \in Thread, Timeout(t) PROVE Inv'
  <1>1. /\ t \in timer /\ Resume({t}) /\ Fail({t}, "ETIMEOUT") /\ Unlink(t)
        /\ UNCHANGED <<pc, sig, delivering>>
    BY DEF Timeout, rt_thread_timeout
  <1>2. stat[t] = "SUSPEND"
    BY <1>1 DEF Inv, ListExact
  <1>3. /\ ListExact' /\ PrioFirst' /\ NoIdleToken' /\ Detaching'
        /\ suspend_thread' \in Seq(Thread)
        /\ stat' \in [Thread -> {"READY", "SUSPEND"}] /\ timer' \subseteq Thread
        /\ \A u \in Thread : stat'[u] = IF u = t THEN "READY" ELSE stat[u]
    BY <1>1, <1>2, OneResumed
  <1>4. error' = [u \in Thread |-> IF u \in {t} THEN "ETIMEOUT" ELSE error[u]]
    BY <1>1 DEF Fail
  <1>5. UNCHANGED <<value, gone, wild, granted>>
    BY <1>1 DEF Unlink
  <1>6. TypeOK'
    BY <1>1, <1>3, <1>4, <1>5 DEF Inv, TypeOK, Error
  <1>7. Waiting' /\ AnswerIsTrue'
    BY <1>1, <1>2, <1>3, <1>4, <1>5 DEF Inv, TypeOK, Waiting, AnswerIsTrue
  <1> QED BY <1>3, <1>6, <1>7 DEF Inv

\* _signal_deliver: only a thread that is sent signals is disturbed.
LEMMA DeliverInv == ASSUME Inv, NEW t \in Thread, Deliver(t) PROVE Inv'
  <1>1. /\ t \in delivering /\ t \in Signalled /\ delivering' = delivering \ {t}
        /\ UNCHANGED pc
    BY DEF Inv, TypeOK, Deliver, _signal_deliver
  <1>2. CASE stat[t] = "SUSPEND" /\ t \in sig /\ Resume({t}) /\ UNCHANGED <<error, sig>>
    <2>1. Unlink(t) /\ UNCHANGED <<value, gone, wild, granted>>
      BY <1>2 DEF Deliver, Unlink
    <2>2. /\ ListExact' /\ PrioFirst' /\ NoIdleToken' /\ Detaching'
          /\ suspend_thread' \in Seq(Thread)
          /\ stat' \in [Thread -> {"READY", "SUSPEND"}] /\ timer' \subseteq Thread
          /\ \A u \in Thread : stat'[u] = IF u = t THEN "READY" ELSE stat[u]
      BY <1>1, <1>2, <2>1, OneResumed
    <2>3. TypeOK'
      BY <1>1, <1>2, <2>1, <2>2 DEF Inv, TypeOK
    <2>4. Waiting' /\ AnswerIsTrue'
      BY <1>1, <1>2, <2>1, <2>2 DEF Inv, TypeOK, Waiting, AnswerIsTrue
    <2> QED BY <2>2, <2>3, <2>4 DEF Inv
  <1>3. CASE /\ UNCHANGED <<stat, timer>>
             /\ stat[t] = "READY" \/ t \notin sig
             /\ \/ UNCHANGED <<error, sig>>
                \/ sig' = sig \ {t} /\ Fail({t}, "EINTR")
    <2>1. UNCHANGED semvars
      <3>1. CASE t \in sig
        <4>1. t \notin ToSet(suspend_thread)
          BY <1>3, <3>1 DEF Inv, ListExact
        <4>2. RemoveFirst(suspend_thread, t) = suspend_thread
          BY <4>1, UnlinkedList DEF Inv, TypeOK, ListExact
        <4> QED BY <3>1, <4>2 DEF Deliver, Unlink, semvars
      <3>2. CASE t \notin sig
        BY <3>2 DEF Deliver
      <3> QED BY <3>1, <3>2
    <2>2. /\ error' \in [Thread -> Error] /\ sig' \subseteq Signalled
          /\ \A u \in Thread : u # t => error'[u] = error[u]
      BY <1>3 DEF Inv, TypeOK, Fail, Error
    <2> QED BY <1>1, <1>3, <2>1, <2>2 DEF Inv, TypeOK, ListExact, NoIdleToken, PrioFirst,
                   Waiting, AnswerIsTrue, Detaching, InResumeAll, semvars
  <1> QED BY <1>2, <1>3 DEF Deliver, _signal_deliver

-----------------------------------------------------------------------------
(* The other steps of a thread in a call, and signals that are sent.       *)

\* rt_schedule and the switch back move the thread on and leave the list alone.
LEMMA ProceedInv == ASSUME Inv, NEW t \in Thread, Proceed(t) PROVE Inv'
  <1>1. /\ UNCHANGED <<stat, timer, delivering, value, suspend_thread, gone, wild, granted>>
        /\ pc[t] \in {"schedule", "off"}
        /\ \/ pc' = [pc EXCEPT ![t] = "off"]
           \/ pc' = [pc EXCEPT ![t] = "check"] /\ stat[t] = "READY"
        /\ \/ UNCHANGED <<error, sig>>
           \/ /\ t \in sig /\ sig' = sig \ {t}
              /\ error' = [error EXCEPT ![t] = "EINTR"]
    BY DEF Proceed, rt_schedule, SwitchBack, semvars
  <1>2. /\ sig' \subseteq Signalled /\ error' \in [Thread -> Error]
        /\ \A u \in Thread \ Signalled : error'[u] = error[u]
    BY <1>1 DEF Inv, TypeOK, Error
  <1>3. TypeOK' /\ ListExact' /\ NoIdleToken' /\ PrioFirst'
    BY <1>1, <1>2 DEF Inv, TypeOK, ListExact, NoIdleToken, PrioFirst
  <1>4. Waiting' /\ AnswerIsTrue'
    BY <1>1, <1>2 DEF Inv, TypeOK, Waiting, AnswerIsTrue
  <1>5. Detaching'
    BY <1>1 DEF Inv, TypeOK, Detaching, InResumeAll
  <1> QED BY <1>3, <1>4, <1>5 DEF Inv

\* rt_thread_kill only records the signal.
LEMMA KillInv ==
    ASSUME Inv, NEW t \in Thread, rt_thread_kill(t), UNCHANGED semvars
    PROVE  Inv'
  BY DEF rt_thread_kill, semvars, Inv, TypeOK, ListExact, NoIdleToken, PrioFirst, Waiting,
         AnswerIsTrue, Detaching, InResumeAll

-----------------------------------------------------------------------------
(* rt_sem_detach.                                                          *)

\* rt_sem_detach begins to resume the threads of the list.
LEMMA DetachInv == ASSUME Inv, NEW t \in Thread, rt_sem_detach(t) PROVE Inv'
  <1>1. /\ pc[t] = "run" /\ ~gone /\ gone'
        /\ Careful => ToSet(suspend_thread) \cap (timer \cup Signalled) = {}
        /\ gone' = TRUE
        /\ pc' = [pc EXCEPT ![t] = "test"]
        /\ UNCHANGED <<stat, timer, error, sig, delivering, value, suspend_thread,
                       wild, granted>>
    BY DEF rt_sem_detach
  <1>2. TypeOK' /\ ListExact' /\ NoIdleToken' /\ PrioFirst'
    BY <1>1 DEF Inv, TypeOK, ListExact, NoIdleToken, PrioFirst
  <1>3. Waiting' /\ AnswerIsTrue'
    BY <1>1 DEF Inv, TypeOK, Waiting, AnswerIsTrue
  <1>4. Detaching'
    BY <1>1 DEF Inv, TypeOK, Detaching, InResumeAll
  <1> QED BY <1>2, <1>3, <1>4 DEF Inv

\* The test of rt_ipc_list_resume_all outside of the lock.
LEMMA ResumeAllTestInv == ASSUME Inv, NEW t \in Thread, ResumeAllTest(t) PROVE Inv'
  <1>1. /\ pc[t] = "test"
        /\ pc' = [pc EXCEPT ![t] = IF suspend_thread = << >> THEN "run" ELSE "resume"]
        /\ UNCHANGED <<stat, timer, error, sig, delivering, value, suspend_thread,
                       gone, wild, granted>>
    BY DEF ResumeAllTest, semvars
  <1>2. TypeOK' /\ ListExact' /\ NoIdleToken' /\ PrioFirst'
    BY <1>1 DEF Inv, TypeOK, ListExact, NoIdleToken, PrioFirst
  <1>3. Waiting' /\ AnswerIsTrue'
    BY <1>1 DEF Inv, TypeOK, Waiting, AnswerIsTrue
  <1>4. Detaching'
    BY <1>1 DEF Inv, TypeOK, Detaching, InResumeAll
  <1> QED BY <1>2, <1>3, <1>4 DEF Inv

\* One round of rt_ipc_list_resume_all.
LEMMA ResumeAllRoundInv == ASSUME Inv, NEW t \in Thread, ResumeAllRound(t) PROVE Inv'
  <1>1. /\ pc[t] = "resume" /\ pc' = [pc EXCEPT ![t] = "test"]
        /\ UNCHANGED <<sig, delivering, value, gone, granted>>
    BY DEF ResumeAllRound
  <1>2. stat[t] = "READY" /\ t \notin granted /\ gone
    BY <1>1 DEF Inv, TypeOK, Waiting, Detaching, InResumeAll
  <1>3. CASE suspend_thread # << >>
    <2> DEFINE h == Head(suspend_thread)
    <2>1. /\ Resume({h}) /\ suspend_thread' = Tail(suspend_thread) /\ wild' = wild
          /\ Fail({h}, "ERROR")
      BY <1>3 DEF ResumeAllRound
    <2>2. /\ ListExact' /\ PrioFirst' /\ suspend_thread' \in Seq(Thread)
          /\ ToSet(suspend_thread') = ToSet(suspend_thread) \ {h}
          /\ stat' \in [Thread -> {"READY", "SUSPEND"}]
          /\ timer' \subseteq Thread /\ timer' = timer \ {h}
          /\ \A u \in Thread : stat'[u] = IF u = h THEN "READY" ELSE stat[u]
          /\ h \in Thread /\ stat[h] = "SUSPEND"
      BY <1>3, <2>1, FirstResumed
    <2> HIDE DEF h
    <2>3. error' = [u \in Thread |-> IF u \in {h} THEN "ERROR" ELSE error[u]]
      BY <2>1 DEF Fail
    <2>4. TypeOK'
      BY <1>1, <2>1, <2>2, <2>3 DEF Inv, TypeOK, Error
    <2>5. NoIdleToken'
      BY <1>1, <1>3 DEF Inv, NoIdleToken
    <2>6. Waiting' /\ AnswerIsTrue'
      BY <1>1, <1>2, <2>2, <2>3 DEF Inv, TypeOK, Waiting, AnswerIsTrue
    <2>7. Detaching'
      BY <1>1, <1>2, <2>1, <2>2 DEF Inv, TypeOK, Detaching, InResumeAll
    <2> QED BY <2>2, <2>4, <2>5, <2>6, <2>7 DEF Inv
  <1>4. CASE suspend_thread = << >>
    <2>1. wild' = TRUE /\ UNCHANGED <<stat, timer, error, suspend_thread>>
      BY <1>4 DEF ResumeAllRound
    <2>2. ~Careful
      BY <1>1, <1>4 DEF Inv, Detaching
    <2>3. TypeOK' /\ ListExact' /\ NoIdleToken' /\ PrioFirst'
      BY <1>1, <2>1 DEF Inv, TypeOK, ListExact, NoIdleToken, PrioFirst
    <2>4. Waiting' /\ AnswerIsTrue'
      BY <1>1, <1>2, <2>1 DEF Inv, TypeOK, Waiting, AnswerIsTrue
    <2>5. Detaching'
      BY <1>1, <1>2, <2>1, <2>2 DEF Inv, TypeOK, Detaching, InResumeAll
    <2> QED BY <2>3, <2>4, <2>5 DEF Inv
  <1> QED BY <1>3, <1>4

-----------------------------------------------------------------------------
(* The theorems.                                                           *)

\* Inv is an invariant of the semaphore: rt_sem_take, rt_sem_release,
\* rt_sem_control and rt_sem_detach keep it, and so do timeouts and signals.
THEOREM Invariance == Spec => []Inv
  <1>1. Init => Inv
    BY InitInv
  <1>2. Inv /\ [Next]_vars => Inv'
    <2> SUFFICES ASSUME Inv, [Next]_vars PROVE Inv'
      OBVIOUS
    <2>1. CASE UNCHANGED vars
      BY <2>1 DEF vars, waitvars, semvars, Inv, TypeOK, ListExact, NoIdleToken, PrioFirst,
                  Waiting, AnswerIsTrue, Detaching, InResumeAll
    <2>2. CASE Next
      <3>1. ASSUME NEW t \in Thread,
                   \/ \E time \in Time : rt_sem_take(t, time)
                   \/ TakeReturns(t) \/ Proceed(t) \/ Timeout(t)
                   \/ rt_thread_kill(t) /\ UNCHANGED semvars
                   \/ Deliver(t)
            PROVE  Inv'
        BY <3>1, TakeInv, TakeReturnsInv, ProceedInv, TimeoutInv, KillInv, DeliverInv
      <3>2. ASSUME NEW t \in Thread,
                   rt_sem_detach(t) \/ ResumeAllTest(t) \/ ResumeAllRound(t)
            PROVE  Inv'
        BY <3>2, DetachInv, ResumeAllTestInv, ResumeAllRoundInv
      <3>3. CASE rt_sem_release \/ \E v \in ResetValue : rt_sem_control(v)
        BY <3>3, ReleaseInv, ControlInv
      <3> QED BY <2>2, <3>1, <3>2, <3>3 DEF Next
    <2> QED BY <2>1, <2>2
  <1> QED BY <1>1, <1>2, PTL DEF Spec

\* The variables of the semaphore and of the threads keep their types;
\* sem->value stays within its width.
THEOREM TypeCorrect == Spec => []TypeOK
  <1>1. Inv => TypeOK
    BY DEF Inv
  <1> QED BY <1>1, Invariance, PTL

\* The list of the semaphore holds the suspended threads, each once, and only
\* they have a running timer: rt_thread_timeout and rt_sem_release always find a
\* thread that is suspended.
THEOREM WaitList == Spec => []ListExact
  <1>1. Inv => ListExact
    BY DEF Inv
  <1> QED BY <1>1, Invariance, PTL

\* No token lies idle while a thread waits.
THEOREM NoTokenIdle == Spec => []NoIdleToken
  <1>1. Inv => NoIdleToken
    BY DEF Inv
  <1> QED BY <1>1, Invariance, PTL

\* With RT_IPC_FLAG_PRIO the list is in the order of the priorities.
THEOREM UrgentServedFirst == Spec => []PrioFirst
  <1>1. Inv => PrioFirst
    BY DEF Inv
  <1> QED BY <1>1, Invariance, PTL

\* rt_sem_take answers RT_EOK exactly if a release gave the thread a token,
\* whatever races with the release, for threads that are sent no signals.
THEOREM TrueAnswers == Spec => []AnswerIsTrue
  <1>1. Inv => AnswerIsTrue
    BY DEF Inv
  <1> QED BY <1>1, Invariance, PTL

=============================================================================
