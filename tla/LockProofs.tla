----------------------------- MODULE LockProofs ------------------------------
(***************************************************************************)
(* Proofs about the two kinds of lock, for any number of CPUs and threads  *)
(* and any nesting.  CpusLock: the kernel's two locks exclude the CPUs from*)
(* one another, interrupts are masked where the kernel relies on it, and   *)
(* the lock implements KernelLock; there is one lemma for each action.     *)
(* TicketLock: the spinlock below them implements the queue of FifoLock,   *)
(* for any range of the counters that has a value for each CPU; the        *)
(* tickets of the CPUs in the lock are the values from owner up to next,   *)
(* modulo the range, one for each.                                         *)
(***************************************************************************)
EXTENDS CpusLock, TicketLock, FiniteSetTheorems, TLAPS

-----------------------------------------------------------------------------
(* The inductive invariant.                                                *)

OnList(s, c) == \E i \in DOMAIN s : s[i] = c
Distinct(s) == \A i, j \in DOMAIN s : s[i] = s[j] => i = j

\* The queue s of a lock that the CPUs of I rely on and those of W spin on.
LockOK(s, I, W) ==
    /\ s \in Seq(CPU)
    /\ Distinct(s)
    /\ \A c \in CPU : OnList(s, c) <=> c \in I \cup W
    /\ I \cap W = {}
    /\ \A c \in I : s # << >> /\ Head(s) = c

KernelSet == {c \in CPU : InKernel(c)}
CriticalSet == {c \in CPU : InCritical(c)}
SpinSet(l) == {c \in CPU : pc[c] = l}

Queues ==
    /\ LockOK(spin["_cpus_lock"], KernelSet, SpinSet("_cpus_lock"))
    /\ LockOK(spin["_rt_critical_lock"], CriticalSet, SpinSet("_rt_critical_lock"))

InIrq(c) == stage[c] \in {"enter", "handler", "leave", "switch"}

\* What holds of CPU c before it runs its first thread.
Booting(c) ==
    stage[c] \in {"boot", "start"} =>
        /\ current_thread[c] = NoThread
        /\ pc[c] # "_rt_critical_lock"
        /\ stage[c] = "boot" => pc[c] = "run"
        /\ ~cpsr[c] /\ irq_nest[c] = 0

\* What holds of CPU c when it runs thread t: the saved masks say that
\* interrupts were enabled only at the outermost lock of thread code.
Serving(c, t) ==
    /\ irq_nest[c] = IF stage[c] \in {"handler", "leave"} THEN 1 ELSE 0
    /\ pc[c] = "_cpus_lock" => cpus_lock_nest[t] = 1
    /\ pc[c] = "_rt_critical_lock" =>
          /\ stage[c] = "thread"
          /\ scheduler_lock_nest[t] = Held(cpus_lock_nest[t])
          /\ MaxCritical > 0
          /\ cpus_lock_nest[t] > 0 => ~level[t][cpus_lock_nest[t] + 1]
    /\ cpsr[c] => stage[c] = "thread" /\ pc[c] = "run" /\ cpus_lock_nest[t] = 0
    /\ InIrq(c) => spsr[t] /\ (cpus_lock_nest[t] > 0 => ~level[t][1])
    /\ stage[c] \in {"enter", "leave", "switch"} => cpus_lock_nest[t] <= 1

CpuOK(c) ==
    /\ Booting(c)
    /\ stage[c] \notin {"boot", "start"} =>
          current_thread[c] \in Thread /\ Serving(c, current_thread[c])

OneEach == \A c, d \in CPU :
    current_thread[c] = current_thread[d] /\ current_thread[c] # NoThread => c = d

\* A thread that no CPU runs is in no critical section, and will go on with
\* interrupts masked if it is in the middle of a kernel section.
ParkedOK(t) ==
    /\ spsr[t] => cpus_lock_nest[t] = 0
    /\ scheduler_lock_nest[t] = Held(cpus_lock_nest[t])

CountersOK(t) ==
    /\ scheduler_lock_nest[t] >= Held(cpus_lock_nest[t])
    /\ scheduler_lock_nest[t] <= MaxCritical + Held(cpus_lock_nest[t])
    /\ \A n \in 2 .. MaxNest : n <= cpus_lock_nest[t] => ~level[t][n]

Cpus == \A c \in CPU : CpuOK(c)
Parked == \A t \in Thread : (\A c \in CPU : current_thread[c] # t) => ParkedOK(t)
Counters == \A t \in Thread : CountersOK(t)

Inv == TypeOK /\ Queues /\ Cpus /\ OneEach /\ Parked /\ Counters

-----------------------------------------------------------------------------
(* The queue of a lock.                                                    *)

\* A CPU that draws a ticket joins the CPUs that spin.
LEMMA Draw ==
    ASSUME NEW s, NEW I, NEW W, NEW c \in CPU, LockOK(s, I, W), c \notin I \cup W
    PROVE  LockOK(Append(s, c), I, W \cup {c})
  <1>1. s \in Seq(CPU) /\ Distinct(s) /\ ~OnList(s, c)
    BY DEF LockOK
  <1> DEFINE a == Append(s, c)
  <1>2. /\ a \in Seq(CPU)
        /\ DOMAIN s = 1 .. Len(s) /\ DOMAIN a = 1 .. (Len(s) + 1) /\ Len(s) \in Nat
        /\ \A i \in 1 .. Len(s) : a[i] = s[i]
        /\ a[Len(s) + 1] = c
    BY <1>1
  <1>3. Distinct(a)
    BY <1>1, <1>2 DEF Distinct, OnList
  <1>4. \A d \in CPU : OnList(a, d) <=> OnList(s, d) \/ d = c
    BY <1>2 DEF OnList
  <1>5. s # << >> => Head(a) = Head(s) /\ a # << >>
    BY <1>1
  <1> QED BY <1>2, <1>3, <1>4, <1>5 DEF LockOK

\* A CPU whose turn has come and that sees it relies on the lock from then on.
LEMMA Get ==
    ASSUME NEW s, NEW I, NEW W, NEW c \in CPU, LockOK(s, I, W), c \in W, Head(s) = c
    PROVE  LockOK(s, I \cup {c}, W \ {c}) /\ I = {}
  <1>1. s # << >>
    <2>1. OnList(s, c)
      BY DEF LockOK
    <2> QED BY <2>1 DEF OnList, LockOK
  <1> QED BY <1>1 DEF LockOK

\* The CPU that relies on the lock is the only one, and gives it up.
LEMMA Release ==
    ASSUME NEW s, NEW I, NEW W, NEW c \in CPU, LockOK(s, I, W), c \in I
    PROVE  LockOK(Tail(s), I \ {c}, W) /\ I = {c}
  <1>1. s \in Seq(CPU) /\ Distinct(s) /\ s # << >> /\ Head(s) = c /\ I = {c} \cap CPU
    <2>1. I \subseteq CPU
      <3> SUFFICES ASSUME NEW d \in I PROVE d \in CPU
        OBVIOUS
      <3>1. s \in Seq(CPU) /\ s # << >> /\ Head(s) = d
        BY DEF LockOK
      <3> QED BY <3>1
    <2> QED BY <2>1 DEF LockOK
  <1> DEFINE r == Tail(s)
  <1>2. /\ r \in Seq(CPU)
        /\ Len(s) \in Nat \ {0}
        /\ DOMAIN s = 1 .. Len(s) /\ DOMAIN r = 1 .. (Len(s) - 1)
        /\ \A i \in 1 .. Len(s) - 1 : r[i] = s[i + 1]
        /\ s[1] = c
    BY <1>1
  <1>3. Distinct(r)
    BY <1>1, <1>2 DEF Distinct
  <1>4. \A d \in CPU : OnList(r, d) <=> OnList(s, d) /\ d # c
    <2> TAKE d \in CPU
    <2>1. ASSUME OnList(s, d), d # c PROVE OnList(r, d)
      <3>1. PICK i \in 1 .. Len(s) : s[i] = d
        BY <1>2, <2>1 DEF OnList
      <3>2. i # 1 /\ i - 1 \in 1 .. Len(s) - 1 /\ r[i - 1] = d
        BY <1>2, <2>1, <3>1
      <3> QED BY <1>2, <3>2 DEF OnList
    <2>2. ASSUME OnList(r, d) PROVE OnList(s, d) /\ d # c
      <3>1. PICK i \in 1 .. Len(s) - 1 : s[i + 1] = d
        BY <1>2, <2>2 DEF OnList
      <3>2. i + 1 \in 1 .. Len(s) /\ i + 1 # 1
        BY <1>2
      <3> QED BY <1>1, <1>2, <3>1, <3>2 DEF OnList, Distinct
    <2> QED BY <2>1, <2>2
  <1> QED BY <1>1, <1>2, <1>3, <1>4 DEF LockOK

-----------------------------------------------------------------------------
(* What a step of CPU c leaves alone.                                      *)

\* The state of another CPU, and of the threads other than the one that c runs.
OthersKeep(c) ==
    /\ \A d \in CPU \ {c} :
          /\ stage'[d] = stage[d] /\ pc'[d] = pc[d] /\ cpsr'[d] = cpsr[d]
          /\ current_thread'[d] = current_thread[d] /\ irq_nest'[d] = irq_nest[d]
    /\ \A u \in Thread \ {current_thread[c]} :
          /\ cpus_lock_nest'[u] = cpus_lock_nest[u]
          /\ scheduler_lock_nest'[u] = scheduler_lock_nest[u]
          /\ level'[u] = level[u] /\ spsr'[u] = spsr[u]
    /\ \/ current_thread'[c] = current_thread[c]
       \/ /\ current_thread'[c] \in Thread
          /\ \A d \in CPU : current_thread[d] # current_thread'[c]

\* Such a step keeps what the invariant says of the other CPUs, and changes the
\* membership of c alone in the sets of CPUs that rely or spin on a lock.
LEMMA Frame ==
    ASSUME Inv, NEW c \in CPU, OthersKeep(c)
    PROVE  /\ OneEach'
           /\ \A d \in CPU \ {c} : CpuOK(d)'
           /\ \A d \in CPU \ {c} : /\ InKernel(d)' <=> InKernel(d)
                                  /\ InCritical(d)' <=> InCritical(d)
           /\ KernelSet' = IF InKernel(c)' THEN KernelSet \cup {c} ELSE KernelSet \ {c}
           /\ CriticalSet' = IF InCritical(c)' THEN CriticalSet \cup {c}
                                               ELSE CriticalSet \ {c}
           /\ \A l \in Lock : SpinSet(l)' = IF pc'[c] = l THEN SpinSet(l) \cup {c}
                                                          ELSE SpinSet(l) \ {c}
  <1>1. OneEach'
    <2> SUFFICES ASSUME NEW d \in CPU, NEW e \in CPU, current_thread'[d] = current_thread'[e],
                        current_thread'[d] # NoThread
                 PROVE  d = e
      BY DEF OneEach
    <2>1. \A b \in CPU : b # c => current_thread'[b] = current_thread[b]
      BY DEF OthersKeep
    <2>2. CASE current_thread'[c] = current_thread[c]
      BY <2>1, <2>2 DEF Inv, OneEach
    <2>3. CASE \A b \in CPU : current_thread[b] # current_thread'[c]
      <3>1. CASE d = c \/ e = c
        BY <2>1, <2>3, <3>1
      <3>2. CASE d # c /\ e # c
        BY <2>1, <3>2 DEF Inv, OneEach
      <3> QED BY <3>1, <3>2
    <2> QED BY <2>2, <2>3 DEF OthersKeep
  <1>2. ASSUME NEW d \in CPU \ {c}
        PROVE  /\ CpuOK(d)'
               /\ InKernel(d)' <=> InKernel(d)
               /\ InCritical(d)' <=> InCritical(d)
    <2>1. /\ stage'[d] = stage[d] /\ pc'[d] = pc[d] /\ cpsr'[d] = cpsr[d]
          /\ current_thread'[d] = current_thread[d] /\ irq_nest'[d] = irq_nest[d]
      BY DEF OthersKeep
    <2>2. CpuOK(d)
      BY DEF Inv, Cpus, CpuOK
    <2>3. CASE current_thread[d] = NoThread
      <3>1. stage[d] \in {"boot", "start"}
        BY <2>2, <2>3, CpusLockAssumption DEF CpuOK
      <3> QED BY <2>1, <2>2, <2>3, <3>1
              DEF CpuOK, Booting, InKernel, InCritical, Self
    <2>4. CASE current_thread[d] # NoThread
      <3>0. PICK u \in Thread : u = current_thread[d]
        BY <2>4 DEF Inv, TypeOK
      <3>1. u \in Thread \ {current_thread[c]}
        BY <2>4, <3>0 DEF Inv, OneEach
      <3>2. /\ cpus_lock_nest'[u] = cpus_lock_nest[u]
            /\ scheduler_lock_nest'[u] = scheduler_lock_nest[u]
            /\ level'[u] = level[u] /\ spsr'[u] = spsr[u]
        BY <3>1 DEF OthersKeep
      <3>3. current_thread'[d] = u
        BY <2>1, <3>0
      <3>4. stage[d] \notin {"boot", "start"} /\ Serving(d, u)
        BY <2>2, <2>4, <3>0 DEF CpuOK, Booting
      <3>5. Serving(d, u)'
        BY <2>1, <3>2, <3>4 DEF Serving, InIrq
      <3>6. CpuOK(d)'
        BY <2>1, <3>1, <3>3, <3>4, <3>5 DEF CpuOK, Booting
      <3> QED BY <2>1, <3>0, <3>2, <3>3, <3>6 DEF InKernel, InCritical, Self, Critical
    <2> QED BY <2>3, <2>4
  <1>3. KernelSet' = IF InKernel(c)' THEN KernelSet \cup {c} ELSE KernelSet \ {c}
    BY <1>2 DEF KernelSet
  <1>4. CriticalSet' = IF InCritical(c)' THEN CriticalSet \cup {c} ELSE CriticalSet \ {c}
    BY <1>2 DEF CriticalSet
  <1>5. \A l \in Lock : SpinSet(l)' = IF pc'[c] = l THEN SpinSet(l) \cup {c}
                                                   ELSE SpinSet(l) \ {c}
    BY DEF SpinSet, OthersKeep
  <1> QED BY <1>1, <1>2, <1>3, <1>4, <1>5

\* So it is enough to look at CPU c, at the thread it ran and at the queues.
LEMMA Assemble ==
    ASSUME Inv, NEW c \in CPU, OthersKeep(c), TypeOK', Queues', CpuOK(c)',
           \A t \in Thread : t = current_thread[c] =>
              CountersOK(t)' /\ (current_thread'[c] # t => ParkedOK(t)')
    PROVE  Inv'
  <1>1. OneEach' /\ Cpus'
    BY Frame DEF Cpus
  <1>2. Counters'
    <2> SUFFICES ASSUME NEW t \in Thread, t # current_thread[c] PROVE CountersOK(t)'
      BY DEF Counters
    <2> QED BY DEF Inv, Counters, CountersOK, OthersKeep
  <1>3. Parked'
    <2> SUFFICES ASSUME NEW t \in Thread, \A d \in CPU : current_thread'[d] # t
                 PROVE  ParkedOK(t)'
      BY DEF Parked
    <2>1. CASE t # current_thread[c]
      <3>1. ParkedOK(t)
        BY <2>1 DEF Inv, Parked, OthersKeep
      <3> QED BY <2>1, <3>1 DEF ParkedOK, OthersKeep
    <2> QED BY <2>1
  <1> QED BY <1>1, <1>2, <1>3 DEF Inv

\* A step that changes no lock keeps the queues.
LEMMA SameQueues ==
    ASSUME Inv, NEW c \in CPU, OthersKeep(c), spin' = spin, pc'[c] = pc[c],
           InKernel(c)' <=> InKernel(c), InCritical(c)' <=> InCritical(c)
    PROVE  Queues'
  <1>1. KernelSet' = KernelSet /\ CriticalSet' = CriticalSet
    BY Frame DEF KernelSet, CriticalSet
  <1>2. SpinSet("_cpus_lock")' = SpinSet("_cpus_lock")
    BY Frame DEF SpinSet, Lock
  <1>3. SpinSet("_rt_critical_lock")' = SpinSet("_rt_critical_lock")
    BY Frame DEF SpinSet, Lock
  <1> QED BY <1>1, <1>2, <1>3 DEF Inv, Queues

\* CPU c runs thread t, by the code of the thread or of an interrupt.
LEMMA Runs ==
    ASSUME Inv, NEW c \in CPU, current_thread[c] # NoThread
    PROVE  /\ current_thread[c] \in Thread
           /\ stage[c] \notin {"boot", "start"}
           /\ Serving(c, current_thread[c])
           /\ CountersOK(current_thread[c])
           /\ InKernel(c) <=> pc[c] # "_cpus_lock" /\ cpus_lock_nest[current_thread[c]] > 0
           /\ InCritical(c) <=> Critical(current_thread[c]) > 0
  BY DEF Inv, Cpus, CpuOK, Booting, TypeOK, Counters, InKernel, InCritical, Self

\* CPU c begins to spin on _cpus_lock.
LEMMA KernelDraw ==
    ASSUME Inv, NEW c \in CPU, OthersKeep(c), InCritical(c)' <=> InCritical(c),
           pc[c] = "run", pc'[c] = "_cpus_lock", ~InKernel(c), ~InKernel(c)',
           spin' = [spin EXCEPT !["_cpus_lock"] = Append(@, c)]
    PROVE  Queues'
  <1>1. CriticalSet' = CriticalSet
    BY Frame DEF CriticalSet
  <1>2. SpinSet("_rt_critical_lock")' = SpinSet("_rt_critical_lock")
    BY Frame DEF SpinSet, Lock
  <1>3. KernelSet' = KernelSet /\ c \notin KernelSet \cup SpinSet("_cpus_lock")
    BY Frame DEF KernelSet, SpinSet
  <1>4. SpinSet("_cpus_lock")' = SpinSet("_cpus_lock") \cup {c}
    BY Frame DEF Lock
  <1>5. /\ spin'["_cpus_lock"] = Append(spin["_cpus_lock"], c)
        /\ spin'["_rt_critical_lock"] = spin["_rt_critical_lock"]
    BY DEF Inv, TypeOK, Lock
  <1>6. LockOK(spin'["_cpus_lock"], KernelSet', SpinSet("_cpus_lock")')
    BY <1>3, <1>4, <1>5, Draw DEF Inv, Queues
  <1>7. LockOK(spin'["_rt_critical_lock"], CriticalSet', SpinSet("_rt_critical_lock")')
    BY <1>1, <1>2, <1>5 DEF Inv, Queues
  <1> QED BY <1>6, <1>7 DEF Queues

\* CPU c gets _cpus_lock, which no CPU relied on.
LEMMA KernelGet ==
    ASSUME Inv, NEW c \in CPU, OthersKeep(c), InCritical(c)' <=> InCritical(c),
           pc[c] = "_cpus_lock", Head(spin["_cpus_lock"]) = c, pc'[c] = "run", InKernel(c)',
           spin' = spin
    PROVE  Queues' /\ KernelSet = {} /\ KernelSet' = {c}
  <1>1. CriticalSet' = CriticalSet
    BY Frame DEF CriticalSet
  <1>2. SpinSet("_rt_critical_lock")' = SpinSet("_rt_critical_lock")
    BY Frame DEF SpinSet, Lock
  <1>3. KernelSet' = KernelSet \cup {c} /\ c \in SpinSet("_cpus_lock")
    BY Frame DEF SpinSet
  <1>4. SpinSet("_cpus_lock")' = SpinSet("_cpus_lock") \ {c}
    BY Frame DEF Lock
  <1>5. LockOK(spin'["_cpus_lock"], KernelSet', SpinSet("_cpus_lock")') /\ KernelSet = {}
    BY <1>3, <1>4, Get DEF Inv, Queues
  <1>6. LockOK(spin'["_rt_critical_lock"], CriticalSet', SpinSet("_rt_critical_lock")')
    BY <1>1, <1>2 DEF Inv, Queues
  <1> QED BY <1>3, <1>5, <1>6 DEF Queues

\* CPU c, the only one to rely on _cpus_lock, gives it up.
LEMMA KernelRelease ==
    ASSUME Inv, NEW c \in CPU, OthersKeep(c), InCritical(c)' <=> InCritical(c),
           InKernel(c), ~InKernel(c)', pc[c] = "run", pc'[c] = "run",
           spin' = [spin EXCEPT !["_cpus_lock"] = Tail(@)]
    PROVE  Queues' /\ KernelSet = {c} /\ KernelSet' = {}
  <1>1. CriticalSet' = CriticalSet
    BY Frame DEF CriticalSet
  <1>2. SpinSet("_rt_critical_lock")' = SpinSet("_rt_critical_lock")
    BY Frame DEF SpinSet, Lock
  <1>3. KernelSet' = KernelSet \ {c} /\ c \in KernelSet
    BY Frame DEF KernelSet
  <1>4. SpinSet("_cpus_lock")' = SpinSet("_cpus_lock")
    BY Frame DEF SpinSet, Lock
  <1>5. /\ spin'["_cpus_lock"] = Tail(spin["_cpus_lock"])
        /\ spin'["_rt_critical_lock"] = spin["_rt_critical_lock"]
    BY DEF Inv, TypeOK, Lock
  <1>6. LockOK(spin'["_cpus_lock"], KernelSet', SpinSet("_cpus_lock")') /\ KernelSet = {c}
    BY <1>3, <1>4, <1>5, Release DEF Inv, Queues
  <1>7. LockOK(spin'["_rt_critical_lock"], CriticalSet', SpinSet("_rt_critical_lock")')
    BY <1>1, <1>2, <1>5 DEF Inv, Queues
  <1> QED BY <1>3, <1>6, <1>7 DEF Queues

\* CPU c begins to spin on _rt_critical_lock.
LEMMA CriticalDraw ==
    ASSUME Inv, NEW c \in CPU, OthersKeep(c), InKernel(c)' <=> InKernel(c),
           pc[c] = "run", pc'[c] = "_rt_critical_lock", ~InCritical(c), ~InCritical(c)',
           spin' = [spin EXCEPT !["_rt_critical_lock"] = Append(@, c)]
    PROVE  Queues'
  <1>1. KernelSet' = KernelSet
    BY Frame DEF KernelSet
  <1>2. SpinSet("_cpus_lock")' = SpinSet("_cpus_lock")
    BY Frame DEF SpinSet, Lock
  <1>3. CriticalSet' = CriticalSet /\ c \notin CriticalSet \cup SpinSet("_rt_critical_lock")
    BY Frame DEF CriticalSet, SpinSet
  <1>4. SpinSet("_rt_critical_lock")' = SpinSet("_rt_critical_lock") \cup {c}
    BY Frame DEF Lock
  <1>5. /\ spin'["_rt_critical_lock"] = Append(spin["_rt_critical_lock"], c)
        /\ spin'["_cpus_lock"] = spin["_cpus_lock"]
    BY DEF Inv, TypeOK, Lock
  <1>6. LockOK(spin'["_rt_critical_lock"], CriticalSet', SpinSet("_rt_critical_lock")')
    BY <1>3, <1>4, <1>5, Draw DEF Inv, Queues
  <1>7. LockOK(spin'["_cpus_lock"], KernelSet', SpinSet("_cpus_lock")')
    BY <1>1, <1>2, <1>5 DEF Inv, Queues
  <1> QED BY <1>6, <1>7 DEF Queues

\* CPU c gets _rt_critical_lock, which no CPU relied on.
LEMMA CriticalGet ==
    ASSUME Inv, NEW c \in CPU, OthersKeep(c), InKernel(c)' <=> InKernel(c),
           pc[c] = "_rt_critical_lock", Head(spin["_rt_critical_lock"]) = c, pc'[c] = "run", InCritical(c)',
           spin' = spin
    PROVE  Queues' /\ CriticalSet = {} /\ CriticalSet' = {c}
  <1>1. KernelSet' = KernelSet
    BY Frame DEF KernelSet
  <1>2. SpinSet("_cpus_lock")' = SpinSet("_cpus_lock")
    BY Frame DEF SpinSet, Lock
  <1>3. CriticalSet' = CriticalSet \cup {c} /\ c \in SpinSet("_rt_critical_lock")
    BY Frame DEF SpinSet
  <1>4. SpinSet("_rt_critical_lock")' = SpinSet("_rt_critical_lock") \ {c}
    BY Frame DEF Lock
  <1>5. LockOK(spin'["_rt_critical_lock"], CriticalSet', SpinSet("_rt_critical_lock")') /\ CriticalSet = {}
    BY <1>3, <1>4, Get DEF Inv, Queues
  <1>6. LockOK(spin'["_cpus_lock"], KernelSet', SpinSet("_cpus_lock")')
    BY <1>1, <1>2 DEF Inv, Queues
  <1> QED BY <1>3, <1>5, <1>6 DEF Queues

\* CPU c, the only one to rely on _rt_critical_lock, gives it up.
LEMMA CriticalRelease ==
    ASSUME Inv, NEW c \in CPU, OthersKeep(c), InKernel(c)' <=> InKernel(c),
           InCritical(c), ~InCritical(c)', pc[c] = "run", pc'[c] = "run",
           spin' = [spin EXCEPT !["_rt_critical_lock"] = Tail(@)]
    PROVE  Queues' /\ CriticalSet = {c} /\ CriticalSet' = {}
  <1>1. KernelSet' = KernelSet
    BY Frame DEF KernelSet
  <1>2. SpinSet("_cpus_lock")' = SpinSet("_cpus_lock")
    BY Frame DEF SpinSet, Lock
  <1>3. CriticalSet' = CriticalSet \ {c} /\ c \in CriticalSet
    BY Frame DEF CriticalSet
  <1>4. SpinSet("_rt_critical_lock")' = SpinSet("_rt_critical_lock")
    BY Frame DEF SpinSet, Lock
  <1>5. /\ spin'["_rt_critical_lock"] = Tail(spin["_rt_critical_lock"])
        /\ spin'["_cpus_lock"] = spin["_cpus_lock"]
    BY DEF Inv, TypeOK, Lock
  <1>6. LockOK(spin'["_rt_critical_lock"], CriticalSet', SpinSet("_rt_critical_lock")') /\ CriticalSet = {c}
    BY <1>3, <1>4, <1>5, Release DEF Inv, Queues
  <1>7. LockOK(spin'["_cpus_lock"], KernelSet', SpinSet("_cpus_lock")')
    BY <1>1, <1>2, <1>5 DEF Inv, Queues
  <1> QED BY <1>3, <1>6, <1>7 DEF Queues

-----------------------------------------------------------------------------
(* Locks and unlocks.                                                      *)

\* rt_cpus_lock
LEMMA LockStep ==
    ASSUME Inv, NEW c \in CPU, rt_cpus_lock(c)
    PROVE  Inv' /\ OthersKeep(c) /\ current_thread' = current_thread /\ KernelSet' = KernelSet
  <1>1. PICK t \in Thread : t = current_thread[c]
    BY Runs DEF rt_cpus_lock, Running, Self
  <1>2. /\ pc[c] = "run"
        /\ stage[c] \notin {"boot", "start"}
        /\ stage[c] \in {"thread", "handler"} \/ cpus_lock_nest[t] = 0
        /\ cpus_lock_nest[t] < MaxNest
        /\ level' = [level EXCEPT ![t] = [level[t] EXCEPT ![cpus_lock_nest[t] + 1] = cpsr[c]]]
        /\ cpsr' = [cpsr EXCEPT ![c] = FALSE]
        /\ cpus_lock_nest' = [cpus_lock_nest EXCEPT ![t] = @ + 1]
        /\ UNCHANGED <<stage, current_thread, irq_nest, spsr>>
    BY <1>1, Runs DEF rt_cpus_lock, Running, Self
  <1>3. /\ cpus_lock_nest[t] = 0 =>
              /\ scheduler_lock_nest' = [scheduler_lock_nest EXCEPT ![t] = @ + 1]
              /\ spin' = [spin EXCEPT !["_cpus_lock"] = Append(@, c)]
              /\ pc' = [pc EXCEPT ![c] = "_cpus_lock"]
        /\ cpus_lock_nest[t] # 0 => UNCHANGED <<scheduler_lock_nest, spin, pc>>
    BY <1>1 DEF rt_cpus_lock, Self, rt_hw_spin_lock
  <1>4. Serving(c, t) /\ CountersOK(t)
    BY <1>1, Runs, CpusLockAssumption
  <1>5. TypeOK
    BY DEF Inv
  <1>6. TypeOK'
    <2>1. spin' \in [Lock -> Seq(CPU)] /\ pc' \in [CPU -> {"run"} \cup Lock]
      <3>1. Append(spin["_cpus_lock"], c) \in Seq(CPU)
        BY <1>5 DEF TypeOK, Lock
      <3>2. "_cpus_lock" \in Lock
        BY DEF Lock
      <3>3. CASE cpus_lock_nest[t] = 0
        <4>1. /\ spin' = [spin EXCEPT !["_cpus_lock"] = Append(@, c)]
              /\ pc' = [pc EXCEPT ![c] = "_cpus_lock"]
          BY <1>3, <3>3
        <4>2. spin \in [Lock -> Seq(CPU)] /\ pc \in [CPU -> {"run"} \cup Lock]
          BY <1>5 DEF TypeOK
        <4> QED BY <3>1, <3>2, <4>1, <4>2
      <3>4. CASE cpus_lock_nest[t] # 0
        BY <1>3, <1>5, <3>4 DEF TypeOK
      <3> QED BY <3>3, <3>4
    <2>2. /\ cpus_lock_nest' \in [Thread -> 0 .. MaxNest]
          /\ scheduler_lock_nest' \in [Thread -> 0 .. MaxCritical + 1]
      <3>1. cpus_lock_nest[t] + 1 \in 0 .. MaxNest
        BY <1>2, <1>5, CpusLockAssumption DEF TypeOK
      <3>2. cpus_lock_nest[t] = 0 => scheduler_lock_nest[t] + 1 \in 0 .. MaxCritical + 1
        BY <1>4, <1>5, CpusLockAssumption DEF TypeOK, CountersOK, Held
      <3>3. cpus_lock_nest' \in [Thread -> 0 .. MaxNest]
        BY <1>2, <1>5, <3>1 DEF TypeOK
      <3>4. CASE cpus_lock_nest[t] = 0
        <4>1. scheduler_lock_nest' = [scheduler_lock_nest EXCEPT ![t] = @ + 1]
          BY <1>3, <3>4
        <4>2. scheduler_lock_nest \in [Thread -> 0 .. MaxCritical + 1]
          BY <1>5 DEF TypeOK
        <4> QED BY <3>2, <3>3, <3>4, <4>1, <4>2
      <3>5. CASE cpus_lock_nest[t] # 0
        BY <1>3, <1>5, <3>3, <3>5 DEF TypeOK
      <3> QED BY <3>4, <3>5
    <2>3. level' \in [Thread -> [1 .. MaxNest + 1 -> BOOLEAN]]
      BY <1>2, <1>5, CpusLockAssumption DEF TypeOK
    <2> QED BY <1>2, <1>5, <2>1, <2>2, <2>3 DEF TypeOK
  <1>7. OthersKeep(c)
    BY <1>1, <1>2, <1>3, <1>5 DEF OthersKeep, TypeOK
  <1>8. CountersOK(t)'
    BY <1>2, <1>3, <1>4, <1>5, CpusLockAssumption DEF CountersOK, Held, TypeOK, Serving
  <1>9. Serving(c, t)'
    BY <1>2, <1>3, <1>4, <1>5, CpusLockAssumption DEF Serving, Held, TypeOK, InIrq
  <1>10. CpuOK(c)'
    BY <1>1, <1>2, <1>9 DEF CpuOK, Booting
  <1>11. Queues' /\ KernelSet' = KernelSet
    <2>1. CASE cpus_lock_nest[t] # 0
      <3>1. (InKernel(c)' <=> InKernel(c)) /\ (InCritical(c)' <=> InCritical(c))
        BY <1>1, <1>2, <1>3, <1>5, <2>1, CpusLockAssumption
        DEF InKernel, InCritical, Self, Critical, Held, TypeOK
      <3> QED BY <1>3, <1>7, <2>1, <3>1, SameQueues, Frame DEF KernelSet
    <2>2. CASE cpus_lock_nest[t] = 0
      <3>1. ~InKernel(c) /\ ~InKernel(c)' /\ (InCritical(c)' <=> InCritical(c))
        BY <1>1, <1>2, <1>3, <1>5, <2>2, CpusLockAssumption
        DEF InKernel, InCritical, Self, Critical, Held, TypeOK
      <3>2. pc'[c] = "_cpus_lock"
        BY <1>3, <1>5, <2>2 DEF TypeOK
      <3> QED BY <1>2, <1>3, <1>7, <2>2, <3>1, <3>2, KernelDraw, Frame DEF KernelSet
    <2> QED BY <2>1, <2>2
  <1> QED BY <1>1, <1>2, <1>6, <1>7, <1>8, <1>10, <1>11, Assemble

\* The part that the four ways to end a locked section share.
LEMMA UnlockFacts ==
    ASSUME Inv, NEW c \in CPU, NEW t \in Thread, t = current_thread[c],
           pc[c] = "run", cpus_lock_nest[t] > 0, Unlocked(c),
           stage' \in [CPU -> {"boot", "start", "thread", "enter", "handler", "leave",
                               "switch"}],
           irq_nest' \in [CPU -> {0, 1}], cpsr' \in [CPU -> BOOLEAN],
           \A d \in CPU \ {c} : /\ stage'[d] = stage[d] /\ irq_nest'[d] = irq_nest[d]
                                /\ cpsr'[d] = cpsr[d],
           stage'[c] \notin {"boot", "start"},
           UNCHANGED <<pc, current_thread, spsr, level>>
    PROVE  /\ TypeOK' /\ OthersKeep(c) /\ CountersOK(t)' /\ Queues'
           /\ Serving(c, t) /\ CountersOK(t)
           /\ cpus_lock_nest'[t] = cpus_lock_nest[t] - 1
           /\ InKernel(c)
           /\ cpus_lock_nest[t] = 1 => KernelSet = {c} /\ KernelSet' = {}
           /\ cpus_lock_nest[t] # 1 => KernelSet' = KernelSet
  <1>1. /\ cpus_lock_nest' = [cpus_lock_nest EXCEPT ![t] = @ - 1]
        /\ cpus_lock_nest[t] = 1 =>
              /\ scheduler_lock_nest' = [scheduler_lock_nest EXCEPT ![t] = @ - 1]
              /\ spin' = [spin EXCEPT !["_cpus_lock"] = Tail(@)]
        /\ cpus_lock_nest[t] # 1 => UNCHANGED <<scheduler_lock_nest, spin>>
    BY DEF Unlocked, Self, rt_hw_spin_unlock
  <1>2. /\ Serving(c, t) /\ CountersOK(t) /\ stage[c] \notin {"boot", "start"}
        /\ InKernel(c)
    BY Runs, CpusLockAssumption
  <1>3. TypeOK
    BY DEF Inv
  <1>4. spin["_cpus_lock"] # << >>
    BY <1>2 DEF Inv, Queues, LockOK, KernelSet
  <1>5. TypeOK'
    <2>1. spin' \in [Lock -> Seq(CPU)]
      <3>1. Tail(spin["_cpus_lock"]) \in Seq(CPU)
        BY <1>3, <1>4 DEF TypeOK, Lock
      <3>2. "_cpus_lock" \in Lock
        BY DEF Lock
      <3> QED BY <1>1, <1>3, <3>1, <3>2 DEF TypeOK
    <2>2. /\ cpus_lock_nest' \in [Thread -> 0 .. MaxNest]
          /\ scheduler_lock_nest' \in [Thread -> 0 .. MaxCritical + 1]
      <3>1. cpus_lock_nest[t] - 1 \in 0 .. MaxNest
        BY <1>3, CpusLockAssumption DEF TypeOK
      <3>2. cpus_lock_nest[t] = 1 => scheduler_lock_nest[t] - 1 \in 0 .. MaxCritical + 1
        BY <1>2, <1>3, CpusLockAssumption DEF TypeOK, CountersOK, Held
      <3> QED BY <1>1, <1>3, <3>1, <3>2 DEF TypeOK
    <2> QED BY <1>3, <2>1, <2>2 DEF TypeOK
  <1>6. OthersKeep(c)
    BY <1>1, <1>3 DEF OthersKeep, TypeOK
  <1>7. CountersOK(t)'
    BY <1>1, <1>2, <1>3, CpusLockAssumption DEF CountersOK, Held, TypeOK
  <1>8. cpus_lock_nest'[t] = cpus_lock_nest[t] - 1
    BY <1>1, <1>3 DEF TypeOK
  <1>9. CASE cpus_lock_nest[t] = 1
    <2>1. ~InKernel(c)' /\ (InCritical(c)' <=> InCritical(c))
      BY <1>1, <1>2, <1>3, <1>9, CpusLockAssumption
      DEF InKernel, InCritical, Self, Critical, Held, TypeOK
    <2>2. Queues' /\ KernelSet = {c} /\ KernelSet' = {}
      BY <1>1, <1>2, <1>6, <1>9, <2>1, KernelRelease
    <2> QED BY <1>2, <1>5, <1>6, <1>7, <1>8, <1>9, <2>2
  <1>10. CASE cpus_lock_nest[t] # 1
    <2>1. InKernel(c)' /\ (InCritical(c)' <=> InCritical(c))
      BY <1>1, <1>2, <1>3, <1>10, CpusLockAssumption
      DEF InKernel, InCritical, Self, Critical, Held, TypeOK
    <2>2. Queues'
      BY <1>1, <1>2, <1>6, <1>10, <2>1, SameQueues
    <2>3. KernelSet' = KernelSet
      BY <1>2, <1>6, <2>1, Frame DEF KernelSet
    <2> QED BY <1>2, <1>5, <1>6, <1>7, <1>8, <1>10, <2>2, <2>3
  <1> QED BY <1>9, <1>10

\* rt_cpus_unlock: the mask it restores was saved by the lock it undoes.
LEMMA UnlockStep ==
    ASSUME Inv, NEW c \in CPU, rt_cpus_unlock(c)
    PROVE  /\ Inv' /\ OthersKeep(c) /\ current_thread' = current_thread
           /\ \/ KernelSet' = KernelSet
              \/ KernelSet = {c} /\ KernelSet' = {}
  <1>1. PICK t \in Thread : t = current_thread[c]
    BY Runs DEF rt_cpus_unlock, Running, Self
  <1>2. TypeOK
    BY DEF Inv
  <1>3. /\ pc[c] = "run" /\ stage[c] \in {"thread", "handler"} /\ Serving(c, t) /\ CountersOK(t)
        /\ cpus_lock_nest[t] > 0 /\ Unlocked(c)
        /\ cpsr' = [cpsr EXCEPT ![c] = level[t][cpus_lock_nest[t]]]
        /\ stage' = stage
        /\ irq_nest' = irq_nest
        /\ UNCHANGED <<pc, current_thread, spsr, level>>
    BY <1>1, <1>2, Runs, CpusLockAssumption DEF rt_cpus_unlock, Running, Self, TypeOK
  <1>4. /\ TypeOK' /\ OthersKeep(c) /\ CountersOK(t)' /\ Queues'
        /\ Serving(c, t) /\ CountersOK(t)
        /\ cpus_lock_nest'[t] = cpus_lock_nest[t] - 1
        /\ \/ KernelSet' = KernelSet
           \/ KernelSet = {c} /\ KernelSet' = {}
    <2>1. /\ stage' \in [CPU -> {"boot", "start", "thread", "enter", "handler", "leave",
                                "switch"}]
          /\ irq_nest' \in [CPU -> {0, 1}] /\ cpsr' \in [CPU -> BOOLEAN]
      BY <1>2, <1>3, CpusLockAssumption DEF TypeOK, Serving
    <2>2. /\ \A d \in CPU \ {c} : /\ stage'[d] = stage[d] /\ irq_nest'[d] = irq_nest[d]
                                 /\ cpsr'[d] = cpsr[d]
          /\ stage'[c] \notin {"boot", "start"}
      BY <1>2, <1>3 DEF TypeOK
    <2> QED BY <1>1, <1>3, <2>1, <2>2, UnlockFacts
  <1>5. Serving(c, t)'
    BY <1>2, <1>3, <1>4, CpusLockAssumption DEF Serving, CountersOK, Held, TypeOK, InIrq
  <1>6. CpuOK(c)'
    BY <1>1, <1>2, <1>3, <1>5 DEF CpuOK, Booting, TypeOK
  <1> QED BY <1>1, <1>3, <1>4, <1>6, Assemble

\* rt_interrupt_enter
LEMMA InterruptEnterStep ==
    ASSUME Inv, NEW c \in CPU, rt_interrupt_enter(c)
    PROVE  /\ Inv' /\ OthersKeep(c) /\ current_thread' = current_thread
           /\ KernelSet = {c} /\ KernelSet' = {}
  <1>1. PICK t \in Thread : t = current_thread[c]
    BY Runs DEF rt_interrupt_enter, Running, Self
  <1>2. TypeOK
    BY DEF Inv
  <1>3. /\ pc[c] = "run" /\ stage[c] = "enter" /\ Serving(c, t) /\ CountersOK(t)
        /\ cpus_lock_nest[t] > 0 /\ cpus_lock_nest[t] = 1 /\ Unlocked(c)
        /\ cpsr' = [cpsr EXCEPT ![c] = level[t][1]]
        /\ stage' = [stage EXCEPT ![c] = "handler"]
        /\ irq_nest' = [irq_nest EXCEPT ![c] = @ + 1]
        /\ UNCHANGED <<pc, current_thread, spsr, level>>
    BY <1>1, <1>2, Runs, CpusLockAssumption DEF rt_interrupt_enter, Running, Self, TypeOK
  <1>4. /\ TypeOK' /\ OthersKeep(c) /\ CountersOK(t)' /\ Queues'
        /\ Serving(c, t) /\ CountersOK(t)
        /\ cpus_lock_nest'[t] = cpus_lock_nest[t] - 1
        /\ KernelSet = {c} /\ KernelSet' = {}
    <2>1. /\ stage' \in [CPU -> {"boot", "start", "thread", "enter", "handler", "leave",
                                "switch"}]
          /\ irq_nest' \in [CPU -> {0, 1}] /\ cpsr' \in [CPU -> BOOLEAN]
      BY <1>2, <1>3, CpusLockAssumption DEF TypeOK, Serving
    <2>2. /\ \A d \in CPU \ {c} : /\ stage'[d] = stage[d] /\ irq_nest'[d] = irq_nest[d]
                                 /\ cpsr'[d] = cpsr[d]
          /\ stage'[c] \notin {"boot", "start"}
      BY <1>2, <1>3 DEF TypeOK
    <2> QED BY <1>1, <1>3, <2>1, <2>2, UnlockFacts
  <1>5. Serving(c, t)'
    BY <1>2, <1>3, <1>4, CpusLockAssumption DEF Serving, CountersOK, Held, TypeOK, InIrq
  <1>6. CpuOK(c)'
    BY <1>1, <1>2, <1>3, <1>5 DEF CpuOK, Booting, TypeOK
  <1> QED BY <1>1, <1>3, <1>4, <1>6, Assemble

\* rt_interrupt_leave
LEMMA InterruptLeaveStep ==
    ASSUME Inv, NEW c \in CPU, rt_interrupt_leave(c)
    PROVE  /\ Inv' /\ OthersKeep(c) /\ current_thread' = current_thread
           /\ KernelSet = {c} /\ KernelSet' = {}
  <1>1. PICK t \in Thread : t = current_thread[c]
    BY Runs DEF rt_interrupt_leave, Running, Self
  <1>2. TypeOK
    BY DEF Inv
  <1>3. /\ pc[c] = "run" /\ stage[c] = "leave" /\ Serving(c, t) /\ CountersOK(t)
        /\ cpus_lock_nest[t] > 0 /\ cpus_lock_nest[t] = 1 /\ Unlocked(c)
        /\ cpsr' = [cpsr EXCEPT ![c] = level[t][1]]
        /\ stage' = [stage EXCEPT ![c] = "switch"]
        /\ irq_nest' = [irq_nest EXCEPT ![c] = @ - 1]
        /\ UNCHANGED <<pc, current_thread, spsr, level>>
    BY <1>1, <1>2, Runs, CpusLockAssumption DEF rt_interrupt_leave, Running, Self, TypeOK
  <1>4. /\ TypeOK' /\ OthersKeep(c) /\ CountersOK(t)' /\ Queues'
        /\ Serving(c, t) /\ CountersOK(t)
        /\ cpus_lock_nest'[t] = cpus_lock_nest[t] - 1
        /\ KernelSet = {c} /\ KernelSet' = {}
    <2>1. /\ stage' \in [CPU -> {"boot", "start", "thread", "enter", "handler", "leave",
                                "switch"}]
          /\ irq_nest' \in [CPU -> {0, 1}] /\ cpsr' \in [CPU -> BOOLEAN]
      BY <1>2, <1>3, CpusLockAssumption DEF TypeOK, Serving
    <2>2. /\ \A d \in CPU \ {c} : /\ stage'[d] = stage[d] /\ irq_nest'[d] = irq_nest[d]
                                 /\ cpsr'[d] = cpsr[d]
          /\ stage'[c] \notin {"boot", "start"}
      BY <1>2, <1>3 DEF TypeOK
    <2> QED BY <1>1, <1>3, <2>1, <2>2, UnlockFacts
  <1>5. Serving(c, t)'
    BY <1>2, <1>3, <1>4, CpusLockAssumption DEF Serving, CountersOK, Held, TypeOK, InIrq
  <1>6. CpuOK(c)'
    BY <1>1, <1>2, <1>3, <1>5 DEF CpuOK, Booting, TypeOK
  <1> QED BY <1>1, <1>3, <1>4, <1>6, Assemble

\* rt_scheduler_do_irq_switch without a switch
LEMMA IrqReturnStep ==
    ASSUME Inv, NEW c \in CPU, IrqReturn(c)
    PROVE  /\ Inv' /\ OthersKeep(c) /\ current_thread' = current_thread
           /\ KernelSet = {c} /\ KernelSet' = {}
  <1>1. PICK t \in Thread : t = current_thread[c]
    BY Runs DEF IrqReturn, Running, Self
  <1>2. TypeOK
    BY DEF Inv
  <1>3. /\ pc[c] = "run" /\ stage[c] = "switch" /\ Serving(c, t) /\ CountersOK(t)
        /\ cpus_lock_nest[t] > 0 /\ cpus_lock_nest[t] = 1 /\ Unlocked(c)
        /\ cpsr' = [cpsr EXCEPT ![c] = spsr[t]]
        /\ stage' = [stage EXCEPT ![c] = "thread"]
        /\ irq_nest' = irq_nest
        /\ UNCHANGED <<pc, current_thread, spsr, level>>
    BY <1>1, <1>2, Runs, CpusLockAssumption DEF IrqReturn, Running, Self, TypeOK
  <1>4. /\ TypeOK' /\ OthersKeep(c) /\ CountersOK(t)' /\ Queues'
        /\ Serving(c, t) /\ CountersOK(t)
        /\ cpus_lock_nest'[t] = cpus_lock_nest[t] - 1
        /\ KernelSet = {c} /\ KernelSet' = {}
    <2>1. /\ stage' \in [CPU -> {"boot", "start", "thread", "enter", "handler", "leave",
                                "switch"}]
          /\ irq_nest' \in [CPU -> {0, 1}] /\ cpsr' \in [CPU -> BOOLEAN]
      BY <1>2, <1>3, CpusLockAssumption DEF TypeOK, Serving
    <2>2. /\ \A d \in CPU \ {c} : /\ stage'[d] = stage[d] /\ irq_nest'[d] = irq_nest[d]
                                 /\ cpsr'[d] = cpsr[d]
          /\ stage'[c] \notin {"boot", "start"}
      BY <1>2, <1>3 DEF TypeOK
    <2> QED BY <1>1, <1>3, <2>1, <2>2, UnlockFacts
  <1>5. Serving(c, t)'
    BY <1>2, <1>3, <1>4, CpusLockAssumption DEF Serving, CountersOK, Held, TypeOK, InIrq
  <1>6. CpuOK(c)'
    BY <1>1, <1>2, <1>3, <1>5 DEF CpuOK, Booting, TypeOK
  <1> QED BY <1>1, <1>3, <1>4, <1>6, Assemble

-----------------------------------------------------------------------------
(* Spinning, critical sections and the ends of a handler.                  *)

\* rt_hw_spin_lock of the kernel lock returns, in a thread or at boot.
LEMMA CpusLockedStep ==
    ASSUME Inv, NEW c \in CPU, CpusLocked(c)
    PROVE  /\ Inv' /\ OthersKeep(c) /\ current_thread' = current_thread
           /\ KernelSet = {} /\ KernelSet' = {c}
  <1>1. /\ pc[c] = "_cpus_lock" /\ Head(spin["_cpus_lock"]) = c
        /\ pc' = [pc EXCEPT ![c] = "run"]
        /\ UNCHANGED <<spin, stage, current_thread, irq_nest, cpsr, spsr, cpus_lock_nest,
                       scheduler_lock_nest, level>>
    BY DEF CpusLocked, nests
  <1>2. TypeOK /\ CpuOK(c)
    BY DEF Inv, Cpus
  <1>3. TypeOK' /\ pc'[c] = "run"
    BY <1>1, <1>2 DEF TypeOK
  <1>4. OthersKeep(c)
    BY <1>1, <1>2 DEF OthersKeep, TypeOK
  <1>5. CpuOK(c)'
    <2>1. Booting(c)'
      BY <1>1, <1>2, <1>3 DEF CpuOK, Booting
    <2>2. ASSUME stage[c] \notin {"boot", "start"} PROVE Serving(c, current_thread[c])'
      BY <1>1, <1>2, <1>3, <2>2 DEF CpuOK, Serving, InIrq
    <2> QED BY <1>1, <1>2, <2>1, <2>2 DEF CpuOK
  <1>6. InKernel(c)' /\ (InCritical(c)' <=> InCritical(c))
    BY <1>1, <1>2, <1>3, CpusLockAssumption
    DEF CpuOK, Booting, Serving, InKernel, InCritical, Self, Critical
  <1>7. Queues' /\ KernelSet = {} /\ KernelSet' = {c}
    BY <1>1, <1>3, <1>4, <1>6, KernelGet
  <1>8. \A t \in Thread : CountersOK(t)'
    BY <1>1 DEF Inv, Counters, CountersOK
  <1> QED BY <1>1, <1>3, <1>4, <1>5, <1>7, <1>8, Assemble

\* rt_enter_critical up to its spinning
LEMMA EnterCriticalStep ==
    ASSUME Inv, NEW c \in CPU, rt_enter_critical(c)
    PROVE  Inv' /\ OthersKeep(c) /\ current_thread' = current_thread /\ KernelSet' = KernelSet
  <1>1. PICK t \in Thread : t = current_thread[c]
    BY Runs DEF rt_enter_critical, Running, Self
  <1>2. /\ pc[c] = "run" /\ stage[c] = "thread"
        /\ Critical(t) < MaxCritical
        /\ UNCHANGED <<stage, current_thread, irq_nest, spsr, cpus_lock_nest>>
    BY <1>1 DEF rt_enter_critical, Running, Self
  <1>3. Serving(c, t) /\ CountersOK(t) /\ TypeOK
    BY <1>1, Runs, CpusLockAssumption DEF Inv
  <1>4. CASE scheduler_lock_nest[t] = Held(cpus_lock_nest[t])
    <2>1. /\ spin' = [spin EXCEPT !["_rt_critical_lock"] = Append(@, c)]
          /\ pc' = [pc EXCEPT ![c] = "_rt_critical_lock"]
          /\ level' = [level EXCEPT ![t] = [level[t] EXCEPT ![cpus_lock_nest[t] + 1] = cpsr[c]]]
          /\ cpsr' = [cpsr EXCEPT ![c] = FALSE]
          /\ UNCHANGED scheduler_lock_nest
      BY <1>1, <1>4 DEF rt_enter_critical, Self, rt_hw_spin_lock
    <2>2. /\ Append(spin["_rt_critical_lock"], c) \in Seq(CPU)
          /\ "_rt_critical_lock" \in Lock
      BY <1>3 DEF TypeOK, Lock
    <2>3. spin' \in [Lock -> Seq(CPU)] /\ pc' \in [CPU -> {"run"} \cup Lock]
      <3>1. spin \in [Lock -> Seq(CPU)] /\ pc \in [CPU -> {"run"} \cup Lock]
        BY <1>3 DEF TypeOK
      <3> QED BY <2>1, <2>2, <3>1
    <2>4. level' \in [Thread -> [1 .. MaxNest + 1 -> BOOLEAN]]
      BY <1>3, <2>1, CpusLockAssumption DEF TypeOK
    <2>5. TypeOK'
      BY <1>2, <1>3, <2>1, <2>3, <2>4 DEF TypeOK
    <2>6. OthersKeep(c)
      BY <1>1, <1>2, <1>3, <2>1 DEF OthersKeep, TypeOK
    <2>7. CountersOK(t)'
      BY <1>2, <1>3, <2>1, CpusLockAssumption DEF CountersOK, TypeOK
    <2>8. MaxCritical > 0
      BY <1>2, <1>3, <1>4, CpusLockAssumption DEF Critical, Held, TypeOK
    <2>9. Serving(c, t)'
      BY <1>2, <1>3, <1>4, <2>1, <2>8, CpusLockAssumption
      DEF Serving, TypeOK, InIrq, Held
    <2>10. CpuOK(c)'
      BY <1>1, <1>2, <2>9 DEF CpuOK, Booting
    <2>11. ~InCritical(c) /\ ~InCritical(c)' /\ (InKernel(c)' <=> InKernel(c))
      BY <1>1, <1>2, <1>3, <1>4, <2>1, CpusLockAssumption
      DEF InKernel, InCritical, Self, Critical, Held, TypeOK
    <2>12. pc'[c] = "_rt_critical_lock"
      BY <1>3, <2>1 DEF TypeOK
    <2>13. Queues'
      BY <1>2, <2>1, <2>6, <2>11, <2>12, CriticalDraw
    <2>14. KernelSet' = KernelSet
      BY <2>6, <2>11, Frame DEF KernelSet
    <2> QED BY <2>14, <1>1, <1>2, <2>5, <2>6, <2>7, <2>10, <2>13, Assemble
  <1>5. CASE scheduler_lock_nest[t] # Held(cpus_lock_nest[t])
    <2>1. /\ scheduler_lock_nest' = [scheduler_lock_nest EXCEPT ![t] = @ + 1]
          /\ UNCHANGED <<spin, pc, level, cpsr>>
      BY <1>1, <1>5 DEF rt_enter_critical, Self
    <2>2. /\ scheduler_lock_nest[t] + 1 \in 0 .. MaxCritical + 1
          /\ scheduler_lock_nest[t] + 1 <= MaxCritical + Held(cpus_lock_nest[t])
      BY <1>2, <1>3, CpusLockAssumption DEF TypeOK, CountersOK, Critical, Held
    <2>3. TypeOK'
      BY <1>2, <1>3, <2>1, <2>2 DEF TypeOK
    <2>4. OthersKeep(c)
      BY <1>1, <1>2, <1>3, <2>1 DEF OthersKeep, TypeOK
    <2>5. CountersOK(t)'
      BY <1>2, <1>3, <2>1, <2>2, CpusLockAssumption DEF CountersOK, TypeOK, Held
    <2>6. Serving(c, t)'
      BY <1>2, <1>3, <2>1, CpusLockAssumption DEF Serving, TypeOK, InIrq
    <2>7. CpuOK(c)'
      BY <1>1, <1>2, <2>6 DEF CpuOK, Booting
    <2>8. (InCritical(c)' <=> InCritical(c)) /\ (InKernel(c)' <=> InKernel(c))
      BY <1>1, <1>2, <1>3, <1>5, <2>1, CpusLockAssumption
      DEF InKernel, InCritical, Self, Critical, Held, TypeOK, CountersOK
    <2>9. Queues'
      BY <2>1, <2>4, <2>8, SameQueues
    <2>10. KernelSet' = KernelSet
      BY <2>4, <2>8, Frame DEF KernelSet
    <2> QED BY <2>10, <1>1, <1>2, <2>3, <2>4, <2>5, <2>7, <2>9, Assemble
  <1> QED BY <1>4, <1>5

\* the rest of rt_enter_critical
LEMMA CriticalLockedStep ==
    ASSUME Inv, NEW c \in CPU, CriticalLocked(c)
    PROVE  Inv' /\ OthersKeep(c) /\ current_thread' = current_thread /\ KernelSet' = KernelSet
  <1>1. PICK t \in Thread : t = current_thread[c]
    BY DEF CriticalLocked, Inv, Cpus, CpuOK, Booting
  <1>2. /\ pc[c] = "_rt_critical_lock" /\ Head(spin["_rt_critical_lock"]) = c
        /\ pc' = [pc EXCEPT ![c] = "run"]
        /\ scheduler_lock_nest' = [scheduler_lock_nest EXCEPT ![t] = @ + 1]
        /\ cpsr' = [cpsr EXCEPT ![c] = level[t][cpus_lock_nest[t] + 1]]
        /\ UNCHANGED <<spin, stage, current_thread, irq_nest, spsr, cpus_lock_nest, level>>
    BY <1>1 DEF CriticalLocked, Self
  <1>3. Serving(c, t) /\ CountersOK(t) /\ TypeOK /\ stage[c] \notin {"boot", "start"}
    BY <1>1, Runs, CpusLockAssumption DEF Inv
  <1>4. /\ scheduler_lock_nest[t] = Held(cpus_lock_nest[t]) /\ MaxCritical > 0
        /\ stage[c] = "thread"
    BY <1>2, <1>3 DEF Serving
  <1>5. level[t][cpus_lock_nest[t] + 1] \in BOOLEAN
    BY <1>3, CpusLockAssumption DEF TypeOK
  <1>6. scheduler_lock_nest[t] + 1 \in 0 .. MaxCritical + 1
    BY <1>3, <1>4, CpusLockAssumption DEF TypeOK, Held
  <1>7. TypeOK' /\ pc'[c] = "run"
    BY <1>2, <1>3, <1>5, <1>6 DEF TypeOK
  <1>8. OthersKeep(c)
    BY <1>1, <1>2, <1>3 DEF OthersKeep, TypeOK
  <1>9. CountersOK(t)'
    BY <1>2, <1>3, <1>4, CpusLockAssumption DEF CountersOK, TypeOK, Held
  <1>10. Serving(c, t)'
    BY <1>2, <1>3, <1>4, <1>7, CpusLockAssumption DEF Serving, TypeOK, InIrq
  <1>11. CpuOK(c)'
    BY <1>1, <1>2, <1>3, <1>10 DEF CpuOK, Booting
  <1>12. InCritical(c)' /\ (InKernel(c)' <=> InKernel(c))
    BY <1>1, <1>2, <1>3, <1>4, <1>7, CpusLockAssumption
    DEF InKernel, InCritical, Self, Critical, Held, TypeOK
  <1>13. Queues'
    BY <1>2, <1>7, <1>8, <1>12, CriticalGet
  <1>14. KernelSet' = KernelSet
    BY <1>8, <1>12, Frame DEF KernelSet
  <1> QED BY <1>14, <1>1, <1>2, <1>7, <1>8, <1>9, <1>11, <1>13, Assemble

\* rt_exit_critical
LEMMA ExitCriticalStep ==
    ASSUME Inv, NEW c \in CPU, rt_exit_critical(c)
    PROVE  Inv' /\ OthersKeep(c) /\ current_thread' = current_thread /\ KernelSet' = KernelSet
  <1>1. PICK t \in Thread : t = current_thread[c]
    BY Runs DEF rt_exit_critical, Running, Self
  <1>2. /\ pc[c] = "run" /\ stage[c] = "thread"
        /\ Critical(t) > 0
        /\ scheduler_lock_nest' = [scheduler_lock_nest EXCEPT ![t] = @ - 1]
        /\ UNCHANGED <<pc, stage, current_thread, irq_nest, cpsr, spsr, cpus_lock_nest,
                       level>>
    BY <1>1 DEF rt_exit_critical, Running, Self
  <1>3. Serving(c, t) /\ CountersOK(t) /\ TypeOK
    BY <1>1, Runs, CpusLockAssumption DEF Inv
  <1>4. /\ scheduler_lock_nest'[t] = scheduler_lock_nest[t] - 1
        /\ scheduler_lock_nest[t] - 1 \in 0 .. MaxCritical + 1
        /\ scheduler_lock_nest[t] - 1 >= Held(cpus_lock_nest[t])
    BY <1>2, <1>3, CpusLockAssumption DEF TypeOK, CountersOK, Critical, Held
  <1>5. IF scheduler_lock_nest'[t] = Held(cpus_lock_nest[t])
        THEN spin' = [spin EXCEPT !["_rt_critical_lock"] = Tail(@)]
        ELSE spin' = spin
    BY <1>1 DEF rt_exit_critical, Self, rt_hw_spin_unlock
  <1>6. InCritical(c)
    BY <1>1, <1>2, CpusLockAssumption DEF InCritical, Self
  <1>7. spin["_rt_critical_lock"] # << >> /\ spin["_rt_critical_lock"] \in Seq(CPU)
    BY <1>6 DEF Inv, Queues, LockOK, CriticalSet
  <1>8. spin' \in [Lock -> Seq(CPU)]
    <2>1. spin \in [Lock -> Seq(CPU)] /\ "_rt_critical_lock" \in Lock
      BY <1>3 DEF TypeOK, Lock
    <2>2. Tail(spin["_rt_critical_lock"]) \in Seq(CPU)
      BY <1>7
    <2> QED BY <1>5, <2>1, <2>2
  <1>9. scheduler_lock_nest' \in [Thread -> 0 .. MaxCritical + 1]
    BY <1>2, <1>3, <1>4 DEF TypeOK
  <1>10. TypeOK'
    BY <1>2, <1>3, <1>8, <1>9 DEF TypeOK
  <1>11. OthersKeep(c)
    BY <1>1, <1>2, <1>3 DEF OthersKeep, TypeOK
  <1>12. CountersOK(t)'
    BY <1>2, <1>3, <1>4, CpusLockAssumption DEF CountersOK, TypeOK, Held
  <1>13. Serving(c, t)'
    BY <1>2, <1>3, CpusLockAssumption DEF Serving, TypeOK, InIrq
  <1>14. CpuOK(c)'
    BY <1>1, <1>2, <1>13 DEF CpuOK, Booting
  <1>15. InKernel(c)' <=> InKernel(c)
    BY <1>2 DEF InKernel, Self
  <1>16. Queues'
    <2>1. CASE scheduler_lock_nest'[t] = Held(cpus_lock_nest[t])
      <3>1. ~InCritical(c)'
        BY <1>1, <1>2, <1>3, <2>1, CpusLockAssumption
        DEF InCritical, Self, Critical, Held, TypeOK
      <3> QED BY <1>2, <1>5, <1>6, <1>11, <1>15, <2>1, <3>1, CriticalRelease
    <2>2. CASE scheduler_lock_nest'[t] # Held(cpus_lock_nest[t])
      <3>1. InCritical(c)'
        BY <1>1, <1>2, <1>3, <1>4, <2>2, CpusLockAssumption
        DEF InCritical, Self, Critical, Held, TypeOK
      <3> QED BY <1>2, <1>5, <1>6, <1>11, <1>15, <2>2, <3>1, SameQueues
    <2> QED BY <2>1, <2>2
  <1>17. KernelSet' = KernelSet
    BY <1>11, <1>15, Frame DEF KernelSet
  <1> QED BY <1>17, <1>1, <1>2, <1>10, <1>11, <1>12, <1>14, <1>16, Assemble

\* vector_irq
LEMMA VectorIrqStep ==
    ASSUME Inv, NEW c \in CPU, vector_irq(c)
    PROVE  Inv' /\ OthersKeep(c) /\ current_thread' = current_thread /\ KernelSet' = KernelSet
  <1>1. PICK t \in Thread : t = current_thread[c]
    BY Runs DEF vector_irq, Running, Self
  <1>2. /\ pc[c] = "run" /\ stage[c] = "thread" /\ cpsr[c]
        /\ spsr' = [spsr EXCEPT ![t] = cpsr[c]]
        /\ cpsr' = [cpsr EXCEPT ![c] = FALSE]
        /\ stage' = [stage EXCEPT ![c] = "enter"]
        /\ UNCHANGED <<spin, pc, current_thread, irq_nest, cpus_lock_nest,
                       scheduler_lock_nest, level>>
    BY <1>1 DEF vector_irq, Running, Self, nests
  <1>3. Serving(c, t) /\ CountersOK(t) /\ TypeOK
    BY <1>1, Runs, CpusLockAssumption DEF Inv
  <1>4. TypeOK' /\ stage'[c] = "enter"
    BY <1>2, <1>3 DEF TypeOK
  <1>5. OthersKeep(c)
    BY <1>1, <1>2, <1>3 DEF OthersKeep, TypeOK
  <1>6. CountersOK(t)'
    BY <1>2, <1>3 DEF CountersOK
  <1>7. Serving(c, t)'
    BY <1>2, <1>3, CpusLockAssumption DEF Serving, TypeOK, InIrq
  <1>8. CpuOK(c)'
    BY <1>1, <1>2, <1>4, <1>7 DEF CpuOK, Booting
  <1>9. (InKernel(c)' <=> InKernel(c)) /\ (InCritical(c)' <=> InCritical(c))
    BY <1>2, <1>4 DEF InKernel, InCritical, Self, Critical
  <1>10. Queues'
    BY <1>2, <1>4, <1>5, <1>9, SameQueues
  <1>11. KernelSet' = KernelSet
    BY <1>5, <1>9, Frame DEF KernelSet
  <1> QED BY <1>11, <1>1, <1>2, <1>4, <1>5, <1>6, <1>8, <1>10, Assemble

\* The handler returns.
LEMMA HandlerReturnsStep ==
    ASSUME Inv, NEW c \in CPU, HandlerReturns(c)
    PROVE  Inv' /\ OthersKeep(c) /\ current_thread' = current_thread /\ KernelSet' = KernelSet
  <1>1. PICK t \in Thread : t = current_thread[c]
    BY Runs DEF HandlerReturns, Running, Self
  <1>2. /\ pc[c] = "run" /\ stage[c] = "handler" /\ cpus_lock_nest[t] = 0
        /\ stage' = [stage EXCEPT ![c] = "leave"]
        /\ UNCHANGED <<spin, pc, current_thread, irq_nest, cpsr, spsr, cpus_lock_nest,
                       scheduler_lock_nest, level>>
    BY <1>1 DEF HandlerReturns, Running, Self, nests
  <1>3. Serving(c, t) /\ CountersOK(t) /\ TypeOK
    BY <1>1, Runs, CpusLockAssumption DEF Inv
  <1>4. TypeOK' /\ stage'[c] = "leave"
    BY <1>2, <1>3 DEF TypeOK
  <1>5. OthersKeep(c)
    BY <1>1, <1>2, <1>3 DEF OthersKeep, TypeOK
  <1>6. CountersOK(t)'
    BY <1>2, <1>3 DEF CountersOK
  <1>7. Serving(c, t)'
    BY <1>2, <1>3, CpusLockAssumption DEF Serving, TypeOK, InIrq
  <1>8. CpuOK(c)'
    BY <1>1, <1>2, <1>4, <1>7 DEF CpuOK, Booting
  <1>9. (InKernel(c)' <=> InKernel(c)) /\ (InCritical(c)' <=> InCritical(c))
    BY <1>2, <1>4 DEF InKernel, InCritical, Self, Critical
  <1>10. Queues'
    BY <1>2, <1>4, <1>5, <1>9, SameQueues
  <1>11. KernelSet' = KernelSet
    BY <1>5, <1>9, Frame DEF KernelSet
  <1> QED BY <1>11, <1>1, <1>2, <1>4, <1>5, <1>6, <1>8, <1>10, Assemble

\* The lock at boot
LEMMA BootLockStep ==
    ASSUME Inv, NEW c \in CPU, BootLock(c)
    PROVE  Inv' /\ OthersKeep(c) /\ current_thread' = current_thread /\ KernelSet' = KernelSet
  <1>1. /\ stage[c] = "boot"
        /\ spin' = [spin EXCEPT !["_cpus_lock"] = Append(@, c)]
        /\ pc' = [pc EXCEPT ![c] = "_cpus_lock"]
        /\ stage' = [stage EXCEPT ![c] = "start"]
        /\ UNCHANGED <<current_thread, irq_nest, cpsr, spsr, cpus_lock_nest,
                       scheduler_lock_nest, level>>
    BY DEF BootLock, rt_hw_spin_lock, nests
  <1>2. TypeOK /\ Booting(c)
    BY DEF Inv, Cpus, CpuOK
  <1>3. current_thread[c] = NoThread /\ pc[c] = "run"
    BY <1>1, <1>2 DEF Booting
  <1>4. TypeOK' /\ pc'[c] = "_cpus_lock" /\ stage'[c] = "start"
    <2>1. /\ spin \in [Lock -> Seq(CPU)] /\ pc \in [CPU -> {"run"} \cup Lock]
          /\ "_cpus_lock" \in Lock
      BY <1>2 DEF TypeOK, Lock
    <2>2. Append(spin["_cpus_lock"], c) \in Seq(CPU)
      BY <2>1
    <2>3. spin' \in [Lock -> Seq(CPU)] /\ pc' \in [CPU -> {"run"} \cup Lock]
      BY <1>1, <2>1, <2>2
    <2> QED BY <1>1, <1>2, <2>3 DEF TypeOK
  <1>5. OthersKeep(c)
    BY <1>1, <1>2 DEF OthersKeep, TypeOK
  <1>6. CpuOK(c)'
    BY <1>1, <1>2, <1>4 DEF CpuOK, Booting
  <1>7. ~InKernel(c) /\ ~InKernel(c)' /\ (InCritical(c)' <=> InCritical(c))
    BY <1>1, <1>3, <1>4 DEF InKernel, InCritical, Self
  <1>8. Queues'
    BY <1>1, <1>3, <1>4, <1>5, <1>7, KernelDraw
  <1>9. KernelSet' = KernelSet
    BY <1>5, <1>7, Frame DEF KernelSet
  <1> QED BY <1>9, <1>1, <1>3, <1>4, <1>5, <1>6, <1>8, Assemble, CpusLockAssumption

-----------------------------------------------------------------------------
(* Context switches.                                                       *)

\* CPU c relies on the kernel lock when it goes on with thread to, and after
\* rt_cpus_lock_status_restore it does so if and only if to needs the lock.
LEMMA SwitchFacts ==
    ASSUME Inv, NEW c \in CPU, NEW to \in Thread, MayTake(c, to),
           rt_cpus_lock_status_restore(c, to), InKernel(c), ~InCritical(c),
           pc[c] = "run", irq_nest[c] = 0,
           \A u \in Thread \ {current_thread[c]} :
              /\ cpus_lock_nest'[u] = cpus_lock_nest[u]
              /\ scheduler_lock_nest'[u] = scheduler_lock_nest[u] /\ spsr'[u] = spsr[u],
           stage' = [stage EXCEPT ![c] = "thread"],
           UNCHANGED <<pc, irq_nest, level>>
    PROVE  /\ OthersKeep(c) /\ CpuOK(c)' /\ Queues'
           /\ spin' \in [Lock -> Seq(CPU)] /\ cpsr' \in [CPU -> BOOLEAN]
           /\ current_thread'[c] = to /\ to # current_thread[c]
           /\ current_thread' \in [CPU -> Thread \cup {NoThread}]
           /\ KernelSet = {c}
           /\ KernelSet' = IF cpus_lock_nest[to] = 0 THEN {} ELSE {c}
  <1>1. /\ current_thread' = [current_thread EXCEPT ![c] = to]
        /\ cpsr' = [cpsr EXCEPT ![c] = spsr[to]]
        /\ IF cpus_lock_nest[to] = 0
           THEN spin' = [spin EXCEPT !["_cpus_lock"] = Tail(@)]
           ELSE spin' = spin
    BY DEF rt_cpus_lock_status_restore, rt_hw_spin_unlock
  <1>2. TypeOK
    BY DEF Inv
  <1>3. to # current_thread[c] /\ \A d \in CPU : current_thread[d] # to
    BY DEF MayTake
  <1>4. ParkedOK(to)
    BY <1>3 DEF Inv, Parked
  <1>5. /\ current_thread' \in [CPU -> Thread \cup {NoThread}]
        /\ cpsr' \in [CPU -> BOOLEAN] /\ current_thread'[c] = to /\ stage'[c] = "thread"
    BY <1>1, <1>2 DEF TypeOK
  <1>6. OthersKeep(c)
    BY <1>1, <1>2, <1>3, <1>5 DEF OthersKeep, TypeOK
  <1>7. /\ cpus_lock_nest'[to] = cpus_lock_nest[to] /\ spsr'[to] = spsr[to]
        /\ scheduler_lock_nest'[to] = scheduler_lock_nest[to]
    BY <1>3
  <1>8. Serving(c, to)'
    BY <1>1, <1>2, <1>4, <1>5, <1>7 DEF Serving, ParkedOK, InIrq, TypeOK
  <1>9. CpuOK(c)'
    BY <1>5, <1>8 DEF CpuOK, Booting
  <1>10. spin["_cpus_lock"] # << >> /\ spin["_cpus_lock"] \in Seq(CPU)
    BY DEF Inv, Queues, LockOK, KernelSet
  <1>11. spin' \in [Lock -> Seq(CPU)]
    <2>1. spin \in [Lock -> Seq(CPU)] /\ "_cpus_lock" \in Lock
      BY <1>2 DEF TypeOK, Lock
    <2>2. Tail(spin["_cpus_lock"]) \in Seq(CPU)
      BY <1>10
    <2> QED BY <1>1, <2>1, <2>2
  <1>12. ~InCritical(c)'
    BY <1>4, <1>5, <1>7, <1>2, CpusLockAssumption
    DEF InCritical, Self, Critical, ParkedOK, Held, TypeOK
  <1>13. CASE cpus_lock_nest[to] = 0
    <2>1. ~InKernel(c)'
      BY <1>5, <1>7, <1>13 DEF InKernel, Self
    <2>2. Queues' /\ KernelSet = {c} /\ KernelSet' = {}
      BY <1>1, <1>6, <1>12, <1>13, <2>1, KernelRelease
    <2> QED BY <1>3, <1>5, <1>6, <1>9, <1>11, <1>13, <2>2
  <1>14. CASE cpus_lock_nest[to] # 0
    <2>1. InKernel(c)'
      BY <1>2, <1>5, <1>7, <1>14, CpusLockAssumption DEF InKernel, Self, TypeOK
    <2>2. Queues'
      BY <1>1, <1>6, <1>12, <1>14, <2>1, SameQueues
    <2>3. KernelSet = {c}
      <3>1. c \in KernelSet
        BY DEF KernelSet
      <3> QED BY <3>1, Release DEF Inv, Queues
    <2>4. KernelSet' = {c}
      BY <1>6, <2>1, <2>3, Frame
    <2> QED BY <1>3, <1>5, <1>6, <1>9, <1>11, <1>14, <2>2, <2>3, <2>4
  <1> QED BY <1>13, <1>14

\* rt_system_scheduler_start
LEMMA StartStep ==
    ASSUME Inv, NEW c \in CPU, NEW to \in Thread, Start(c, to)
    PROVE  /\ Inv' /\ OthersKeep(c) /\ KernelSet = {c}
           /\ current_thread' = [current_thread EXCEPT ![c] = to]
           /\ KernelSet' = IF cpus_lock_nest[to] = 0 THEN {} ELSE {c}
  <1>1. /\ stage[c] = "start" /\ pc[c] = "run"
        /\ MayTake(c, to) /\ rt_cpus_lock_status_restore(c, to)
        /\ stage' = [stage EXCEPT ![c] = "thread"]
        /\ UNCHANGED <<pc, irq_nest, spsr, cpus_lock_nest, scheduler_lock_nest, level>>
    BY DEF Start, nests
  <1>2. TypeOK /\ current_thread[c] = NoThread /\ irq_nest[c] = 0
    BY <1>1 DEF Inv, Cpus, CpuOK, Booting
  <1>3. InKernel(c) /\ ~InCritical(c)
    BY <1>1, <1>2 DEF InKernel, InCritical, Self
  <1>4. /\ OthersKeep(c) /\ CpuOK(c)' /\ Queues'
        /\ spin' \in [Lock -> Seq(CPU)] /\ cpsr' \in [CPU -> BOOLEAN]
        /\ current_thread' \in [CPU -> Thread \cup {NoThread}]
        /\ KernelSet = {c}
        /\ KernelSet' = IF cpus_lock_nest[to] = 0 THEN {} ELSE {c}
    BY <1>1, <1>2, <1>3, SwitchFacts
  <1>5. TypeOK'
    BY <1>1, <1>2, <1>4 DEF TypeOK
  <1>6. current_thread' = [current_thread EXCEPT ![c] = to]
    BY <1>1 DEF rt_cpus_lock_status_restore
  <1>7. Inv'
    BY <1>2, <1>4, <1>5, Assemble, CpusLockAssumption
  <1> QED BY <1>4, <1>6, <1>7

\* rt_hw_context_switch in rt_schedule
LEMMA SwitchStep ==
    ASSUME Inv, NEW c \in CPU, NEW to \in Thread, rt_hw_context_switch(c, to)
    PROVE  /\ Inv' /\ OthersKeep(c) /\ KernelSet = {c}
           /\ current_thread' = [current_thread EXCEPT ![c] = to]
           /\ KernelSet' = IF cpus_lock_nest[to] = 0 THEN {} ELSE {c}
  <1>1. PICK t \in Thread : t = current_thread[c]
    BY Runs DEF rt_hw_context_switch, Running, Self
  <1>2. /\ pc[c] = "run" /\ stage[c] = "thread" /\ cpus_lock_nest[t] > 0
        /\ irq_nest[c] = 0 /\ scheduler_lock_nest[t] = 1
        /\ MayTake(c, to) /\ rt_cpus_lock_status_restore(c, to)
        /\ spsr' = [spsr EXCEPT ![t] = cpsr[c]]
        /\ UNCHANGED <<pc, stage, irq_nest, cpus_lock_nest, scheduler_lock_nest, level>>
    BY <1>1 DEF rt_hw_context_switch, Running, Self, nests
  <1>3. Serving(c, t) /\ CountersOK(t) /\ TypeOK
    BY <1>1, Runs, CpusLockAssumption DEF Inv
  <1>4. InKernel(c) /\ ~InCritical(c)
    BY <1>1, <1>2, <1>3, CpusLockAssumption
    DEF InKernel, InCritical, Self, Critical, Held, TypeOK
  <1>5. stage' = [stage EXCEPT ![c] = "thread"]
    BY <1>2, <1>3 DEF TypeOK
  <1>6. \A u \in Thread \ {t} : spsr'[u] = spsr[u]
    BY <1>2, <1>3 DEF TypeOK
  <1>7. /\ OthersKeep(c) /\ CpuOK(c)' /\ Queues'
        /\ spin' \in [Lock -> Seq(CPU)] /\ cpsr' \in [CPU -> BOOLEAN]
        /\ current_thread' \in [CPU -> Thread \cup {NoThread}]
        /\ KernelSet = {c}
        /\ KernelSet' = IF cpus_lock_nest[to] = 0 THEN {} ELSE {c}
    BY <1>1, <1>2, <1>4, <1>5, <1>6, SwitchFacts
  <1>8. spsr' \in [Thread -> BOOLEAN]
    BY <1>2, <1>3 DEF TypeOK
  <1>9. TypeOK'
    BY <1>2, <1>3, <1>7, <1>8 DEF TypeOK
  <1>10. CountersOK(t)' /\ ParkedOK(t)'
    BY <1>2, <1>3, CpusLockAssumption DEF CountersOK, ParkedOK, Held, Serving, TypeOK
  <1> QED BY <1>1, <1>2, <1>7, <1>9, <1>10, Assemble DEF rt_cpus_lock_status_restore

\* rt_scheduler_do_irq_switch with a switch
LEMMA IrqSwitchStep ==
    ASSUME Inv, NEW c \in CPU, NEW to \in Thread, rt_scheduler_do_irq_switch(c, to)
    PROVE  /\ Inv' /\ OthersKeep(c) /\ KernelSet = {c}
           /\ current_thread' = [current_thread EXCEPT ![c] = to]
           /\ KernelSet' = IF cpus_lock_nest[to] = 0 THEN {} ELSE {c}
  <1>1. PICK t \in Thread : t = current_thread[c]
    BY Runs DEF rt_scheduler_do_irq_switch, Running, Self
  <1>2. /\ pc[c] = "run" /\ stage[c] = "switch" /\ cpus_lock_nest[t] = 1
        /\ irq_nest[c] = 0 /\ scheduler_lock_nest[t] = 1
        /\ MayTake(c, to) /\ rt_cpus_lock_status_restore(c, to)
        /\ cpus_lock_nest' = [cpus_lock_nest EXCEPT ![t] = @ - 1]
        /\ scheduler_lock_nest' = [scheduler_lock_nest EXCEPT ![t] = @ - 1]
        /\ stage' = [stage EXCEPT ![c] = "thread"]
        /\ UNCHANGED <<pc, irq_nest, spsr, level>>
    BY <1>1 DEF rt_scheduler_do_irq_switch, Running, Self
  <1>3. Serving(c, t) /\ CountersOK(t) /\ TypeOK
    BY <1>1, Runs, CpusLockAssumption DEF Inv
  <1>4. InKernel(c) /\ ~InCritical(c)
    BY <1>1, <1>2, <1>3, CpusLockAssumption
    DEF InKernel, InCritical, Self, Critical, Held, TypeOK
  <1>5. /\ cpus_lock_nest'[t] = 0 /\ scheduler_lock_nest'[t] = 0
        /\ \A u \in Thread \ {t} : /\ cpus_lock_nest'[u] = cpus_lock_nest[u]
                                   /\ scheduler_lock_nest'[u] = scheduler_lock_nest[u]
    BY <1>2, <1>3 DEF TypeOK
  <1>6. /\ OthersKeep(c) /\ CpuOK(c)' /\ Queues'
        /\ spin' \in [Lock -> Seq(CPU)] /\ cpsr' \in [CPU -> BOOLEAN]
        /\ current_thread' \in [CPU -> Thread \cup {NoThread}]
        /\ KernelSet = {c}
        /\ KernelSet' = IF cpus_lock_nest[to] = 0 THEN {} ELSE {c}
    BY <1>1, <1>2, <1>4, <1>5, SwitchFacts
  <1>7. /\ cpus_lock_nest' \in [Thread -> 0 .. MaxNest]
        /\ scheduler_lock_nest' \in [Thread -> 0 .. MaxCritical + 1]
    <2>1. 1 - 1 \in 0 .. MaxNest /\ 1 - 1 \in 0 .. MaxCritical + 1
      BY CpusLockAssumption
    <2> QED BY <1>2, <1>3, <2>1 DEF TypeOK
  <1>8. TypeOK'
    BY <1>2, <1>3, <1>6, <1>7 DEF TypeOK
  <1>9. CountersOK(t)' /\ ParkedOK(t)'
    BY <1>2, <1>3, <1>5, CpusLockAssumption DEF CountersOK, ParkedOK, Held, TypeOK
  <1> QED BY <1>1, <1>2, <1>6, <1>8, <1>9, Assemble DEF rt_cpus_lock_status_restore

-----------------------------------------------------------------------------
(* The invariant and what follows from it.                                 *)

\* The locks are free and the CPUs are about to boot.
LEMMA InitInv == Init => Inv
  <1> SUFFICES ASSUME Init PROVE Inv
    OBVIOUS
  <1>1. TypeOK
    BY CpusLockAssumption DEF Init, TypeOK, Lock
  <1>2. /\ spin["_cpus_lock"] = << >> /\ spin["_rt_critical_lock"] = << >>
        /\ KernelSet = {} /\ CriticalSet = {}
        /\ SpinSet("_cpus_lock") = {} /\ SpinSet("_rt_critical_lock") = {}
    BY DEF Init, Lock, KernelSet, CriticalSet, SpinSet, InKernel, InCritical, Self
  <1>3. LockOK(<< >>, {}, {})
    BY DEF LockOK, OnList, Distinct
  <1>4. Queues
    BY <1>2, <1>3 DEF Queues
  <1>5. Cpus /\ OneEach
    BY DEF Init, Cpus, CpuOK, Booting, OneEach
  <1>6. Parked /\ Counters
    BY CpusLockAssumption DEF Init, Parked, ParkedOK, Counters, CountersOK, Held
  <1> QED BY <1>1, <1>4, <1>5, <1>6 DEF Inv

\* Every step keeps the invariant.
THEOREM InvInductive == Inv /\ [Next]_vars => Inv'
  <1> SUFFICES ASSUME Inv, [Next]_vars PROVE Inv'
    OBVIOUS
  <1>1. CASE UNCHANGED vars
    BY <1>1 DEF vars, nests, Inv, TypeOK, Queues, KernelSet, CriticalSet, SpinSet,
       InKernel, InCritical, Self, Critical, Cpus, CpuOK, Booting, Serving, InIrq, OneEach,
       Parked, ParkedOK, Counters, CountersOK
  <1>2. CASE Next
    <2>1. PICK c \in CPU : Step(c)
      BY <1>2 DEF Next
    <2>2. CASE \E to \in Thread : \/ Start(c, to)
                                  \/ rt_hw_context_switch(c, to)
                                  \/ rt_scheduler_do_irq_switch(c, to)
      BY <2>2, StartStep, SwitchStep, IrqSwitchStep
    <2>3. CASE BootLock(c) \/ rt_cpus_lock(c) \/ CpusLocked(c) \/ rt_cpus_unlock(c)
      BY <2>3, BootLockStep, LockStep, CpusLockedStep, UnlockStep
    <2>4. CASE rt_enter_critical(c) \/ CriticalLocked(c) \/ rt_exit_critical(c)
      BY <2>4, EnterCriticalStep, CriticalLockedStep, ExitCriticalStep
    <2>5. CASE \/ vector_irq(c) \/ rt_interrupt_enter(c) \/ HandlerReturns(c)
               \/ rt_interrupt_leave(c) \/ IrqReturn(c)
      BY <2>5, VectorIrqStep, InterruptEnterStep, HandlerReturnsStep,
         InterruptLeaveStep, IrqReturnStep
    <2> QED BY <2>1, <2>2, <2>3, <2>4, <2>5 DEF Step
  <1> QED BY <1>1, <1>2

\* Every reachable state of the locks satisfies the inductive invariant.
THEOREM Invariance == Spec => []Inv
  BY InitInv, InvInductive, PTL DEF Spec

\* Every reachable state is type correct.
THEOREM TypeCorrect == Spec => []TypeOK
  <1>1. Inv => TypeOK
    BY DEF Inv
  <1> QED BY <1>1, Invariance, PTL

\* At most one CPU relies on a lock, and its ticket is the one being served.
THEOREM Exclusion == Spec => []LocksExclude
  <1>1. Inv => LocksExclude
    <2> SUFFICES ASSUME Inv, NEW l \in Lock, NEW c \in CPU, Inside(c, l)
                 PROVE  /\ spin[l] # << >> /\ Head(spin[l]) = c
                        /\ \A d \in CPU : Inside(d, l) => d = c
      BY DEF LocksExclude
    <2>1. CASE l = "_cpus_lock"
      BY <2>1 DEF Inside, Inv, Queues, LockOK, KernelSet
    <2>2. CASE l = "_rt_critical_lock"
      BY <2>2 DEF Inside, Inv, Queues, LockOK, CriticalSet
    <2> QED BY <2>1, <2>2 DEF Lock
  <1> QED BY <1>1, Invariance, PTL

\* Only a CPU that relies or spins on a lock has a ticket.
THEOREM NoLostLock == Spec => []NoLeak
  <1>1. Inv => NoLeak
    <2> SUFFICES ASSUME Inv, NEW l \in Lock, NEW i \in DOMAIN spin[l]
                 PROVE  Inside(spin[l][i], l) \/ pc[spin[l][i]] = l
      BY DEF NoLeak
    <2>1. spin[l] \in Seq(CPU)
      BY DEF Inv, TypeOK
    <2>2. spin[l][i] \in CPU /\ OnList(spin[l], spin[l][i])
      BY <2>1 DEF OnList
    <2>3. CASE l = "_cpus_lock"
      BY <2>2, <2>3 DEF Inside, Inv, Queues, LockOK, KernelSet, SpinSet
    <2>4. CASE l = "_rt_critical_lock"
      BY <2>2, <2>4 DEF Inside, Inv, Queues, LockOK, CriticalSet, SpinSet
    <2> QED BY <2>3, <2>4 DEF Lock
  <1> QED BY <1>1, Invariance, PTL

\* Interrupts are masked in every locked section and while a CPU spins.
THEOREM MaskedInKernel == Spec => []IrqsMasked
  <1>1. Inv => IrqsMasked
    BY DEF Inv, IrqsMasked, Cpus, CpuOK, Booting, Serving, Self
  <1> QED BY <1>1, Invariance, PTL

-----------------------------------------------------------------------------
(* The implementation of KernelLock.                                       *)

\* The owner is the CPU that relies on the lock.
OwnerOK ==
    /\ KernelSet = {} => Owner = NoCpu
    /\ \A c \in CPU : KernelSet = {c} => Owner = c

\* The owner of KernelLock is the CPU that relies on the kernel lock.
LEMMA OwnerIs == OwnerOK
  <1>1. ASSUME KernelSet = {} PROVE Owner = NoCpu
    BY <1>1 DEF KernelSet, Owner
  <1>2. ASSUME NEW c \in CPU, KernelSet = {c} PROVE Owner = c
    <2>1. \A d \in CPU : InKernel(d) <=> d = c
      BY <1>2 DEF KernelSet
    <2> QED BY <2>1 DEF Owner
  <1> QED BY <1>1, <1>2 DEF OwnerOK

\* So it is after a step.
LEMMA OwnerIsNext == OwnerOK'
  BY OwnerIs, PTL

\* At most one CPU relies on the kernel lock.
LEMMA OneOwner ==
    ASSUME Inv
    PROVE  KernelSet = {} \/ \E c \in CPU : KernelSet = {c}
  <1>1. ASSUME NEW c \in KernelSet PROVE KernelSet = {c} /\ c \in CPU
    <2>1. c \in CPU /\ LockOK(spin["_cpus_lock"], KernelSet, SpinSet("_cpus_lock"))
      BY DEF KernelSet, Inv, Queues
    <2> QED BY <2>1, Release
  <1> QED BY <1>1

\* A running thread is in its section when its CPU relies on the lock, another
\* one when its counter says so.
SectionsOK ==
    /\ \A c \in CPU : current_thread[c] \in Thread =>
          (current_thread[c] \in InSection <=> c \in KernelSet)
    /\ \A t \in Thread : (\A c \in CPU : current_thread[c] # t) =>
          (t \in InSection <=> cpus_lock_nest[t] > 0)

\* The threads in a section are those of the CPUs that rely on the lock, and those
\* that were switched out inside one.
LEMMA Sections == Inv => SectionsOK
  <1> SUFFICES ASSUME Inv PROVE SectionsOK
    OBVIOUS
  <1>1. ASSUME NEW c \in CPU, current_thread[c] \in Thread
        PROVE  current_thread[c] \in InSection <=> c \in KernelSet
    <2>1. InKernel(c) <=> pc[c] # "_cpus_lock" /\ cpus_lock_nest[current_thread[c]] > 0
      BY <1>1, Runs, CpusLockAssumption
    <2>2. \A d \in CPU : current_thread[d] = current_thread[c] => d = c
      BY <1>1, CpusLockAssumption DEF Inv, OneEach
    <2> QED BY <1>1, <2>1, <2>2 DEF InSection, KernelSet
  <1>2. ASSUME NEW t \in Thread, \A c \in CPU : current_thread[c] # t
        PROVE  t \in InSection <=> cpus_lock_nest[t] > 0
    BY <1>2 DEF InSection
  <1> QED BY <1>1, <1>2 DEF SectionsOK

\* So they are after a step.
LEMMA SectionsNext == Inv' => SectionsOK'
  BY Sections, PTL

\* A step of CPU c does not change where the threads it does not run are.
LEMMA SectionFrame ==
    ASSUME Inv, Inv', NEW c \in CPU, OthersKeep(c), NEW t \in Thread,
           t # current_thread[c], t # current_thread'[c]
    PROVE  t \in InSection' <=> t \in InSection
  <1>1. \A d \in CPU : current_thread'[d] = t <=> current_thread[d] = t
    BY DEF OthersKeep
  <1>2. \A d \in CPU : current_thread[d] = t => pc'[d] = pc[d]
    BY DEF OthersKeep
  <1>3. cpus_lock_nest'[t] = cpus_lock_nest[t]
    BY DEF OthersKeep
  <1> QED BY <1>1, <1>2, <1>3 DEF InSection

\* A step that changes neither the CPU that relies on the lock nor what the
\* CPUs run is not visible in KernelLock.
LEMMA Quiet ==
    ASSUME Inv, Inv', NEW c \in CPU, OthersKeep(c), current_thread' = current_thread,
           KernelSet' = KernelSet
    PROVE  UNCHANGED <<Owner, current_thread, InSection>>
  <1>1. Owner' = Owner
    BY OneOwner, OwnerIs, OwnerIsNext DEF OwnerOK
  <1>2. ASSUME NEW t \in Thread PROVE t \in InSection' <=> t \in InSection
    <2>1. CASE t = current_thread[c]
      BY <2>1, Sections, SectionsNext DEF SectionsOK
    <2>2. CASE t # current_thread[c]
      BY <2>2, SectionFrame
    <2> QED BY <2>1, <2>2
  <1>3. InSection \subseteq Thread /\ InSection' \subseteq Thread
    BY DEF InSection
  <1> QED BY <1>1, <1>2, <1>3

\* The steps that end a section are Leave.
LEMMA LeaveStep ==
    ASSUME Inv, Inv', NEW c \in CPU, OthersKeep(c), current_thread' = current_thread,
           KernelSet = {c}, KernelSet' = {}
    PROVE  Kernel!Leave(c)
  <1>1. Owner = c /\ Owner' = NoCpu
    BY OwnerIs, OwnerIsNext DEF OwnerOK
  <1>2. ASSUME NEW t \in Thread
        PROVE  t \in InSection' <=> t \in InSection /\ t # current_thread[c]
    <2>1. CASE t = current_thread[c]
      BY <2>1, SectionsNext DEF SectionsOK
    <2>2. CASE t # current_thread[c]
      BY <2>2, SectionFrame
    <2> QED BY <2>1, <2>2
  <1>3. InSection' = InSection \ {current_thread[c]}
    BY <1>2 DEF InSection
  <1> QED BY <1>1, <1>3 DEF Kernel!Leave

\* Getting the kernel lock is Enter.
LEMMA EnterStep ==
    ASSUME Inv, Inv', NEW c \in CPU, OthersKeep(c), current_thread' = current_thread,
           KernelSet = {}, KernelSet' = {c}
    PROVE  Kernel!Enter(c)
  <1>1. Owner = NoCpu /\ Owner' = c
    BY OwnerIs, OwnerIsNext DEF OwnerOK
  <1>2. ASSUME NEW t \in Thread
        PROVE  t \in InSection' <=> t \in InSection \/ t = current_thread[c]
    <2>1. CASE t = current_thread[c]
      BY <2>1, SectionsNext DEF SectionsOK
    <2>2. CASE t # current_thread[c]
      BY <2>2, SectionFrame
    <2> QED BY <2>1, <2>2
  <1>3. current_thread[c] \in Thread \cup {NoThread}
    BY DEF Inv, TypeOK
  <1>4. InSection' = InSection \cup ({current_thread[c]} \ {NoThread})
    BY <1>2, <1>3, CpusLockAssumption DEF InSection
  <1> QED BY <1>1, <1>4 DEF Kernel!Enter

\* A context switch is Hand: finished when it takes back the count of its lock.
LEMMA HandStep ==
    ASSUME Inv, Inv', NEW c \in CPU, NEW to \in Thread, NEW finished \in BOOLEAN,
           OthersKeep(c), MayTake(c, to),
           current_thread' = [current_thread EXCEPT ![c] = to],
           KernelSet = {c}, KernelSet' = IF cpus_lock_nest[to] = 0 THEN {} ELSE {c},
           current_thread[c] \in Thread =>
              (cpus_lock_nest'[current_thread[c]] > 0 <=> ~finished)
    PROVE  Kernel!Hand(c, to, finished)
  <1>1. \A d \in CPU : current_thread[d] # to
    BY DEF MayTake
  <1>2. current_thread'[c] = to /\ current_thread[c] \in Thread \cup {NoThread}
    BY DEF Inv, TypeOK
  <1>3. to \in InSection <=> cpus_lock_nest[to] > 0
    BY <1>1, Sections DEF SectionsOK
  <1>4. cpus_lock_nest[to] \in Nat
    BY CpusLockAssumption DEF Inv, TypeOK
  <1>5. Owner = c /\ Owner' = IF to \in InSection THEN c ELSE NoCpu
    BY <1>3, <1>4, OwnerIs, OwnerIsNext DEF OwnerOK
  <1>6. ASSUME NEW t \in Thread
        PROVE  t \in InSection' <=> t \in InSection /\ (t = current_thread[c] => ~finished)
    <2>1. CASE t = to
      <3>1. to \in InSection' <=> c \in KernelSet'
        BY <1>2, SectionsNext DEF SectionsOK
      <3> QED BY <1>1, <1>3, <1>4, <2>1, <3>1
    <2>2. CASE t = current_thread[c]
      <3>1. \A d \in CPU : current_thread'[d] # t
        BY <1>1, <2>2, CpusLockAssumption DEF Inv, OneEach, TypeOK
      <3>2. t \in InSection' <=> cpus_lock_nest'[t] > 0
        BY <3>1, SectionsNext DEF SectionsOK
      <3>3. t \in InSection
        BY <2>2, Sections DEF SectionsOK
      <3> QED BY <2>2, <3>2, <3>3
    <2>3. CASE t # to /\ t # current_thread[c]
      BY <1>2, <2>3, SectionFrame
    <2> QED BY <2>1, <2>2, <2>3
  <1>7. InSection' = IF finished THEN InSection \ {current_thread[c]} ELSE InSection
    BY <1>6 DEF InSection
  <1> QED BY <1>1, <1>5, <1>7 DEF Kernel!Hand

\* Every step of CpusLock is a step of KernelLock, or none.
LEMMA StepRefines ==
    ASSUME Inv, Inv', [Next]_vars
    PROVE  [Kernel!KNext]_<<Owner, current_thread, InSection>>
  <1>1. CASE UNCHANGED vars
    BY <1>1 DEF vars, nests, Owner, InSection, InKernel, Self
  <1>2. CASE Next
    <2>1. PICK c \in CPU : Step(c)
      BY <1>2 DEF Next
    <2>2. CASE BootLock(c) \/ rt_cpus_lock(c)
      BY <2>2, BootLockStep, LockStep, Quiet
    <2>3. CASE rt_enter_critical(c) \/ CriticalLocked(c) \/ rt_exit_critical(c)
      BY <2>3, EnterCriticalStep, CriticalLockedStep, ExitCriticalStep, Quiet
    <2>4. CASE vector_irq(c) \/ HandlerReturns(c)
      BY <2>4, VectorIrqStep, HandlerReturnsStep, Quiet
    <2>5. CASE CpusLocked(c)
      BY <2>5, CpusLockedStep, EnterStep DEF Kernel!KNext
    <2>6. CASE rt_interrupt_enter(c) \/ rt_interrupt_leave(c) \/ IrqReturn(c)
      BY <2>6, InterruptEnterStep, InterruptLeaveStep, IrqReturnStep, LeaveStep
      DEF Kernel!KNext
    <2>7. CASE rt_cpus_unlock(c)
      BY <2>7, UnlockStep, LeaveStep, Quiet DEF Kernel!KNext
    <2>8. ASSUME NEW to \in Thread, Start(c, to) PROVE Kernel!Hand(c, to, FALSE)
      <3>1. current_thread[c] \notin Thread
        BY <2>8, CpusLockAssumption DEF Start, Inv, Cpus, CpuOK, Booting
      <3>2. MayTake(c, to)
        BY <2>8 DEF Start
      <3> QED BY <2>8, <3>1, <3>2, StartStep, HandStep
    <2>9. ASSUME NEW to \in Thread, rt_hw_context_switch(c, to)
          PROVE  Kernel!Hand(c, to, FALSE)
      <3>1. cpus_lock_nest'[current_thread[c]] > 0 /\ MayTake(c, to)
        BY <2>9 DEF rt_hw_context_switch, nests, Self
      <3> QED BY <2>9, <3>1, SwitchStep, HandStep
    <2>10. ASSUME NEW to \in Thread, rt_scheduler_do_irq_switch(c, to)
           PROVE  Kernel!Hand(c, to, TRUE)
      <3>1. current_thread[c] \in Thread => ~(cpus_lock_nest'[current_thread[c]] > 0)
        BY <2>10 DEF rt_scheduler_do_irq_switch, Self, Inv, TypeOK
      <3>2. MayTake(c, to)
        BY <2>10 DEF rt_scheduler_do_irq_switch
      <3> QED BY <2>10, <3>1, <3>2, IrqSwitchStep, HandStep
    <2>11. CASE \E to \in Thread : \/ Start(c, to)
                                   \/ rt_hw_context_switch(c, to)
                                   \/ rt_scheduler_do_irq_switch(c, to)
      BY <2>8, <2>9, <2>10, <2>11 DEF Kernel!KNext
    <2> QED BY <2>1, <2>2, <2>3, <2>4, <2>5, <2>6, <2>7, <2>11 DEF Step
  <1> QED BY <1>1, <1>2

\* CpusLock implements KernelLock: kernel sections exclude one another across
\* the CPUs, and a thread that is switched out in the middle of one is in it
\* again when it goes on.
THEOREM Refinement == Spec => Implements
  <1>1. Init => Kernel!KInit
    <2> SUFFICES ASSUME Init PROVE Kernel!KInit
      OBVIOUS
    <2>1. KernelSet = {} /\ InSection = {} /\ current_thread = [c \in CPU |-> NoThread]
      BY DEF Init, KernelSet, InKernel, InSection, Self
    <2> QED BY <2>1, OwnerIs DEF OwnerOK, Kernel!KInit
  <1>2. Inv /\ [Next]_vars => [Kernel!KNext]_(Kernel!kvars)
    BY InvInductive, StepRefines DEF Kernel!kvars
  <1> QED BY <1>1, <1>2, Invariance, PTL DEF Implements, Spec, Kernel!KSpec

-----------------------------------------------------------------------------
(* Counters that wrap.                                                     *)

\* The value that is i after x.
After(x, i) == (x + i) % TICKETS

\* A counter that is advanced less than one round.
LEMMA AfterValue ==
    ASSUME NEW x \in 0 .. TICKETS - 1, NEW i \in 0 .. TICKETS
    PROVE  /\ After(x, i) \in 0 .. TICKETS - 1
           /\ After(x, i) = IF x + i < TICKETS THEN x + i ELSE x + i - TICKETS
  <1>1. TICKETS \in Nat \ {0}
    BY TicketAssumption
  <1>2. CASE x + i < TICKETS
    BY <1>1, <1>2 DEF After
  <1>3. CASE x + i >= TICKETS
    <2>1. (x + i) % TICKETS = x + i - TICKETS
      BY <1>1, <1>3
    <2> QED BY <1>1, <1>3, <2>1 DEF After
  <1> QED BY <1>1, <1>2, <1>3

\* Different distances from a counter give different values.
LEMMA AfterInjective ==
    ASSUME NEW x \in 0 .. TICKETS - 1, NEW i \in 0 .. TICKETS - 1, NEW j \in 0 .. TICKETS - 1,
           After(x, i) = After(x, j)
    PROVE  i = j
  <1>1. TICKETS \in Nat \ {0}
    BY TicketAssumption
  <1>2. i \in 0 .. TICKETS /\ j \in 0 .. TICKETS
    BY <1>1
  <1>3. /\ After(x, i) = IF x + i < TICKETS THEN x + i ELSE x + i - TICKETS
        /\ After(x, j) = IF x + j < TICKETS THEN x + j ELSE x + j - TICKETS
    BY <1>2, AfterValue
  <1>4. (IF x + i < TICKETS THEN x + i ELSE x + i - TICKETS)
          = (IF x + j < TICKETS THEN x + j ELSE x + j - TICKETS)
    BY <1>3, Zenon
  <1> HIDE DEF After
  <1> QED BY <1>1, <1>4, SMT

\* One step of a counter and then i - 1 more are i steps.
LEMMA AfterNext ==
    ASSUME NEW x \in 0 .. TICKETS - 1, NEW i \in 1 .. TICKETS
    PROVE  After(After(x, 1), i - 1) = After(x, i)
  <1>1. TICKETS \in Nat \ {0} /\ 1 \in 0 .. TICKETS /\ i \in 0 .. TICKETS /\ i - 1 \in 0 .. TICKETS
    BY TicketAssumption
  <1>2. /\ After(x, 1) \in 0 .. TICKETS - 1
        /\ After(x, 1) = IF x + 1 < TICKETS THEN x + 1 ELSE x + 1 - TICKETS
        /\ After(x, i) = IF x + i < TICKETS THEN x + i ELSE x + i - TICKETS
    BY <1>1, AfterValue
  <1> DEFINE y == After(x, 1)
  <1> HIDE DEF y
  <1>3. After(y, i - 1) = IF y + (i - 1) < TICKETS THEN y + (i - 1) ELSE y + (i - 1) - TICKETS
    BY <1>1, <1>2, AfterValue DEF y
  <1> QED BY <1>1, <1>2, <1>3 DEF y

-----------------------------------------------------------------------------
(* The inductive invariant.                                                *)

\* W are the CPUs with a ticket, o the ticket whose turn it is and n the next to
\* be drawn.
Tickets(W, o, n, tick) ==
    /\ W \in SUBSET Core /\ o \in 0 .. TICKETS - 1 /\ n \in 0 .. TICKETS - 1
    /\ tick \in [Core -> 0 .. TICKETS - 1]
    /\ n = After(o, Cardinality(W))
    /\ \A c \in W : \E i \in 0 .. Cardinality(W) - 1 : tick[c] = After(o, i)
    /\ \A i \in 0 .. Cardinality(W) - 1 : \E c \in W : tick[c] = After(o, i)
    /\ \A c, d \in W : tick[c] = tick[d] => c = d

\* Who is in the lock has the ticket that owner shows.
InHasTurn == \A c \in Core : phase[c] = "in" => ticket[c] = owner

TicketInv ==
    /\ Tickets(Waiting, owner, next, ticket)
    /\ phase \in [Core -> {"out", "spin", "in"}]
    /\ InHasTurn

\* How many CPUs have a ticket.
LEMMA WaitingSize ==
    ASSUME NEW W \in SUBSET Core
    PROVE  /\ IsFiniteSet(W) /\ Cardinality(W) \in 0 .. TICKETS
           /\ \A c \in Core : c \notin W =>
                 /\ Cardinality(W) \in 0 .. TICKETS - 1
                 /\ Cardinality(W \cup {c}) = Cardinality(W) + 1
           /\ \A c \in W : /\ Cardinality(W) \in 1 .. TICKETS
                           /\ Cardinality(W \ {c}) = Cardinality(W) - 1
  <1>1. IsFiniteSet(Core) /\ TICKETS \in Nat /\ Cardinality(Core) <= TICKETS
        /\ Cardinality(Core) \in Nat
    BY TicketAssumption, FS_CardinalityType
  <1>2. IsFiniteSet(W) /\ Cardinality(W) <= Cardinality(Core) /\ Cardinality(W) \in Nat
        /\ (Cardinality(Core) = Cardinality(W) => Core = W)
    BY <1>1, FS_Subset, FS_CardinalityType
  <1>3. ASSUME NEW c \in Core, c \notin W
        PROVE  /\ Cardinality(W) \in 0 .. TICKETS - 1
               /\ Cardinality(W \cup {c}) = Cardinality(W) + 1
    <2>1. Cardinality(Core) # Cardinality(W)
      BY <1>2, <1>3
    <2>2. Cardinality(W \cup {c}) = Cardinality(W) + 1
      BY <1>2, <1>3, FS_AddElement
    <2> QED BY <1>1, <1>2, <2>1, <2>2
  <1>4. ASSUME NEW c \in W
        PROVE  Cardinality(W) \in 1 .. TICKETS /\ Cardinality(W \ {c}) = Cardinality(W) - 1
    <2>1. Cardinality(W \ {c}) = Cardinality(W) - 1 /\ Cardinality(W) # 0
      BY <1>2, FS_RemoveElement, FS_EmptySet
    <2> QED BY <1>1, <1>2, <2>1
  <1> QED BY <1>1, <1>2, <1>3, <1>4

\* A ticket is drawn.
LEMMA DrawTickets ==
    ASSUME NEW W, NEW o, NEW n, NEW tick, Tickets(W, o, n, tick),
           NEW c \in Core, c \notin W
    PROVE  Tickets(W \cup {c}, o, After(n, 1), [tick EXCEPT ![c] = n])
  <1>t. /\ W \in SUBSET Core /\ o \in 0 .. TICKETS - 1 /\ n \in 0 .. TICKETS - 1
        /\ tick \in [Core -> 0 .. TICKETS - 1]
    BY DEF Tickets
  <1> USE <1>t
  <1> DEFINE k == Cardinality(W)
             tick2 == [tick EXCEPT ![c] = n]
  <1>1. k \in 0 .. TICKETS - 1 /\ Cardinality(W \cup {c}) = k + 1 /\ TICKETS \in Nat \ {0}
    BY WaitingSize, TicketAssumption
  <1>2. tick2[c] = n /\ \A d \in W : tick2[d] = tick[d]
    OBVIOUS
  <1> HIDE DEF k, tick2
  <1>3. n = After(o, k)
    BY DEF Tickets, k
  <1>4. After(n, 1) = After(o, k + 1)
    <2>1. k \in 0 .. TICKETS /\ k + 1 \in 0 .. TICKETS /\ 1 \in 0 .. TICKETS
      BY <1>1
    <2>2. /\ After(o, k) = IF o + k < TICKETS THEN o + k ELSE o + k - TICKETS
          /\ After(o, k + 1) = IF o + (k + 1) < TICKETS THEN o + (k + 1) ELSE o + (k + 1) - TICKETS
          /\ After(n, 1) = IF n + 1 < TICKETS THEN n + 1 ELSE n + 1 - TICKETS
      BY <2>1, AfterValue
    <2> QED BY <1>1, <1>3, <2>2
  <1>5. ASSUME NEW d \in W \cup {c} PROVE \E i \in 0 .. k : tick2[d] = After(o, i)
    <2>1. CASE d = c
      BY <2>1, <1>1, <1>2, <1>3
    <2>2. CASE d \in W
      <3>1. PICK i \in 0 .. k - 1 : tick[d] = After(o, i)
        BY <2>2 DEF Tickets, k
      <3> QED BY <2>2, <3>1, <1>1, <1>2
    <2> QED BY <2>1, <2>2
  <1>6. ASSUME NEW i \in 0 .. k PROVE \E d \in W \cup {c} : tick2[d] = After(o, i)
    <2>1. CASE i = k
      BY <2>1, <1>2, <1>3
    <2>2. CASE i # k
      <3>1. i \in 0 .. k - 1
        BY <2>2, <1>1
      <3>2. PICK d \in W : tick[d] = After(o, i)
        BY <3>1 DEF Tickets, k
      <3> QED BY <3>2, <1>2
    <2> QED BY <2>1, <2>2
  <1>7. ASSUME NEW d \in W PROVE tick[d] # n
    <2>1. PICK i \in 0 .. k - 1 : tick[d] = After(o, i)
      BY DEF Tickets, k
    <2>2. i \in 0 .. TICKETS - 1 /\ i # k
      BY <1>1
    <2> QED BY <2>1, <2>2, <1>1, <1>3, AfterInjective
  <1>8. \A d, e \in W \cup {c} : tick2[d] = tick2[e] => d = e
    BY <1>2, <1>7 DEF Tickets
  <1>9. (k + 1) - 1 = k
    BY <1>1
  <1>10. /\ After(n, 1) \in 0 .. TICKETS - 1 /\ W \cup {c} \in SUBSET Core
         /\ tick2 \in [Core -> 0 .. TICKETS - 1]
    <2>1. 1 \in 0 .. TICKETS
      BY <1>1
    <2>2. After(n, 1) \in 0 .. TICKETS - 1
      BY <2>1, AfterValue
    <2> QED BY <2>2 DEF tick2
  <1>11. Tickets(W \cup {c}, o, After(n, 1), tick2)
    <2> DEFINE V == W \cup {c}
               m == After(n, 1)
    <2>1. Cardinality(V) = k + 1 /\ Cardinality(V) - 1 = k
      BY <1>1, <1>9
    <2>2. /\ V \in SUBSET Core /\ m \in 0 .. TICKETS - 1
          /\ tick2 \in [Core -> 0 .. TICKETS - 1] /\ o \in 0 .. TICKETS - 1
      BY <1>10
    <2>3. m = After(o, Cardinality(V))
      BY <1>4, <2>1
    <2>4. \A d \in V : \E i \in 0 .. Cardinality(V) - 1 : tick2[d] = After(o, i)
      BY <1>5, <2>1
    <2>5. \A i \in 0 .. Cardinality(V) - 1 : \E d \in V : tick2[d] = After(o, i)
      BY <1>6, <2>1
    <2>6. \A d, e \in V : tick2[d] = tick2[e] => d = e
      BY <1>8
    <2> HIDE DEF V, m
    <2>7. Tickets(V, o, m, tick2)
      BY <2>2, <2>3, <2>4, <2>5, <2>6, Zenon DEF Tickets
    <2> QED BY <2>7 DEF V, m
  <1> QED BY <1>11 DEF tick2

\* The CPU whose turn it is gives up its ticket.
LEMMA LeaveTickets ==
    ASSUME NEW W, NEW o, NEW n, NEW tick, Tickets(W, o, n, tick),
           NEW c \in W, tick[c] = o
    PROVE  Tickets(W \ {c}, After(o, 1), n, tick)
  <1>t. /\ W \in SUBSET Core /\ o \in 0 .. TICKETS - 1 /\ n \in 0 .. TICKETS - 1
        /\ tick \in [Core -> 0 .. TICKETS - 1]
    BY DEF Tickets
  <1> USE <1>t
  <1> DEFINE k == Cardinality(W)
             o2 == After(o, 1)
  <1>1. k \in 1 .. TICKETS /\ Cardinality(W \ {c}) = k - 1 /\ TICKETS \in Nat \ {0}
    BY WaitingSize, TicketAssumption
  <1>2. \A i \in 1 .. TICKETS : After(o2, i - 1) = After(o, i)
    BY AfterNext
  <1>3. o = After(o, 0)
    BY <1>1, AfterValue
  <1> HIDE DEF k, o2
  <1>4. n = After(o2, k - 1)
    BY <1>1, <1>2 DEF Tickets, k
  <1>5. ASSUME NEW d \in W \ {c} PROVE \E i \in 0 .. (k - 1) - 1 : tick[d] = After(o2, i)
    <2>1. PICK i \in 0 .. k - 1 : tick[d] = After(o, i)
      BY DEF Tickets, k
    <2>2. i # 0
      BY <2>1, <1>3 DEF Tickets
    <2>3. i \in 1 .. TICKETS /\ i - 1 \in 0 .. (k - 1) - 1
      BY <2>2, <1>1
    <2> QED BY <2>1, <2>3, <1>2
  <1>6. ASSUME NEW i \in 0 .. (k - 1) - 1 PROVE \E d \in W \ {c} : tick[d] = After(o2, i)
    <2>1. i + 1 \in 0 .. k - 1 /\ i + 1 \in 1 .. TICKETS /\ (i + 1) - 1 = i
          /\ i + 1 \in 0 .. TICKETS - 1 /\ 0 \in 0 .. TICKETS - 1 /\ i + 1 # 0
      BY <1>1
    <2>2. PICK d \in W : tick[d] = After(o, i + 1)
      BY <2>1 DEF Tickets, k
    <2>3. After(o, i + 1) # After(o, 0)
      BY <2>1, AfterInjective
    <2>4. After(o2, (i + 1) - 1) = After(o, i + 1)
      BY <2>1, <1>2
    <2> QED BY <2>1, <2>2, <2>3, <2>4, <1>3
  <1>7. \A d, e \in W \ {c} : tick[d] = tick[e] => d = e
    BY DEF Tickets
  <1>8. o2 \in 0 .. TICKETS - 1 /\ W \ {c} \in SUBSET Core
    <2>1. 1 \in 0 .. TICKETS
      BY <1>1
    <2> QED BY <2>1, AfterValue DEF o2
  <1>9. Tickets(W \ {c}, o2, n, tick)
    BY <1>1, <1>4, <1>5, <1>6, <1>7, <1>8 DEF Tickets
  <1> QED BY <1>9 DEF o2

\* Nobody has a ticket at first.
LEMMA TicketInitInv == TicketInit => TicketInv
  <1> SUFFICES ASSUME TicketInit PROVE TicketInv
    OBVIOUS
  <1>1. Waiting = {} /\ Cardinality(Waiting) = 0
    BY FS_EmptySet DEF TicketInit, Waiting
  <1>2. TICKETS \in Nat \ {0} /\ 0 \in 0 .. TICKETS - 1 /\ 0 \in 0 .. TICKETS
    BY TicketAssumption
  <1>3. After(0, 0) = 0
    BY <1>2, AfterValue
  <1>4. Tickets(Waiting, owner, next, ticket)
    <2>1. 0 .. Cardinality(Waiting) - 1 = {}
      BY <1>1
    <2>2. /\ Waiting \in SUBSET Core /\ owner \in 0 .. TICKETS - 1 /\ next \in 0 .. TICKETS - 1
          /\ ticket \in [Core -> 0 .. TICKETS - 1]
      BY <1>1, <1>2 DEF TicketInit
    <2> QED BY <1>1, <1>3, <2>1, <2>2 DEF TicketInit, Tickets
  <1> QED BY <1>4 DEF TicketInit, TicketInv, InHasTurn

\* What the invariant says of the types.
LEMMA InvTypes ==
    ASSUME TicketInv
    PROVE  /\ Waiting \in SUBSET Core /\ phase \in [Core -> {"out", "spin", "in"}]
           /\ owner \in 0 .. TICKETS - 1 /\ next \in 0 .. TICKETS - 1
           /\ ticket \in [Core -> 0 .. TICKETS - 1]
  BY DEF TicketInv, Tickets

\* The ticket that a CPU draws is the last of the queue.
LEMMA DrawInv == ASSUME TicketInv, NEW c \in Core, DrawTicket(c)
                 PROVE  TicketInv' /\ Waiting' = Waiting \cup {c} /\ c \notin Waiting
  <1>1. Tickets(Waiting, owner, next, ticket) /\ c \notin Waiting
    BY DEF TicketInv, Waiting, DrawTicket
  <1>2. /\ ticket' = [ticket EXCEPT ![c] = next] /\ next' = After(next, 1)
        /\ phase' = [phase EXCEPT ![c] = "spin"] /\ owner' = owner
    BY DEF DrawTicket, After
  <1>3. Waiting' = Waiting \cup {c} /\ phase' \in [Core -> {"out", "spin", "in"}]
    BY <1>1, <1>2, InvTypes DEF Waiting
  <1>4. Tickets(Waiting \cup {c}, owner, After(next, 1), [ticket EXCEPT ![c] = next])
    BY <1>1, DrawTickets
  <1>5. Tickets(Waiting', owner', next', ticket')
    BY <1>2, <1>3, <1>4
  <1>6. InHasTurn'
    BY <1>2, InvTypes DEF TicketInv, InHasTurn
  <1> QED BY <1>1, <1>3, <1>5, <1>6 DEF TicketInv

\* A CPU sees that it is its turn.
LEMMA SpinInv == ASSUME TicketInv, NEW c \in Core, SpinDone(c)
                 PROVE  TicketInv' /\ Waiting' = Waiting
  <1>1. /\ phase[c] = "spin" /\ ticket[c] = owner
        /\ phase' = [phase EXCEPT ![c] = "in"] /\ UNCHANGED <<next, owner, ticket>>
    BY DEF SpinDone
  <1>2. Waiting' = Waiting /\ phase' \in [Core -> {"out", "spin", "in"}]
    BY <1>1, InvTypes DEF Waiting
  <1>3. InHasTurn'
    BY <1>1, InvTypes DEF TicketInv, InHasTurn
  <1> QED BY <1>1, <1>2, <1>3 DEF TicketInv

\* The lock is given on.
LEMMA UnlockInv == ASSUME TicketInv, NEW c \in Core, PassOn(c)
                   PROVE  TicketInv' /\ Waiting' = Waiting \ {c} /\ c \in Waiting
  <1>1. Tickets(Waiting, owner, next, ticket)
    BY DEF TicketInv
  <1>2. /\ phase[c] = "in" /\ owner' = After(owner, 1)
        /\ phase' = [phase EXCEPT ![c] = "out"] /\ UNCHANGED <<next, ticket>>
    BY DEF PassOn, After
  <1>3. c \in Waiting /\ ticket[c] = owner
    BY <1>2 DEF TicketInv, InHasTurn, Waiting
  <1>4. Waiting' = Waiting \ {c} /\ phase' \in [Core -> {"out", "spin", "in"}]
    BY <1>2, InvTypes DEF Waiting
  <1>5. Tickets(Waiting \ {c}, After(owner, 1), next, ticket)
    BY <1>1, <1>3, LeaveTickets
  <1>6. Tickets(Waiting', owner', next', ticket')
    BY <1>2, <1>4, <1>5
  <1>7. \A d \in Core : phase[d] = "in" => d = c
    BY <1>1, <1>3 DEF TicketInv, InHasTurn, Waiting, Tickets
  <1>8. InHasTurn'
    BY <1>2, <1>7, InvTypes DEF InHasTurn
  <1> QED BY <1>3, <1>4, <1>6, <1>8 DEF TicketInv

\* Every reachable state of the lock satisfies the inductive invariant.
THEOREM TicketInvariance == TicketSpec => []TicketInv
  <1>1. TicketInv /\ [TicketNext]_tvars => TicketInv'
    <2>1. ASSUME TicketInv, UNCHANGED tvars PROVE TicketInv'
      BY <2>1 DEF tvars, TicketInv, Waiting, InHasTurn
    <2> QED BY <2>1, DrawInv, SpinInv, UnlockInv DEF TicketNext
  <1> QED BY <1>1, TicketInitInv, PTL DEF TicketSpec

-----------------------------------------------------------------------------
(* The refinement.                                                         *)

Lined(W, o, tick) == [i \in 1 .. Cardinality(W) |->
    CHOOSE c \in W : tick[c] = (o + i - 1) % TICKETS]

\* The i-th of Q is the one of W whose ticket is i - 1 after o.
InLine(Q, W, o, tick) ==
    /\ Q \in Seq(W) /\ Len(Q) = Cardinality(W)
    /\ \A i \in 1 .. Cardinality(W), c \in W : Q[i] = c <=> tick[c] = After(o, i - 1)

\* R is Q with c behind it.
Joins(Q, R, c) == R = Append(Q, c)

\* c is the first of Q.
Leads(Q, c) == Len(Q) >= 1 /\ Q[1] = c

\* Sequences with the same elements are the same.
LEMMA SameSequence ==
    ASSUME NEW S, NEW Q \in Seq(S), NEW R \in Seq(S), Len(Q) = Len(R),
           \A i \in 1 .. Len(Q) : Q[i] = R[i]
    PROVE  Q = R
  OBVIOUS

\* The queue holds the CPUs in the order of their tickets.
LEMMA LinedUp ==
    ASSUME NEW W, NEW o, NEW n, NEW tick, Tickets(W, o, n, tick)
    PROVE  InLine(Lined(W, o, tick), W, o, tick)
  <1>t. /\ W \in SUBSET Core /\ o \in 0 .. TICKETS - 1 /\ n \in 0 .. TICKETS - 1
        /\ tick \in [Core -> 0 .. TICKETS - 1]
    BY DEF Tickets
  <1> USE <1>t
  <1> DEFINE k == Cardinality(W)
             Q == Lined(W, o, tick)
  <1>1. k \in 0 .. TICKETS /\ TICKETS \in Nat
    BY WaitingSize, TicketAssumption
  <1> HIDE DEF k
  <1>2. ASSUME NEW i \in 1 .. k
        PROVE  Q[i] \in W /\ \A c \in W : Q[i] = c <=> tick[c] = After(o, i - 1)
    <2>1. i - 1 \in 0 .. k - 1 /\ o + i - 1 = o + (i - 1)
      BY <1>1
    <2>2. Q[i] = CHOOSE c \in W : tick[c] = After(o, i - 1)
      BY <2>1 DEF Lined, After, k
    <2>3. PICK d \in W : tick[d] = After(o, i - 1)
      BY <2>1 DEF Tickets, k
    <2> HIDE DEF Q
    <2>4. Q[i] \in W /\ tick[Q[i]] = After(o, i - 1)
      BY <2>2, <2>3
    <2> QED BY <2>4 DEF Tickets
  <1>3. DOMAIN Q = 1 .. k
    BY DEF Lined, k
  <1>4. Q \in [1 .. k -> W]
    <2>1. Q = [i \in 1 .. k |-> Q[i]]
      BY DEF Lined, k
    <2> HIDE DEF Q
    <2> QED BY <2>1, <1>2
  <1>5. Q \in Seq(W) /\ Len(Q) = k
    BY <1>1, <1>3, <1>4
  <1>6. \A i \in 1 .. k, c \in W : Q[i] = c <=> tick[c] = After(o, i - 1)
    BY <1>2
  <1> HIDE DEF Q
  <1>7. InLine(Q, W, o, tick)
    BY <1>5, <1>6 DEF k, InLine
  <1> QED BY <1>7 DEF Q

\* A CPU that draws a ticket stands at the end.
LEMMA DrawLast ==
    ASSUME NEW W, NEW o, NEW n, NEW tick, Tickets(W, o, n, tick),
           NEW c \in Core, c \notin W, NEW tick2, tick2 = [tick EXCEPT ![c] = n]
    PROVE  Joins(Lined(W, o, tick), Lined(W \cup {c}, o, tick2), c)
  <1>t. /\ W \in SUBSET Core /\ o \in 0 .. TICKETS - 1 /\ n \in 0 .. TICKETS - 1
        /\ tick \in [Core -> 0 .. TICKETS - 1]
    BY DEF Tickets
  <1> USE <1>t
  <1> DEFINE k == Cardinality(W)
             V == W \cup {c}
             Q == Lined(W, o, tick)
             R == Lined(V, o, tick2)
  <1>1. k \in 0 .. TICKETS - 1 /\ Cardinality(V) = k + 1 /\ TICKETS \in Nat \ {0}
    BY WaitingSize, TicketAssumption
  <1>2. tick2[c] = n /\ \A d \in W : tick2[d] = tick[d]
    OBVIOUS
  <1>3. n = After(o, k)
    BY DEF Tickets
  <1>4. Tickets(V, o, After(n, 1), tick2)
    BY DrawTickets
  <1>5. /\ Q \in Seq(W) /\ Len(Q) = k
        /\ \A i \in 1 .. k, d \in W : Q[i] = d <=> tick[d] = After(o, i - 1)
    <2>1. InLine(Q, W, o, tick)
      BY LinedUp
    <2> HIDE DEF Q
    <2> QED BY <2>1 DEF InLine
  <1> HIDE DEF k, Q
  <1>6. /\ R \in Seq(V) /\ Len(R) = k + 1
        /\ \A i \in 1 .. k + 1, d \in V : R[i] = d <=> tick2[d] = After(o, i - 1)
    <2> HIDE DEF V
    <2>1. InLine(R, V, o, tick2)
      BY <1>4, LinedUp, Zenon
    <2> HIDE DEF R
    <2> QED BY <1>1, <2>1 DEF InLine
  <1> HIDE DEF R
  <1>7. ASSUME NEW i \in 1 .. k PROVE R[i] = Q[i]
    <2>1. Q[i] \in W /\ i \in 1 .. k + 1
      BY <1>1, <1>5
    <2>2. tick[Q[i]] = After(o, i - 1)
      BY <1>5, <2>1
    <2> QED BY <1>2, <1>6, <2>1, <2>2
  <1>8. R[k + 1] = c
    <2>1. k + 1 \in 1 .. k + 1 /\ (k + 1) - 1 = k
      BY <1>1
    <2> QED BY <1>2, <1>3, <1>6, <2>1
  <1>9. /\ Append(Q, c) \in Seq(V) /\ Len(Append(Q, c)) = k + 1
        /\ \A i \in 1 .. k : Append(Q, c)[i] = Q[i]
        /\ Append(Q, c)[k + 1] = c
    <2>1. Q \in Seq(V)
      BY <1>5
    <2> HIDE DEF V
    <2> QED BY <1>5, <2>1, c \in V DEF V
  <1>10. \A i \in 1 .. k + 1 : R[i] = Append(Q, c)[i]
    BY <1>1, <1>7, <1>8, <1>9
  <1>11. R = Append(Q, c)
    <2> HIDE DEF V
    <2> DEFINE A == Append(Q, c)
    <2>1. A \in Seq(V) /\ R \in Seq(V) /\ Len(R) = Len(A) /\ \A i \in 1 .. Len(R) : R[i] = A[i]
      BY <1>6, <1>9, <1>10
    <2> HIDE DEF A
    <2>2. R = A
      BY <2>1, SameSequence
    <2> QED BY <2>2 DEF A
  <1> QED BY <1>11 DEF R, Q, Joins

\* The CPU whose turn it is stands at the front, and leaves from there.
LEMMA LeaveFirst ==
    ASSUME NEW W, NEW o, NEW n, NEW tick, Tickets(W, o, n, tick),
           NEW c \in W, tick[c] = o
    PROVE  /\ Leads(Lined(W, o, tick), c)
           /\ Lined(W \ {c}, After(o, 1), tick) = Tail(Lined(W, o, tick))
  <1>t. /\ W \in SUBSET Core /\ o \in 0 .. TICKETS - 1 /\ n \in 0 .. TICKETS - 1
        /\ tick \in [Core -> 0 .. TICKETS - 1]
    BY DEF Tickets
  <1> USE <1>t
  <1> DEFINE k == Cardinality(W)
             V == W \ {c}
             Q == Lined(W, o, tick)
             o2 == After(o, 1)
             R == Lined(V, o2, tick)
  <1>1. k \in 1 .. TICKETS /\ Cardinality(V) = k - 1 /\ TICKETS \in Nat \ {0}
    BY WaitingSize, TicketAssumption
  <1>2. o = After(o, 0) /\ o2 \in 0 .. TICKETS - 1
    BY <1>1, AfterValue
  <1>3. Tickets(V, o2, n, tick)
    BY LeaveTickets
  <1>4. /\ Q \in Seq(W) /\ Len(Q) = k
        /\ \A i \in 1 .. k, d \in W : Q[i] = d <=> tick[d] = After(o, i - 1)
    <2>1. InLine(Q, W, o, tick)
      BY LinedUp
    <2> HIDE DEF Q
    <2> QED BY <2>1 DEF InLine
  <1>5. \A i \in 1 .. TICKETS : After(o2, i - 1) = After(o, i)
    BY AfterNext
  <1> HIDE DEF k, Q, o2
  <1>6. /\ R \in Seq(V) /\ Len(R) = k - 1
        /\ \A i \in 1 .. k - 1, d \in V : R[i] = d <=> tick[d] = After(o2, i - 1)
    <2> HIDE DEF V
    <2>1. InLine(R, V, o2, tick)
      BY <1>3, LinedUp, Zenon
    <2> HIDE DEF R
    <2> QED BY <1>1, <2>1 DEF InLine
  <1> HIDE DEF R
  <1>7. Q[1] = c
    <2>1. 1 \in 1 .. k /\ 1 - 1 = 0
      BY <1>1
    <2> QED BY <1>2, <1>4, <2>1
  <1>8. Q # << >> /\ Head(Q) = c
    BY <1>1, <1>4, <1>7
  <1>9. /\ Tail(Q) \in Seq(W) /\ Len(Tail(Q)) = k - 1
        /\ \A i \in 1 .. k - 1 : Tail(Q)[i] = Q[i + 1]
    BY <1>1, <1>4, <1>8
  <1>10. ASSUME NEW i \in 1 .. k - 1 PROVE R[i] = Tail(Q)[i]
    <2>1. i + 1 \in 1 .. k /\ (i + 1) - 1 = i /\ i \in 1 .. TICKETS
      BY <1>1
    <2>2. R[i] \in V /\ tick[R[i]] = After(o2, i - 1)
      <3> HIDE DEF V
      <3>1. R[i] \in V
        BY <1>1, <1>6
      <3> QED BY <1>6, <3>1, Zenon
    <2>3. tick[R[i]] = After(o, (i + 1) - 1)
      BY <1>5, <2>1, <2>2
    <2>4. R[i] \in W
      BY <2>2
    <2>5. Q[i + 1] = R[i]
      BY <1>4, <2>1, <2>3, <2>4
    <2> QED BY <1>9, <2>5
  <1>11. R \in Seq(W)
    BY <1>6
  <1>12. R = Tail(Q)
    <2>1. \A i \in 1 .. Len(R) : R[i] = Tail(Q)[i]
      BY <1>6, <1>10
    <2> DEFINE S == Tail(Q)
    <2>2. S \in Seq(W) /\ Len(S) = Len(R) /\ \A i \in 1 .. Len(R) : R[i] = S[i]
      BY <1>6, <1>9, <2>1
    <2> HIDE DEF S
    <2>3. R = S
      BY <1>11, <2>2, SameSequence
    <2> QED BY <2>3 DEF S
  <1>13. Len(Q) >= 1
    BY <1>1, <1>4
  <1> QED BY <1>7, <1>12, <1>13 DEF R, Q, o2, Leads

\* The queue of the refinement mapping.
LEMMA QueueLined == Queue = Lined(Waiting, owner, ticket)
  BY DEF Queue, Lined

\* Drawing a ticket is asking for the lock.
LEMMA DrawAsks == ASSUME TicketInv, NEW c \in Core, DrawTicket(c) PROVE Fifo!Ask(c)
  <1>1. /\ Tickets(Waiting, owner, next, ticket)
        /\ c \notin Waiting /\ Waiting' = Waiting \cup {c}
    BY DrawInv DEF TicketInv
  <1>2. /\ ticket' = [ticket EXCEPT ![c] = next] /\ owner' = owner
        /\ phase[c] = "out" /\ phase' = [phase EXCEPT ![c] = "spin"]
    BY DEF DrawTicket
  <1>3. Lined(Waiting \cup {c}, owner, ticket') = Append(Lined(Waiting, owner, ticket), c)
    <2>1. ticket' = [ticket EXCEPT ![c] = next]
      BY <1>2
    <2>2. Joins(Lined(Waiting, owner, ticket), Lined(Waiting \cup {c}, owner, ticket'), c)
      BY <1>1, <2>1, DrawLast
    <2> QED BY <2>2 DEF Joins
  <1>4. Queue' = Lined(Waiting', owner', ticket')
    BY DEF Queue, Lined
  <1>5. Queue' = Append(Queue, c)
    BY <1>1, <1>2, <1>3, <1>4, QueueLined
  <1>6. Queue \in Seq(Waiting)
    BY <1>1, LinedUp, QueueLined DEF InLine
  <1>7. \A i \in DOMAIN Queue : Queue[i] # c
    BY <1>1, <1>6
  <1>8. {d \in Core : phase'[d] = "in"} = {d \in Core : phase[d] = "in"}
    BY <1>2, InvTypes
  <1> QED BY <1>5, <1>7, <1>8 DEF Fifo!Ask

\* Seeing one's turn is getting the lock.
LEMMA SpinGets == ASSUME TicketInv, NEW c \in Core, SpinDone(c) PROVE Fifo!Get(c)
  <1>1. Tickets(Waiting, owner, next, ticket) /\ Waiting' = Waiting
    BY SpinInv DEF TicketInv
  <1>2. /\ phase[c] = "spin" /\ ticket[c] = owner /\ c \in Waiting
        /\ phase' = [phase EXCEPT ![c] = "in"] /\ UNCHANGED <<next, owner, ticket>>
    BY DEF SpinDone, Waiting
  <1>3. Len(Queue) >= 1 /\ Queue[1] = c /\ Queue \in Seq(Waiting)
    <2>1. Leads(Queue, c)
      BY <1>1, <1>2, LeaveFirst, QueueLined
    <2>2. InLine(Queue, Waiting, owner, ticket)
      BY <1>1, LinedUp, QueueLined
    <2> QED BY <2>1, <2>2 DEF Leads, InLine
  <1>4. Queue # << >> /\ Head(Queue) = c
    BY <1>3
  <1>5. Queue' = Queue
    BY <1>1, <1>2 DEF Queue
  <1>6. {d \in Core : phase'[d] = "in"} = {d \in Core : phase[d] = "in"} \cup {c}
    BY <1>2, InvTypes
  <1> QED BY <1>2, <1>4, <1>5, <1>6 DEF Fifo!Get

\* rt_hw_spin_unlock releases the lock to the next of the queue.
LEMMA UnlockReleases == ASSUME TicketInv, NEW c \in Core, PassOn(c) PROVE Fifo!Release(c)
  <1>1. /\ Tickets(Waiting, owner, next, ticket)
        /\ c \in Waiting /\ Waiting' = Waiting \ {c}
    BY UnlockInv DEF TicketInv
  <1>2. /\ phase[c] = "in" /\ owner' = After(owner, 1)
        /\ phase' = [phase EXCEPT ![c] = "out"] /\ UNCHANGED <<next, ticket>>
    BY DEF PassOn, After
  <1>3. ticket[c] = owner
    BY <1>2 DEF TicketInv, InHasTurn
  <1>4. Lined(Waiting \ {c}, After(owner, 1), ticket) = Tail(Lined(Waiting, owner, ticket))
    BY <1>1, <1>3, LeaveFirst
  <1>5. Queue' = Lined(Waiting', owner', ticket')
    BY DEF Queue, Lined
  <1>6. Queue' = Tail(Queue)
    BY <1>1, <1>2, <1>4, <1>5, QueueLined
  <1>7. {d \in Core : phase'[d] = "in"} = {d \in Core : phase[d] = "in"} \ {c}
    BY <1>2, InvTypes
  <1> QED BY <1>2, <1>6, <1>7 DEF Fifo!Release

\* The ticket lock of rt_hw_spin_lock implements the first-come, first-served lock,
\* for any number of CPUs up to the range of its counters, over every wrap of them.
THEOREM TicketsAreFair == TicketSpec => ImplementsFifo
  <1>1. TicketInit => Fifo!FInit
    <2> SUFFICES ASSUME TicketInit PROVE Queue = << >> /\ {c \in Core : phase[c] = "in"} = {}
      BY DEF Fifo!FInit
    <2>1. Waiting = {} /\ Cardinality(Waiting) = 0
      BY FS_EmptySet DEF TicketInit, Waiting
    <2>2. Queue = << >>
      BY <2>1 DEF Queue
    <2> QED BY <2>2 DEF TicketInit
  <1>2. TicketInv /\ [TicketNext]_tvars => [Fifo!FNext]_(Fifo!fvars)
    <2> SUFFICES ASSUME TicketInv, [TicketNext]_tvars PROVE Fifo!FNext \/ UNCHANGED Fifo!fvars
      BY DEF Fifo!fvars
    <2>1. CASE UNCHANGED tvars
      BY <2>1 DEF tvars, Fifo!fvars, Queue, Waiting
    <2>2. CASE TicketNext
      <3>1. PICK c \in Core : DrawTicket(c) \/ SpinDone(c) \/ PassOn(c)
        BY <2>2 DEF TicketNext
      <3>2. Fifo!Ask(c) \/ Fifo!Get(c) \/ Fifo!Release(c)
        BY <3>1, DrawAsks, SpinGets, UnlockReleases
      <3> QED BY <3>2 DEF Fifo!FNext
    <2> QED BY <2>1, <2>2
  <1> QED BY <1>1, <1>2, TicketInvariance, PTL DEF TicketSpec, ImplementsFifo, Fifo!FSpec

=============================================================================
