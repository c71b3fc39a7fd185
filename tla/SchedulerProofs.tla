--------------------------- MODULE SchedulerProofs ---------------------------
(***************************************************************************)
(* Proofs about module Scheduler, for any number of CPUs, threads and      *)
(* priorities.  The inductive invariant Inv joins the type invariant, the  *)
(* properties Placed and OneCpu and the auxiliary facts Aux that make them *)
(* inductive; there is one lemma for each action of Next.  Honoured and    *)
(* Reaped are invariants relative to Inv, for the order of the priorities  *)
(* and for the memory of threads that ended.                               *)
(***************************************************************************)
EXTENDS Scheduler, WellFoundedInduction, TLAPS

-----------------------------------------------------------------------------
(* Lists, bitmaps and ready tables.                                        *)

\* The CPUs are the tables other than the global one, and CPU 0 exists.
LEMMA CpuWhere ==
    /\ CPU \subseteq Where
    /\ RT_CPUS_NR \in Where
    /\ RT_CPUS_NR \notin CPU
    /\ Where = CPU \cup {RT_CPUS_NR}
    /\ 0 \in CPU
  BY CpusAssumption DEF CPU, Where

\* What is on a list of one element and on the empty list.
LEMMA ShortList ==
    /\ \A a, t : OnList(<<a>>, t) <=> t = a
    /\ \A a : Distinct(<<a>>)
    /\ \A t : ~OnList(<< >>, t)
    /\ Distinct(<< >>)
  BY DEF OnList, Distinct

\* rt_list_insert_before at the head of a ready list adds one thread, at the
\* tail, and keeps the list free of duplicates.
LEMMA AppendList ==
    ASSUME NEW S, NEW s \in Seq(S), NEW t \in S
    PROVE  /\ Append(s, t) \in Seq(S)
           /\ Append(s, t) # << >>
           /\ \A u : OnList(Append(s, t), u) <=> OnList(s, u) \/ u = t
           /\ ~OnList(s, t) /\ Distinct(s) => Distinct(Append(s, t))
  <1>1. /\ Append(s, t) \in Seq(S)
        /\ Len(Append(s, t)) = Len(s) + 1
        /\ \A i \in 1 .. Len(s) : Append(s, t)[i] = s[i]
        /\ Append(s, t)[Len(s) + 1] = t
    OBVIOUS
  <1>2. DOMAIN s = 1 .. Len(s) /\ DOMAIN Append(s, t) = 1 .. (Len(s) + 1) /\ Len(s) \in Nat
    BY <1>1
  <1>3. Append(s, t) # << >>
    <2> SUFFICES ASSUME Append(s, t) = << >> PROVE FALSE
      OBVIOUS
    <2>1. Len(Append(s, t)) = 0
      BY Len(<< >>) = 0
    <2> QED BY <1>1, <1>2, <2>1
  <1>4. ASSUME NEW u PROVE OnList(Append(s, t), u) <=> OnList(s, u) \/ u = t
    BY <1>1, <1>2 DEF OnList
  <1>5. ASSUME ~OnList(s, t), Distinct(s) PROVE Distinct(Append(s, t))
    BY <1>1, <1>2, <1>5 DEF OnList, Distinct
  <1> QED BY <1>1, <1>3, <1>4, <1>5

\* rt_list_remove takes one thread off a list without duplicates and leaves
\* the others.
LEMMA WithoutList ==
    ASSUME NEW S, NEW s \in Seq(S), NEW t, Distinct(s)
    PROVE  /\ Without(s, t) \in Seq(S)
           /\ \A u : OnList(Without(s, t), u) <=> OnList(s, u) /\ u # t
           /\ Distinct(Without(s, t))
  <1>1. CASE OnList(s, t)
    <2> DEFINE k == CHOOSE i \in 1 .. Len(s) : s[i] = t
               w == [i \in 1 .. Len(s) - 1 |-> s[IF i < k THEN i ELSE i + 1]]
    <2>1. DOMAIN s = 1 .. Len(s) /\ Len(s) \in Nat
      OBVIOUS
    <2>2. k \in 1 .. Len(s) /\ s[k] = t
      BY <1>1, <2>1 DEF OnList
    <2>3. Without(s, t) = w
      BY <1>1, <2>1 DEF Without, OnList
    <2> HIDE DEF k
    <2>4. w \in Seq(S) /\ DOMAIN w = 1 .. Len(s) - 1
      BY <2>1, <2>2
    <2>5. \A i \in 1 .. Len(s) - 1 : w[i] = s[IF i < k THEN i ELSE i + 1]
      OBVIOUS
    <2> HIDE DEF w
    <2>6. ASSUME NEW u, OnList(s, u), u # t PROVE OnList(w, u)
      <3>1. PICK i \in 1 .. Len(s) : s[i] = u
        BY <2>6, <2>1 DEF OnList
      <3>2. i # k
        BY <3>1, <2>6, <2>2
      <3>3. CASE i < k
        BY <3>1, <3>3, <2>1, <2>2, <2>4, <2>5 DEF OnList
      <3>4. CASE i > k
        <4>1. i - 1 \in 1 .. Len(s) - 1 /\ ~(i - 1 < k) /\ (i - 1) + 1 = i
          BY <3>4, <2>1, <2>2
        <4>2. w[i - 1] = u
          BY <4>1, <2>5, <3>1
        <4> QED BY <4>1, <4>2, <2>4 DEF OnList
      <3> QED BY <3>2, <3>3, <3>4, <2>1, <2>2
    <2>7. ASSUME NEW u, OnList(w, u) PROVE OnList(s, u) /\ u # t
      <3>1. PICK i \in 1 .. Len(s) - 1 : w[i] = u
        BY <2>7, <2>4 DEF OnList
      <3>2. PICK j \in 1 .. Len(s) : s[j] = u /\ j # k
        BY <3>1, <2>5, <2>1, <2>2
      <3> QED BY <3>2, <2>1, <2>2 DEF OnList, Distinct
    <2>8. Distinct(w)
      <3> DEFINE f(i) == IF i < k THEN i ELSE i + 1
      <3>1. \A i \in 1 .. Len(s) - 1 : f(i) \in 1 .. Len(s) /\ w[i] = s[f(i)]
        BY <2>1, <2>2, <2>5
      <3>2. \A i, j \in 1 .. Len(s) - 1 : f(i) = f(j) => i = j
        BY <2>1, <2>2
      <3> HIDE DEF f
      <3> QED BY <3>1, <3>2, <2>1, <2>4 DEF Distinct
    <2> QED BY <2>3, <2>4, <2>6, <2>7, <2>8
  <1>2. CASE ~OnList(s, t)
    <2>1. Without(s, t) = s
      BY <1>2 DEF OnList, Without
    <2> QED BY <1>2, <2>1
  <1> QED BY <1>1, <1>2

\* A set of natural numbers that is not empty has a least element.
LEMMA NatMin ==
    ASSUME NEW S, S \subseteq Nat, S # {}
    PROVE  Min(S) \in S /\ \A y \in S : Min(S) <= y
  <1> DEFINE R == {ss \in Nat \X Nat : ss[1] < ss[2]}
  <1>1. IsWellFoundedOn(R, Nat)
    BY NatLessThanWellFounded DEF OpToRel
  <1>2. PICK x \in S : \A y \in S : ~(<<y, x>> \in R)
    BY <1>1, WFMin
  <1>3. ASSUME NEW y \in S PROVE x <= y
    <2>1. x \in Nat /\ y \in Nat /\ <<y, x>> \in Nat \X Nat
      OBVIOUS
    <2>2. ~(y < x)
      BY <1>2, <2>1
    <2> QED BY <2>1, <2>2
  <1> QED BY <1>3 DEF Min

\* __rt_ffs(group) - 1 is the most urgent priority of a bitmap, and no
\* priority at all when the bitmap is 0.
LEMMA HighestBit ==
    ASSUME NEW S, S \subseteq Prio
    PROVE  /\ Highest(S) \in Nat
           /\ S = {} => Highest(S) = RT_THREAD_PRIORITY_MAX
           /\ S # {} => Highest(S) \in S /\ Highest(S) < RT_THREAD_PRIORITY_MAX
           /\ \A p \in S : Highest(S) <= p
  <1>1. S \subseteq Nat /\ RT_THREAD_PRIORITY_MAX \in Nat
    BY PrioAssumption DEF Prio
  <1>2. S # {} => Min(S) \in S /\ \A y \in S : Min(S) <= y
    BY <1>1, NatMin
  <1>3. CASE S = {}
    BY <1>1, <1>3 DEF Highest
  <1>4. CASE S # {}
    <2>1. Highest(S) = Min(S)
      BY <1>4 DEF Highest
    <2>2. Min(S) \in Prio
      BY <1>2, <1>4
    <2> QED BY <1>1, <1>2, <1>4, <2>1, <2>2 DEF Prio
  <1> QED BY <1>3, <1>4

Tables == [Where -> [Prio -> Seq(AllThread)]]
Groups == [Where -> SUBSET Prio]

\* Linking a thread and setting its bit, as rt_schedule_insert_thread does,
\* adds exactly that thread to the ready tables.
LEMMA LinkHolds ==
    ASSUME NEW tab \in Tables, NEW grp \in Groups, NEW R, NEW t \in AllThread, t \notin R,
           bind_cpu \in [AllThread -> Where], NEW pr, pr[t] \in Prio,
           Holds(tab, grp, R, bind_cpu, pr)
    PROVE  /\ Linked(tab, t, pr[t]) \in Tables
           /\ Marked(grp, t, pr[t]) \in Groups
           /\ Holds(Linked(tab, t, pr[t]), Marked(grp, t, pr[t]), R \cup {t}, bind_cpu, pr)
  <1> DEFINE p0 == pr[t]
             q0 == bind_cpu[t]
             tab2 == Linked(tab, t, p0)
             grp2 == Marked(grp, t, p0)
  <1>1. q0 \in Where /\ p0 \in Prio
    OBVIOUS
  <1>2. tab[q0][p0] \in Seq(AllThread)
    BY <1>1 DEF Tables
  <1>3. ~OnList(tab[q0][p0], t) /\ Distinct(tab[q0][p0])
    BY <1>1 DEF Holds
  <1>4. /\ Append(tab[q0][p0], t) \in Seq(AllThread)
        /\ Append(tab[q0][p0], t) # << >>
        /\ \A u : OnList(Append(tab[q0][p0], t), u) <=> OnList(tab[q0][p0], u) \/ u = t
        /\ Distinct(Append(tab[q0][p0], t))
    BY <1>2, <1>3, AppendList
  <1>5. /\ tab2 \in Tables
        /\ grp2 \in Groups
        /\ tab2[q0][p0] = Append(tab[q0][p0], t)
        /\ \A q \in Where, p \in Prio : q # q0 \/ p # p0 => tab2[q][p] = tab[q][p]
        /\ grp2[q0] = grp[q0] \cup {p0}
        /\ \A q \in Where : q # q0 => grp2[q] = grp[q]
    BY <1>1, <1>4 DEF Linked, Marked, Tables, Groups
  <1> HIDE DEF p0, q0, tab2, grp2
  <1>6. ASSUME NEW q \in Where, NEW p \in Prio
        PROVE  /\ \A u \in AllThread : OnList(tab2[q][p], u)
                     <=> u \in R \cup {t} /\ bind_cpu[u] = q /\ pr[u] = p
               /\ Distinct(tab2[q][p])
    <2>1. CASE q = q0 /\ p = p0
      <3>1. \A u \in AllThread : OnList(tab[q][p], u)
                <=> u \in R /\ bind_cpu[u] = q /\ pr[u] = p
        BY DEF Holds
      <3> QED BY <2>1, <3>1, <1>4, <1>5 DEF p0, q0
    <2>2. CASE q # q0 \/ p # p0
      BY <2>2, <1>5 DEF Holds, p0, q0
    <2> QED BY <2>1, <2>2
  <1>7. ASSUME NEW q \in Where PROVE grp2[q] = {p \in Prio : tab2[q][p] # << >>}
    BY <1>1, <1>4, <1>5 DEF Holds
  <1> QED BY <1>5, <1>6, <1>7 DEF Holds, tab2, grp2, p0

\* Unlinking a thread and clearing its bit if its list became empty, as
\* rt_schedule_remove_thread does, takes exactly that thread out.
LEMMA RemoveHolds ==
    ASSUME NEW tab \in Tables, NEW grp \in Groups, NEW R, NEW t \in AllThread,
           bind_cpu \in [AllThread -> Where], NEW pr, pr[t] \in Prio,
           Holds(tab, grp, R, bind_cpu, pr)
    PROVE  LET tab2 == rt_list_remove(tab, t)
               grp2 == Unmarked(grp, tab2, t, pr[t])
           IN  /\ tab2 \in Tables
               /\ grp2 \in Groups
               /\ Holds(tab2, grp2, R \ {t}, bind_cpu, pr)
  <1> DEFINE p0 == pr[t]
             q0 == bind_cpu[t]
             tab2 == rt_list_remove(tab, t)
             grp2 == Unmarked(grp, tab2, t, p0)
  <1>1. q0 \in Where /\ p0 \in Prio
    OBVIOUS
  <1>2. ASSUME NEW q \in Where, NEW p \in Prio
        PROVE  /\ tab2[q][p] = Without(tab[q][p], t)
               /\ tab2[q][p] \in Seq(AllThread)
               /\ \A u : OnList(tab2[q][p], u) <=> OnList(tab[q][p], u) /\ u # t
               /\ Distinct(tab2[q][p])
    <2>1. tab2[q][p] = Without(tab[q][p], t)
      BY DEF rt_list_remove
    <2>2. tab[q][p] \in Seq(AllThread) /\ Distinct(tab[q][p])
      BY DEF Tables, Holds
    <2> HIDE DEF tab2
    <2> QED BY <2>1, <2>2, WithoutList
  <1>3. tab2 \in Tables
    BY <1>2 DEF rt_list_remove, Tables
  <1>4. /\ grp2 \in Groups
        /\ \A q \in Where : q # q0 => grp2[q] = grp[q]
        /\ grp2[q0] = IF tab2[q0][p0] = << >> THEN grp[q0] \ {p0} ELSE grp[q0]
    BY <1>1 DEF Unmarked, Groups
  <1> HIDE DEF p0, q0, tab2, grp2
  <1>5. ASSUME NEW q \in Where, NEW p \in Prio
        PROVE  /\ \A u \in AllThread : OnList(tab2[q][p], u)
                     <=> u \in R \ {t} /\ bind_cpu[u] = q /\ pr[u] = p
               /\ Distinct(tab2[q][p])
    BY <1>2 DEF Holds
  <1>6. ASSUME NEW q \in Where, NEW p \in Prio, q # q0 \/ p # p0
        PROVE  tab2[q][p] = tab[q][p]
    <2>1. ~OnList(tab[q][p], t)
      BY <1>6 DEF Holds, p0, q0
    <2>2. Without(tab[q][p], t) = tab[q][p]
      BY <2>1 DEF Without, OnList, Tables
    <2> QED BY <1>2, <2>2
  <1>7. tab[q0][p0] = << >> => tab2[q0][p0] = << >>
    <2> SUFFICES ASSUME tab[q0][p0] = << >> PROVE tab2[q0][p0] = << >>
      OBVIOUS
    <2>1. Without(<< >>, t) = << >>
      BY DEF Without
    <2> QED BY <1>1, <1>2, <2>1
  <1>8. ASSUME NEW q \in Where PROVE grp2[q] = {p \in Prio : tab2[q][p] # << >>}
    BY <1>1, <1>4, <1>6, <1>7 DEF Holds
  <1> QED BY <1>3, <1>4, <1>5, <1>8 DEF Holds, tab2, grp2, p0


-----------------------------------------------------------------------------
(* The inductive invariant.                                                *)

\* What the application must respect: rt_thread_resume is called with the lock
\* held, and a thread that blocks with a timeout is not deleted by another.
SafeUse == UnlockedResume = {} /\ MayDelete \cap MaySleep = {}

\* A thread on a suspend list or with a running timer is SUSPENDed, so waking
\* it cannot link it twice.
Dormant == \A t \in pending \cup timer : stat[t] = "SUSPEND"
TimersOfSleepers == timer \subseteq MaySleep

\* Each idle thread is always READY, and bound.
IdleBound == \A c \in CPU : stat[idle[c]] = "READY" /\ bind_cpu[idle[c]] = c

Unstarted == \A t \in AllThread : stat[t] = "INIT" => oncpu[t] = RT_CPU_DETACHED

DefunctClosed == \A i \in DOMAIN defunct : stat[defunct[i]] = "CLOSE"

\* The target of an rt_thread_delete in progress can no longer be woken.
DeletePc == {"delete_timer", "delete_close"}
Deleting == \A s \in AllThread :
    /\ pc[s] \notin {"resume_unlink", "resume_insert"}
    /\ pc[s] = "free" => arg[s] \in Thread
    /\ pc[s] \in DeletePc =>
          /\ arg[s] \in MayDelete
          /\ stat[arg[s]] \in {"INIT", "SUSPEND"}
          /\ oncpu[arg[s]] = RT_CPU_DETACHED
          /\ arg[s] \notin pending
          /\ \A r \in AllThread : arg[r] = arg[s] => r = s

\* Interrupts are taken only once a CPU has started its first thread.
IrqOnRunning == \A c \in CPU : irq_nest[c] = 1 => current_thread[c] # NoThread

Parts == Dormant /\ TimersOfSleepers /\ IdleBound /\ Unstarted /\ DefunctClosed
         /\ IrqOnRunning
\* A thread that executes anything but its call of rt_schedule is READY.
RunningReady == \A t \in AllThread :
    oncpu[t] # RT_CPU_DETACHED /\ stat[t] # "READY" => pc[t] = "schedule" /\ nest[t] = 0

Aux == Parts /\ Deleting /\ RunningReady
Inv == TypeOK /\ Placed /\ OneCpu /\ Aux

\* The assumptions on the constants, in the form the proofs use.
LEMMA Roles ==
    /\ \A S \in {MaySleep, MayExit, MayDelete, MayChange, UnlockedResume, IsStatic,
                 HasCleanup} : S \subseteq Thread
    /\ Main \in Thread /\ MayBind \subseteq CPU
    /\ Thread \subseteq AllThread
    /\ NoThread \notin AllThread
    /\ \A c \in CPU : idle[c] \in AllThread /\ idle[c] \notin Thread
  BY RoleAssumption, IdleAssumption DEF AllThread, Idle

\* The state that rt_system_scheduler_init and the start-up code leave
\* satisfies the invariant.
LEMMA InitInv == Init => Inv
  <1> SUFFICES ASSUME Init PROVE Inv
    OBVIOUS
  <1> USE DEF Init
  <1>1. RT_THREAD_PRIORITY_MAX - 1 \in Prio /\ InitPriority[Main] \in Prio
    BY PrioAssumption, InitPriorityAssumption, Roles DEF Prio
  <1>2. \A c \in CPU : bind_cpu[idle[c]] = c
    <2> TAKE c \in CPU
    <2>1. \A d \in CPU : idle[d] = idle[c] => d = c
      BY IdleAssumption
    <2>2. bind_cpu[idle[c]] = CHOOSE d \in CPU : idle[d] = idle[c]
      BY Roles DEF Idle
    <2> QED BY <2>1, <2>2
  <1>3. \A t \in AllThread : bind_cpu[t] \in Where
    <2> TAKE t \in AllThread
    <2>1. CASE t \in Idle
      BY <2>1, <1>2, CpuWhere DEF Idle
    <2>2. CASE t \notin Idle
      BY <2>2, CpuWhere
    <2> QED BY <2>1, <2>2
  <1>4. table \in Tables
    BY <1>1, CpuWhere, Roles DEF Tables
  <1>5. TypeOK
    <2>1. table \in [Where -> [Prio -> Seq(AllThread)]]
      BY <1>4 DEF Tables
    <2>2. current_priority \in [AllThread -> Prio] /\ bind_cpu \in [AllThread -> Where]
      BY <1>1, <1>3, InitPriorityAssumption DEF AllThread
    <2> QED BY <2>1, <2>2, BoundAssumption, CpuWhere, Roles DEF TypeOK, Stat, RT_CPU_DETACHED
  <1>6. Placed
    <2>1. Queued = {Main} \cup Idle
      BY Roles DEF Queued, AllThread
    <2>2. ASSUME NEW q \in Where, NEW p \in Prio
          PROVE  /\ \A t \in AllThread : OnList(table[q][p], t)
                       <=> t \in Queued /\ bind_cpu[t] = q /\ current_priority[t] = p
                 /\ Distinct(table[q][p])
      <3>1. CASE q = RT_CPUS_NR /\ p = InitPriority[Main]
        <4>1. table[q][p] = <<Main>>
          BY <3>1
        <4>2. \A t \in AllThread : t \in Queued /\ bind_cpu[t] = q /\ current_priority[t] = p
                                    <=> t = Main
          BY <3>1, <2>1, <1>2, Roles, CpuWhere, IdleAssumption DEF Idle
        <4> QED BY <4>1, <4>2, ShortList
      <3>2. CASE q # RT_CPUS_NR /\ p = RT_THREAD_PRIORITY_MAX - 1
        <4>1. table[q][p] = <<idle[q]>> /\ q \in CPU
          BY <3>2, CpuWhere
        <4>2. \A t \in AllThread : t \in Queued /\ bind_cpu[t] = q /\ current_priority[t] = p
                                    <=> t = idle[q]
          BY <3>2, <4>1, <2>1, <1>2, Roles, CpuWhere, IdleAssumption DEF Idle
        <4> QED BY <4>1, <4>2, ShortList
      <3>3. CASE ~(q = RT_CPUS_NR /\ p = InitPriority[Main])
                 /\ ~(q # RT_CPUS_NR /\ p = RT_THREAD_PRIORITY_MAX - 1)
        <4>1. table[q][p] = << >>
          BY <3>3
        <4>2. \A t \in AllThread : ~(t \in Queued /\ bind_cpu[t] = q /\ current_priority[t] = p)
          BY <3>3, <2>1, <1>2, Roles, CpuWhere, IdleAssumption DEF Idle
        <4> QED BY <4>1, <4>2, ShortList
      <3> QED BY <3>1, <3>2, <3>3
    <2>3. \A q \in Where : group[q] = {p \in Prio : table[q][p] # << >>}
      OBVIOUS
    <2> QED BY <2>2, <2>3 DEF Placed, Holds
  <1>7. OneCpu
    BY CpuWhere, Roles DEF OneCpu
  <1>8. Aux
    BY <1>2, Roles DEF Aux, Parts, Dormant, TimersOfSleepers, IdleBound, Unstarted, DefunctClosed, IrqOnRunning,
                Deleting, DeletePc, RunningReady, Idle, AllThread
  <1> QED BY <1>5, <1>6, <1>7, <1>8 DEF Inv


-----------------------------------------------------------------------------
(* The operations on the ready tables.                                     *)

\* rt_schedule_insert_thread on a thread that is not READY.
LEMMA InsertStep ==
    ASSUME Inv, NEW c \in CPU, NEW t \in AllThread, stat[t] # "READY",
           rt_schedule_insert_thread(c, t),
           UNCHANGED <<oncpu, bind_cpu, current_priority>>
    PROVE  /\ table' \in Tables /\ group' \in Groups
           /\ stat' = [stat EXCEPT ![t] = "READY"]
           /\ stat' \in [AllThread -> Stat]
           /\ ipi' \in [CPU -> BOOLEAN]
           /\ Placed'
  <1>1. TypeOK /\ table \in Tables /\ group \in Groups
    BY DEF Inv, TypeOK, Tables, Groups
  <1>2. stat' = [stat EXCEPT ![t] = "READY"] /\ stat' \in [AllThread -> Stat]
    BY <1>1 DEF rt_schedule_insert_thread, TypeOK, Stat
  <1>3. Holds(table, group, Queued, bind_cpu, current_priority)
    BY DEF Inv, Placed
  <1>4. CASE oncpu[t] = RT_CPU_DETACHED
    <2>1. t \notin Queued /\ Queued' = Queued \cup {t}
      BY <1>1, <1>2, <1>4 DEF Queued, TypeOK
    <2>2. /\ table' = Linked(table, t, current_priority[t])
          /\ group' = Marked(group, t, current_priority[t])
          /\ ipi' = Interrupted(c, t)
      BY <1>4 DEF rt_schedule_insert_thread
    <2>3. bind_cpu \in [AllThread -> Where] /\ current_priority[t] \in Prio
      BY <1>1 DEF TypeOK
    <2>4. /\ table' \in Tables /\ group' \in Groups
          /\ Holds(table', group', Queued \cup {t}, bind_cpu, current_priority)
      BY <1>1, <1>3, <2>1, <2>2, <2>3, LinkHolds
    <2>5. ipi' \in [CPU -> BOOLEAN]
      BY <2>2 DEF Interrupted
    <2> QED BY <1>2, <2>1, <2>4, <2>5 DEF Placed
  <1>5. CASE oncpu[t] # RT_CPU_DETACHED
    <2>1. UNCHANGED <<table, group, ipi>>
      BY <1>5 DEF rt_schedule_insert_thread
    <2>2. Queued' = Queued
      BY <1>1, <1>2, <1>5 DEF Queued, TypeOK
    <2> QED BY <1>1, <1>2, <1>3, <2>1, <2>2 DEF Placed, TypeOK
  <1> QED BY <1>4, <1>5

\* rt_schedule_remove_thread on a thread that no ready list holds.
LEMMA RemoveStep ==
    ASSUME Inv, NEW t \in AllThread, t \notin Queued, Queued' = Queued,
           rt_schedule_remove_thread(t),
           UNCHANGED <<bind_cpu, current_priority>>
    PROVE  table' \in Tables /\ group' \in Groups /\ Placed'
  <1>1. TypeOK /\ table \in Tables /\ group \in Groups
    BY DEF Inv, TypeOK, Tables, Groups
  <1>2. Holds(table, group, Queued, bind_cpu, current_priority)
    BY DEF Inv, Placed
  <1>3. bind_cpu \in [AllThread -> Where] /\ current_priority[t] \in Prio
    BY <1>1 DEF TypeOK
  <1>4. /\ table' = rt_list_remove(table, t)
        /\ group' = Unmarked(group, rt_list_remove(table, t), t, current_priority[t])
    BY DEF rt_schedule_remove_thread
  <1>5. /\ table' \in Tables /\ group' \in Groups
        /\ Holds(table', group', Queued \ {t}, bind_cpu, current_priority)
    BY <1>1, <1>2, <1>3, <1>4, RemoveHolds
  <1>6. Queued \ {t} = Queued
    OBVIOUS
  <1> QED BY <1>5, <1>6 DEF Placed

\* The thread that a CPU takes from the ready tables.
LEMMA HighestThread ==
    ASSUME Inv, NEW c \in CPU, SomeReady(c)
    PROVE  LET to == _get_highest_priority_thread(c)
           IN  /\ to \in Queued
               /\ bind_cpu[to] \in {c, RT_CPUS_NR}
               /\ table[HighestTable(c)][HighestPrio(c)] # << >>
  <1> DEFINE q == HighestTable(c)
             p == HighestPrio(c)
             to == _get_highest_priority_thread(c)
  <1>1. TypeOK /\ Placed
    BY DEF Inv
  <1>2. q \in {c, RT_CPUS_NR} /\ q \in Where
    BY CpuWhere DEF HighestTable
  <1>3. group[c] \subseteq Prio /\ group[RT_CPUS_NR] \subseteq Prio
    BY <1>1, CpuWhere DEF TypeOK
  <1>4. group[q] # {}
    <2>1. CASE Highest(group[RT_CPUS_NR]) < Highest(group[c])
      <3>1. q = RT_CPUS_NR
        BY <2>1 DEF HighestTable
      <3>2. Highest(group[c]) <= RT_THREAD_PRIORITY_MAX
        BY <1>3, HighestBit, PrioAssumption
      <3> QED BY <1>3, <2>1, <3>1, <3>2, HighestBit, PrioAssumption
    <2>2. CASE ~(Highest(group[RT_CPUS_NR]) < Highest(group[c]))
      <3>1. q = c
        BY <2>2 DEF HighestTable
      <3>2. group[c] = {} => group[RT_CPUS_NR] = {}
        BY <1>3, <2>2, HighestBit, PrioAssumption
      <3> QED BY <3>1, <3>2 DEF SomeReady
    <2> QED BY <2>1, <2>2
  <1>5. p \in group[q] /\ p \in Prio
    BY <1>2, <1>3, <1>4, HighestBit DEF HighestPrio
  <1>6. table[q][p] # << >> /\ table[q][p] \in Seq(AllThread)
    BY <1>1, <1>2, <1>5 DEF Placed, Holds, TypeOK
  <1>7. to \in AllThread /\ OnList(table[q][p], to)
    <2>1. to = table[q][p][1] /\ 1 \in DOMAIN table[q][p]
      BY <1>6 DEF _get_highest_priority_thread
    <2> HIDE DEF to, q, p
    <2> QED BY <1>6, <2>1 DEF OnList
  <1>8. to \in Queued /\ bind_cpu[to] = q
    BY <1>1, <1>2, <1>5, <1>7 DEF Placed, Holds
  <1> QED BY <1>2, <1>6, <1>8

\* A CPU that does not run its idle thread finds at least that one ready.
LEMMA IdleQueued ==
    ASSUME Inv, NEW c \in CPU, current_thread[c] # idle[c]
    PROVE  SomeReady(c)
  <1>1. TypeOK /\ Placed /\ OneCpu /\ Aux
    BY DEF Inv
  <1>2. idle[c] \in AllThread /\ stat[idle[c]] = "READY" /\ bind_cpu[idle[c]] = c
    BY <1>1, Roles DEF Aux, Parts, IdleBound
  <1>3. oncpu[idle[c]] = RT_CPU_DETACHED
    BY <1>1, <1>2, CpuWhere DEF OneCpu
  <1>4. idle[c] \in Queued /\ current_priority[idle[c]] \in Prio /\ c \in Where
    BY <1>1, <1>2, <1>3, CpuWhere DEF Queued, TypeOK
  <1>5. OnList(table[c][current_priority[idle[c]]], idle[c])
    BY <1>1, <1>2, <1>4 DEF Placed, Holds
  <1>6. table[c][current_priority[idle[c]]] # << >>
    BY <1>5, ShortList
  <1> QED BY <1>1, <1>4, <1>6 DEF SomeReady, Placed, Holds

\* The switch that rt_schedule and rt_scheduler_do_irq_switch share.
LEMMA RescheduleStep ==
    ASSUME Inv, NEW c \in CPU, current_thread[c] # NoThread, Reschedule(c),
           UNCHANGED <<stat, bind_cpu, current_priority>>
    PROVE  /\ table' \in Tables /\ group' \in Groups
           /\ oncpu' \in [AllThread -> Where]
           /\ current_thread' \in [CPU -> AllThread \cup {NoThread}]
           /\ ipi' \in [CPU -> BOOLEAN]
           /\ Placed' /\ OneCpu'
           /\ \A t \in AllThread : stat[t] # "READY" /\ oncpu[t] = RT_CPU_DETACHED
                 => oncpu'[t] = RT_CPU_DETACHED
           /\ \A d \in CPU : current_thread[d] # NoThread => current_thread'[d] # NoThread
           /\ \A t \in AllThread : stat[t] # "READY" =>
                 \/ oncpu'[t] = RT_CPU_DETACHED
                 \/ oncpu'[t] = oncpu[t] /\ t # current_thread[c]
  <1> DEFINE cur == current_thread[c]
             to  == _get_highest_priority_thread(c)
             p   == current_priority[cur]
             back == stat[cur] = "READY"
             tab == IF back THEN Linked(table, cur, p) ELSE table
             grp == IF back THEN Marked(group, cur, p) ELSE group
             R == IF back THEN Queued \cup {cur} ELSE Queued
  <1>1. TypeOK /\ table \in Tables /\ group \in Groups /\ Placed /\ OneCpu
    BY DEF Inv, TypeOK, Tables, Groups
  <1>2. cur \in AllThread /\ oncpu[cur] = c /\ c # RT_CPU_DETACHED /\ cur \notin Queued
    BY <1>1, CpuWhere DEF TypeOK, OneCpu, Queued, RT_CPU_DETACHED
  <1>3. bind_cpu \in [AllThread -> Where] /\ p \in Prio
    BY <1>1, <1>2 DEF TypeOK
  <1>4. CASE SomeReady(c) /\ ~(back /\ p < HighestPrio(c))
    <2>1. to \in Queued /\ bind_cpu[to] \in {c, RT_CPUS_NR}
      BY <1>4, HighestThread
    <2>2. to \in AllThread /\ to # cur /\ oncpu[to] = RT_CPU_DETACHED /\ current_priority[to] \in Prio
      BY <1>1, <1>2, <2>1 DEF Queued, TypeOK
    <2>3. /\ table' = rt_list_remove(tab, to)
          /\ group' = Unmarked(grp, rt_list_remove(tab, to), to, current_priority[to])
          /\ oncpu' = [oncpu EXCEPT ![cur] = RT_CPU_DETACHED, ![to] = c]
          /\ current_thread' = [current_thread EXCEPT ![c] = to]
          /\ ipi' = IF back THEN Interrupted(c, cur) ELSE ipi
      BY <1>4 DEF Reschedule
    <2>4. Holds(table, group, Queued, bind_cpu, current_priority)
      BY <1>1 DEF Placed
    <2>5. tab \in Tables /\ grp \in Groups /\ Holds(tab, grp, R, bind_cpu, current_priority)
      <3>1. CASE back
        BY <3>1, <1>1, <1>2, <1>3, <2>4, LinkHolds
      <3>2. CASE ~back
        BY <3>2, <1>1, <2>4
      <3> QED BY <3>1, <3>2
    <2> HIDE DEF tab, grp, to
    <2>6. /\ table' \in Tables /\ group' \in Groups
          /\ Holds(table', group', R \ {to}, bind_cpu, current_priority)
      BY <1>3, <2>2, <2>3, <2>5, RemoveHolds
    <2>7. oncpu' \in [AllThread -> Where]
      BY <1>1, <1>2, <2>2, <2>3, CpuWhere DEF TypeOK, RT_CPU_DETACHED
    <2>8. Queued' = R \ {to}
      BY <1>1, <1>2, <2>2, <2>3 DEF Queued, TypeOK
    <2>9. ipi' \in [CPU -> BOOLEAN]
      BY <1>1, <2>3 DEF Interrupted, TypeOK
    <2>10. current_thread' \in [CPU -> AllThread \cup {NoThread}]
      BY <1>1, <2>2, <2>3 DEF TypeOK
    <2>11. OneCpu'
      <3>1. ASSUME NEW d \in CPU, current_thread'[d] # NoThread
            PROVE  oncpu'[current_thread'[d]] = d
        <4>1. CASE d = c
          BY <4>1, <1>1, <2>2, <2>3 DEF TypeOK
        <4>2. CASE d # c
          <5>1. current_thread'[d] = current_thread[d] /\ current_thread[d] \in AllThread
            BY <4>2, <3>1, <1>1, <2>3 DEF TypeOK
          <5>2. oncpu[current_thread[d]] = d /\ d # RT_CPU_DETACHED
            BY <5>1, <3>1, <1>1, CpuWhere DEF OneCpu, RT_CPU_DETACHED
          <5> QED BY <5>1, <5>2, <4>2, <1>1, <1>2, <2>2, <2>3 DEF TypeOK
        <4> QED BY <4>1, <4>2
      <3>2. ASSUME NEW t \in AllThread, oncpu'[t] # RT_CPU_DETACHED
            PROVE  /\ current_thread'[oncpu'[t]] = t
                   /\ bind_cpu'[t] \in {oncpu'[t], RT_CPUS_NR}
        <4>1. CASE t = to
          BY <4>1, <1>1, <2>1, <2>2, <2>3 DEF TypeOK
        <4>2. CASE t # to
          <5>1. oncpu'[t] = oncpu[t] /\ t # cur /\ oncpu[t] \in CPU
            BY <4>2, <3>2, <1>1, <1>2, <2>3, CpuWhere DEF TypeOK, RT_CPU_DETACHED
          <5>2. current_thread[oncpu[t]] = t /\ bind_cpu[t] \in {oncpu[t], RT_CPUS_NR}
            BY <5>1, <3>2, <1>1 DEF OneCpu
          <5>3. oncpu[t] # c
            BY <5>1, <5>2
          <5> QED BY <5>1, <5>2, <5>3, <1>1, <2>3 DEF TypeOK
        <4> QED BY <4>1, <4>2
      <3> QED BY <3>1, <3>2 DEF OneCpu
    <2>12. \A t \in AllThread : stat[t] # "READY" /\ oncpu[t] = RT_CPU_DETACHED
              => oncpu'[t] = RT_CPU_DETACHED
      BY <1>1, <1>2, <2>1, <2>2, <2>3 DEF TypeOK, Queued
    <2>13. Placed'
      BY <2>6, <2>8 DEF Placed
    <2>14. \A d \in CPU : current_thread[d] # NoThread => current_thread'[d] # NoThread
      BY <1>1, <2>2, <2>3, Roles DEF TypeOK
    <2>15. \A t \in AllThread : stat[t] # "READY" =>
                \/ oncpu'[t] = RT_CPU_DETACHED
                \/ oncpu'[t] = oncpu[t] /\ t # current_thread[c]
      BY <1>1, <1>2, <2>1, <2>2, <2>3 DEF TypeOK, Queued
    <2> QED BY <2>6, <2>7, <2>9, <2>10, <2>11, <2>12, <2>13, <2>14, <2>15
  <1>5. CASE ~(SomeReady(c) /\ ~(back /\ p < HighestPrio(c)))
    <2>1. UNCHANGED <<table, group, oncpu, current_thread, ipi>>
      BY <1>5 DEF Reschedule
    <2>2. Queued' = Queued
      BY <2>1 DEF Queued
    <2>3. back
      <3>1. cur = idle[c] => back
        BY DEF Inv, Aux, Parts, IdleBound
      <3> QED BY <1>5, <3>1, IdleQueued
    <2> QED BY <1>1, <2>1, <2>2, <2>3 DEF TypeOK, Placed, OneCpu
  <1> QED BY <1>4, <1>5


-----------------------------------------------------------------------------
(* One lemma per action.                                                   *)

\* A step that changes no ready table, state, affinity, priority or CPU.
LEMMA SameTables ==
    ASSUME Inv, UNCHANGED <<table, group, stat, oncpu, bind_cpu, current_priority,
                            current_thread>>
    PROVE  Placed' /\ OneCpu'
  <1>1. Queued' = Queued
    BY DEF Queued
  <1> QED BY <1>1 DEF Inv, Placed, OneCpu

\* A step that starts no deletion, and leaves the targets of those in progress
\* as they are.
LEMMA DeletingFrame ==
    ASSUME Inv,
           \A s \in AllThread :
               \/ pc'[s] = pc[s] /\ arg'[s] = arg[s]
               \/ /\ pc'[s] \notin DeletePc \cup {"resume_unlink", "resume_insert", "free"}
                  /\ arg'[s] = NoThread,
           \A s \in AllThread : pc[s] \in DeletePc =>
               /\ stat'[arg[s]] = stat[arg[s]]
               /\ oncpu'[arg[s]] = RT_CPU_DETACHED
               /\ arg[s] \notin pending'
    PROVE  Deleting'
  <1> SUFFICES ASSUME NEW s \in AllThread
               PROVE  /\ pc'[s] \notin {"resume_unlink", "resume_insert"}
                      /\ pc'[s] = "free" => arg'[s] \in Thread
                      /\ pc'[s] \in DeletePc =>
                            /\ arg'[s] \in MayDelete
                            /\ stat'[arg'[s]] \in {"INIT", "SUSPEND"}
                            /\ oncpu'[arg'[s]] = RT_CPU_DETACHED
                            /\ arg'[s] \notin pending'
                            /\ \A r \in AllThread : arg'[r] = arg'[s] => r = s
    BY DEF Deleting
  <1>1. Deleting
    BY DEF Inv, Aux
  <1>2. pc'[s] \in DeletePc => pc'[s] = pc[s] /\ arg'[s] = arg[s]
    OBVIOUS
  <1>3. pc'[s] \in DeletePc => \A r \in AllThread : arg'[r] = arg'[s] => r = s
    BY <1>1, <1>2, Roles DEF Deleting
  <1> QED BY <1>1, <1>2, <1>3 DEF Deleting

\* rt_system_scheduler_start finds at least the idle thread of its CPU.
LEMMA StartStep ==
    ASSUME Inv, NEW c \in CPU, rt_system_scheduler_start(c)
    PROVE  Inv'
  <1> DEFINE to == _get_highest_priority_thread(c)
  <1>1. TypeOK /\ Placed /\ OneCpu /\ Aux /\ table \in Tables /\ group \in Groups
    BY DEF Inv, TypeOK, Tables, Groups
  <1>2. /\ current_thread[c] = NoThread
        /\ oncpu' = [oncpu EXCEPT ![to] = c]
        /\ rt_schedule_remove_thread(to)
        /\ current_thread' = [current_thread EXCEPT ![c] = to]
        /\ UNCHANGED <<stat, bind_cpu, current_priority, remaining_tick, nest, pending, timer,
                       pc, arg, irq_nest, irq_switch_flag, ipi, defunct, freed>>
    BY DEF rt_system_scheduler_start, tcbs, waits, ctl, dead
  <1>3. SomeReady(c)
    BY <1>2, IdleQueued, Roles
  <1>4. to \in Queued /\ bind_cpu[to] \in {c, RT_CPUS_NR}
    BY <1>3, HighestThread
  <1> HIDE DEF to
  <1>5. to \in AllThread /\ stat[to] = "READY" /\ oncpu[to] = RT_CPU_DETACHED
    BY <1>4 DEF Queued
  <1>6. bind_cpu \in [AllThread -> Where] /\ current_priority[to] \in Prio
    BY <1>1, <1>5 DEF TypeOK
  <1>7. /\ table' \in Tables /\ group' \in Groups
        /\ Holds(table', group', Queued \ {to}, bind_cpu, current_priority)
    BY <1>1, <1>2, <1>5, <1>6, RemoveHolds DEF Placed, rt_schedule_remove_thread
  <1>8. Queued' = Queued \ {to} /\ oncpu' \in [AllThread -> Where] /\ c # RT_CPU_DETACHED
    BY <1>1, <1>2, <1>5, CpuWhere DEF Queued, TypeOK, RT_CPU_DETACHED
  <1>9. TypeOK'
    BY <1>1, <1>2, <1>5, <1>7, <1>8 DEF TypeOK, Tables, Groups
  <1>10. Placed'
    BY <1>2, <1>7, <1>8 DEF Placed
  <1>11. OneCpu'
    <2>1. ASSUME NEW d \in CPU, current_thread'[d] # NoThread
          PROVE  oncpu'[current_thread'[d]] = d
      <3>1. CASE d = c
        BY <3>1, <1>1, <1>2, <1>5 DEF TypeOK
      <3>2. CASE d # c
        <4>1. /\ current_thread'[d] = current_thread[d] /\ current_thread[d] \in AllThread
              /\ oncpu[current_thread[d]] = d /\ d # RT_CPU_DETACHED
          BY <3>2, <2>1, <1>1, <1>2, CpuWhere DEF TypeOK, OneCpu, RT_CPU_DETACHED
        <4> QED BY <4>1, <1>1, <1>2, <1>5 DEF TypeOK
      <3> QED BY <3>1, <3>2
    <2>2. ASSUME NEW t \in AllThread, oncpu'[t] # RT_CPU_DETACHED
          PROVE  /\ current_thread'[oncpu'[t]] = t
                 /\ bind_cpu'[t] \in {oncpu'[t], RT_CPUS_NR}
      <3>1. CASE t = to
        BY <3>1, <1>1, <1>2, <1>4, <1>5 DEF TypeOK
      <3>2. CASE t # to
        <4>1. oncpu'[t] = oncpu[t] /\ oncpu[t] \in CPU
          BY <3>2, <2>2, <1>1, <1>2, CpuWhere DEF TypeOK, RT_CPU_DETACHED
        <4>2. /\ current_thread[oncpu[t]] = t
              /\ bind_cpu[t] \in {oncpu[t], RT_CPUS_NR}
              /\ oncpu[t] # c
          BY <4>1, <2>2, <1>1, <1>2, Roles DEF OneCpu
        <4> QED BY <4>1, <4>2, <1>1, <1>2 DEF TypeOK
      <3> QED BY <3>1, <3>2
    <2> QED BY <2>1, <2>2 DEF OneCpu
  <1>12. Parts'
    <2>1. Unstarted'
      BY <1>1, <1>2, <1>5 DEF TypeOK, Aux, Parts, Unstarted
    <2>2. IrqOnRunning'
      BY <1>1, <1>2, <1>5, Roles DEF TypeOK, Aux, Parts, IrqOnRunning
    <2>3. Dormant' /\ TimersOfSleepers' /\ IdleBound' /\ DefunctClosed'
      BY <1>1, <1>2 DEF Aux, Parts, Dormant, TimersOfSleepers, IdleBound, DefunctClosed
    <2> QED BY <2>1, <2>2, <2>3 DEF Parts
  <1>13. Deleting'
    BY <1>1, <1>2, <1>5, Roles, DeletingFrame DEF TypeOK, Aux, Deleting
  <1>14. RunningReady'
    BY <1>1, <1>2, <1>5 DEF TypeOK, Aux, RunningReady
  <1> QED BY <1>9, <1>10, <1>11, <1>12, <1>13, <1>14 DEF Inv, Aux

\* rt_schedule, called by a thread.
LEMMA ScheduleStep ==
    ASSUME Inv, NEW c \in CPU, rt_schedule(c)
    PROVE  Inv'
  <1>1. TypeOK /\ Placed /\ OneCpu /\ Aux
    BY DEF Inv
  <1>2. PICK t \in AllThread :
          /\ current_thread[c] = t /\ t # NoThread
          /\ pc' = [pc EXCEPT ![t] = "run"] /\ arg' = [arg EXCEPT ![t] = NoThread]
          /\ nest[t] = 0 => Reschedule(c)
          /\ nest[t] # 0 => UNCHANGED <<table, group, oncpu, current_thread, ipi>>
          /\ UNCHANGED <<stat, bind_cpu, current_priority, remaining_tick, nest, pending, timer,
                         irq_nest, irq_switch_flag, defunct, freed>>
    BY DEF rt_schedule, Runs, Goto, tcbs, waits, dead
  <1>3. /\ table' \in Tables /\ group' \in Groups
        /\ oncpu' \in [AllThread -> Where]
        /\ current_thread' \in [CPU -> AllThread \cup {NoThread}]
        /\ ipi' \in [CPU -> BOOLEAN]
        /\ Placed' /\ OneCpu'
        /\ \A u \in AllThread : stat[u] # "READY" /\ oncpu[u] = RT_CPU_DETACHED
              => oncpu'[u] = RT_CPU_DETACHED
        /\ \A d \in CPU : current_thread[d] # NoThread => current_thread'[d] # NoThread
        /\ \A u \in AllThread : stat[u] # "READY" =>
              \/ oncpu'[u] = RT_CPU_DETACHED
              \/ oncpu'[u] = oncpu[u] /\ u # current_thread[c]
    <2>1. CASE nest[t] = 0
      BY <2>1, <1>2, RescheduleStep
    <2>2. CASE nest[t] # 0
      <3>1. stat[t] = "READY"
        BY <2>2, <1>1, <1>2, CpuWhere DEF Aux, RunningReady, OneCpu, RT_CPU_DETACHED
      <3> QED BY <3>1, <2>2, <1>1, <1>2, SameTables DEF TypeOK, Tables, Groups
    <2> QED BY <2>1, <2>2
  <1>4. TypeOK'
    BY <1>1, <1>2, <1>3 DEF TypeOK, Tables, Groups
  <1>5. Parts'
    BY <1>1, <1>2, <1>3, Roles DEF TypeOK, Aux, Parts, Dormant, TimersOfSleepers, IdleBound, Unstarted, DefunctClosed, IrqOnRunning
  <1>6. Deleting'
    <2>1. \A s \in AllThread :
             \/ pc'[s] = pc[s] /\ arg'[s] = arg[s]
             \/ /\ pc'[s] \notin DeletePc \cup {"resume_unlink", "resume_insert", "free"}
                /\ arg'[s] = NoThread
      BY <1>1, <1>2 DEF TypeOK, DeletePc
    <2>2. \A s \in AllThread : pc[s] \in DeletePc =>
             /\ stat'[arg[s]] = stat[arg[s]]
             /\ oncpu'[arg[s]] = RT_CPU_DETACHED
             /\ arg[s] \notin pending'
      BY <1>1, <1>2, <1>3, Roles DEF TypeOK, Aux, Deleting
    <2> QED BY <2>1, <2>2, DeletingFrame
  <1>7. RunningReady'
    <2> SUFFICES ASSUME NEW u \in AllThread, oncpu'[u] # RT_CPU_DETACHED, stat[u] # "READY"
                 PROVE  pc'[u] = "schedule" /\ nest[u] = 0
      BY <1>2 DEF RunningReady
    <2>1. oncpu'[u] = oncpu[u] /\ u # t
      BY <1>2, <1>3
    <2> QED BY <1>1, <1>2, <2>1 DEF TypeOK, Aux, RunningReady
  <1> QED BY <1>3, <1>4, <1>5, <1>6, <1>7 DEF Inv, Aux

\* rt_scheduler_do_irq_switch, at the end of an interrupt.
LEMMA IrqSwitchStep ==
    ASSUME Inv, NEW c \in CPU, rt_scheduler_do_irq_switch(c)
    PROVE  Inv'
  <1>1. TypeOK /\ Placed /\ OneCpu /\ Aux
    BY DEF Inv
  <1>2. /\ irq_nest[c] = 1
        /\ irq_nest' = [irq_nest EXCEPT ![c] = 0]
        /\ current_thread[c] # NoThread
        /\ UNCHANGED <<stat, bind_cpu, current_priority, remaining_tick, nest, pending, timer,
                       pc, arg, defunct, freed>>
        /\ \/ /\ irq_switch_flag' = [irq_switch_flag EXCEPT ![c] = FALSE]
              /\ Reschedule(c)
           \/ UNCHANGED <<irq_switch_flag, table, group, oncpu, current_thread, ipi>>
    BY <1>1 DEF rt_scheduler_do_irq_switch, tcbs, waits, ctl, dead, Aux, Parts, IrqOnRunning
  <1>3. /\ table' \in Tables /\ group' \in Groups
        /\ oncpu' \in [AllThread -> Where]
        /\ current_thread' \in [CPU -> AllThread \cup {NoThread}]
        /\ ipi' \in [CPU -> BOOLEAN]
        /\ irq_switch_flag' \in [CPU -> BOOLEAN]
        /\ Placed' /\ OneCpu'
        /\ \A u \in AllThread : stat[u] # "READY" /\ oncpu[u] = RT_CPU_DETACHED
              => oncpu'[u] = RT_CPU_DETACHED
        /\ \A d \in CPU : current_thread[d] # NoThread => current_thread'[d] # NoThread
        /\ \A u \in AllThread : stat[u] # "READY" =>
              oncpu'[u] = RT_CPU_DETACHED \/ oncpu'[u] = oncpu[u]
    <2>1. CASE irq_switch_flag' = [irq_switch_flag EXCEPT ![c] = FALSE] /\ Reschedule(c)
      <3>1. irq_switch_flag' \in [CPU -> BOOLEAN]
        BY <2>1, <1>1 DEF TypeOK
      <3> QED BY <2>1, <3>1, <1>2, RescheduleStep
    <2>2. CASE UNCHANGED <<irq_switch_flag, table, group, oncpu, current_thread, ipi>>
      BY <2>2, <1>1, <1>2, SameTables DEF TypeOK, Tables, Groups
    <2> QED BY <2>1, <2>2, <1>2
  <1>4. TypeOK'
    BY <1>1, <1>2, <1>3 DEF TypeOK, Tables, Groups
  <1>5. Parts'
    <2>1. IrqOnRunning'
      BY <1>1, <1>2, <1>3 DEF TypeOK, Aux, Parts, IrqOnRunning
    <2>2. Unstarted'
      BY <1>1, <1>2, <1>3 DEF Aux, Parts, Unstarted
    <2>3. Dormant' /\ TimersOfSleepers' /\ IdleBound' /\ DefunctClosed'
      BY <1>1, <1>2 DEF Aux, Parts, Dormant, TimersOfSleepers, IdleBound, DefunctClosed
    <2> QED BY <2>1, <2>2, <2>3 DEF Parts
  <1>6. Deleting'
    BY <1>1, <1>2, <1>3, Roles, DeletingFrame DEF TypeOK, Aux, Deleting, DeletePc
  <1>7. RunningReady'
    BY <1>1, <1>2, <1>3 DEF Aux, RunningReady
  <1> QED BY <1>3, <1>4, <1>5, <1>6, <1>7 DEF Inv, Aux

\* A time slice stays between 1 and its initial value.
LEMMA TickType ==
    ASSUME TypeOK, NEW c \in CPU, current_thread[c] # NoThread, UseTick(c)
    PROVE  remaining_tick' \in [AllThread -> 1 .. InitTick]
  BY BoundAssumption DEF TypeOK, UseTick

\* An interrupt is entered on a CPU that runs a thread.
LEMMA EnterIrqType ==
    ASSUME Inv, NEW c \in CPU, EnterIrq(c)
    PROVE  /\ irq_nest' \in [CPU -> {0, 1}]
           /\ \A d \in CPU : irq_nest'[d] = 1 => current_thread[d] # NoThread
  BY DEF Inv, TypeOK, EnterIrq, Aux, Parts, IrqOnRunning

\* The IPI handler only sets irq_switch_flag.
LEMMA IpiStep ==
    ASSUME Inv, NEW c \in CPU, rt_scheduler_ipi_handler(c)
    PROVE  Inv'
  <1> USE DEF rt_scheduler_ipi_handler, EnterIrq, tables, tcbs, waits, ctl, dead
  <1>1. TypeOK /\ Aux
    BY DEF Inv
  <1>2. TypeOK'
    BY <1>1, Roles, BoundAssumption, CpuWhere DEF TypeOK
  <1>3. Placed' /\ OneCpu'
    BY SameTables
  <1>4. Parts'
    BY <1>1, Roles DEF TypeOK, Aux, Parts, Dormant, TimersOfSleepers, IdleBound, Unstarted, DefunctClosed, IrqOnRunning
  <1>5. Deleting'
    BY <1>1, Roles, DeletingFrame DEF TypeOK, Aux, Deleting, DeletePc
  <1>6. RunningReady'
    BY <1>1 DEF Aux, RunningReady
  <1> QED BY <1>2, <1>3, <1>4, <1>5, <1>6 DEF Inv, Aux

\* rt_tick_increase uses the slice of the interrupted thread.
LEMMA TickStep ==
    ASSUME Inv, NEW c \in CPU, rt_tick_increase(c)
    PROVE  Inv'
  <1> USE DEF rt_tick_increase, EnterIrq, UseTick, tables, tcbs, waits, ctl, dead
  <1>1. TypeOK /\ Aux
    BY DEF Inv
  <1>2. TypeOK'
    <2>1. remaining_tick' \in [AllThread -> 1 .. InitTick]
      BY <1>1, TickType
    <2>2. irq_nest' \in [CPU -> {0, 1}]
      BY EnterIrqType
    <2>3. irq_switch_flag' \in [CPU -> BOOLEAN]
      BY <1>1 DEF TypeOK
    <2> QED BY <1>1, <2>1, <2>2, <2>3 DEF TypeOK
  <1>3. Placed' /\ OneCpu'
    BY SameTables
  <1>4. Parts'
    BY <1>1, Roles DEF TypeOK, Aux, Parts, Dormant, TimersOfSleepers, IdleBound, Unstarted, DefunctClosed, IrqOnRunning
  <1>5. Deleting'
    BY <1>1, Roles, DeletingFrame DEF TypeOK, Aux, Deleting, DeletePc
  <1>6. RunningReady'
    BY <1>1 DEF Aux, RunningReady
  <1> QED BY <1>2, <1>3, <1>4, <1>5, <1>6 DEF Inv, Aux

\* rt_thread_yield goes on to rt_schedule.
LEMMA YieldStep ==
    ASSUME Inv, NEW c \in CPU, rt_thread_yield(c)
    PROVE  Inv'
  <1>1. TypeOK /\ Aux
    BY DEF Inv
  <1>2. PICK t \in AllThread :
          /\ pc' = [pc EXCEPT ![t] = "schedule"] /\ arg' = [arg EXCEPT ![t] = NoThread]
          /\ UNCHANGED <<table, group, stat, oncpu, bind_cpu, current_priority, remaining_tick,
                         nest, pending, timer, current_thread, irq_nest, irq_switch_flag, ipi, defunct, freed>>
    BY DEF rt_thread_yield, Calls, Runs, Goto, tables, tcbs, waits, ctl, dead
  <1>3. t \in AllThread
    BY Roles
  <1>4. TypeOK'
    BY <1>1, <1>2, <1>3, Roles, BoundAssumption, CpuWhere DEF TypeOK
  <1>5. Placed' /\ OneCpu'
    BY <1>2, SameTables
  <1>6. Parts'
    BY <1>1, <1>2, <1>3, Roles DEF TypeOK, Aux, Parts, Dormant, TimersOfSleepers, IdleBound, Unstarted, DefunctClosed, IrqOnRunning
  <1>7. Deleting'
    BY <1>1, <1>2, <1>3, Roles, DeletingFrame DEF TypeOK, Aux, Deleting, DeletePc
  <1>8. RunningReady'
    BY <1>1, <1>2, <1>3 DEF TypeOK, Aux, RunningReady
  <1> QED BY <1>4, <1>5, <1>6, <1>7, <1>8 DEF Inv, Aux

\* rt_enter_critical is called by a READY thread, and only counts.
LEMMA EnterCriticalStep ==
    ASSUME Inv, NEW c \in CPU, rt_enter_critical(c)
    PROVE  Inv'
  <1>1. TypeOK /\ Aux
    BY DEF Inv
  <1>2. PICK t \in Thread :
          /\ pc[t] = "run" /\ nest[t] < MaxNest /\ nest' = [nest EXCEPT ![t] = @ + 1]
          /\ UNCHANGED <<table, group, stat, oncpu, bind_cpu, current_priority, remaining_tick,
                         pending, timer, pc, arg, current_thread, irq_nest, irq_switch_flag, ipi, defunct, freed>>
    BY DEF rt_enter_critical, Calls, Runs, tables, tcbs, waits, ctl, dead
  <1>3. t \in AllThread
    BY Roles
  <1>4. TypeOK'
    <2>1. nest' \in [AllThread -> 0 .. MaxNest]
      BY <1>1, <1>2, <1>3, BoundAssumption DEF TypeOK
    <2> QED BY <1>1, <1>2, <2>1 DEF TypeOK
  <1>5. Placed' /\ OneCpu'
    BY <1>2, SameTables
  <1>6. Parts'
    BY <1>1, <1>2, <1>3, Roles DEF TypeOK, Aux, Parts, Dormant, TimersOfSleepers, IdleBound, Unstarted, DefunctClosed, IrqOnRunning
  <1>7. Deleting'
    BY <1>1, <1>2, <1>3, Roles, DeletingFrame DEF TypeOK, Aux, Deleting, DeletePc
  <1>8. RunningReady'
    BY <1>1, <1>2, <1>3 DEF TypeOK, Aux, RunningReady
  <1> QED BY <1>4, <1>5, <1>6, <1>7, <1>8 DEF Inv, Aux

\* rt_exit_critical counts back and may go on to rt_schedule.
LEMMA ExitCriticalStep ==
    ASSUME Inv, NEW c \in CPU, rt_exit_critical(c)
    PROVE  Inv'
  <1>1. TypeOK /\ Aux
    BY DEF Inv
  <1>2. PICK t \in Thread :
          /\ pc[t] = "run" /\ nest[t] > 0 /\ nest' = [nest EXCEPT ![t] = @ - 1]
          /\ \/ pc' = [pc EXCEPT ![t] = "schedule"] /\ arg' = [arg EXCEPT ![t] = NoThread]
             \/ UNCHANGED <<pc, arg>>
          /\ UNCHANGED <<table, group, stat, oncpu, bind_cpu, current_priority, remaining_tick,
                         pending, timer, current_thread, irq_nest, irq_switch_flag, ipi, defunct, freed>>
    BY DEF rt_exit_critical, Calls, Runs, Goto, tables, tcbs, waits, ctl, dead
  <1>3. t \in AllThread
    BY Roles
  <1>4. TypeOK'
    <2>1. nest' \in [AllThread -> 0 .. MaxNest]
      BY <1>1, <1>2, <1>3, BoundAssumption DEF TypeOK
    <2>2. /\ pc' \in [AllThread -> {"run", "schedule", "resume_unlink", "resume_insert",
                                     "delete_timer", "delete_close", "free"}]
          /\ arg' \in [AllThread -> Thread \cup {NoThread}]
      BY <1>1, <1>2, <1>3 DEF TypeOK
    <2> QED BY <1>1, <1>2, <2>1, <2>2 DEF TypeOK
  <1>5. Placed' /\ OneCpu'
    BY <1>2, SameTables
  <1>6. Parts'
    BY <1>1, <1>2, <1>3, Roles DEF TypeOK, Aux, Parts, Dormant, TimersOfSleepers, IdleBound, Unstarted, DefunctClosed, IrqOnRunning
  <1>7. Deleting'
    <2>1. \A s \in AllThread :
             \/ pc'[s] = pc[s] /\ arg'[s] = arg[s]
             \/ /\ pc'[s] \notin DeletePc \cup {"resume_unlink", "resume_insert", "free"}
                /\ arg'[s] = NoThread
      BY <1>1, <1>2, <1>3 DEF TypeOK, DeletePc
    <2>2. \A s \in AllThread : pc[s] \in DeletePc =>
             /\ stat'[arg[s]] = stat[arg[s]]
             /\ oncpu'[arg[s]] = RT_CPU_DETACHED
             /\ arg[s] \notin pending'
      BY <1>1, <1>2 DEF Aux, Deleting
    <2> QED BY <2>1, <2>2, DeletingFrame
  <1>8. RunningReady'
    BY <1>1, <1>2, <1>3 DEF TypeOK, Aux, RunningReady
  <1> QED BY <1>4, <1>5, <1>6, <1>7, <1>8 DEF Inv, Aux

\* Waking a thread that is not READY and that nobody is deleting.
LEMMA WakeStep ==
    ASSUME Inv, NEW c \in CPU, NEW u \in Thread,
           stat[u] \in {"INIT", "SUSPEND"},
           \A s \in AllThread : pc[s] \in DeletePc => arg[s] # u,
           rt_schedule_insert_thread(c, u),
           pending' = pending \ {u}, timer' = timer \ {u},
           UNCHANGED <<oncpu, bind_cpu, current_priority, nest, current_thread,
                       defunct, freed>>,
           remaining_tick' \in [AllThread -> 1 .. InitTick],
           irq_switch_flag' \in [CPU -> BOOLEAN],
           irq_nest' \in [CPU -> {0, 1}],
           \A d \in CPU : irq_nest'[d] = 1 => current_thread[d] # NoThread,
           \/ UNCHANGED <<pc, arg>>
           \/ \E t \in AllThread : /\ pc' = [pc EXCEPT ![t] = "schedule"]
                                   /\ arg' = [arg EXCEPT ![t] = NoThread]
    PROVE  Inv'
  <1>1. TypeOK /\ Aux /\ u \in AllThread
    BY Roles DEF Inv
  <1>2. /\ table' \in Tables /\ group' \in Groups
        /\ stat' = [stat EXCEPT ![u] = "READY"]
        /\ stat' \in [AllThread -> Stat]
        /\ ipi' \in [CPU -> BOOLEAN]
        /\ Placed'
    BY <1>1, InsertStep
  <1>3. OneCpu'
    BY DEF Inv, OneCpu
  <1>4. /\ pc' \in [AllThread -> {"run", "schedule", "resume_unlink", "resume_insert",
                                   "delete_timer", "delete_close", "free"}]
        /\ arg' \in [AllThread -> Thread \cup {NoThread}]
        /\ \A s \in AllThread :
             \/ pc'[s] = pc[s] /\ arg'[s] = arg[s]
             \/ /\ pc'[s] \notin DeletePc \cup {"resume_unlink", "resume_insert", "free"}
                /\ arg'[s] = NoThread
    <2>1. CASE UNCHANGED <<pc, arg>>
      BY <1>1, <2>1 DEF TypeOK
    <2>2. CASE ~UNCHANGED <<pc, arg>>
      <3>1. PICK t \in AllThread : /\ pc' = [pc EXCEPT ![t] = "schedule"]
                                   /\ arg' = [arg EXCEPT ![t] = NoThread]
        BY <2>2
      <3> QED BY <1>1, <3>1 DEF TypeOK, DeletePc
    <2> QED BY <2>1, <2>2
  <1>5. TypeOK'
    BY <1>1, <1>2, <1>4 DEF TypeOK, Tables, Groups
  <1>6. Parts'
    <2>1. Dormant' /\ TimersOfSleepers'
      BY <1>1, <1>2 DEF TypeOK, Aux, Parts, Dormant, TimersOfSleepers
    <2>2. Unstarted' /\ IrqOnRunning'
      BY <1>1, <1>2 DEF TypeOK, Aux, Parts, Unstarted, IrqOnRunning
    <2>3. DefunctClosed'
      BY <1>1, <1>2 DEF TypeOK, Aux, Parts, DefunctClosed
    <2>4. IdleBound'
      BY <1>1, <1>2, Roles DEF TypeOK, Aux, Parts, IdleBound
    <2> QED BY <2>1, <2>2, <2>3, <2>4 DEF Parts
  <1>7. Deleting'
    <2>1. \A s \in AllThread : pc[s] \in DeletePc =>
             /\ stat'[arg[s]] = stat[arg[s]]
             /\ oncpu'[arg[s]] = RT_CPU_DETACHED
             /\ arg[s] \notin pending'
      BY <1>1, <1>2, Roles DEF TypeOK, Aux, Deleting
    <2> QED BY <1>4, <2>1, DeletingFrame
  <1>8. RunningReady'
    <2>1. \A s \in AllThread : pc[s] = "schedule" => pc'[s] = "schedule"
      <3>1. CASE UNCHANGED <<pc, arg>>
        BY <3>1
      <3>2. CASE ~UNCHANGED <<pc, arg>>
        BY <1>1, <3>2 DEF TypeOK
      <3> QED BY <3>1, <3>2
    <2> QED BY <1>1, <1>2, <2>1 DEF TypeOK, Aux, RunningReady
  <1> QED BY <1>2, <1>3, <1>5, <1>6, <1>7, <1>8 DEF Inv, Aux

\* rt_thread_timeout wakes a thread whose timer runs: it is SUSPENDed, and,
\* as sleepers are not deleted, nobody is deleting it.
LEMMA TimeoutStep ==
    ASSUME Inv, SafeUse, NEW c \in CPU, NEW u \in Thread, rt_thread_timeout(c, u)
    PROVE  Inv'
  <1>1. TypeOK /\ Aux
    BY DEF Inv
  <1>2. stat[u] = "SUSPEND" /\ \A s \in AllThread : pc[s] \in DeletePc => arg[s] # u
    BY <1>1 DEF rt_thread_timeout, Aux, Parts, Dormant, TimersOfSleepers, Deleting, SafeUse
  <1>3. irq_switch_flag' \in [CPU -> BOOLEAN]
    BY <1>1 DEF rt_thread_timeout, TypeOK
  <1>4. remaining_tick' \in [AllThread -> 1 .. InitTick]
    BY <1>1, TickType DEF rt_thread_timeout, EnterIrq
  <1>5. /\ irq_nest' \in [CPU -> {0, 1}]
        /\ \A d \in CPU : irq_nest'[d] = 1 => current_thread[d] # NoThread
    BY EnterIrqType DEF rt_thread_timeout
  <1> QED BY <1>2, <1>3, <1>4, <1>5, WakeStep DEF rt_thread_timeout, ctl, dead

\* An interrupt handler wakes a thread that waits for an IPC object.
LEMMA IsrStep ==
    ASSUME Inv, NEW c \in CPU, NEW u \in Thread, ResumeFromIsr(c, u)
    PROVE  Inv'
  <1>1. TypeOK /\ Aux
    BY DEF Inv
  <1>2. stat[u] = "SUSPEND" /\ \A s \in AllThread : pc[s] \in DeletePc => arg[s] # u
    BY <1>1 DEF ResumeFromIsr, Aux, Parts, Dormant, Deleting
  <1>3. irq_switch_flag' \in [CPU -> BOOLEAN] /\ remaining_tick' \in [AllThread -> 1 .. InitTick]
    BY <1>1 DEF ResumeFromIsr, TypeOK, tcbs
  <1>4. /\ irq_nest' \in [CPU -> {0, 1}]
        /\ \A d \in CPU : irq_nest'[d] = 1 => current_thread[d] # NoThread
    BY EnterIrqType DEF ResumeFromIsr
  <1> QED BY <1>2, <1>3, <1>4, WakeStep DEF ResumeFromIsr, ctl, dead, tcbs

\* A thread wakes one that waits for an IPC object.
LEMMA ResumeStep ==
    ASSUME Inv, NEW c \in CPU, NEW u \in Thread, rt_thread_resume(c, u)
    PROVE  Inv'
  <1>1. TypeOK /\ Aux
    BY DEF Inv
  <1>2. stat[u] = "SUSPEND" /\ \A s \in AllThread : pc[s] \in DeletePc => arg[s] # u
    BY <1>1 DEF rt_thread_resume, Aux, Parts, Dormant, Deleting
  <1>3. /\ irq_switch_flag' \in [CPU -> BOOLEAN] /\ remaining_tick' \in [AllThread -> 1 .. InitTick]
        /\ irq_nest' \in [CPU -> {0, 1}]
        /\ \A d \in CPU : irq_nest'[d] = 1 => current_thread[d] # NoThread
    BY <1>1 DEF rt_thread_resume, TypeOK, tcbs, Aux, Parts, IrqOnRunning
  <1>4. \E t \in AllThread : /\ pc' = [pc EXCEPT ![t] = "schedule"]
                             /\ arg' = [arg EXCEPT ![t] = NoThread]
    BY Roles DEF rt_thread_resume, Goto
  <1> QED BY <1>2, <1>3, <1>4, WakeStep DEF rt_thread_resume, dead, tcbs

\* rt_thread_startup queues a thread that was never queued.
LEMMA StartupStep ==
    ASSUME Inv, NEW c \in CPU, NEW u \in Thread, rt_thread_startup(c, u)
    PROVE  Inv'
  <1>1. TypeOK /\ Aux
    BY DEF Inv
  <1>2. stat[u] = "INIT" /\ \A s \in AllThread : pc[s] \in DeletePc => arg[s] # u
    BY <1>1 DEF rt_thread_startup
  <1>3. /\ irq_switch_flag' \in [CPU -> BOOLEAN] /\ remaining_tick' \in [AllThread -> 1 .. InitTick]
        /\ irq_nest' \in [CPU -> {0, 1}]
        /\ \A d \in CPU : irq_nest'[d] = 1 => current_thread[d] # NoThread
    BY <1>1 DEF rt_thread_startup, TypeOK, tcbs, Aux, Parts, IrqOnRunning
  <1>4. \E t \in AllThread : /\ pc' = [pc EXCEPT ![t] = "schedule"]
                             /\ arg' = [arg EXCEPT ![t] = NoThread]
    BY Roles DEF rt_thread_startup, Goto
  <1>5. pending' = pending \ {u} /\ timer' = timer \ {u}
    BY <1>1, <1>2 DEF rt_thread_startup, waits, Aux, Parts, Dormant
  <1> QED BY <1>2, <1>3, <1>4, <1>5, WakeStep DEF rt_thread_startup, dead, tcbs

\* A thread that is not queued may be given another affinity or priority.
LEMMA HoldsOther ==
    ASSUME NEW tab, NEW grp, NEW R, NEW b, NEW pr, NEW b2, NEW pr2,
           Holds(tab, grp, R, b, pr),
           \A t \in R : b2[t] = b[t] /\ pr2[t] = pr[t]
    PROVE  Holds(tab, grp, R, b2, pr2)
  BY DEF Holds

\* RT_THREAD_CTRL_BIND_CPU before rt_thread_startup: the thread is not queued.
LEMMA BindStep ==
    ASSUME Inv, NEW c \in CPU, NEW u \in Thread, NEW b \in MayBind, BindCpu(c, u, b)
    PROVE  Inv'
  <1>1. TypeOK /\ Aux /\ OneCpu /\ Placed /\ u \in AllThread /\ b \in CPU /\ b \in Where
    BY Roles, CpuWhere DEF Inv
  <1>2. /\ stat[u] = "INIT"
        /\ bind_cpu' = [bind_cpu EXCEPT ![u] = b]
        /\ UNCHANGED <<table, group, stat, oncpu, current_priority, remaining_tick,
                       nest, pending, timer, pc, arg, current_thread, irq_nest,
                       irq_switch_flag, ipi, defunct, freed>>
    BY DEF BindCpu, tables, waits, ctl, dead
  <1>3. TypeOK'
    BY <1>1, <1>2 DEF TypeOK
  <1>4. Placed'
    <2>1. Queued' = Queued /\ \A t \in Queued : bind_cpu'[t] = bind_cpu[t]
      BY <1>1, <1>2 DEF Queued, TypeOK
    <2> QED BY <1>1, <1>2, <2>1, HoldsOther DEF Placed
  <1>5. OneCpu'
    <2>1. oncpu[u] = RT_CPU_DETACHED
      BY <1>1, <1>2 DEF Aux, Parts, Unstarted
    <2> QED BY <1>1, <1>2, <2>1 DEF OneCpu, TypeOK
  <1>6. Parts'
    BY <1>1, <1>2, Roles DEF TypeOK, Aux, Parts, Dormant, TimersOfSleepers, IdleBound,
                             Unstarted, DefunctClosed, IrqOnRunning
  <1>7. Deleting'
    BY <1>1, <1>2 DEF Aux, Deleting
  <1>8. RunningReady'
    BY <1>1, <1>2 DEF Aux, RunningReady
  <1> QED BY <1>3, <1>4, <1>5, <1>6, <1>7, <1>8 DEF Inv, Aux

\* RT_THREAD_CTRL_CHANGE_PRIORITY moves a queued thread between two lists.
LEMMA ChangeStep ==
    ASSUME Inv, NEW c \in CPU, NEW u \in Thread, NEW p \in Prio, ChangePriority(c, u, p)
    PROVE  Inv'
  <1> DEFINE tab == rt_list_remove(table, u)
             grp == Unmarked(group, tab, u, current_priority[u])
  <1>1. /\ TypeOK /\ Aux /\ OneCpu /\ u \in AllThread /\ table \in Tables /\ group \in Groups
        /\ Holds(table, group, Queued, bind_cpu, current_priority)
    BY Roles DEF Inv, TypeOK, Tables, Groups, Placed
  <1>2. /\ current_priority' = [current_priority EXCEPT ![u] = p]
        /\ \/ /\ stat[u] = "READY" /\ oncpu[u] = RT_CPU_DETACHED
              /\ table' = Linked(tab, u, p)
              /\ group' = Marked(grp, u, p)
              /\ ipi' = Interrupted(c, u)
           \/ /\ stat[u] = "READY" /\ oncpu[u] # RT_CPU_DETACHED
              /\ table' = tab /\ group' = grp /\ UNCHANGED ipi
           \/ stat[u] # "READY" /\ UNCHANGED <<table, group, ipi>>
        /\ UNCHANGED <<stat, oncpu, bind_cpu, remaining_tick, nest, pending, timer, pc, arg,
                       current_thread, irq_nest, irq_switch_flag, defunct, freed>>
    BY DEF ChangePriority, waits, ctl, dead
  <1>3. /\ Queued' = Queued
        /\ bind_cpu \in [AllThread -> Where] /\ current_priority[u] \in Prio
        /\ current_priority'[u] = p
        /\ current_priority' \in [AllThread -> Prio]
        /\ \A t \in Queued \ {u} : current_priority'[t] = current_priority[t]
    BY <1>1, <1>2 DEF Queued, TypeOK
  <1>4. tab \in Tables /\ grp \in Groups /\ Holds(tab, grp, Queued \ {u}, bind_cpu, current_priority)
    BY <1>1, <1>3, RemoveHolds
  <1> HIDE DEF tab, grp
  <1>5. Holds(tab, grp, Queued \ {u}, bind_cpu, current_priority')
    BY <1>3, <1>4, HoldsOther
  <1>6. table' \in Tables /\ group' \in Groups /\ Placed' /\ ipi' \in [CPU -> BOOLEAN]
    <2>1. CASE /\ stat[u] = "READY" /\ oncpu[u] = RT_CPU_DETACHED
               /\ table' = Linked(tab, u, p)
               /\ group' = Marked(grp, u, p)
               /\ ipi' = Interrupted(c, u)
      <3>1. u \in Queued /\ (Queued \ {u}) \cup {u} = Queued /\ u \notin Queued \ {u}
        BY <1>1, <2>1 DEF Queued
      <3>2. /\ table' \in Tables /\ group' \in Groups
            /\ Holds(table', group', (Queued \ {u}) \cup {u}, bind_cpu, current_priority')
        BY <1>1, <1>3, <1>4, <1>5, <2>1, <3>1, LinkHolds
      <3>3. ipi' \in [CPU -> BOOLEAN]
        BY <2>1 DEF Interrupted
      <3> QED BY <1>2, <1>3, <3>1, <3>2, <3>3 DEF Placed
    <2>2. CASE /\ stat[u] = "READY" /\ oncpu[u] # RT_CPU_DETACHED
               /\ table' = tab /\ group' = grp /\ UNCHANGED ipi
      <3>1. Queued \ {u} = Queued
        BY <2>2 DEF Queued
      <3> QED BY <1>1, <1>2, <1>3, <1>4, <1>5, <2>2, <3>1 DEF Placed, TypeOK
    <2>3. CASE stat[u] # "READY" /\ UNCHANGED <<table, group, ipi>>
      <3>1. \A t \in Queued : current_priority'[t] = current_priority[t]
        BY <1>3, <2>3 DEF Queued
      <3>2. Holds(table, group, Queued, bind_cpu, current_priority')
        BY <1>1, <3>1, HoldsOther
      <3> QED BY <1>1, <1>2, <1>3, <2>3, <3>2 DEF Placed, TypeOK
    <2> QED BY <1>2, <2>1, <2>2, <2>3
  <1>7. TypeOK'
    BY <1>1, <1>2, <1>3, <1>6 DEF TypeOK, Tables, Groups
  <1>8. OneCpu'
    BY <1>1, <1>2 DEF OneCpu
  <1>9. Parts'
    BY <1>1, <1>2 DEF Aux, Parts, Dormant, TimersOfSleepers, IdleBound, Unstarted, DefunctClosed,
                      IrqOnRunning
  <1>10. Deleting'
    BY <1>1, <1>2 DEF Aux, Deleting
  <1>11. RunningReady'
    BY <1>1, <1>2 DEF Aux, RunningReady
  <1> QED BY <1>6, <1>7, <1>8, <1>9, <1>10, <1>11 DEF Inv, Aux

\* The running thread leaves the CPU's competition: rt_thread_suspend and
\* rt_thread_exit.
LEMMA LeaveStep ==
    ASSUME Inv, NEW c \in CPU, NEW t \in Thread, NEW st \in {"SUSPEND", "CLOSE"},
           current_thread[c] = t, stat[t] = "READY", nest[t] = 0,
           stat' = [stat EXCEPT ![t] = st],
           rt_schedule_remove_thread(t),
           timer' \subseteq timer \cup {t}, pending' \subseteq pending \cup {t},
           t \in timer' => st = "SUSPEND" /\ t \in MaySleep,
           t \in pending' => st = "SUSPEND",
           defunct' = defunct \/ (st = "CLOSE" /\ defunct' = <<t>> \o defunct),
           Goto(t, "schedule", NoThread),
           UNCHANGED <<oncpu, bind_cpu, current_priority, remaining_tick, nest,
                       current_thread, irq_nest, irq_switch_flag, ipi, freed>>
    PROVE  Inv'
  <1>1. /\ TypeOK /\ Aux /\ OneCpu /\ t \in AllThread /\ oncpu[t] = c /\ c # RT_CPU_DETACHED
        /\ oncpu[t] # RT_CPU_DETACHED /\ t # NoThread
    BY Roles, CpuWhere DEF Inv, OneCpu, RT_CPU_DETACHED
  <1>2. t \notin Queued /\ Queued' = Queued
    BY <1>1 DEF Queued, TypeOK
  <1>3. table' \in Tables /\ group' \in Groups /\ Placed'
    BY <1>1, <1>2, RemoveStep
  <1>4. defunct' \in Seq(Thread)
    <2>1. <<t>> \in Seq(Thread) /\ defunct \in Seq(Thread)
      BY <1>1 DEF TypeOK
    <2>2. <<t>> \o defunct \in Seq(Thread)
      BY <2>1
    <2> QED BY <2>1, <2>2
  <1>5. TypeOK'
    BY <1>1, <1>3, <1>4 DEF TypeOK, Tables, Groups, Goto, Stat
  <1>6. OneCpu'
    BY <1>1 DEF OneCpu
  <1>7. Parts'
    <2>1. Dormant' /\ TimersOfSleepers'
      BY <1>1 DEF TypeOK, Aux, Parts, Dormant, TimersOfSleepers
    <2>2. Unstarted' /\ IrqOnRunning'
      BY <1>1 DEF TypeOK, Aux, Parts, Unstarted, IrqOnRunning
    <2>3. IdleBound'
      BY <1>1, Roles DEF TypeOK, Aux, Parts, IdleBound
    <2>4. DefunctClosed'
      <3>1. CASE defunct' = defunct
        BY <1>1, <3>1 DEF TypeOK, Aux, Parts, DefunctClosed
      <3>2. CASE st = "CLOSE" /\ defunct' = <<t>> \o defunct
        <4>1. \A i \in DOMAIN defunct' : defunct'[i] = t \/ \E j \in DOMAIN defunct : defunct'[i] = defunct[j]
          BY <1>1, <3>2 DEF TypeOK
        <4> QED BY <1>1, <3>2, <4>1 DEF TypeOK, Aux, Parts, DefunctClosed
      <3> QED BY <3>1, <3>2
    <2> QED BY <2>1, <2>2, <2>3, <2>4 DEF Parts
  <1>8. Deleting'
    <2>1. \A s \in AllThread :
             \/ pc'[s] = pc[s] /\ arg'[s] = arg[s]
             \/ /\ pc'[s] \notin DeletePc \cup {"resume_unlink", "resume_insert", "free"}
                /\ arg'[s] = NoThread
      BY <1>1 DEF TypeOK, DeletePc, Goto
    <2>2. \A s \in AllThread : pc[s] \in DeletePc => arg[s] # t
      BY <1>1 DEF Aux, Deleting
    <2>3. \A s \in AllThread : pc[s] \in DeletePc =>
             /\ stat'[arg[s]] = stat[arg[s]]
             /\ oncpu'[arg[s]] = RT_CPU_DETACHED
             /\ arg[s] \notin pending'
      BY <1>1, <2>2 DEF TypeOK, Aux, Deleting
    <2> QED BY <2>1, <2>3, DeletingFrame
  <1>9. RunningReady'
    BY <1>1 DEF TypeOK, Aux, RunningReady, Goto
  <1> QED BY <1>3, <1>5, <1>6, <1>7, <1>8, <1>9 DEF Inv, Aux

\* rt_thread_suspend by the running thread.
LEMMA SuspendStep ==
    ASSUME Inv, NEW c \in CPU, NEW ipc \in BOOLEAN, NEW tmo \in BOOLEAN,
           rt_thread_suspend(c, ipc, tmo)
    PROVE  Inv'
  <1>1. PICK t \in Thread :
          /\ current_thread[c] = t /\ stat[t] = "READY" /\ nest[t] = 0
          /\ tmo => t \in MaySleep
          /\ stat' = [stat EXCEPT ![t] = "SUSPEND"]
          /\ rt_schedule_remove_thread(t)
          /\ timer' = IF tmo THEN timer \cup {t} ELSE timer \ {t}
          /\ pending' = IF ipc THEN pending \cup {t} ELSE pending
          /\ Goto(t, "schedule", NoThread)
          /\ UNCHANGED <<oncpu, bind_cpu, current_priority, remaining_tick, nest,
                         current_thread, irq_nest, irq_switch_flag, ipi, defunct, freed>>
    BY DEF rt_thread_suspend, Calls, Runs, tcbs, dead
  <1> QED BY <1>1, LeaveStep

\* rt_thread_exit by the running thread.
LEMMA ExitStep ==
    ASSUME Inv, NEW c \in CPU, rt_thread_exit(c)
    PROVE  Inv'
  <1>1. PICK t \in Thread :
          /\ current_thread[c] = t /\ t # NoThread /\ pc[t] = "run" /\ nest[t] = 0
          /\ stat' = [stat EXCEPT ![t] = "CLOSE"]
          /\ rt_schedule_remove_thread(t)
          /\ timer' = timer \ {t}
          /\ defunct' = defunct \/ defunct' = <<t>> \o defunct
          /\ Goto(t, "schedule", NoThread)
          /\ UNCHANGED <<oncpu, bind_cpu, current_priority, remaining_tick, nest, pending,
                         current_thread, irq_nest, irq_switch_flag, ipi, freed>>
    BY Roles DEF rt_thread_exit, Calls, Runs, tcbs
  <1>2. stat[t] = "READY" /\ t \notin pending
    BY <1>1, CpuWhere, Roles DEF Inv, OneCpu, Aux, RunningReady, Parts, Dormant, RT_CPU_DETACHED
  <1> QED BY <1>1, <1>2, LeaveStep

\* Under the assumption no thread is ever between the steps of an unlocked
\* rt_thread_resume.
LEMMA UnlockedStep ==
    ASSUME Inv, SafeUse, NEW c \in CPU
    PROVE  /\ \A u \in Thread : ~ResumeTest(c, u)
           /\ ~ResumeUnlink(c) /\ ~ResumeInsert(c)
  BY Roles DEF Inv, Aux, Deleting, SafeUse, ResumeTest, ResumeUnlink, ResumeInsert

\* The first section of rt_thread_delete: the target leaves its suspend list.
LEMMA DeleteRemoveStep ==
    ASSUME Inv, NEW c \in CPU, NEW u \in Thread, DeleteRemove(c, u)
    PROVE  Inv'
  <1>1. TypeOK /\ Aux /\ Placed /\ OneCpu /\ u \in AllThread
    BY Roles DEF Inv
  <1>2. PICK t \in Thread :
          /\ pc[t] = "run"
          /\ u \in MayDelete /\ stat[u] \in {"INIT", "SUSPEND"} /\ oncpu[u] = RT_CPU_DETACHED
          /\ \A s \in AllThread : arg[s] # u
          /\ IF stat[u] # "INIT"
             THEN rt_schedule_remove_thread(u) /\ pending' = pending \ {u}
             ELSE UNCHANGED <<table, group, pending>>
          /\ pc' = [pc EXCEPT ![t] = "delete_timer"] /\ arg' = [arg EXCEPT ![t] = u]
          /\ UNCHANGED <<stat, oncpu, bind_cpu, current_priority, remaining_tick, nest, timer,
                         current_thread, irq_nest, irq_switch_flag, ipi, defunct, freed>>
    BY DEF DeleteRemove, Calls, Runs, Goto, tcbs, dead
  <1>3. t \in AllThread /\ u \notin Queued /\ Queued' = Queued
    BY <1>2, Roles DEF Queued
  <1>4. table' \in Tables /\ group' \in Groups /\ Placed'
    <2>1. CASE stat[u] # "INIT"
      BY <2>1, <1>1, <1>2, <1>3, RemoveStep
    <2>2. CASE stat[u] = "INIT"
      BY <2>2, <1>1, <1>2, SameTables DEF TypeOK, Tables, Groups
    <2> QED BY <2>1, <2>2
  <1>5. pending' = pending \ {u}
    BY <1>1, <1>2 DEF Aux, Parts, Dormant
  <1>6. TypeOK'
    BY <1>1, <1>2, <1>3, <1>4, <1>5 DEF TypeOK, Tables, Groups
  <1>7. OneCpu'
    BY <1>1, <1>2 DEF OneCpu
  <1>8. Parts'
    BY <1>1, <1>2, <1>5 DEF Aux, Parts, Dormant, TimersOfSleepers, IdleBound, Unstarted,
                            DefunctClosed, IrqOnRunning
  <1>9. Deleting'
    <2> SUFFICES ASSUME NEW s \in AllThread
                 PROVE  /\ pc'[s] \notin {"resume_unlink", "resume_insert"}
                        /\ pc'[s] = "free" => arg'[s] \in Thread
                        /\ pc'[s] \in DeletePc =>
                              /\ arg'[s] \in MayDelete
                              /\ stat'[arg'[s]] \in {"INIT", "SUSPEND"}
                              /\ oncpu'[arg'[s]] = RT_CPU_DETACHED
                              /\ arg'[s] \notin pending'
                              /\ \A r \in AllThread : arg'[r] = arg'[s] => r = s
      BY DEF Deleting
    <2>1. CASE s = t
      BY <2>1, <1>1, <1>2, <1>3, <1>5 DEF TypeOK
    <2>2. CASE s # t
      BY <2>2, <1>1, <1>2, <1>3, <1>5 DEF TypeOK, Aux, Deleting
    <2> QED BY <2>1, <2>2
  <1>10. RunningReady'
    BY <1>1, <1>2, <1>3 DEF TypeOK, Aux, RunningReady
  <1> QED BY <1>4, <1>6, <1>7, <1>8, <1>9, <1>10 DEF Inv, Aux

\* The second section of rt_thread_delete: the target's timer is detached.
LEMMA DeleteTimerStep ==
    ASSUME Inv, NEW c \in CPU, DeleteTimer(c)
    PROVE  Inv'
  <1>1. TypeOK /\ Aux
    BY DEF Inv
  <1>2. PICK t \in Thread :
          /\ pc[t] = "delete_timer"
          /\ timer' = timer \ {arg[t]}
          /\ pc' = [pc EXCEPT ![t] = "delete_close"] /\ arg' = [arg EXCEPT ![t] = arg[t]]
          /\ UNCHANGED <<table, group, stat, oncpu, bind_cpu, current_priority, remaining_tick,
                         nest, pending, current_thread, irq_nest, irq_switch_flag, ipi,
                         defunct, freed>>
    BY DEF DeleteTimer, Runs, Goto, tables, tcbs, dead
  <1>3. t \in AllThread /\ UNCHANGED arg
    BY <1>1, <1>2, Roles DEF TypeOK
  <1>4. TypeOK'
    BY <1>1, <1>2, <1>3 DEF TypeOK
  <1>5. Placed' /\ OneCpu'
    BY <1>2, SameTables
  <1>6. Parts'
    BY <1>1, <1>2 DEF Aux, Parts, Dormant, TimersOfSleepers, IdleBound, Unstarted,
                      DefunctClosed, IrqOnRunning
  <1>7. Deleting'
    BY <1>1, <1>2, <1>3 DEF TypeOK, Aux, Deleting, DeletePc
  <1>8. RunningReady'
    BY <1>1, <1>2, <1>3 DEF TypeOK, Aux, RunningReady
  <1> QED BY <1>4, <1>5, <1>6, <1>7, <1>8 DEF Inv, Aux

\* The last section of rt_thread_delete: nothing woke the target meanwhile, so
\* it is on no ready list when it becomes CLOSE.
LEMMA DeleteCloseStep ==
    ASSUME Inv, SafeUse, NEW c \in CPU, DeleteClose(c)
    PROVE  Inv'
  <1>1. TypeOK /\ Aux /\ Placed /\ OneCpu
    BY DEF Inv
  <1>2. PICK t \in Thread :
          /\ pc[t] = "delete_close"
          /\ stat' = [stat EXCEPT ![arg[t]] = "CLOSE"]
          /\ defunct' = <<arg[t]>> \o defunct
          /\ pc' = [pc EXCEPT ![t] = "run"] /\ arg' = [arg EXCEPT ![t] = NoThread]
          /\ UNCHANGED <<table, group, oncpu, bind_cpu, current_priority, remaining_tick,
                         nest, pending, timer, current_thread, irq_nest, irq_switch_flag, ipi,
                         freed>>
    BY DEF DeleteClose, Runs, Goto, tables, tcbs, waits
  <1> DEFINE u == arg[t]
  <1>3. /\ t \in AllThread /\ u \in Thread /\ u \in AllThread
        /\ stat[u] \in {"INIT", "SUSPEND"} /\ oncpu[u] = RT_CPU_DETACHED
        /\ u \notin pending /\ u \notin timer
        /\ \A s \in AllThread : arg[s] = u => s = t
    BY <1>1, <1>2, Roles DEF Aux, Parts, Deleting, DeletePc, SafeUse, TimersOfSleepers
  <1> HIDE DEF u
  <1>4. /\ stat' = [stat EXCEPT ![u] = "CLOSE"] /\ defunct' = <<u>> \o defunct
    BY <1>2 DEF u
  <1>5. defunct' \in Seq(Thread)
    <2>1. <<u>> \in Seq(Thread) /\ defunct \in Seq(Thread)
      BY <1>1, <1>3 DEF TypeOK
    <2> QED BY <1>4, <2>1
  <1>6. TypeOK'
    BY <1>1, <1>2, <1>3, <1>4, <1>5 DEF TypeOK, Stat
  <1>7. Placed'
    <2>1. Queued' = Queued
      BY <1>1, <1>2, <1>3, <1>4 DEF Queued, TypeOK
    <2> QED BY <1>1, <1>2, <2>1 DEF Placed
  <1>8. OneCpu'
    BY <1>1, <1>2 DEF OneCpu
  <1>9. Parts'
    <2>1. Dormant' /\ TimersOfSleepers' /\ IrqOnRunning'
      <3>1. \A v \in pending \cup timer : v # u /\ v \in AllThread
        BY <1>1, <1>3, Roles DEF TypeOK
      <3> QED BY <1>1, <1>2, <1>4, <3>1 DEF TypeOK, Aux, Parts, Dormant, TimersOfSleepers,
                                            IrqOnRunning
    <2>4. Unstarted'
      BY <1>1, <1>2, <1>3, <1>4 DEF TypeOK, Aux, Parts, Unstarted
    <2>2. IdleBound'
      BY <1>1, <1>2, <1>3, <1>4, Roles DEF TypeOK, Aux, Parts, IdleBound
    <2>3. DefunctClosed'
      <3>1. \A i \in DOMAIN defunct' : defunct'[i] = u \/ \E j \in DOMAIN defunct : defunct'[i] = defunct[j]
        BY <1>1, <1>3, <1>4 DEF TypeOK
      <3>2. \A j \in DOMAIN defunct : stat[defunct[j]] = "CLOSE" /\ defunct[j] \in AllThread
        BY <1>1, Roles DEF TypeOK, Aux, Parts, DefunctClosed
      <3>3. \A v \in AllThread : stat[v] = "CLOSE" \/ v = u => stat'[v] = "CLOSE"
        BY <1>1, <1>3, <1>4 DEF TypeOK
      <3> HIDE DEF u
      <3> QED BY <1>3, <3>1, <3>2, <3>3 DEF DefunctClosed
    <2> QED BY <2>1, <2>2, <2>3, <2>4 DEF Parts
  <1>10. Deleting'
    <2>1. \A s \in AllThread :
             \/ pc'[s] = pc[s] /\ arg'[s] = arg[s]
             \/ /\ pc'[s] \notin DeletePc \cup {"resume_unlink", "resume_insert", "free"}
                /\ arg'[s] = NoThread
      BY <1>1, <1>2, <1>3 DEF TypeOK, DeletePc
    <2> SUFFICES ASSUME NEW s \in AllThread
                 PROVE  /\ pc'[s] \notin {"resume_unlink", "resume_insert"}
                        /\ pc'[s] = "free" => arg'[s] \in Thread
                        /\ pc'[s] \in DeletePc =>
                              /\ arg'[s] \in MayDelete
                              /\ stat'[arg'[s]] \in {"INIT", "SUSPEND"}
                              /\ oncpu'[arg'[s]] = RT_CPU_DETACHED
                              /\ arg'[s] \notin pending'
                              /\ \A r \in AllThread : arg'[r] = arg'[s] => r = s
      BY DEF Deleting
    <2>2. CASE s = t
      BY <2>2, <1>1, <1>2, <1>3 DEF TypeOK, DeletePc
    <2>3. CASE s # t
      <3>1. pc'[s] = pc[s] /\ arg'[s] = arg[s] /\ arg[s] # u
        BY <2>3, <1>1, <1>2, <1>3 DEF TypeOK
      <3>2. pc'[s] \in DeletePc => \A r \in AllThread : arg'[r] = arg'[s] => r = s
        BY <3>1, <2>1, <1>1, Roles DEF Aux, Deleting
      <3> QED BY <3>1, <3>2, <1>1, <1>2, <1>3, <1>4, Roles DEF TypeOK, Aux, Deleting
    <2> QED BY <2>2, <2>3
  <1>11. RunningReady'
    <2> SUFFICES ASSUME NEW s \in AllThread, oncpu[s] # RT_CPU_DETACHED, stat'[s] # "READY"
                 PROVE  pc'[s] = "schedule" /\ nest[s] = 0
      BY <1>2 DEF RunningReady
    <2>1. s # u
      BY <1>3
    <2>2. stat[s] # "READY" /\ pc[s] = "schedule" /\ nest[s] = 0
      BY <2>1, <1>1, <1>4 DEF TypeOK, Aux, RunningReady
    <2> QED BY <2>2, <1>1, <1>2 DEF TypeOK
  <1> QED BY <1>6, <1>7, <1>8, <1>9, <1>10, <1>11 DEF Inv, Aux

\* The idle thread of CPU 0 takes a thread off rt_thread_defunct.
LEMMA ReapTakeStep ==
    ASSUME Inv, ReapTake
    PROVE  Inv'
  <1> DEFINE i0 == idle[0]
             u == Head(defunct)
  <1>1. TypeOK /\ Aux /\ i0 \in AllThread
    BY Roles, CpuWhere DEF Inv
  <1>2. /\ pc[i0] = "run" /\ defunct # << >> /\ defunct' = Tail(defunct)
        /\ \/ UNCHANGED <<pc, arg>>
           \/ pc' = [pc EXCEPT ![i0] = "free"] /\ arg' = [arg EXCEPT ![i0] = u]
        /\ UNCHANGED <<table, group, stat, oncpu, bind_cpu, current_priority, remaining_tick,
                       nest, pending, timer, current_thread, irq_nest, irq_switch_flag, ipi,
                       freed>>
    BY DEF ReapTake, Calls, Goto, tables, tcbs, waits, ctl
  <1>3. u \in Thread /\ u \in AllThread /\ stat[u] = "CLOSE" /\ defunct' \in Seq(Thread)
    <2>1. defunct \in Seq(Thread) /\ defunct # << >>
      BY <1>1, <1>2 DEF TypeOK
    <2>2. u = defunct[1] /\ 1 \in DOMAIN defunct /\ defunct[1] \in Thread
          /\ Tail(defunct) \in Seq(Thread)
      BY <2>1
    <2> HIDE DEF u
    <2> QED BY <1>1, <1>2, <2>2, Roles DEF Aux, Parts, DefunctClosed
  <1> HIDE DEF i0, u
  <1>4. /\ pc' \in [AllThread -> {"run", "schedule", "resume_unlink", "resume_insert",
                                   "delete_timer", "delete_close", "free"}]
        /\ arg' \in [AllThread -> Thread \cup {NoThread}]
    <2>1. CASE UNCHANGED <<pc, arg>>
      BY <1>1, <2>1 DEF TypeOK
    <2>2. CASE pc' = [pc EXCEPT ![i0] = "free"] /\ arg' = [arg EXCEPT ![i0] = u]
      BY <1>1, <1>3, <2>2 DEF TypeOK
    <2> QED BY <1>2, <2>1, <2>2
  <1>5. TypeOK'
    BY <1>1, <1>2, <1>3, <1>4 DEF TypeOK
  <1>6. Placed' /\ OneCpu'
    BY <1>2, SameTables
  <1>7. Parts'
    <2>1. DefunctClosed'
      <3>1. \A i \in DOMAIN Tail(defunct) : i + 1 \in DOMAIN defunct /\ Tail(defunct)[i] = defunct[i + 1]
        BY <1>1, <1>2 DEF TypeOK
      <3> QED BY <1>1, <1>2, <3>1 DEF Aux, Parts, DefunctClosed
    <2> QED BY <1>1, <1>2, <2>1 DEF Aux, Parts, Dormant, TimersOfSleepers, IdleBound, Unstarted,
                                    IrqOnRunning
  <1>8. \A s \in AllThread : pc[s] \in DeletePc \cup {"schedule"} => s # i0
    BY <1>2 DEF DeletePc
  <1>9. Deleting'
    <2>1. CASE UNCHANGED <<pc, arg>>
      BY <2>1, <1>1, <1>2 DEF Aux, Deleting
    <2>2. CASE pc' = [pc EXCEPT ![i0] = "free"] /\ arg' = [arg EXCEPT ![i0] = u]
      <3> SUFFICES ASSUME NEW s \in AllThread
                   PROVE  /\ pc'[s] \notin {"resume_unlink", "resume_insert"}
                          /\ pc'[s] = "free" => arg'[s] \in Thread
                          /\ pc'[s] \in DeletePc =>
                                /\ arg'[s] \in MayDelete
                                /\ stat'[arg'[s]] \in {"INIT", "SUSPEND"}
                                /\ oncpu'[arg'[s]] = RT_CPU_DETACHED
                                /\ arg'[s] \notin pending'
                                /\ \A r \in AllThread : arg'[r] = arg'[s] => r = s
        BY DEF Deleting
      <3>1. CASE s = i0
        BY <3>1, <2>2, <1>1, <1>3 DEF TypeOK, DeletePc
      <3>2. CASE s # i0
        <4>1. pc'[s] = pc[s] /\ arg'[s] = arg[s]
          BY <3>2, <2>2, <1>1 DEF TypeOK
        <4>2. pc[s] \in DeletePc => arg[s] # u
          BY <1>1, <1>3 DEF Aux, Deleting
        <4>3. \A r \in AllThread : arg'[r] = arg[r] \/ arg'[r] = u
          BY <2>2, <1>1 DEF TypeOK
        <4> QED BY <4>1, <4>2, <4>3, <1>1, <1>2 DEF Aux, Deleting
      <3> QED BY <3>1, <3>2
    <2> QED BY <1>2, <2>1, <2>2
  <1>10. RunningReady'
    BY <1>1, <1>2, <1>8 DEF TypeOK, Aux, RunningReady
  <1> QED BY <1>5, <1>6, <1>7, <1>9, <1>10 DEF Inv, Aux

\* The idle thread of CPU 0 frees it.
LEMMA ReapFreeStep ==
    ASSUME Inv, ReapFree
    PROVE  Inv'
  <1> DEFINE i0 == idle[0]
  <1>1. TypeOK /\ Aux /\ i0 \in AllThread
    BY Roles, CpuWhere DEF Inv
  <1>2. /\ pc[i0] = "free" /\ freed' = freed \cup {arg[i0]}
        /\ pc' = [pc EXCEPT ![i0] = "run"] /\ arg' = [arg EXCEPT ![i0] = NoThread]
        /\ UNCHANGED <<table, group, stat, oncpu, bind_cpu, current_priority, remaining_tick,
                       nest, pending, timer, current_thread, irq_nest, irq_switch_flag, ipi,
                       defunct>>
    BY DEF ReapFree, Goto, tables, tcbs, waits
  <1> HIDE DEF i0
  <1>3. arg[i0] \in Thread
    BY <1>1, <1>2 DEF Aux, Deleting
  <1>4. TypeOK'
    BY <1>1, <1>2, <1>3 DEF TypeOK
  <1>5. Placed' /\ OneCpu'
    BY <1>2, SameTables
  <1>6. Parts'
    BY <1>1, <1>2 DEF Aux, Parts, Dormant, TimersOfSleepers, IdleBound, Unstarted,
                      DefunctClosed, IrqOnRunning
  <1>7. Deleting'
    <2>1. \A s \in AllThread :
             \/ pc'[s] = pc[s] /\ arg'[s] = arg[s]
             \/ /\ pc'[s] \notin DeletePc \cup {"resume_unlink", "resume_insert", "free"}
                /\ arg'[s] = NoThread
      BY <1>1, <1>2 DEF TypeOK, DeletePc
    <2>2. \A s \in AllThread : pc[s] \in DeletePc =>
             /\ stat'[arg[s]] = stat[arg[s]]
             /\ oncpu'[arg[s]] = RT_CPU_DETACHED
             /\ arg[s] \notin pending'
      BY <1>1, <1>2 DEF Aux, Deleting
    <2> QED BY <2>1, <2>2, DeletingFrame
  <1>8. RunningReady'
    <2>1. \A s \in AllThread : pc[s] = "schedule" => pc'[s] = "schedule"
      BY <1>1, <1>2 DEF TypeOK
    <2> QED BY <1>1, <1>2, <2>1 DEF Aux, RunningReady
  <1> QED BY <1>4, <1>5, <1>6, <1>7, <1>8 DEF Inv, Aux

-----------------------------------------------------------------------------
(* The theorems.                                                           *)

\* Every step of the scheduler preserves the invariant.
THEOREM InvInductive == ASSUME SafeUse PROVE Inv /\ [Next]_vars => Inv'
  <1> SUFFICES ASSUME Inv, [Next]_vars PROVE Inv'
    OBVIOUS
  <1>1. CASE UNCHANGED vars
    <2>1. UNCHANGED <<table, group, stat, oncpu, bind_cpu, current_priority, remaining_tick,
                      nest, pending, timer, pc, arg, current_thread, irq_nest,
                      irq_switch_flag, ipi, defunct, freed>>
      BY <1>1 DEF vars, tables, tcbs, waits, ctl, dead
    <2>2. Placed' /\ OneCpu'
      BY <2>1, SameTables
    <2>3. TypeOK'
      BY <2>1 DEF Inv, TypeOK
    <2>4. Aux'
      BY <2>1 DEF Inv, Aux, Parts, Dormant, TimersOfSleepers, IdleBound, Unstarted,
                  DefunctClosed, IrqOnRunning, Deleting, RunningReady
    <2> QED BY <2>2, <2>3, <2>4 DEF Inv
  <1>2. ASSUME NEW c \in CPU, rt_system_scheduler_start(c) PROVE Inv'
    BY <1>2, StartStep
  <1>3. ASSUME NEW c \in CPU, IrqStep(c) PROVE Inv'
    BY <1>3, IpiStep, TickStep, TimeoutStep, IsrStep, IrqSwitchStep DEF IrqStep
  <1>4. ASSUME NEW c \in CPU, ThreadStep(c) PROVE Inv'
    <2>1. CASE rt_schedule(c) \/ rt_thread_yield(c) \/ rt_enter_critical(c)
               \/ rt_exit_critical(c) \/ rt_thread_exit(c)
      BY <2>1, ScheduleStep, YieldStep, EnterCriticalStep, ExitCriticalStep, ExitStep
    <2>2. CASE \E u \in Thread, b \in MayBind : BindCpu(c, u, b)
      BY <2>2, BindStep
    <2>3. CASE \E u \in Thread : rt_thread_startup(c, u)
      BY <2>3, StartupStep
    <2>4. CASE \E ipc, tmo \in BOOLEAN : rt_thread_suspend(c, ipc, tmo)
      BY <2>4, SuspendStep
    <2>5. CASE \E u \in Thread : rt_thread_resume(c, u) \/ ResumeTest(c, u)
      BY <2>5, ResumeStep, UnlockedStep
    <2>6. CASE ResumeUnlink(c) \/ ResumeInsert(c)
      BY <2>6, UnlockedStep
    <2>7. CASE \E u \in Thread, p \in Prio : ChangePriority(c, u, p)
      BY <2>7, ChangeStep
    <2>8. CASE \E u \in Thread : DeleteRemove(c, u)
      BY <2>8, DeleteRemoveStep
    <2>9. CASE DeleteTimer(c) \/ DeleteClose(c)
      BY <2>9, DeleteTimerStep, DeleteCloseStep
    <2> QED BY <1>4, <2>1, <2>2, <2>3, <2>4, <2>5, <2>6, <2>7, <2>8, <2>9 DEF ThreadStep
  <1> QED BY <1>1, <1>2, <1>3, <1>4, ReapTakeStep, ReapFreeStep DEF Next

\* The invariant holds in every reachable state.
THEOREM Invariance == ASSUME SafeUse PROVE Spec => []Inv
  BY InitInv, InvInductive, PTL DEF Spec

\* Every variable keeps its type: no bit of a priority group outside the
\* priorities, no slice used up without being reloaded, no CPU number out of
\* range.
THEOREM TypeCorrect == ASSUME SafeUse PROVE Spec => []TypeOK
  <1>1. Inv => TypeOK
    BY DEF Inv
  <1> QED BY <1>1, Invariance, PTL

\* The ready tables hold exactly the READY threads that no CPU runs, each once
\* and where its affinity and priority put it, and the bitmaps agree with them.
THEOREM ReadyTables == ASSUME SafeUse PROVE Spec => []Placed
  <1>1. Inv => Placed
    BY DEF Inv
  <1> QED BY <1>1, Invariance, PTL

\* No thread ever runs on two CPUs, or on a CPU it is not allowed on.
THEOREM MutualExclusion == ASSUME SafeUse PROVE Spec => []OneCpu
  <1>1. Inv => OneCpu
    BY DEF Inv
  <1> QED BY <1>1, Invariance, PTL

\* The scheduler never takes the head of an empty ready list for a thread.
THEOREM NeverEmptyHead == ASSUME SafeUse PROVE Spec => []HighestIsQueued
  <1>1. Inv => HighestIsQueued
    <2> SUFFICES ASSUME Inv, NEW c \in CPU, SomeReady(c)
                 PROVE  table[HighestTable(c)][HighestPrio(c)] # << >>
      BY DEF HighestIsQueued
    <2> QED BY HighestThread
  <1> QED BY <1>1, Invariance, PTL

\* A step that does not switch the threads of CPU c leaves it its thread; the
\* steps that switch find scheduler_lock_nest at 0.
LEMMA CriticalStep ==
    ASSUME TypeOK, Next, NEW c \in CPU, NEW t \in AllThread,
           current_thread[c] = t, nest[t] > 0
    PROVE  current_thread'[c] = t
  <1>1. nest[t] # 0 /\ t # NoThread
    BY Roles DEF TypeOK
  <1>2. ASSUME NEW d \in CPU, rt_system_scheduler_start(d) PROVE current_thread'[c] = t
    BY <1>1, <1>2 DEF TypeOK, rt_system_scheduler_start
  <1>3. ASSUME NEW d \in CPU, Reschedule(d), d # c PROVE current_thread'[c] = t
    BY <1>3 DEF TypeOK, Reschedule
  <1>4. ASSUME NEW d \in CPU, rt_schedule(d) PROVE current_thread'[c] = t
    <2>1. CASE d = c
      BY <1>1, <1>4, <2>1 DEF rt_schedule, Runs
    <2>2. CASE d # c
      BY <1>3, <1>4, <2>2 DEF rt_schedule
    <2> QED BY <2>1, <2>2
  <1>5. ASSUME NEW d \in CPU, rt_scheduler_do_irq_switch(d) PROVE current_thread'[c] = t
    <2>1. CASE d = c
      BY <1>1, <1>5, <2>1 DEF rt_scheduler_do_irq_switch
    <2>2. CASE d # c
      BY <1>3, <1>5, <2>2 DEF rt_scheduler_do_irq_switch
    <2> QED BY <2>1, <2>2
  <1>6. ASSUME NEW d \in CPU, IrqStep(d) PROVE current_thread'[c] = t
    BY <1>5, <1>6 DEF IrqStep, rt_scheduler_ipi_handler, rt_tick_increase, rt_thread_timeout,
                      ResumeFromIsr
  <1>7. ASSUME NEW d \in CPU, ThreadStep(d) PROVE current_thread'[c] = t
    BY <1>4, <1>7 DEF ThreadStep, rt_thread_yield, BindCpu, rt_thread_startup,
                      rt_thread_suspend, rt_thread_resume, ResumeTest, ResumeUnlink,
                      ResumeInsert, ChangePriority, rt_enter_critical, rt_exit_critical,
                      rt_thread_exit, DeleteRemove, DeleteTimer, DeleteClose
  <1> QED BY <1>2, <1>6, <1>7 DEF Next, ReapTake, ReapFree

\* Neither rt_schedule nor an interrupt takes the CPU from a thread between
\* rt_enter_critical and rt_exit_critical.
THEOREM CriticalSection == ASSUME SafeUse PROVE Spec => CriticalKeepsCpu
  <1>1. ASSUME TypeOK, [Next]_vars
        PROVE  [\A c \in CPU : \A t \in AllThread :
                  current_thread[c] = t /\ nest[t] > 0 => current_thread'[c] = t]_vars
    BY <1>1, CriticalStep
  <1> QED BY <1>1, TypeCorrect, PTL DEF Spec, CriticalKeepsCpu

-----------------------------------------------------------------------------
(* Urgency: the invariant behind PriorityHonoured.                         *)

\* CPU c has no reason to reschedule; it may be in an interrupt handler that has
\* not yet found one.
Quiet(c) ==
    /\ current_thread[c] # NoThread
    /\ ~irq_switch_flag[c] /\ ~ipi[c]
    /\ nest[current_thread[c]] = 0
    /\ pc[current_thread[c]] # "schedule"

\* PriorityHonoured in terms of the queued threads instead of the bitmaps, and
\* in interrupt handlers too.
Honoured == \A c \in CPU : Quiet(c) =>
    \A u \in Queued : bind_cpu[u] \in {c, RT_CPUS_NR} =>
        current_priority[current_thread[c]] <= current_priority[u]

\* Every bit of a priority group stands for a queued thread.
LEMMA BitThread ==
    ASSUME Inv, NEW q \in Where, NEW p \in group[q]
    PROVE  \E u \in Queued : bind_cpu[u] = q /\ current_priority[u] = p
  <1>1. TypeOK /\ Placed
    BY DEF Inv
  <1>2. p \in Prio /\ table[q][p] # << >> /\ table[q][p] \in Seq(AllThread)
    BY <1>1 DEF TypeOK, Placed, Holds
  <1> DEFINE u == table[q][p][1]
  <1>3. u \in AllThread /\ OnList(table[q][p], u)
    <2>1. 1 \in DOMAIN table[q][p] /\ u \in AllThread
      BY <1>2
    <2> QED BY <2>1 DEF OnList
  <1> HIDE DEF u
  <1> QED BY <1>1, <1>2, <1>3 DEF Placed, Holds, Queued

\* A queued thread sets its bit.
LEMMA ThreadBit ==
    ASSUME Inv, NEW u \in Queued
    PROVE  current_priority[u] \in group[bind_cpu[u]]
  <1>1. TypeOK /\ Placed /\ u \in AllThread
    BY DEF Inv, Queued
  <1>2. bind_cpu[u] \in Where /\ current_priority[u] \in Prio
    BY <1>1 DEF TypeOK
  <1>3. OnList(table[bind_cpu[u]][current_priority[u]], u)
    BY <1>1, <1>2 DEF Placed, Holds
  <1> QED BY <1>1, <1>2, <1>3, ShortList DEF Placed, Holds

\* What the invariant says of the bitmaps.
LEMMA HonouredBits == ASSUME Inv, Honoured PROVE PriorityHonoured
  <1> SUFFICES ASSUME NEW c \in CPU, Settled(c), NEW q \in {c, RT_CPUS_NR}, NEW p \in group[q]
               PROVE  current_priority[current_thread[c]] <= p
    BY DEF PriorityHonoured
  <1>1. q \in Where
    BY CpuWhere
  <1>2. PICK u \in Queued : bind_cpu[u] = q /\ current_priority[u] = p
    BY <1>1, BitThread
  <1>3. Quiet(c)
    BY DEF Settled, Quiet
  <1> QED BY <1>2, <1>3 DEF Honoured

\* A step that does not switch threads keeps every reason to reschedule, or turns
\* it into another.
LEMMA QuietBefore ==
    ASSUME TypeOK, current_thread' = current_thread,
           \A d \in CPU : irq_switch_flag[d] \/ ipi[d] => irq_switch_flag'[d] \/ ipi'[d],
           \A t \in AllThread : nest[t] # 0 => nest'[t] # 0 \/ pc'[t] = "schedule",
           \A t \in AllThread : pc[t] = "schedule" => pc'[t] = "schedule"
    PROVE  \A d \in CPU : Quiet(d)' => Quiet(d)
  <1> SUFFICES ASSUME NEW d \in CPU, Quiet(d)' PROVE Quiet(d)
    OBVIOUS
  <1>1. current_thread[d] # NoThread /\ current_thread[d] \in AllThread
    BY DEF Quiet, TypeOK
  <1> QED BY <1>1 DEF Quiet

\* A step that does not switch threads, and after which the threads that it queued
\* are known to every CPU that may run them.
LEMMA HonouredFrame ==
    ASSUME Inv, Honoured, UNCHANGED <<current_thread, current_priority>>,
           \A d \in CPU : Quiet(d)' => Quiet(d),
           \A d \in CPU, u \in AllThread :
               Quiet(d)' /\ u \in Queued' /\ bind_cpu'[u] \in {d, RT_CPUS_NR}
                  => u \in Queued /\ bind_cpu'[u] = bind_cpu[u]
    PROVE  Honoured'
  <1> SUFFICES ASSUME NEW d \in CPU, Quiet(d)', NEW u \in Queued', bind_cpu'[u] \in {d, RT_CPUS_NR}
               PROVE  current_priority'[current_thread'[d]] <= current_priority'[u]
    BY DEF Honoured
  <1>1. u \in AllThread
    BY DEF Queued
  <1>2. u \in Queued /\ bind_cpu[u] \in {d, RT_CPUS_NR} /\ Quiet(d)
    BY <1>1
  <1> QED BY <1>2 DEF Honoured

\* The same for a step that queues no thread.
LEMMA HonouredFewer ==
    ASSUME Inv, Honoured, UNCHANGED <<current_thread, current_priority, bind_cpu, ipi, oncpu>>,
           \A d \in CPU : irq_switch_flag[d] => irq_switch_flag'[d],
           \A t \in AllThread : stat'[t] = "READY" => stat[t] = "READY",
           \A t \in AllThread : nest[t] # 0 => nest'[t] # 0 \/ pc'[t] = "schedule",
           \A t \in AllThread : pc[t] = "schedule" => pc'[t] = "schedule"
    PROVE  Honoured'
  <1>1. \A d \in CPU : Quiet(d)' => Quiet(d)
    BY QuietBefore DEF Inv
  <1>2. \A u \in AllThread : u \in Queued' => u \in Queued
    BY DEF Queued
  <1> QED BY <1>1, <1>2, HonouredFrame

\* rt_schedule_insert_thread on CPU c, which will reschedule, sends an IPI to every
\* other CPU that may run the thread.
LEMMA HonouredInsert ==
    ASSUME Inv, Honoured, NEW c \in CPU, NEW t \in AllThread,
           rt_schedule_insert_thread(c, t),
           UNCHANGED <<current_thread, current_priority, bind_cpu, oncpu, nest>>,
           \A d \in CPU : irq_switch_flag[d] => irq_switch_flag'[d],
           \A s \in AllThread : pc[s] = "schedule" => pc'[s] = "schedule",
           ~Quiet(c)'
    PROVE  Honoured'
  <1>1. TypeOK
    BY DEF Inv
  <1>2. CASE oncpu[t] = RT_CPU_DETACHED
    <2>1. stat' = [stat EXCEPT ![t] = "READY"] /\ ipi' = Interrupted(c, t)
      BY <1>2 DEF rt_schedule_insert_thread
    <2>2. \A d \in CPU : ipi'[d] <=> ipi[d] \/ d \in Notified(c, t)
      BY <1>1, <2>1 DEF Interrupted, TypeOK
    <2>3. \A d \in CPU : Quiet(d)' => Quiet(d)
      BY <1>1, <2>2, QuietBefore
    <2>4. ASSUME NEW d \in CPU, NEW u \in AllThread, Quiet(d)', u \in Queued',
                 bind_cpu'[u] \in {d, RT_CPUS_NR}
          PROVE  u \in Queued
      <3>1. d # c /\ ~ipi'[d]
        BY <2>4 DEF Quiet
      <3>2. u # t
        BY <3>1, <2>2, <2>4 DEF Notified
      <3> QED BY <1>1, <2>1, <2>4, <3>2 DEF Queued, TypeOK
    <2> QED BY <2>3, <2>4, HonouredFrame
  <1>3. CASE oncpu[t] # RT_CPU_DETACHED
    <2>1. stat' = [stat EXCEPT ![t] = "READY"] /\ ipi' = ipi
      BY <1>3 DEF rt_schedule_insert_thread
    <2>2. \A d \in CPU : Quiet(d)' => Quiet(d)
      BY <1>1, <2>1, QuietBefore
    <2>3. \A u \in AllThread : u \in Queued' => u \in Queued
      BY <1>1, <1>3, <2>1 DEF Queued, TypeOK
    <2> QED BY <2>2, <2>3, HonouredFrame
  <1> QED BY <1>2, <1>3

\* The thread that CPU c would take is the most urgent one that it may run.
LEMMA MostUrgent ==
    ASSUME Inv, NEW c \in CPU
    PROVE  /\ SomeReady(c) => current_priority[_get_highest_priority_thread(c)] = HighestPrio(c)
           /\ \A u \in Queued : bind_cpu[u] \in {c, RT_CPUS_NR} =>
                 SomeReady(c) /\ HighestPrio(c) <= current_priority[u]
           /\ HighestPrio(c) \in Nat
  <1> DEFINE q == HighestTable(c)
             p == HighestPrio(c)
             to == _get_highest_priority_thread(c)
  <1>1. TypeOK /\ Placed
    BY DEF Inv
  <1>2. group[c] \subseteq Prio /\ group[RT_CPUS_NR] \subseteq Prio /\ q \in Where
        /\ q \in {c, RT_CPUS_NR}
    BY <1>1, CpuWhere DEF TypeOK, HighestTable
  <1>3. /\ Highest(group[c]) \in Nat /\ Highest(group[RT_CPUS_NR]) \in Nat
        /\ \A x \in group[c] : Highest(group[c]) <= x
        /\ \A x \in group[RT_CPUS_NR] : Highest(group[RT_CPUS_NR]) <= x
    BY <1>2, HighestBit
  <1>4. p \in Nat /\ p <= Highest(group[c]) /\ p <= Highest(group[RT_CPUS_NR])
    BY <1>3 DEF HighestPrio, HighestTable
  <1>5. ASSUME NEW u \in Queued, bind_cpu[u] \in {c, RT_CPUS_NR}
        PROVE  SomeReady(c) /\ p <= current_priority[u]
    <2>1. current_priority[u] \in group[bind_cpu[u]] /\ current_priority[u] \in Nat
      BY <1>1, ThreadBit, PrioAssumption DEF TypeOK, Queued, Prio
    <2> HIDE DEF p
    <2> QED BY <2>1, <1>3, <1>4, <1>5 DEF SomeReady
  <1>6. ASSUME SomeReady(c) PROVE current_priority[to] = p
    <2>1. table[q][p] # << >> /\ to \in Queued
      BY <1>6, HighestThread
    <2>2. p \in Prio
      <3>1. group[q] # {}
        <4>1. CASE group[q] = {}
          <5>1. Highest(group[q]) = RT_THREAD_PRIORITY_MAX
            BY <1>2, <4>1, HighestBit
          <5>2. p = RT_THREAD_PRIORITY_MAX
            BY <5>1 DEF HighestPrio
          <5>3. PICK x \in group[c] \cup group[RT_CPUS_NR] : TRUE
            BY <1>6 DEF SomeReady
          <5>4. x \in Nat /\ x < RT_THREAD_PRIORITY_MAX /\ p <= x
            BY <5>3, <1>2, <1>3, <1>4, PrioAssumption DEF Prio
          <5> QED BY <5>2, <5>4, <1>4
        <4> QED BY <4>1
      <3> QED BY <1>2, <3>1, HighestBit DEF HighestPrio
    <2>3. table[q][p] \in Seq(AllThread)
      BY <1>1, <1>2, <2>2 DEF TypeOK
    <2>4. to = table[q][p][1] /\ 1 \in DOMAIN table[q][p]
      BY <2>1, <2>3 DEF _get_highest_priority_thread
    <2> HIDE DEF to, q, p
    <2>5. OnList(table[q][p], to) /\ to \in AllThread
      BY <2>3, <2>4 DEF OnList
    <2> QED BY <1>1, <1>2, <2>2, <2>5 DEF Placed, Holds
  <1> QED BY <1>4, <1>5, <1>6

\* After the switch of CPU c its thread is the most urgent one, and the thread that
\* it put back is known to every CPU that may run it.
LEMMA HonouredReschedule ==
    ASSUME Inv, Honoured, NEW c \in CPU, current_thread[c] # NoThread, Reschedule(c),
           UNCHANGED <<stat, bind_cpu, current_priority, nest>>,
           \A d \in CPU : d # c => (irq_switch_flag'[d] <=> irq_switch_flag[d]),
           \A s \in AllThread : s # current_thread[c] => pc'[s] = pc[s]
    PROVE  Honoured'
  <1> DEFINE cur == current_thread[c]
             to  == _get_highest_priority_thread(c)
             p   == current_priority[cur]
             back == stat[cur] = "READY"
  <1>1. TypeOK /\ OneCpu
    BY DEF Inv
  <1>2. cur \in AllThread /\ oncpu[cur] = c /\ c # RT_CPU_DETACHED /\ cur \notin Queued
        /\ bind_cpu[cur] \in {c, RT_CPUS_NR} /\ p \in Nat
    BY <1>1, CpuWhere, PrioAssumption DEF TypeOK, OneCpu, Queued, RT_CPU_DETACHED, Prio
  <1>3. ASSUME NEW d \in CPU, d # c PROVE current_thread'[d] = current_thread[d]
    BY <1>1, <1>3 DEF Reschedule, TypeOK
  <1>4. ASSUME NEW d \in CPU, d # c, Quiet(d)',
               \A e \in CPU : ipi[e] => ipi'[e]
        PROVE  Quiet(d)
    <2>1. current_thread[d] # NoThread /\ current_thread'[d] = current_thread[d]
      BY <1>3, <1>4 DEF Quiet
    <2>2. current_thread[d] \in AllThread /\ oncpu[current_thread[d]] = d
      BY <1>1, <2>1 DEF TypeOK, OneCpu
    <2>3. current_thread[d] # cur
      BY <1>2, <1>4, <2>2
    <2> QED BY <1>4, <2>1, <2>2, <2>3 DEF Quiet
  <1>5. CASE SomeReady(c) /\ ~(back /\ p < HighestPrio(c))
    <2>1. to \in Queued /\ bind_cpu[to] \in {c, RT_CPUS_NR}
      BY <1>5, HighestThread
    <2>2. to \in AllThread /\ to # cur /\ current_priority[to] = HighestPrio(c)
      BY <1>2, <1>5, <2>1, MostUrgent DEF Queued
    <2>3. /\ oncpu' = [oncpu EXCEPT ![cur] = RT_CPU_DETACHED, ![to] = c]
          /\ current_thread' = [current_thread EXCEPT ![c] = to]
          /\ ipi' = IF back THEN Interrupted(c, cur) ELSE ipi
      BY <1>5 DEF Reschedule
    <2> HIDE DEF to
    <2>4. ASSUME NEW u \in Queued' PROVE u \in Queued \/ (u = cur /\ back)
      BY <1>1, <1>2, <2>2, <2>3 DEF Queued, TypeOK
    <2>5. current_thread'[c] = to
      BY <1>1, <2>3 DEF TypeOK
    <2>6. \A e \in CPU : ipi'[e] <=> ipi[e] \/ (back /\ e \in Notified(c, cur))
      BY <1>1, <2>3 DEF Interrupted, TypeOK
    <2> SUFFICES ASSUME NEW d \in CPU, Quiet(d)', NEW u \in Queued', bind_cpu[u] \in {d, RT_CPUS_NR}
                 PROVE  current_priority[current_thread'[d]] <= current_priority[u]
      BY DEF Honoured
    <2>7. CASE d = c
      <3>1. current_thread'[d] = to
        BY <2>5, <2>7
      <3>2. CASE u \in Queued
        BY <2>2, <2>7, <3>1, <3>2, MostUrgent
      <3>3. CASE u = cur /\ back
        <4>1. HighestPrio(c) <= p
          BY <1>2, <1>5, <3>3, MostUrgent
        <4> QED BY <4>1, <3>1, <3>3, <2>2
      <3> QED BY <2>4, <3>2, <3>3
    <2>8. CASE d # c
      <3>1. Quiet(d) /\ current_thread'[d] = current_thread[d] /\ ~ipi'[d]
        BY <1>3, <1>4, <2>6, <2>8 DEF Quiet
      <3>2. ~(u = cur /\ back)
        BY <1>2, <2>6, <2>8, <3>1 DEF Notified
      <3> QED BY <2>4, <3>1, <3>2 DEF Honoured
    <2> QED BY <2>7, <2>8
  <1>6. CASE ~(SomeReady(c) /\ ~(back /\ p < HighestPrio(c)))
    <2>1. UNCHANGED <<oncpu, current_thread, ipi>>
      BY <1>6 DEF Reschedule
    <2>2. Queued' = Queued
      BY <2>1 DEF Queued
    <2> SUFFICES ASSUME NEW d \in CPU, Quiet(d)', NEW u \in Queued, bind_cpu[u] \in {d, RT_CPUS_NR}
                 PROVE  current_priority[current_thread[d]] <= current_priority[u]
      BY <2>1, <2>2 DEF Honoured
    <2>3. CASE d = c
      <3>1. SomeReady(c) /\ HighestPrio(c) <= current_priority[u] /\ HighestPrio(c) \in Nat
        BY <2>3, MostUrgent
      <3>2. current_priority[u] \in Nat
        BY <1>1, PrioAssumption DEF TypeOK, Queued, Prio
      <3> QED BY <1>2, <1>6, <2>3, <3>1, <3>2
    <2>4. CASE d # c
      BY <1>4, <2>1, <2>4 DEF Honoured
    <2> QED BY <2>3, <2>4
  <1> QED BY <1>5, <1>6

\* Every action other than a change of priority keeps it.
LEMMA HonouredStep ==
    ASSUME Inv, Honoured, SafeUse, MayChange = {}, Next
    PROVE  Honoured'
  <1>1. TypeOK /\ OneCpu /\ Aux /\ Thread \subseteq AllThread
    BY Roles DEF Inv
  <1>2. ASSUME NEW c \in CPU, rt_system_scheduler_start(c) PROVE Honoured'
    <2> DEFINE to == _get_highest_priority_thread(c)
    <2>1. /\ current_thread[c] = NoThread
          /\ oncpu' = [oncpu EXCEPT ![to] = c]
          /\ current_thread' = [current_thread EXCEPT ![c] = to]
          /\ UNCHANGED <<stat, bind_cpu, current_priority, nest, pc, irq_switch_flag, ipi>>
      BY <1>2 DEF rt_system_scheduler_start, tcbs, ctl
    <2>2. SomeReady(c)
      BY <2>1, IdleQueued, Roles
    <2>3. to \in AllThread /\ current_priority[to] = HighestPrio(c)
      BY <2>2, HighestThread, MostUrgent DEF Queued
    <2> HIDE DEF to
    <2>4. c # RT_CPU_DETACHED
      BY CpuWhere DEF RT_CPU_DETACHED
    <2>5. \A u \in Queued' : u \in Queued
      BY <1>1, <2>1, <2>4 DEF Queued, TypeOK
    <2> SUFFICES ASSUME NEW d \in CPU, Quiet(d)', NEW u \in Queued, bind_cpu[u] \in {d, RT_CPUS_NR}
                 PROVE  current_priority[current_thread'[d]] <= current_priority[u]
      BY <2>1, <2>5 DEF Honoured
    <2>6. CASE d = c
      BY <1>1, <2>1, <2>3, <2>6, MostUrgent DEF TypeOK
    <2>7. CASE d # c
      <3>1. current_thread'[d] = current_thread[d] /\ Quiet(d)
        BY <1>1, <2>1, <2>7 DEF TypeOK, Quiet
      <3> QED BY <3>1 DEF Honoured
    <2> QED BY <2>6, <2>7
  <1>3. ASSUME NEW c \in CPU, rt_schedule(c) PROVE Honoured'
    <2>1. PICK t \in AllThread :
            /\ current_thread[c] = t /\ t # NoThread
            /\ pc' = [pc EXCEPT ![t] = "run"]
            /\ nest[t] = 0 => Reschedule(c)
            /\ nest[t] # 0 => UNCHANGED <<table, group, oncpu, current_thread, ipi>>
            /\ UNCHANGED <<stat, bind_cpu, current_priority, nest, irq_switch_flag>>
      BY <1>3 DEF rt_schedule, Runs, Goto, tcbs
    <2>2. CASE nest[t] = 0
      BY <1>1, <2>1, <2>2, HonouredReschedule DEF TypeOK
    <2>3. CASE nest[t] # 0
      <3>1. Queued' = Queued
        BY <2>1, <2>3 DEF Queued
      <3>2. \A d \in CPU : Quiet(d)' => Quiet(d)
        <4> SUFFICES ASSUME NEW d \in CPU, Quiet(d)' PROVE Quiet(d)
          OBVIOUS
        <4>1. current_thread[d] # t /\ current_thread[d] \in AllThread
          BY <1>1, <2>1, <2>3 DEF Quiet, TypeOK
        <4> QED BY <1>1, <2>1, <2>3, <4>1 DEF Quiet, TypeOK
      <3> QED BY <2>1, <2>3, <3>1, <3>2, HonouredFrame
    <2> QED BY <2>2, <2>3
  <1>4. ASSUME NEW c \in CPU, rt_scheduler_do_irq_switch(c) PROVE Honoured'
    <2>1. /\ irq_nest[c] = 1
          /\ UNCHANGED <<stat, bind_cpu, current_priority, nest, pc>>
      BY <1>4 DEF rt_scheduler_do_irq_switch, tcbs, ctl
    <2>2. current_thread[c] # NoThread
      BY <1>1, <2>1 DEF Aux, Parts, IrqOnRunning
    <2>3. CASE irq_switch_flag[c] /\ nest[current_thread[c]] = 0
      <3>1. Reschedule(c) /\ irq_switch_flag' = [irq_switch_flag EXCEPT ![c] = FALSE]
        BY <1>4, <2>3 DEF rt_scheduler_do_irq_switch
      <3>2. \A d \in CPU : d # c => irq_switch_flag'[d] = irq_switch_flag[d]
        BY <1>1, <3>1 DEF TypeOK
      <3> QED BY <2>1, <2>2, <3>1, <3>2, HonouredReschedule
    <2>4. CASE ~(irq_switch_flag[c] /\ nest[current_thread[c]] = 0)
      <3>1. UNCHANGED <<irq_switch_flag, oncpu, current_thread, ipi>>
        BY <1>4, <2>4 DEF rt_scheduler_do_irq_switch
      <3> QED BY <2>1, <3>1, HonouredFewer
    <2> QED BY <2>3, <2>4
  <1>5. ASSUME NEW c \in CPU, rt_scheduler_ipi_handler(c) PROVE Honoured'
    <2>1. /\ ipi' = [ipi EXCEPT ![c] = FALSE]
          /\ irq_switch_flag' = [irq_switch_flag EXCEPT ![c] = TRUE]
          /\ UNCHANGED <<stat, oncpu, bind_cpu, current_priority, nest, pc, current_thread>>
      BY <1>5 DEF rt_scheduler_ipi_handler, tcbs, ctl
    <2>2. \A d \in CPU : irq_switch_flag[d] \/ ipi[d] => irq_switch_flag'[d] \/ ipi'[d]
      BY <1>1, <2>1 DEF TypeOK
    <2>3. \A d \in CPU : Quiet(d)' => Quiet(d)
      BY <1>1, <2>1, <2>2, QuietBefore
    <2>4. Queued' = Queued
      BY <2>1 DEF Queued
    <2> QED BY <2>1, <2>3, <2>4, HonouredFrame
  <1>6. ASSUME NEW c \in CPU, rt_tick_increase(c) PROVE Honoured'
    <2>1. /\ irq_switch_flag' = [irq_switch_flag EXCEPT ![c] =
                                   @ \/ remaining_tick[current_thread[c]] = 1]
          /\ UNCHANGED <<stat, oncpu, bind_cpu, current_priority, nest, pc, current_thread, ipi>>
      BY <1>6 DEF rt_tick_increase, ctl
    <2>2. \A d \in CPU : irq_switch_flag[d] => irq_switch_flag'[d]
      BY <1>1, <2>1 DEF TypeOK
    <2> QED BY <2>1, <2>2, HonouredFewer
  <1>7. ASSUME NEW c \in CPU, NEW t \in Thread, rt_thread_timeout(c, t) \/ ResumeFromIsr(c, t)
        PROVE  Honoured'
    <2>1. /\ rt_schedule_insert_thread(c, t)
          /\ irq_switch_flag' = [irq_switch_flag EXCEPT ![c] = TRUE]
          /\ UNCHANGED <<oncpu, bind_cpu, current_priority, nest, pc, current_thread>>
      BY <1>7 DEF rt_thread_timeout, ResumeFromIsr, ctl, tcbs
    <2>2. irq_switch_flag'[c] /\ \A d \in CPU : irq_switch_flag[d] => irq_switch_flag'[d]
      BY <1>1, <2>1 DEF TypeOK
    <2>3. ~Quiet(c)'
      BY <2>2 DEF Quiet
    <2> QED BY <1>1, <2>1, <2>2, <2>3, HonouredInsert
  <1>8. ASSUME NEW c \in CPU, NEW u \in Thread, rt_thread_startup(c, u) \/ rt_thread_resume(c, u)
        PROVE  Honoured'
    <2>1. PICK t \in Thread :
            /\ current_thread[c] = t
            /\ rt_schedule_insert_thread(c, u)
            /\ pc' = [pc EXCEPT ![t] = "schedule"]
            /\ UNCHANGED <<oncpu, bind_cpu, current_priority, nest, irq_switch_flag, current_thread>>
      BY <1>8 DEF rt_thread_startup, rt_thread_resume, Calls, Runs, Goto, tcbs
    <2>2. pc'[t] = "schedule" /\ \A s \in AllThread : pc[s] = "schedule" => pc'[s] = "schedule"
      BY <1>1, <2>1 DEF TypeOK
    <2>3. ~Quiet(c)'
      BY <2>1, <2>2 DEF Quiet
    <2> QED BY <1>1, <2>1, <2>2, <2>3, HonouredInsert
  <1>9. ASSUME NEW c \in CPU, rt_thread_yield(c) PROVE Honoured'
    <2>1. PICK t \in AllThread :
            /\ pc' = [pc EXCEPT ![t] = "schedule"]
            /\ UNCHANGED <<stat, oncpu, bind_cpu, current_priority, nest, current_thread,
                           irq_switch_flag, ipi>>
      BY <1>9 DEF rt_thread_yield, Goto, tcbs
    <2>2. \A s \in AllThread : pc[s] = "schedule" => pc'[s] = "schedule"
      BY <1>1, <2>1 DEF TypeOK
    <2> QED BY <2>1, <2>2, HonouredFewer
  <1>10. ASSUME NEW c \in CPU, NEW u \in Thread, NEW b \in MayBind, BindCpu(c, u, b)
         PROVE  Honoured'
    <2>1. /\ stat[u] = "INIT"
          /\ bind_cpu' = [bind_cpu EXCEPT ![u] = b]
          /\ UNCHANGED <<stat, oncpu, current_priority, nest, pc, current_thread,
                         irq_switch_flag, ipi>>
      BY <1>10 DEF BindCpu, ctl
    <2>2. \A s \in AllThread : s \in Queued' => s \in Queued /\ bind_cpu'[s] = bind_cpu[s]
      BY <1>1, <2>1 DEF TypeOK, Queued
    <2>3. \A d \in CPU : Quiet(d)' => Quiet(d)
      BY <1>1, <2>1, QuietBefore
    <2> QED BY <2>1, <2>2, <2>3, HonouredFrame
  <1>11. ASSUME NEW c \in CPU, NEW ipc \in BOOLEAN, NEW tmo \in BOOLEAN,
                rt_thread_suspend(c, ipc, tmo)
         PROVE  Honoured'
    <2>1. PICK t \in Thread :
            /\ stat' = [stat EXCEPT ![t] = "SUSPEND"]
            /\ pc' = [pc EXCEPT ![t] = "schedule"]
            /\ UNCHANGED <<oncpu, bind_cpu, current_priority, nest, current_thread,
                           irq_switch_flag, ipi>>
      BY <1>11 DEF rt_thread_suspend, Goto, tcbs
    <2>2. \A s \in AllThread : /\ pc[s] = "schedule" => pc'[s] = "schedule"
                               /\ stat'[s] = "READY" => stat[s] = "READY"
      BY <1>1, <2>1 DEF TypeOK
    <2> QED BY <2>1, <2>2, HonouredFewer
  <1>12. ASSUME NEW c \in CPU, rt_thread_exit(c) PROVE Honoured'
    <2>1. PICK t \in MayExit :
            /\ stat' = [stat EXCEPT ![t] = "CLOSE"]
            /\ pc' = [pc EXCEPT ![t] = "schedule"]
            /\ UNCHANGED <<oncpu, bind_cpu, current_priority, nest, current_thread,
                           irq_switch_flag, ipi>>
      BY <1>12 DEF rt_thread_exit, Goto, tcbs
    <2>2. \A s \in AllThread : /\ pc[s] = "schedule" => pc'[s] = "schedule"
                               /\ stat'[s] = "READY" => stat[s] = "READY"
      BY <1>1, <2>1 DEF TypeOK
    <2> QED BY <2>1, <2>2, HonouredFewer
  <1>13. ASSUME NEW c \in CPU, rt_enter_critical(c) PROVE Honoured'
    <2>1. PICK t \in Thread :
            /\ nest' = [nest EXCEPT ![t] = @ + 1]
            /\ UNCHANGED <<stat, oncpu, bind_cpu, current_priority, pc, current_thread,
                           irq_switch_flag, ipi>>
      BY <1>13 DEF rt_enter_critical, ctl, tcbs
    <2>2. nest[t] \in Nat
      BY <1>1, BoundAssumption DEF TypeOK
    <2>3. \A s \in AllThread : nest[s] # 0 => nest'[s] # 0
      BY <1>1, <2>1, <2>2 DEF TypeOK
    <2> QED BY <2>1, <2>3, HonouredFewer
  <1>14. ASSUME NEW c \in CPU, rt_exit_critical(c) PROVE Honoured'
    <2>1. PICK t \in Thread :
            /\ nest[t] > 0 /\ pc[t] = "run"
            /\ nest' = [nest EXCEPT ![t] = @ - 1]
            /\ nest[t] = 1 => pc' = [pc EXCEPT ![t] = "schedule"]
            /\ nest[t] # 1 => pc' = pc
            /\ UNCHANGED <<stat, oncpu, bind_cpu, current_priority, current_thread,
                           irq_switch_flag, ipi>>
      BY <1>14 DEF rt_exit_critical, Calls, Goto, ctl, tcbs
    <2>2. nest[t] \in Nat
      BY <1>1, BoundAssumption DEF TypeOK
    <2>3. \A s \in AllThread : pc[s] = "schedule" => pc'[s] = "schedule"
      BY <1>1, <2>1 DEF TypeOK
    <2>4. nest[t] = 1 => pc'[t] = "schedule"
      BY <1>1, <2>1 DEF TypeOK
    <2>5. \A s \in AllThread : nest[s] # 0 => nest'[s] # 0 \/ pc'[s] = "schedule"
      BY <1>1, <2>1, <2>2, <2>4 DEF TypeOK
    <2> QED BY <2>1, <2>3, <2>5, HonouredFewer
  <1>15. ASSUME NEW c \in CPU, (\E u \in Thread : DeleteRemove(c, u)) \/ DeleteTimer(c)
         PROVE  Honoured'
    <2>1. PICK t \in Thread :
            /\ pc[t] # "schedule"
            /\ pc' = [pc EXCEPT ![t] = "delete_timer"] \/ pc' = [pc EXCEPT ![t] = "delete_close"]
            /\ UNCHANGED <<stat, oncpu, bind_cpu, current_priority, nest, current_thread,
                           irq_switch_flag, ipi>>
      BY <1>15 DEF DeleteRemove, DeleteTimer, Calls, Goto, tcbs
    <2>2. \A s \in AllThread : pc[s] = "schedule" => pc'[s] = "schedule"
      BY <1>1, <2>1 DEF TypeOK
    <2> QED BY <2>1, <2>2, HonouredFewer
  <1>16. ASSUME NEW c \in CPU, DeleteClose(c) PROVE Honoured'
    <2>1. PICK t \in Thread :
            /\ pc[t] # "schedule"
            /\ stat' = [stat EXCEPT ![arg[t]] = "CLOSE"]
            /\ pc' = [pc EXCEPT ![t] = "run"]
            /\ UNCHANGED <<oncpu, bind_cpu, current_priority, nest, current_thread,
                           irq_switch_flag, ipi>>
      BY <1>16 DEF DeleteClose, Goto, tcbs
    <2>2. \A s \in AllThread : /\ pc[s] = "schedule" => pc'[s] = "schedule"
                               /\ stat'[s] = "READY" => stat[s] = "READY"
      BY <1>1, <2>1 DEF TypeOK
    <2> QED BY <2>1, <2>2, HonouredFewer
  <1>17. ASSUME ReapTake \/ ReapFree PROVE Honoured'
    <2>1. /\ pc[idle[0]] # "schedule" /\ idle[0] \in AllThread
          /\ pc' = pc \/ (\E l \in {"run", "free"} : pc' = [pc EXCEPT ![idle[0]] = l])
          /\ UNCHANGED <<stat, oncpu, bind_cpu, current_priority, nest, current_thread,
                         irq_switch_flag, ipi>>
      BY <1>17, Roles, CpuWhere DEF ReapTake, ReapFree, Calls, Goto, ctl, tcbs
    <2>2. \A s \in AllThread : pc[s] = "schedule" => pc'[s] = "schedule"
      BY <1>1, <2>1 DEF TypeOK
    <2> QED BY <2>1, <2>2, HonouredFewer
  <1>18. ASSUME NEW c \in CPU, IrqStep(c) PROVE Honoured'
    BY <1>4, <1>5, <1>6, <1>7, <1>18 DEF IrqStep
  <1>19. ASSUME NEW c \in CPU, ThreadStep(c) PROVE Honoured'
    <2>1. \A u \in Thread, p \in Prio : ~ChangePriority(c, u, p)
      BY DEF ChangePriority
    <2>2. /\ \A u \in Thread : ~ResumeTest(c, u)
          /\ ~ResumeUnlink(c) /\ ~ResumeInsert(c)
      BY UnlockedStep
    <2>3. CASE rt_schedule(c) \/ rt_thread_yield(c) \/ rt_enter_critical(c)
               \/ rt_exit_critical(c) \/ rt_thread_exit(c)
      BY <2>3, <1>3, <1>9, <1>12, <1>13, <1>14
    <2>4. CASE \E u \in Thread, b \in MayBind : BindCpu(c, u, b)
      BY <2>4, <1>10
    <2>5. CASE \E ipc, tmo \in BOOLEAN : rt_thread_suspend(c, ipc, tmo)
      BY <2>5, <1>11
    <2>6. CASE \E u \in Thread : rt_thread_startup(c, u) \/ rt_thread_resume(c, u)
      BY <2>6, <1>8
    <2>7. CASE (\E u \in Thread : DeleteRemove(c, u)) \/ DeleteTimer(c)
      BY <2>7, <1>15
    <2>8. CASE DeleteClose(c)
      BY <2>8, <1>16
    <2> QED BY <1>19, <2>1, <2>2, <2>3, <2>4, <2>5, <2>6, <2>7, <2>8 DEF ThreadStep
  <1> QED BY <1>2, <1>17, <1>18, <1>19 DEF Next

\* As long as no priority is changed, no CPU that has nothing left to do runs a
\* thread while a more urgent one that it may run is queued: no insertion is missed
\* by a CPU, on any number of CPUs.
THEOREM UrgentFirst ==
    ASSUME SafeUse, MayChange = {}
    PROVE  Spec => []PriorityHonoured
  <1>1. Init => Honoured
    BY Roles DEF Init, Honoured, Quiet
  <1>2. Inv /\ Honoured /\ [Next]_vars => Honoured'
    <2>1. ASSUME Inv, Honoured, UNCHANGED vars PROVE Honoured'
      BY <2>1 DEF vars, tables, tcbs, ctl, Honoured, Quiet, Queued
    <2> QED BY <2>1, HonouredStep
  <1>3. Inv /\ Honoured => PriorityHonoured
    BY HonouredBits
  <1> QED BY <1>1, <1>2, <1>3, Invariance, PTL DEF Spec

-----------------------------------------------------------------------------
(* Reaping: how much of NoUseAfterFree the code ensures, wherever threads  *)
(* end.                                                                    *)

\* A freed thread is CLOSE, and no suspend list, timer, rt_thread_delete or reaper
\* has it; a CPU that still runs it is not CPU 0, the reaper's, and has nothing
\* left to do with it but the rt_schedule at the end of rt_thread_exit.
FreedOrLeaving == \A t \in freed :
    /\ stat[t] = "CLOSE"
    /\ t \notin pending \cup timer
    /\ \A s \in AllThread : arg[s] # t
    /\ oncpu[t] # RT_CPU_DETACHED =>
          /\ oncpu[t] \in CPU \ {0} /\ current_thread[oncpu[t]] = t
          /\ pc[t] = "schedule" /\ nest[t] = 0

\* Only rt_thread_delete and the reaper work on another thread.
Holders == \A s \in AllThread :
    /\ pc[s] = "free" => s = idle[0]
    /\ arg[s] # NoThread => pc[s] \in DeletePc \cup {"free"}

\* The threads that have ended and that CPU 0 does not run.
Gone == {t \in AllThread : stat[t] = "CLOSE" /\ oncpu[t] # 0}

\* A dead thread is in rt_thread_defunct, about to be freed or freed, and in one of
\* these only; the last two are not on CPU 0.
Reaping ==
    /\ Distinct(defunct)
    /\ \A i \in DOMAIN defunct : defunct[i] \notin freed
    /\ freed \subseteq Gone
    /\ pc[idle[0]] = "free" =>
          /\ arg[idle[0]] \in Gone \ freed
          /\ \A i \in DOMAIN defunct : defunct[i] # arg[idle[0]]

Reaped == Holders /\ Reaping

\* A freed thread is in no list and nobody works on it.
LEMMA ReapedFree == ASSUME Inv, Reaped PROVE FreedOrLeaving
  <1> SUFFICES ASSUME NEW t \in freed
               PROVE  /\ stat[t] = "CLOSE" /\ t \notin pending \cup timer
                      /\ \A s \in AllThread : arg[s] # t
                      /\ oncpu[t] # RT_CPU_DETACHED =>
                            /\ oncpu[t] \in CPU \ {0} /\ current_thread[oncpu[t]] = t
                            /\ pc[t] = "schedule" /\ nest[t] = 0
    BY DEF FreedOrLeaving
  <1>1. TypeOK /\ Aux /\ Holders /\ Reaping
    BY DEF Inv, Reaped
  <1>2. t \in Thread /\ t \in AllThread /\ t # NoThread
    BY <1>1, Roles DEF TypeOK
  <1>3. oncpu[t] # 0 /\ stat[t] = "CLOSE"
    BY <1>1 DEF Reaping, Gone
  <1>4. t \notin pending \cup timer
    BY <1>1, <1>3 DEF Aux, Parts, Dormant
  <1>5. ASSUME NEW s \in AllThread, arg[s] = t PROVE FALSE
    <2>1. CASE pc[s] \in DeletePc
      BY <1>1, <1>3, <1>5, <2>1 DEF Aux, Deleting
    <2>2. CASE pc[s] = "free"
      BY <1>1, <1>5, <2>2 DEF Holders, Reaping
    <2> QED BY <1>1, <1>2, <1>5, <2>1, <2>2 DEF Holders
  <1>6. ASSUME oncpu[t] # RT_CPU_DETACHED
        PROVE  /\ oncpu[t] \in CPU \ {0} /\ current_thread[oncpu[t]] = t
               /\ pc[t] = "schedule" /\ nest[t] = 0
    <2>1. oncpu[t] \in CPU
      BY <1>1, <1>2, <1>6, CpuWhere DEF TypeOK, RT_CPU_DETACHED
    <2>2. current_thread[oncpu[t]] = t
      BY <1>2, <1>6 DEF Inv, OneCpu
    <2>3. pc[t] = "schedule" /\ nest[t] = 0
      BY <1>1, <1>2, <1>3, <1>6 DEF Aux, RunningReady
    <2> QED BY <1>3, <2>1, <2>2, <2>3
  <1> QED BY <1>3, <1>4, <1>5, <1>6

\* A step that closes no thread, and neither reaps nor starts to work on a thread.
LEMMA ReapedFrame ==
    ASSUME Inv, Reaped, UNCHANGED <<defunct, freed>>,
           \A t \in AllThread : stat[t] = "CLOSE" <=> stat'[t] = "CLOSE",
           \A t \in AllThread : stat[t] = "CLOSE" => oncpu'[t] \in {oncpu[t], RT_CPU_DETACHED},
           \A s \in AllThread :
               \/ pc'[s] = pc[s] /\ arg'[s] = arg[s]
               \/ pc'[s] # "free" /\ (arg'[s] # NoThread => pc'[s] \in DeletePc)
    PROVE  Reaped'
  <1>1. TypeOK /\ Holders /\ Reaping /\ idle[0] \in AllThread
    BY Roles, CpuWhere DEF Inv, Reaped
  <1>2. Holders'
    BY <1>1 DEF Holders
  <1>3. RT_CPU_DETACHED # 0
    BY CpuWhere DEF RT_CPU_DETACHED
  <1>4. \A t \in Gone : t \in Gone'
    BY <1>3 DEF Gone
  <1>5. pc'[idle[0]] = "free" => pc[idle[0]] = "free" /\ arg'[idle[0]] = arg[idle[0]]
    BY <1>1
  <1>6. Reaping'
    BY <1>1, <1>4, <1>5 DEF Reaping
  <1> QED BY <1>2, <1>6 DEF Reaped

\* A thread is pushed on rt_thread_defunct as it ends.
LEMMA ReapedClose ==
    ASSUME Inv, Reaped, NEW u \in Thread, stat[u] # "CLOSE", NEW t \in Thread,
           stat' = [stat EXCEPT ![u] = "CLOSE"],
           defunct' \in {defunct, <<u>> \o defunct},
           NEW l \in {"run", "schedule"},
           pc' = [pc EXCEPT ![t] = l], arg' = [arg EXCEPT ![t] = NoThread],
           UNCHANGED <<oncpu, bind_cpu, freed>>
    PROVE  Reaped'
  <1>1. TypeOK /\ Aux /\ Holders /\ Reaping
    BY DEF Inv, Reaped
  <1>2. /\ idle[0] \in AllThread /\ idle[0] # t /\ u \in AllThread /\ t \in AllThread
    BY Roles, CpuWhere
  <1>3. \A s \in AllThread : stat'[s] = IF s = u THEN "CLOSE" ELSE stat[s]
    BY <1>1, <1>2 DEF TypeOK
  <1>4. /\ pc'[t] = l /\ arg'[t] = NoThread
        /\ \A s \in AllThread : s # t => pc'[s] = pc[s] /\ arg'[s] = arg[s]
    BY <1>1, <1>2 DEF TypeOK
  <1>5. Holders'
    BY <1>1, <1>4 DEF Holders
  <1>6. \A s \in Gone : s \in Gone' /\ s # u
    BY <1>3 DEF Gone
  <1>7. freed \subseteq Gone
    BY <1>1 DEF Reaping
  <1>8. \A i \in DOMAIN defunct : defunct[i] # u
    BY <1>1 DEF Aux, Parts, DefunctClosed
  <1>9. /\ Distinct(defunct')
        /\ \A i \in DOMAIN defunct' : defunct'[i] = u \/ \E j \in DOMAIN defunct : defunct'[i] = defunct[j]
    <2>1. CASE defunct' = defunct
      BY <1>1, <2>1 DEF Reaping
    <2>2. CASE defunct' = <<u>> \o defunct
      <3>1. /\ defunct \in Seq(Thread) /\ <<u>> \in Seq(Thread) /\ Len(<<u>>) = 1
        BY <1>1 DEF TypeOK
      <3>2. /\ DOMAIN defunct = 1 .. Len(defunct) /\ Len(defunct) \in Nat
            /\ DOMAIN defunct' = 1 .. Len(defunct) + 1
            /\ defunct'[1] = u
            /\ \A i \in 2 .. Len(defunct) + 1 : defunct'[i] = defunct[i - 1]
        BY <2>2, <3>1
      <3>3. \A i \in DOMAIN defunct' : i = 1 \/ (i \in 2 .. Len(defunct) + 1 /\ i - 1 \in DOMAIN defunct)
        BY <3>2
      <3>4. Distinct(defunct)
        BY <1>1 DEF Reaping
      <3>5. ASSUME NEW i \in DOMAIN defunct', NEW j \in DOMAIN defunct', defunct'[i] = defunct'[j]
            PROVE  i = j
        <4>1. CASE i = 1 /\ j # 1
          BY <1>8, <3>2, <3>3, <3>5, <4>1
        <4>2. CASE i # 1 /\ j = 1
          BY <1>8, <3>2, <3>3, <3>5, <4>2
        <4>3. CASE i # 1 /\ j # 1
          <5>1. /\ defunct[i - 1] = defunct[j - 1]
                /\ i - 1 \in DOMAIN defunct /\ j - 1 \in DOMAIN defunct
            BY <3>2, <3>3, <3>5, <4>3
          <5>2. i - 1 = j - 1
            BY <3>4, <5>1 DEF Distinct
          <5> QED BY <3>2, <5>2
        <4> QED BY <4>1, <4>2, <4>3
      <3> QED BY <3>2, <3>3, <3>5 DEF Distinct
    <2> QED BY <2>1, <2>2
  <1>10. u \notin freed
    BY <1>6, <1>7
  <1>11. pc'[idle[0]] = "free" => pc[idle[0]] = "free" /\ arg'[idle[0]] = arg[idle[0]]
    BY <1>2, <1>4
  <1>12. Reaping'
    <2>1. \A i \in DOMAIN defunct' : defunct'[i] \notin freed'
      BY <1>1, <1>9, <1>10 DEF Reaping
    <2>2. freed' \subseteq Gone'
      BY <1>6, <1>7
    <2>3. ASSUME pc'[idle[0]] = "free"
          PROVE  /\ arg'[idle[0]] \in Gone' \ freed'
                 /\ \A i \in DOMAIN defunct' : defunct'[i] # arg'[idle[0]]
      BY <1>1, <1>6, <1>9, <1>11, <2>3 DEF Reaping
    <2> QED BY <1>9, <2>1, <2>2, <2>3 DEF Reaping
  <1> QED BY <1>5, <1>12 DEF Reaped

\* The reaper takes a thread: CPU 0 runs its idle thread and not what it takes.
LEMMA ReapedTake == ASSUME Inv, Reaped, ReapTake PROVE Reaped'
  <1> DEFINE i0 == idle[0]
             u == Head(defunct)
  <1>1. TypeOK /\ Aux /\ OneCpu /\ Holders /\ Reaping /\ i0 \in AllThread /\ 0 \in CPU
        /\ i0 \notin Thread /\ RT_CPUS_NR # 0
    BY Roles, CpuWhere DEF Inv, Reaped
  <1>2. /\ current_thread[0] = i0 /\ pc[i0] = "run" /\ defunct # << >> /\ defunct' = Tail(defunct)
        /\ \/ UNCHANGED <<pc, arg>>
           \/ pc' = [pc EXCEPT ![i0] = "free"] /\ arg' = [arg EXCEPT ![i0] = u]
        /\ UNCHANGED <<stat, oncpu, bind_cpu, freed>>
    BY DEF ReapTake, Calls, Runs, Goto, tcbs, ctl
  <1>3. /\ defunct \in Seq(Thread) /\ Len(defunct) \in Nat
        /\ DOMAIN defunct = 1 .. Len(defunct) /\ 1 \in DOMAIN defunct /\ u = defunct[1]
        /\ DOMAIN Tail(defunct) = 1 .. Len(defunct) - 1
        /\ \A i \in DOMAIN Tail(defunct) : i + 1 \in DOMAIN defunct /\ Tail(defunct)[i] = defunct[i + 1]
    BY <1>1, <1>2 DEF TypeOK
  <1>4. u \in Thread /\ u \in AllThread /\ stat[u] = "CLOSE" /\ u \notin freed
    BY <1>1, <1>3, Roles DEF Aux, Parts, DefunctClosed, Reaping
  <1> HIDE DEF i0, u
  <1>5. oncpu[u] # 0
    <2>1. oncpu[u] = 0 => oncpu[u] # RT_CPU_DETACHED /\ current_thread[0] = u
      BY <1>1, <1>4 DEF OneCpu, RT_CPU_DETACHED
    <2> QED BY <2>1, <1>1, <1>2, <1>4
  <1>6. u \in Gone \ freed /\ Gone' = Gone
    BY <1>2, <1>4, <1>5 DEF Gone
  <1>7. \A i \in DOMAIN defunct : defunct[i] \notin freed
    BY <1>1 DEF Reaping
  <1>8. Distinct(defunct)
    BY <1>1 DEF Reaping
  <1>9. /\ Distinct(defunct')
        /\ \A i \in DOMAIN defunct' : defunct'[i] # u /\ \E j \in DOMAIN defunct : defunct'[i] = defunct[j]
    <2>1. \A i \in DOMAIN defunct' : i + 1 # 1 /\ i \in Nat
      BY <1>2, <1>3
    <2>2. \A i \in DOMAIN defunct' : defunct'[i] # u
      BY <1>2, <1>3, <1>8, <2>1 DEF Distinct
    <2>3. \A i, j \in DOMAIN defunct' : defunct'[i] = defunct'[j] => i + 1 = j + 1
      BY <1>2, <1>3, <1>8 DEF Distinct
    <2>4. Distinct(defunct')
      BY <2>1, <2>3 DEF Distinct
    <2> QED BY <1>2, <1>3, <2>2, <2>4
  <1>10. CASE UNCHANGED <<pc, arg>>
    <2>1. Holders'
      BY <1>1, <1>10 DEF Holders
    <2>2. Reaping'
      BY <1>1, <1>2, <1>6, <1>7, <1>9, <1>10 DEF Reaping, i0
    <2> QED BY <2>1, <2>2 DEF Reaped
  <1>11. CASE pc' = [pc EXCEPT ![i0] = "free"] /\ arg' = [arg EXCEPT ![i0] = u]
    <2>1. /\ pc'[i0] = "free" /\ arg'[i0] = u
          /\ \A s \in AllThread : s # i0 => pc'[s] = pc[s] /\ arg'[s] = arg[s]
      BY <1>1, <1>11 DEF TypeOK
    <2>2. Holders'
      BY <1>1, <2>1 DEF Holders, i0
    <2>3. Reaping'
      BY <1>1, <1>2, <1>6, <1>7, <1>9, <2>1 DEF Reaping, i0
    <2> QED BY <2>2, <2>3 DEF Reaped
  <1> QED BY <1>2, <1>10, <1>11

\* The reaper frees the thread it has taken.
LEMMA ReapedRelease == ASSUME Inv, Reaped, ReapFree PROVE Reaped'
  <1> DEFINE i0 == idle[0]
  <1>1. TypeOK /\ Holders /\ Reaping /\ i0 \in AllThread
    BY Roles, CpuWhere DEF Inv, Reaped
  <1>2. /\ pc[i0] = "free" /\ freed' = freed \cup {arg[i0]}
        /\ pc' = [pc EXCEPT ![i0] = "run"] /\ arg' = [arg EXCEPT ![i0] = NoThread]
        /\ UNCHANGED <<stat, oncpu, bind_cpu, defunct>>
    BY DEF ReapFree, Goto, tcbs
  <1> HIDE DEF i0
  <1>3. /\ pc'[i0] = "run" /\ arg'[i0] = NoThread
        /\ \A s \in AllThread : s # i0 => pc'[s] = pc[s] /\ arg'[s] = arg[s]
    BY <1>1, <1>2 DEF TypeOK
  <1>4. Gone' = Gone
    BY <1>2 DEF Gone
  <1>5. Holders'
    BY <1>1, <1>3 DEF Holders
  <1>6. Reaping'
    BY <1>1, <1>2, <1>3, <1>4 DEF Reaping, i0
  <1> QED BY <1>5, <1>6 DEF Reaped

\* Every action keeps it.
LEMMA ReapedStep ==
    ASSUME Inv, Reaped, SafeUse, Next
    PROVE  Reaped'
  <1>1. TypeOK /\ OneCpu /\ Aux /\ Thread \subseteq AllThread
    BY Roles DEF Inv
  <1>2. ASSUME NEW c \in CPU, rt_system_scheduler_start(c) PROVE Reaped'
    <2> DEFINE to == _get_highest_priority_thread(c)
    <2>1. /\ current_thread[c] = NoThread
          /\ oncpu' = [oncpu EXCEPT ![to] = c]
          /\ UNCHANGED <<stat, bind_cpu, pc, arg, defunct, freed>>
      BY <1>2 DEF rt_system_scheduler_start, tcbs, ctl, dead
    <2>2. SomeReady(c)
      BY <2>1, IdleQueued, Roles
    <2>3. stat[to] = "READY"
      BY <2>2, HighestThread DEF Queued
    <2> HIDE DEF to
    <2>4. \A t \in AllThread : stat[t] = "CLOSE" => oncpu'[t] = oncpu[t]
      BY <1>1, <2>1, <2>3 DEF TypeOK
    <2> QED BY <2>1, <2>4, ReapedFrame
  <1>3. ASSUME NEW c \in CPU, rt_schedule(c) PROVE Reaped'
    <2>1. PICK t \in AllThread :
            /\ current_thread[c] = t /\ t # NoThread
            /\ pc' = [pc EXCEPT ![t] = "run"] /\ arg' = [arg EXCEPT ![t] = NoThread]
            /\ nest[t] = 0 => Reschedule(c)
            /\ nest[t] # 0 => oncpu' = oncpu
            /\ UNCHANGED <<stat, bind_cpu, current_priority, defunct, freed>>
      BY <1>3 DEF rt_schedule, Runs, Goto, tcbs, dead
    <2>2. \A s \in AllThread : stat[s] = "CLOSE" => oncpu'[s] \in {oncpu[s], RT_CPU_DETACHED}
      <3>1. CASE nest[t] = 0
        BY <2>1, <3>1, RescheduleStep
      <3>2. CASE nest[t] # 0
        BY <2>1, <3>2
      <3> QED BY <3>1, <3>2
    <2>3. \A s \in AllThread : \/ pc'[s] = pc[s] /\ arg'[s] = arg[s]
                               \/ pc'[s] = "run" /\ arg'[s] = NoThread
      BY <1>1, <2>1 DEF TypeOK
    <2> QED BY <2>1, <2>2, <2>3, ReapedFrame
  <1>4. ASSUME NEW c \in CPU, rt_scheduler_do_irq_switch(c) PROVE Reaped'
    <2>1. /\ irq_nest[c] = 1
          /\ Reschedule(c) \/ oncpu' = oncpu
          /\ UNCHANGED <<stat, bind_cpu, current_priority, pc, arg, defunct, freed>>
      BY <1>4 DEF rt_scheduler_do_irq_switch, tcbs, ctl, dead
    <2>2. current_thread[c] # NoThread
      BY <1>1, <2>1 DEF Aux, Parts, IrqOnRunning
    <2>3. \A s \in AllThread : stat[s] = "CLOSE" => oncpu'[s] \in {oncpu[s], RT_CPU_DETACHED}
      <3>1. CASE Reschedule(c)
        BY <2>1, <2>2, <3>1, RescheduleStep
      <3>2. CASE oncpu' = oncpu
        BY <3>2
      <3> QED BY <2>1, <3>1, <3>2
    <2> QED BY <2>1, <2>3, ReapedFrame
  <1>5. ASSUME NEW c \in CPU, rt_scheduler_ipi_handler(c) \/ rt_tick_increase(c)
        PROVE  Reaped'
    <2>1. UNCHANGED <<stat, oncpu, bind_cpu, pc, arg, defunct, freed>>
      BY <1>5 DEF rt_scheduler_ipi_handler, rt_tick_increase, tcbs, ctl, dead
    <2> QED BY <2>1, ReapedFrame
  <1>6. ASSUME NEW c \in CPU, NEW u \in Thread,
               rt_thread_timeout(c, u) \/ ResumeFromIsr(c, u) \/ rt_thread_startup(c, u)
                  \/ rt_thread_resume(c, u)
        PROVE  Reaped'
    <2>1. /\ u \in pending \cup timer \/ stat[u] = "INIT"
          /\ stat' = [stat EXCEPT ![u] = "READY"]
          /\ \/ UNCHANGED <<pc, arg>>
             \/ \E t \in AllThread : /\ pc' = [pc EXCEPT ![t] = "schedule"]
                                     /\ arg' = [arg EXCEPT ![t] = NoThread]
          /\ UNCHANGED <<oncpu, bind_cpu, defunct, freed>>
      BY <1>1, <1>6 DEF rt_thread_timeout, ResumeFromIsr, rt_thread_startup, rt_thread_resume,
                        rt_schedule_insert_thread, Goto, tcbs, ctl, dead
    <2>2. stat[u] # "CLOSE"
      BY <1>1, <2>1 DEF Aux, Parts, Dormant
    <2>3. \A s \in AllThread : stat[s] = "CLOSE" <=> stat'[s] = "CLOSE"
      BY <1>1, <2>1, <2>2 DEF TypeOK
    <2>4. \A s \in AllThread : \/ pc'[s] = pc[s] /\ arg'[s] = arg[s]
                               \/ pc'[s] = "schedule" /\ arg'[s] = NoThread
      BY <1>1, <2>1 DEF TypeOK
    <2> QED BY <2>1, <2>3, <2>4, ReapedFrame
  <1>7. ASSUME NEW c \in CPU, rt_thread_yield(c) \/ rt_enter_critical(c) \/ rt_exit_critical(c)
        PROVE  Reaped'
    <2>1. /\ \/ UNCHANGED <<pc, arg>>
             \/ \E t \in AllThread : /\ pc' = [pc EXCEPT ![t] = "schedule"]
                                     /\ arg' = [arg EXCEPT ![t] = NoThread]
          /\ UNCHANGED <<stat, oncpu, bind_cpu, defunct, freed>>
      BY <1>1, <1>7 DEF rt_thread_yield, rt_enter_critical, rt_exit_critical, Goto, tcbs, ctl, dead
    <2>2. \A s \in AllThread : \/ pc'[s] = pc[s] /\ arg'[s] = arg[s]
                               \/ pc'[s] = "schedule" /\ arg'[s] = NoThread
      BY <1>1, <2>1 DEF TypeOK
    <2> QED BY <2>1, <2>2, ReapedFrame
  <1>8. ASSUME NEW c \in CPU, NEW u \in Thread, NEW b \in MayBind, BindCpu(c, u, b)
        PROVE  Reaped'
    <2>1. UNCHANGED <<stat, oncpu, pc, arg, defunct, freed>>
      BY <1>8 DEF BindCpu, ctl, dead
    <2> QED BY <2>1, ReapedFrame
  <1>9. ASSUME NEW c \in CPU, NEW ipc \in BOOLEAN, NEW tmo \in BOOLEAN,
               rt_thread_suspend(c, ipc, tmo)
        PROVE  Reaped'
    <2>1. PICK t \in Thread :
            /\ stat[t] = "READY" /\ stat' = [stat EXCEPT ![t] = "SUSPEND"]
            /\ pc' = [pc EXCEPT ![t] = "schedule"] /\ arg' = [arg EXCEPT ![t] = NoThread]
            /\ UNCHANGED <<oncpu, bind_cpu, defunct, freed>>
      BY <1>9 DEF rt_thread_suspend, Goto, tcbs, dead
    <2>2. \A s \in AllThread : /\ stat[s] = "CLOSE" <=> stat'[s] = "CLOSE"
                               /\ \/ pc'[s] = pc[s] /\ arg'[s] = arg[s]
                                  \/ pc'[s] = "schedule" /\ arg'[s] = NoThread
      BY <1>1, <2>1 DEF TypeOK
    <2> QED BY <2>1, <2>2, ReapedFrame
  <1>10. ASSUME NEW c \in CPU, NEW u \in Thread, NEW p \in Prio, ChangePriority(c, u, p)
         PROVE  Reaped'
    <2>1. UNCHANGED <<stat, oncpu, bind_cpu, pc, arg, defunct, freed>>
      BY <1>10 DEF ChangePriority, ctl, dead
    <2> QED BY <2>1, ReapedFrame
  <1>11. ASSUME NEW c \in CPU, rt_thread_exit(c) PROVE Reaped'
    <2>1. PICK t \in MayExit :
            /\ current_thread[c] = t /\ pc[t] = "run"
            /\ stat' = [stat EXCEPT ![t] = "CLOSE"]
            /\ defunct' \in {defunct, <<t>> \o defunct}
            /\ pc' = [pc EXCEPT ![t] = "schedule"] /\ arg' = [arg EXCEPT ![t] = NoThread]
            /\ UNCHANGED <<oncpu, bind_cpu, freed>>
      BY <1>11 DEF rt_thread_exit, Calls, Runs, Goto, tcbs
    <2>2. t \in Thread /\ t \in AllThread /\ t # NoThread
      BY Roles
    <2>3. oncpu[t] # RT_CPU_DETACHED
      BY <1>1, <2>1, <2>2, CpuWhere DEF OneCpu, RT_CPU_DETACHED
    <2>4. stat[t] # "CLOSE"
      BY <1>1, <2>1, <2>2, <2>3 DEF Aux, RunningReady
    <2> QED BY <2>1, <2>2, <2>4, ReapedClose
  <1>12. ASSUME NEW c \in CPU, (\E u \in Thread : DeleteRemove(c, u)) \/ DeleteTimer(c)
         PROVE  Reaped'
    <2>1. PICK t \in Thread, l \in DeletePc, v \in Thread \cup {NoThread} :
            /\ pc' = [pc EXCEPT ![t] = l] /\ arg' = [arg EXCEPT ![t] = v]
            /\ UNCHANGED <<stat, oncpu, bind_cpu, defunct, freed>>
      BY <1>1, <1>12 DEF DeleteRemove, DeleteTimer, Goto, DeletePc, tcbs, dead, TypeOK
    <2>2. \A s \in AllThread : \/ pc'[s] = pc[s] /\ arg'[s] = arg[s]
                               \/ pc'[s] \in DeletePc
      BY <1>1, <2>1 DEF TypeOK
    <2>3. "free" \notin DeletePc
      BY DEF DeletePc
    <2> QED BY <2>1, <2>2, <2>3, ReapedFrame
  <1>13. ASSUME NEW c \in CPU, DeleteClose(c) PROVE Reaped'
    <2>1. PICK t \in Thread :
            /\ pc[t] = "delete_close"
            /\ stat' = [stat EXCEPT ![arg[t]] = "CLOSE"]
            /\ defunct' = <<arg[t]>> \o defunct
            /\ pc' = [pc EXCEPT ![t] = "run"] /\ arg' = [arg EXCEPT ![t] = NoThread]
            /\ UNCHANGED <<oncpu, bind_cpu, freed>>
      BY <1>13 DEF DeleteClose, Goto, tcbs
    <2>2. /\ arg[t] \in Thread /\ stat[arg[t]] # "CLOSE" /\ oncpu[arg[t]] = RT_CPU_DETACHED
      BY <1>1, <2>1, Roles DEF Aux, Deleting, DeletePc
    <2> QED BY <2>1, <2>2, ReapedClose
  <1>14. ASSUME NEW c \in CPU, IrqStep(c) PROVE Reaped'
    BY <1>4, <1>5, <1>6, <1>14 DEF IrqStep
  <1>15. ASSUME NEW c \in CPU, ThreadStep(c) PROVE Reaped'
    <2>1. CASE rt_schedule(c) \/ rt_thread_yield(c) \/ rt_enter_critical(c)
               \/ rt_exit_critical(c) \/ rt_thread_exit(c)
      BY <2>1, <1>3, <1>7, <1>11
    <2>2. CASE \E u \in Thread, b \in MayBind : BindCpu(c, u, b)
      BY <2>2, <1>8
    <2>3. CASE \E ipc, tmo \in BOOLEAN : rt_thread_suspend(c, ipc, tmo)
      BY <2>3, <1>9
    <2>4. CASE \E u \in Thread : rt_thread_startup(c, u) \/ rt_thread_resume(c, u)
      BY <2>4, <1>6
    <2>5. CASE \E u \in Thread, p \in Prio : ChangePriority(c, u, p)
      BY <2>5, <1>10
    <2>6. CASE (\E u \in Thread : DeleteRemove(c, u)) \/ DeleteTimer(c)
      BY <2>6, <1>12
    <2>7. CASE DeleteClose(c)
      BY <2>7, <1>13
    <2> QED BY <1>15, <2>1, <2>2, <2>3, <2>4, <2>5, <2>6, <2>7, UnlockedStep DEF ThreadStep
  <1> QED BY <1>2, <1>14, <1>15, ReapedTake, ReapedRelease DEF Next

\* Wherever threads end, what rt_thread_idle_excute frees is dead and in no list,
\* timer or call, and the only use of it that is left is that of another CPU within
\* rt_thread_exit, between the unlock that follows rt_thread_defunct and rt_schedule
\* (thread.c:109 to 112, the window of the run exit_race).
THEOREM FreedIsLeaving == ASSUME SafeUse PROVE Spec => []FreedOrLeaving
  <1>1. Init => Reaped
    BY Roles, CpuWhere, ShortList DEF Init, Reaped, Holders, Reaping, Gone, DeletePc, AllThread
  <1>2. Inv /\ Reaped /\ [Next]_vars => Reaped'
    <2>1. ASSUME Inv, Reaped, UNCHANGED vars PROVE Reaped'
      BY <2>1 DEF vars, tables, tcbs, ctl, dead, Reaped, Holders, Reaping, Gone
    <2> QED BY <2>1, ReapedStep
  <1>3. Inv /\ Reaped => FreedOrLeaving
    BY ReapedFree
  <1> QED BY <1>1, <1>2, <1>3, Invariance, PTL DEF Spec

=============================================================================
