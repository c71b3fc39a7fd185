----------------------------- MODULE MutexProofs -----------------------------
(***************************************************************************)
(* Proofs about module Mutex, for any number of threads, mutexes and       *)
(* priorities and any way to use the mutexes.  The inductive invariant Inv *)
(* joins the properties of Mutex with what is known of a mutex that is     *)
(* free or held, of its list, of a thread that waits, and of where the     *)
(* priority that a thread gets back is kept.                               *)
(***************************************************************************)
EXTENDS Mutex, ListTheorems, FiniteSetTheorems

\* No thread has more takes at a time than mutex->hold can count.
HoldFits == MaxTaken < HoldRange

\* A mutex is free or has an owner that holds it, with a priority to give back.
Held == \A m \in Mutex :
    /\ owner[m] = NoThread =>
          value[m] = 1 /\ hold[m] = 0 /\ suspend_thread[m] = << >>
    /\ owner[m] # NoThread =>
          /\ value[m] = 0 /\ hold[m] > 0 /\ m \in used.mutex
          /\ original_priority[m] < RT_PRIORITY_NONE

\* The list of a mutex has the threads that wait for it, and only they have a
\* running timer.
Lists ==
    /\ \A m \in Mutex :
          /\ IsInjective(suspend_thread[m])
          /\ ToSet(suspend_thread[m]) = {t \in Thread : stat[t] = "SUSPEND" /\ arg[t] = m}
    /\ \A t \in timer : stat[t] = "SUSPEND"

\* A suspended thread is in its call, has no answer yet, and waits for another.
Waits == \A t \in Thread : stat[t] = "SUSPEND" =>
    pc[t] \in {"schedule", "off"} /\ error[t] = "EOK" /\ owner[arg[t]] # t

\* The bound on the takes also leaves room for the one that a thread waits for.
Depth == \A t \in Thread :
    Len(taken[t]) <= MaxTaken /\ (pc[t] # "run" => Len(taken[t]) < MaxTaken)

\* The mutex that thread t, which has one, has had for the longest time.
Outermost(t) == IF taken[t] # << >> THEN taken[t][1] ELSE arg[t]

\* If releases are nested, the outermost mutex of a thread keeps the thread's own
\* priority, and a thread without mutexes has it.
Restores == Nested => \A t \in Thread :
    IF \E m \in Mutex : owner[m] = t
    THEN /\ owner[Outermost(t)] = t
         /\ original_priority[Outermost(t)] = Priority[t]
    ELSE current_priority[t] = Priority[t]

\* Pairs of threads of which the first is not less urgent, with priorities f.
NotLessUrgent(f) == {tu \in Thread \X Thread : f[tu[1]] <= f[tu[2]]}

\* The list of a single priority mutex is in the order of the priorities.
InOrder == used.flag = "PRIO" /\ Cardinality(used.mutex) = 1 =>
    \A m \in Mutex : Ordered(suspend_thread[m], NotLessUrgent(current_priority))

Inv ==
    /\ HoldFits
    /\ TypeOK
    /\ Held
    /\ Lists
    /\ Waits
    /\ Depth
    /\ Exclusive
    /\ Restores
    /\ InOrder
    /\ Inherits

-----------------------------------------------------------------------------
(* Counting the takes of a mutex.                                          *)

Count(s, m) == Cardinality({i \in DOMAIN s : s[i] = m})

\* Greatest element of a finite set of indices.
LEMMA GreatestIndex ==
    ASSUME NEW n \in Nat, NEW I, I \subseteq 1 .. n, I # {}
    PROVE  Max(I) \in I /\ \A i \in I : i <= Max(I)
  <1> DEFINE J == {n - i : i \in I}
  <1>1. J \subseteq Nat /\ J # {}
    <2>1. ASSUME NEW i \in I PROVE n - i \in Nat
      <3>1. i \in 1 .. n
        OBVIOUS
      <3> QED BY <3>1
    <2>2. J \subseteq Nat
      BY <2>1
    <2> QED BY <2>2
  <1>2. Min(J) \in J /\ \A j \in J : Min(J) <= j
    BY <1>1, LeastOfNat
  <1>3. PICK k \in I : Min(J) = n - k
    BY <1>2
  <1>4. ASSUME NEW i \in I PROVE i <= k
    <2>1. n - i \in J /\ i \in Nat /\ k \in Nat
      OBVIOUS
    <2>2. n - k <= n - i
      BY <1>2, <1>3, <2>1
    <2> QED BY <2>1, <2>2
  <1>5. \E x \in I : \A y \in I : x >= y
    <2>1. \A y \in I : k >= y
      BY <1>4
    <2> QED BY <2>1
  <1>6. Max(I) \in I /\ \A y \in I : Max(I) >= y
    BY <1>5 DEF Max
  <1> QED BY <1>6

\* The number of takes of a mutex is finite, at most all of them, and 0 if the
\* mutex is not among them.
LEMMA CountType ==
    ASSUME NEW S, NEW s \in Seq(S), NEW m
    PROVE  /\ IsFiniteSet({i \in DOMAIN s : s[i] = m})
           /\ Count(s, m) \in Nat /\ Count(s, m) <= Len(s)
           /\ Count(s, m) = 0 <=> m \notin ToSet(s)
  <1> DEFINE I == {i \in DOMAIN s : s[i] = m}
  <1>1. Len(s) \in Nat /\ DOMAIN s = 1 .. Len(s)
    OBVIOUS
  <1>2. IsFiniteSet(1 .. Len(s)) /\ Cardinality(1 .. Len(s)) = Len(s)
    BY <1>1, FS_Interval
  <1>3. I \in SUBSET (1 .. Len(s))
    BY <1>1
  <1>4. IsFiniteSet(I) /\ Cardinality(I) <= Len(s)
    BY <1>2, <1>3, FS_Subset
  <1>5. Cardinality(I) \in Nat
    BY <1>4, FS_CardinalityType
  <1>6. Cardinality(I) = 0 <=> I = {}
    BY <1>4, FS_EmptySet
  <1>7. I = {} <=> m \notin ToSet(s)
    BY DEF ToSet
  <1> QED BY <1>4, <1>5, <1>6, <1>7 DEF Count

\* A further take counts for its own mutex only.
LEMMA CountAppend ==
    ASSUME NEW S, NEW s \in Seq(S), NEW x \in S, NEW m
    PROVE  Count(Append(s, x), m) = IF x = m THEN Count(s, m) + 1 ELSE Count(s, m)
  <1> DEFINE w == Append(s, x)
             I == {i \in DOMAIN s : s[i] = m}
             J == {i \in DOMAIN w : w[i] = m}
  <1>1. /\ Len(s) \in Nat /\ DOMAIN s = 1 .. Len(s) /\ DOMAIN w = 1 .. Len(s) + 1
        /\ w[Len(s) + 1] = x /\ \A i \in 1 .. Len(s) : w[i] = s[i]
    OBVIOUS
  <1> HIDE DEF w
  <1>2. IsFiniteSet(I)
    BY CountType
  <1>3. CASE x = m
    <2>1. J = I \cup {Len(s) + 1} /\ Len(s) + 1 \notin I
      BY <1>1, <1>3
    <2>2. Cardinality(I \cup {Len(s) + 1}) = Cardinality(I) + 1
      BY <1>2, <2>1, FS_AddElement
    <2> QED BY <1>3, <2>1, <2>2 DEF Count, w
  <1>4. CASE x # m
    <2>1. J = I
      BY <1>1, <1>4
    <2> QED BY <1>4, <2>1 DEF Count, w
  <1> QED BY <1>3, <1>4

\* Releasing m takes its last occurrence out of the takes: one take of m less, and
\* as many of every other mutex.
LEMMA CountReleased ==
    ASSUME NEW S, NEW s \in Seq(S), NEW x \in ToSet(s), NEW m
    PROVE  /\ Released(s, x) \in Seq(S)
           /\ Len(Released(s, x)) = Len(s) - 1
           /\ Count(Released(s, x), m) = IF x = m THEN Count(s, m) - 1 ELSE Count(s, m)
  <1> DEFINE X == {i \in DOMAIN s : s[i] = x}
             k == Max(X)
             w == RemoveAt(s, k)
             I == {i \in DOMAIN s : s[i] = m}
             J == {i \in DOMAIN w : w[i] = m}
  <1>1. Len(s) \in Nat /\ DOMAIN s = 1 .. Len(s)
    OBVIOUS
  <1>2. k \in X /\ \A i \in X : i <= k
    <2>1. X \subseteq 1 .. Len(s) /\ X # {}
      BY <1>1 DEF ToSet
    <2> QED BY <1>1, <2>1, GreatestIndex
  <1>3. Released(s, x) = w
    BY DEF Released
  <1> HIDE DEF k
  <1>4. k \in 1 .. Len(s) /\ s[k] = x /\ \A i \in 1 .. Len(s) : i > k => s[i] # x
    BY <1>1, <1>2
  <1>5. w \in Seq(S) /\ Len(w) = Len(s) - 1
    BY <1>4, RemoveAtIndices
  <1>6. /\ DOMAIN w = 1 .. Len(s) - 1
        /\ \A i \in 1 .. Len(s) - 1 : w[i] = IF i < k THEN s[i] ELSE s[i + 1]
    BY <1>4, <1>5, RemoveAtIndices
  <1> HIDE DEF w
  <1>7. IsFiniteSet(I)
    BY CountType
  <1>8. CASE x = m
    <2>1. J = I \ {k} /\ k \in I
      <3>1. ASSUME NEW i \in J PROVE i \in I \ {k}
        <4>1. i \in 1 .. Len(s) - 1 /\ w[i] = x
          BY <1>6, <1>8
        <4>2. i < k
          <5> SUFFICES ASSUME ~(i < k) PROVE FALSE
            BY <1>1, <1>4, <4>1
          <5>1. i + 1 \in 1 .. Len(s) /\ i + 1 > k /\ s[i + 1] = x
            BY <1>1, <1>4, <1>6, <4>1
          <5> QED BY <1>4, <5>1
        <4> QED BY <1>1, <1>4, <1>6, <1>8, <4>1, <4>2
      <3>2. ASSUME NEW i \in I, i # k PROVE i \in J
        <4>1. i \in 1 .. Len(s) /\ s[i] = x /\ i < k
          BY <1>1, <1>2, <1>4, <1>8, <3>2
        <4> QED BY <1>1, <1>4, <1>6, <1>8, <4>1
      <3>3. k \in I
        BY <1>1, <1>4, <1>8
      <3> QED BY <3>1, <3>2, <3>3
    <2>2. Cardinality(I \ {k}) = Cardinality(I) - 1
      BY <1>7, <2>1, FS_RemoveElement
    <2> QED BY <1>3, <1>5, <1>8, <2>1, <2>2 DEF Count
  <1>9. CASE x # m
    <2> DEFINE f == [j \in I |-> IF j < k THEN j ELSE j - 1]
    <2>1. ASSUME NEW j \in I PROVE f[j] \in J
      <3>1. j \in 1 .. Len(s) /\ s[j] = m /\ j # k
        BY <1>1, <1>4, <1>9
      <3>2. CASE j < k
        BY <1>1, <1>4, <1>6, <3>1, <3>2
      <3>3. CASE j > k
        <4>1. j - 1 \in 1 .. Len(s) - 1 /\ ~(j - 1 < k) /\ (j - 1) + 1 = j
          BY <1>1, <1>4, <3>1, <3>3
        <4>2. w[j - 1] = m
          BY <1>6, <3>1, <4>1
        <4>3. f[j] = j - 1
          BY <1>1, <1>4, <3>1, <3>3
        <4> QED BY <1>6, <4>1, <4>2, <4>3
      <3> QED BY <1>4, <3>1, <3>2, <3>3
    <2>2. \A i, j \in I : f[i] = f[j] => i = j
      <3> SUFFICES ASSUME NEW i \in I, NEW j \in I, f[i] = f[j] PROVE i = j
        OBVIOUS
      <3>1. i \in 1 .. Len(s) /\ j \in 1 .. Len(s) /\ i # k /\ j # k
        BY <1>1, <1>4, <1>9
      <3>2. (IF i < k THEN i ELSE i - 1) = (IF j < k THEN j ELSE j - 1)
        OBVIOUS
      <3> QED BY <1>1, <1>4, <3>1, <3>2
    <2>3. ASSUME NEW i \in J PROVE \E j \in I : f[j] = i
      <3>1. i \in 1 .. Len(s) - 1 /\ w[i] = m
        BY <1>6
      <3>2. CASE i < k
        <4>1. i \in I
          BY <1>1, <1>4, <1>6, <3>1, <3>2
        <4>2. f[i] = i
          BY <3>2, <4>1
        <4> QED BY <4>1, <4>2
      <3>3. CASE ~(i < k)
        <4>1. i + 1 \in I /\ ~(i + 1 < k) /\ (i + 1) - 1 = i
          BY <1>1, <1>4, <1>6, <3>1, <3>3
        <4>2. f[i + 1] = i
          BY <4>1
        <4> QED BY <4>1, <4>2
      <3> QED BY <3>2, <3>3
    <2>4. f \in Bijection(I, J)
      <3>1. f \in [I -> J]
        BY <2>1
      <3> HIDE DEF f, I, J
      <3> QED BY <2>2, <2>3, <3>1 DEF Bijection, Injection, Surjection, IsInjective
    <2>5. Cardinality(J) = Cardinality(I)
      BY <1>7, <2>4, FS_Bijection DEF ExistsBijection
    <2> QED BY <1>3, <1>5, <1>9, <2>5 DEF Count
  <1> QED BY <1>8, <1>9

\* If the take that is released is the last one, the others stay where they are.
LEMMA ReleasedLast ==
    ASSUME NEW S, NEW s \in Seq(S), s # << >>
    PROVE  \A i \in 1 .. Len(s) - 1 : Released(s, Last(s))[i] = s[i]
  <1> DEFINE X == {i \in DOMAIN s : s[i] = Last(s)}
  <1>1. Len(s) \in Nat /\ Len(s) > 0 /\ DOMAIN s = 1 .. Len(s) /\ Len(s) \in X
    BY DEF Last
  <1>2. X \subseteq 1 .. Len(s) /\ X # {} /\ Last(s) \in ToSet(s)
    BY <1>1 DEF ToSet, Last
  <1>3. Max(X) \in X /\ \A i \in X : i <= Max(X)
    BY <1>1, <1>2, GreatestIndex
  <1>4. Max(X) = Len(s)
    <2>1. Max(X) \in 1 .. Len(s) /\ Len(s) <= Max(X)
      BY <1>1, <1>2, <1>3
    <2> QED BY <1>1, <2>1
  <1>5. Released(s, Last(s)) = RemoveAt(s, Len(s))
    BY <1>2, <1>4 DEF Released
  <1>6. Len(s) \in 1 .. Len(s)
    BY <1>1
  <1>7. \A i \in 1 .. Len(s) - 1 : RemoveAt(s, Len(s))[i] = IF i < Len(s) THEN s[i] ELSE s[i + 1]
    BY <1>6, RemoveAtIndices
  <1> QED BY <1>1, <1>5, <1>7

-----------------------------------------------------------------------------
(* Lists in the order of the priorities.                                   *)

\* Priorities are numbers below RT_PRIORITY_NONE.
LEMMA UrgencyRange ==
    /\ \A p \in 0 .. RT_PRIORITY_NONE - 1 :
          p \in Nat /\ p < RT_PRIORITY_NONE /\ p \in 0 .. RT_PRIORITY_NONE
    /\ \A p \in 0 .. RT_PRIORITY_NONE :
          p \in Nat /\ (p < RT_PRIORITY_NONE => p \in 0 .. RT_PRIORITY_NONE - 1)
    /\ RT_PRIORITY_NONE \in 0 .. RT_PRIORITY_NONE
  BY DEF RT_PRIORITY_NONE

\* NotLessUrgent on the list of a mutex, in terms of the indices.
LEMMA UrgencyOrder ==
    ASSUME NEW s \in Seq(Thread), NEW f
    PROVE  Ordered(s, NotLessUrgent(f)) <=>
              \A i, j \in 1 .. Len(s) : i < j => f[s[i]] <= f[s[j]]
  <1>1. DOMAIN s = 1 .. Len(s) /\ \A i \in 1 .. Len(s) : s[i] \in Thread
    BY ListIndices
  <1> QED BY <1>1 DEF Ordered, NotLessUrgent

\* The order of a list depends on the priorities of the threads on it alone.
LEMMA UrgencySame ==
    ASSUME NEW s \in Seq(Thread), NEW f, NEW g, \A t \in ToSet(s) : f[t] = g[t],
           Ordered(s, NotLessUrgent(f))
    PROVE  Ordered(s, NotLessUrgent(g))
  <1>1. \A i \in 1 .. Len(s) : s[i] \in ToSet(s)
    BY ListIndices
  <1>2. \A i, j \in 1 .. Len(s) : i < j => f[s[i]] <= f[s[j]]
    BY UrgencyOrder
  <1>3. \A i, j \in 1 .. Len(s) : i < j => g[s[i]] <= g[s[j]]
    BY <1>1, <1>2
  <1> QED BY <1>3, UrgencyOrder

\* rt_ipc_list_suspend adds the thread to the list, and a priority list stays in
\* order.
LEMMA PlacedList ==
    ASSUME NEW s \in Seq(Thread), NEW t \in Thread, NEW f \in [Thread -> Nat], NEW flag
    PROVE  /\ Placed(flag, s, t, f) \in Seq(Thread)
           /\ ToSet(Placed(flag, s, t, f)) = ToSet(s) \cup {t}
           /\ IsInjective(s) /\ t \notin ToSet(s) => IsInjective(Placed(flag, s, t, f))
           /\ flag = "PRIO" /\ Ordered(s, NotLessUrgent(f)) =>
                 Ordered(Placed(flag, s, t, f), NotLessUrgent(f))
  <1> DEFINE K == {i \in 1 .. Len(s) : flag = "PRIO" /\ f[t] < f[s[i]]}
  <1>1. Len(s) \in Nat /\ DOMAIN s = 1 .. Len(s) /\ \A i \in 1 .. Len(s) : s[i] \in Thread
    BY ListIndices
  <1>2. Placed(flag, s, t, f) = InsertedBefore(s, K, t)
    <2>1. ASSUME K # {} PROVE Min(K) # 0
      <3>1. K \subseteq Nat
        BY <1>1
      <3>2. Min(K) \in K
        BY <2>1, <3>1, LeastOfNat
      <3> QED BY <3>2, <1>1
    <2> QED BY <2>1 DEF Placed, InsertedBefore, SelectInSeq
  <1>3. ASSUME flag = "PRIO", Ordered(s, NotLessUrgent(f))
        PROVE  /\ \A i \in 1 .. Len(s) : (\A k \in K : i < k) => <<s[i], t>> \in NotLessUrgent(f)
               /\ \A i \in 1 .. Len(s) : (\E k \in K : k <= i) => <<t, s[i]>> \in NotLessUrgent(f)
    <2>1. f[t] \in Nat /\ \A u \in Thread : f[u] \in Nat
      OBVIOUS
    <2>2. ASSUME NEW i \in 1 .. Len(s), \A k \in K : i < k
          PROVE  <<s[i], t>> \in NotLessUrgent(f)
      <3>1. i \notin K
        BY <1>1, <2>2
      <3>2. ~(f[t] < f[s[i]])
        BY <3>1, <1>3
      <3> QED BY <3>2, <1>1, <2>1 DEF NotLessUrgent
    <2>3. ASSUME NEW i \in 1 .. Len(s), NEW k \in K, k <= i
          PROVE  <<t, s[i]>> \in NotLessUrgent(f)
      <3>1. k \in 1 .. Len(s) /\ f[t] < f[s[k]]
        OBVIOUS
      <3>2. f[s[k]] <= f[s[i]]
        BY <1>1, <1>3, <2>1, <2>3, <3>1, UrgencyOrder
      <3> QED BY <3>1, <3>2, <1>1, <2>1 DEF NotLessUrgent
    <2> QED BY <2>2, <2>3
  <1>4. K \subseteq 1 .. Len(s)
    OBVIOUS
  <1> HIDE DEF K
  <1>5. /\ InsertedBefore(s, K, t) \in Seq(Thread)
        /\ ToSet(InsertedBefore(s, K, t)) = ToSet(s) \cup {t}
        /\ IsInjective(s) /\ t \notin ToSet(s) => IsInjective(InsertedBefore(s, K, t))
    BY <1>4, InsertedList
  <1>6. ASSUME flag = "PRIO", Ordered(s, NotLessUrgent(f))
        PROVE  Ordered(InsertedBefore(s, K, t), NotLessUrgent(f))
    BY <1>3, <1>4, <1>6, InsertedOrder
  <1> QED BY <1>2, <1>5, <1>6

-----------------------------------------------------------------------------
(* Consequences of the invariant.                                          *)

\* Exclusive in terms of Count.
LEMMA ExclusiveCount ==
    /\ Exclusive <=> \A m \in Mutex, t \in Thread :
          Count(taken[t], m) + (IF Granted(t, m) THEN 1 ELSE 0) =
             IF t = owner[m] THEN hold[m] ELSE 0
    /\ Exclusive' <=> \A m \in Mutex, t \in Thread :
          Count(taken'[t], m) + (IF Granted(t, m)' THEN 1 ELSE 0) =
             IF t = owner'[m] THEN hold'[m] ELSE 0
  BY DEF Exclusive, Holds, Count

\* A thread that is not in a call holds what it has taken, and no more.
LEMMA RunHolds ==
    ASSUME Inv, NEW t \in Thread, pc[t] = "run", NEW m \in Mutex
    PROVE  /\ Count(taken[t], m) = IF t = owner[m] THEN hold[m] ELSE 0
           /\ Count(taken[t], m) <= Len(taken[t])
           /\ owner[m] = t => /\ hold[m] > 0 /\ hold[m] <= Len(taken[t])
                              /\ m \in ToSet(taken[t]) /\ taken[t] # << >>
  <1>1. taken[t] \in Seq(Mutex) /\ hold[m] \in Nat /\ owner[m] \in Thread \cup {NoThread}
    BY MutexAssumption DEF Inv, TypeOK
  <1>2. /\ Count(taken[t], m) \in Nat /\ Count(taken[t], m) <= Len(taken[t])
        /\ Count(taken[t], m) = 0 <=> m \notin ToSet(taken[t])
    BY <1>1, CountType
  <1>3. Count(taken[t], m) = IF t = owner[m] THEN hold[m] ELSE 0
    BY <1>1, <1>2, ExclusiveCount DEF Inv, Granted
  <1>4. ASSUME owner[m] = t
        PROVE  /\ hold[m] > 0 /\ hold[m] <= Len(taken[t])
               /\ m \in ToSet(taken[t]) /\ taken[t] # << >>
    <2>1. hold[m] > 0
      BY <1>4, MutexAssumption DEF Inv, Held
    <2>2. m \in ToSet(taken[t])
      BY <1>2, <1>3, <1>4, <2>1
    <2> QED BY <1>2, <1>3, <1>4, <2>1, <2>2, EmptyList
  <1> QED BY <1>2, <1>3, <1>4

\* A thread that is suspended is on the list of one mutex, which has another
\* owner; it holds no part of that mutex.
LEMMA SuspendedWaits ==
    ASSUME Inv, NEW t \in Thread, stat[t] = "SUSPEND"
    PROVE  /\ arg[t] \in Mutex
           /\ owner[arg[t]] \in Thread /\ owner[arg[t]] # t
           /\ suspend_thread[arg[t]] # << >>
           /\ \A m \in Mutex : t \in ToSet(suspend_thread[m]) <=> m = arg[t]
           /\ Count(taken[t], arg[t]) = 0
           /\ \A m \in Mutex : ~Granted(t, m)
  <1>1. arg[t] \in Mutex /\ owner[arg[t]] \in Thread \cup {NoThread} /\ taken[t] \in Seq(Mutex)
    BY DEF Inv, TypeOK
  <1>2. \A m \in Mutex : t \in ToSet(suspend_thread[m]) <=> m = arg[t]
    BY <1>1 DEF Inv, Lists
  <1>3. suspend_thread[arg[t]] # << >>
    BY <1>1, <1>2, EmptyList
  <1>4. owner[arg[t]] # NoThread /\ owner[arg[t]] # t
    BY <1>1, <1>3 DEF Inv, Held, Waits
  <1>5. \A m \in Mutex : ~Granted(t, m)
    BY DEF Granted
  <1>6. Count(taken[t], arg[t]) = 0
    <2>1. Count(taken[t], arg[t]) \in Nat
      BY <1>1, CountType
    <2> QED BY <1>1, <1>4, <1>5, <2>1, ExclusiveCount DEF Inv
  <1> QED BY <1>1, <1>2, <1>3, <1>4, <1>5, <1>6

\* With one mutex in use, two mutexes that are owned are the same.
LEMMA OneUsed ==
    ASSUME Inv, Cardinality(used.mutex) = 1, NEW m \in Mutex, NEW k \in Mutex,
           owner[m] # NoThread, owner[k] # NoThread
    PROVE  m = k
  <1>1. used.mutex \in SUBSET Mutex
    BY MutexAssumption DEF Inv, TypeOK
  <1>2. IsFiniteSet(used.mutex)
    BY <1>1, MutexAssumption, FS_Subset
  <1>3. \E x : used.mutex = {x}
    BY <1>2, FS_Singleton
  <1>4. m \in used.mutex /\ k \in used.mutex
    BY DEF Inv, Held
  <1> QED BY <1>3, <1>4

-----------------------------------------------------------------------------
(* The initial states.                                                     *)

\* rt_mutex_init leaves a free mutex that nobody waits for.
LEMMA InitInv == ASSUME HoldFits PROVE Init => Inv
  <1> SUFFICES ASSUME Init PROVE Inv
    OBVIOUS
  <1> USE DEF Init, WaitInit
  <1>1. TypeOK
    <2>1. arg \in [Thread -> Mutex]
      BY MutexAssumption
    <2>2. current_priority \in [Thread -> 0 .. RT_PRIORITY_NONE - 1]
      BY MutexAssumption
    <2>3. taken \in [Thread -> Seq(Mutex)] /\ suspend_thread \in [Mutex -> Seq(Thread)]
      BY EmptyList
    <2>4. hold \in [Mutex -> 0 .. HoldRange - 1]
      BY MutexAssumption
    <2>5. original_priority \in [Mutex -> 0 .. RT_PRIORITY_NONE]
      BY DEF RT_PRIORITY_NONE
    <2> QED BY <2>1, <2>2, <2>3, <2>4, <2>5 DEF TypeOK, Error
  <1>2. Held
    BY MutexAssumption DEF Held
  <1>3. Lists
    BY EmptyList DEF Lists
  <1>4. Waits
    BY DEF Waits
  <1>5. Depth
    BY MutexAssumption DEF Depth
  <1>6. Exclusive
    <2>1. \A m \in Mutex : Count(<< >>, m) = 0
      BY CountType, EmptyList
    <2> QED BY <2>1, MutexAssumption, ExclusiveCount DEF Granted
  <1>7. Restores
    BY MutexAssumption DEF Restores
  <1>8. InOrder /\ Inherits
    BY EmptyList DEF InOrder, Inherits
  <1> QED BY <1>1, <1>2, <1>3, <1>4, <1>5, <1>6, <1>7, <1>8 DEF Inv

-----------------------------------------------------------------------------
(* rt_mutex_take.                                                          *)

\* A take of a mutex that the thread has already.
LEMMA TakeAgainInv ==
    ASSUME Inv, NEW t \in Thread, NEW m \in Mutex, pc[t] = "run", m \in used.mutex,
           Len(taken[t]) < MaxTaken, TakeAgain(t, m), UNCHANGED <<sig, delivering, used>>
    PROVE  Inv'
  <1>1. /\ owner[m] = t
        /\ taken' = [taken EXCEPT ![t] = Append(taken[t], m)]
        /\ hold' = [hold EXCEPT ![m] = (hold[m] + 1) % HoldRange]
        /\ error' = [u \in Thread |-> IF u \in {t} THEN "EOK" ELSE error[u]]
        /\ UNCHANGED <<value, owner, original_priority, suspend_thread, current_priority,
                       stat, timer, pc, arg>>
    BY DEF TakeAgain, Fail
  <1>2. /\ taken[t] \in Seq(Mutex) /\ Len(taken[t]) \in Nat /\ MaxTaken < HoldRange
        /\ hold[m] \in Nat
    BY MutexAssumption DEF Inv, TypeOK, HoldFits
  <1>3. /\ hold[m] > 0 /\ hold[m] <= Len(taken[t]) /\ taken[t] # << >>
    BY <1>1, RunHolds
  <1>4. hold'[m] = hold[m] + 1 /\ hold'[m] \in 0 .. HoldRange - 1
    <2>1. hold[m] + 1 \in 0 .. HoldRange - 1
      BY <1>2, <1>3, MutexAssumption
    <2>2. (hold[m] + 1) % HoldRange = hold[m] + 1
      BY <2>1, MutexAssumption
    <2> QED BY <1>1, <2>1, <2>2 DEF Inv, TypeOK
  <1>5. /\ Append(taken[t], m) \in Seq(Mutex)
        /\ Len(Append(taken[t], m)) = Len(taken[t]) + 1
        /\ Append(taken[t], m)[1] = taken[t][1] /\ Append(taken[t], m) # << >>
    BY <1>2, <1>3
  <1>6. TypeOK'
    BY <1>1, <1>4, <1>5 DEF Inv, TypeOK, Error
  <1>7. Held' /\ Lists' /\ Waits'
    <2>1. \A k \in Mutex : hold'[k] = IF k = m THEN hold[m] + 1 ELSE hold[k]
      BY <1>1, <1>4 DEF Inv, TypeOK
    <2>2. Held'
      BY <1>1, <1>2, <2>1, MutexAssumption DEF Inv, Held
    <2>3. Lists'
      BY <1>1 DEF Inv, Lists
    <2>4. Waits'
      BY <1>1 DEF Inv, Waits
    <2> QED BY <2>2, <2>3, <2>4
  <1>8. Depth'
    <2>1. \A u \in Thread : Len(taken'[u]) = IF u = t THEN Len(taken[t]) + 1 ELSE Len(taken[u])
      BY <1>1, <1>5 DEF Inv, TypeOK
    <2> QED BY <1>1, <1>2, <2>1, MutexAssumption DEF Inv, Depth
  <1>9. Exclusive'
    <2> SUFFICES ASSUME NEW k \in Mutex, NEW u \in Thread
                 PROVE  Count(taken'[u], k) + (IF Granted(u, k)' THEN 1 ELSE 0) =
                           IF u = owner'[k] THEN hold'[k] ELSE 0
      BY ExclusiveCount
    <2>1. CASE u # t
      BY <1>1, <2>1, ExclusiveCount DEF Inv, TypeOK, Granted
    <2>2. CASE u = t
      <3>1. Count(taken'[t], k) = IF m = k THEN Count(taken[t], k) + 1 ELSE Count(taken[t], k)
        BY SMTT(30), <1>1, <1>2, CountAppend DEF Inv, TypeOK
      <3>2. Count(taken[t], k) = IF t = owner[k] THEN hold[k] ELSE 0
        BY RunHolds
      <3>3. ~Granted(t, k)'
        BY <1>1 DEF Granted
      <3>4. hold'[k] = IF k = m THEN hold[k] + 1 ELSE hold[k]
        BY <1>1, <1>4 DEF Inv, TypeOK
      <3>5. hold[k] \in Nat
        BY MutexAssumption DEF Inv, TypeOK
      <3> QED BY <1>1, <2>2, <3>1, <3>2, <3>3, <3>4, <3>5
    <2> QED BY <2>1, <2>2
  <1>10. Restores'
    <2>1. \A u \in Thread : Outermost(u)' = Outermost(u)
      BY <1>1, <1>3, <1>5 DEF Inv, TypeOK, Outermost
    <2> QED BY <1>1, <2>1 DEF Inv, Restores
  <1>11. InOrder' /\ Inherits'
    BY <1>1 DEF Inv, InOrder, Inherits
  <1> QED BY <1>6, <1>7, <1>8, <1>9, <1>10, <1>11 DEF Inv, HoldFits

\* A take of a mutex that is free.
LEMMA TakeFreeInv ==
    ASSUME Inv, NEW t \in Thread, NEW m \in Mutex, pc[t] = "run", m \in used.mutex,
           Len(taken[t]) < MaxTaken, owner[m] # t, TakeFree(t, m),
           UNCHANGED <<sig, delivering, used>>
    PROVE  Inv'
  <1>1. /\ value[m] > 0 /\ value' = [value EXCEPT ![m] = value[m] - 1]
        /\ owner' = [owner EXCEPT ![m] = t]
        /\ original_priority' = [original_priority EXCEPT ![m] = current_priority[t]]
        /\ taken' = [taken EXCEPT ![t] = Append(taken[t], m)]
        /\ hold' = [hold EXCEPT ![m] = (hold[m] + 1) % HoldRange]
        /\ error' = [u \in Thread |-> IF u \in {t} THEN "EOK" ELSE error[u]]
        /\ UNCHANGED <<suspend_thread, current_priority, stat, timer, pc, arg>>
    BY DEF TakeFree, Fail
  <1>2. /\ taken[t] \in Seq(Mutex) /\ Len(taken[t]) \in Nat /\ MaxTaken < HoldRange
        /\ value[m] = 1 /\ current_priority[t] \in 0 .. RT_PRIORITY_NONE - 1
    BY <1>1, MutexAssumption DEF Inv, TypeOK, HoldFits
  <1>3. owner[m] = NoThread /\ hold[m] = 0 /\ suspend_thread[m] = << >>
    BY <1>2 DEF Inv, Held
  <1>4. hold'[m] = 1 /\ 1 \in 0 .. HoldRange - 1
    <2>1. 1 \in 0 .. HoldRange - 1
      BY <1>2, MutexAssumption
    <2>2. 1 % HoldRange = 1
      BY <2>1, MutexAssumption
    <2> QED BY <1>1, <1>3, <2>1, <2>2 DEF Inv, TypeOK
  <1>5. /\ Append(taken[t], m) \in Seq(Mutex) /\ Append(taken[t], m) # << >>
        /\ Len(Append(taken[t], m)) = Len(taken[t]) + 1
        /\ Append(taken[t], m)[1] = IF taken[t] = << >> THEN m ELSE taken[t][1]
    <2> DEFINE w == Append(taken[t], m)
    <2>1. /\ w \in Seq(Mutex) /\ w # << >> /\ Len(w) = Len(taken[t]) + 1
          /\ w[Len(taken[t]) + 1] = m /\ \A i \in 1 .. Len(taken[t]) : w[i] = taken[t][i]
      BY <1>2, AppendProperties
    <2>2. taken[t] = << >> <=> Len(taken[t]) = 0
      BY <1>2
    <2> HIDE DEF w
    <2>3. w[1] = IF taken[t] = << >> THEN m ELSE taken[t][1]
      BY <1>2, <2>1, <2>2
    <2> QED BY <2>1, <2>3 DEF w
  <1>6. TypeOK'
    <2>1. original_priority' \in [Mutex -> 0 .. RT_PRIORITY_NONE]
      BY <1>1, <1>2 DEF Inv, TypeOK, RT_PRIORITY_NONE
    <2> QED BY <1>1, <1>2, <1>4, <1>5, <2>1 DEF Inv, TypeOK, Error
  <1>7. Held'
    <2> SUFFICES ASSUME NEW k \in Mutex
                 PROVE  /\ owner'[k] = NoThread =>
                              value'[k] = 1 /\ hold'[k] = 0 /\ suspend_thread'[k] = << >>
                        /\ owner'[k] # NoThread =>
                              /\ value'[k] = 0 /\ hold'[k] > 0 /\ k \in used'.mutex
                              /\ original_priority'[k] < RT_PRIORITY_NONE
      BY DEF Held
    <2>1. CASE k = m
      <3>1. owner'[m] = t /\ value'[m] = 0 /\ hold'[m] = 1 /\ original_priority'[m] = current_priority[t]
        BY <1>1, <1>2, <1>4 DEF Inv, TypeOK
      <3>2. owner'[m] # NoThread /\ m \in used'.mutex
        BY <3>1, MutexAssumption
      <3>3. original_priority'[m] < RT_PRIORITY_NONE
        BY <1>2, <3>1, UrgencyRange
      <3> QED BY <2>1, <3>1, <3>2, <3>3
    <2>2. CASE k # m
      BY <1>1, <2>2 DEF Inv, TypeOK, Held
    <2> QED BY <2>1, <2>2
  <1>8. Lists'
    BY <1>1 DEF Inv, Lists
  <1>9. Waits'
    <2> SUFFICES ASSUME NEW u \in Thread, stat[u] = "SUSPEND"
                 PROVE  pc[u] \in {"schedule", "off"} /\ error'[u] = "EOK" /\ owner'[arg[u]] # u
      BY <1>1 DEF Waits
    <2>1. pc[u] \in {"schedule", "off"} /\ error[u] = "EOK" /\ u # t
      BY DEF Inv, Waits
    <2>2. owner[arg[u]] # u /\ arg[u] \in Mutex
      BY SuspendedWaits
    <2> QED BY <1>1, <2>1, <2>2 DEF Inv, TypeOK
  <1>10. Depth'
    <2>1. \A u \in Thread : Len(taken'[u]) = IF u = t THEN Len(taken[t]) + 1 ELSE Len(taken[u])
      BY <1>1, <1>5 DEF Inv, TypeOK
    <2> QED BY <1>1, <1>2, <2>1, MutexAssumption DEF Inv, Depth
  <1>11. Exclusive'
    <2> SUFFICES ASSUME NEW k \in Mutex, NEW u \in Thread
                 PROVE  Count(taken'[u], k) + (IF Granted(u, k)' THEN 1 ELSE 0) =
                           IF u = owner'[k] THEN hold'[k] ELSE 0
      BY ExclusiveCount
    <2>0. owner'[k] = IF k = m THEN t ELSE owner[k]
      BY <1>1 DEF Inv, TypeOK
    <2>1. CASE u # t
      <3>1. taken'[u] = taken[u] /\ (Granted(u, k)' <=> Granted(u, k))
        BY <1>1, <2>1 DEF Inv, TypeOK, Granted
      <3>2. Count(taken[u], k) + (IF Granted(u, k) THEN 1 ELSE 0) =
                           IF u = owner[k] THEN hold[k] ELSE 0
        BY ExclusiveCount DEF Inv
      <3>3. u # NoThread /\ (k # m => hold'[k] = hold[k])
        BY <1>1, MutexAssumption DEF Inv, TypeOK
      <3> QED BY <1>3, <2>0, <2>1, <3>1, <3>2, <3>3
    <2>2. CASE u = t
      <3>1. Count(taken'[t], k) = IF m = k THEN Count(taken[t], k) + 1 ELSE Count(taken[t], k)
        BY <1>1, <1>2, CountAppend DEF Inv, TypeOK
      <3>2. Count(taken[t], k) = IF t = owner[k] THEN hold[k] ELSE 0
        BY RunHolds
      <3>3. ~Granted(t, k)'
        BY <1>1 DEF Granted
      <3>4. hold'[k] = IF k = m THEN 1 ELSE hold[k]
        BY <1>1, <1>4 DEF Inv, TypeOK
      <3>5. hold[k] \in Nat
        BY MutexAssumption DEF Inv, TypeOK
      <3> QED BY <2>0, <2>2, <3>1, <3>2, <3>3, <3>4, <3>5
    <2> QED BY <2>1, <2>2
  <1>12. Restores'
    <2> SUFFICES ASSUME Nested, NEW u \in Thread
                 PROVE  IF \E k \in Mutex : owner'[k] = u
                        THEN /\ owner'[Outermost(u)'] = u
                             /\ original_priority'[Outermost(u)'] = Priority[u]
                        ELSE current_priority'[u] = Priority[u]
      BY DEF Restores
    <2>0. IF \E k \in Mutex : owner[k] = u
          THEN owner[Outermost(u)] = u /\ original_priority[Outermost(u)] = Priority[u]
          ELSE current_priority[u] = Priority[u]
      BY DEF Inv, Restores
    <2>1. CASE u # t
      <3>1. Outermost(u)' = Outermost(u)
        BY <1>1, <2>1 DEF Inv, TypeOK, Outermost
      <3>2. u # NoThread
        BY MutexAssumption
      <3> QED BY SMTT(30), <1>1, <1>3, <2>0, <2>1, <3>1, <3>2 DEF Inv, TypeOK
    <2>2. CASE u = t /\ taken[t] # << >>
      <3>1. Outermost(t)' = Outermost(t) /\ Outermost(t) = taken[t][1]
        BY <1>1, <1>5, <2>2 DEF Inv, TypeOK, Outermost
      <3>2. taken[t][1] \in Mutex /\ taken[t][1] \in ToSet(taken[t])
        BY <1>2, <2>2, ListIndices
      <3>3. owner[taken[t][1]] = t
        <4>1. Count(taken[t], taken[t][1]) # 0
          BY <1>2, <3>2, CountType
        <4> QED BY <3>2, <4>1, RunHolds
      <3>4. taken[t][1] # m
        BY <3>3
      <3> QED BY <1>1, <2>0, <2>2, <3>1, <3>2, <3>3, <3>4 DEF Inv, TypeOK
    <2>3. CASE u = t /\ taken[t] = << >>
      <3>1. Outermost(t)' = m
        BY <1>1, <1>5, <2>3 DEF Inv, TypeOK, Outermost
      <3>2. ~\E k \in Mutex : owner[k] = t
        BY <2>3, RunHolds
      <3> QED BY <1>1, <2>0, <2>3, <3>1, <3>2 DEF Inv, TypeOK
    <2> QED BY <2>1, <2>2, <2>3
  <1>13. InOrder'
    BY <1>1 DEF Inv, InOrder
  <1>14. Inherits'
    <2> SUFFICES ASSUME used.flag = "PRIO", Cardinality(used.mutex) = 1, NEW k \in Mutex,
                        NEW u \in ToSet(suspend_thread[k])
                 PROVE  current_priority[owner'[k]] <= current_priority[u]
      BY <1>1 DEF Inherits
    <2>1. k # m
      BY <1>3, EmptyList
    <2> QED BY <1>1, <2>1 DEF Inv, TypeOK, Inherits
  <1> QED BY <1>6, <1>7, <1>8, <1>9, <1>10, <1>11, <1>12, <1>13, <1>14 DEF Inv, HoldFits

\* A take that is refused at once.
LEMMA TakeRefusedInv ==
    ASSUME Inv, NEW t \in Thread, NEW m \in Mutex, pc[t] = "run", TakeRefused(t, m),
           UNCHANGED <<sig, delivering, used>>
    PROVE  Inv'
  <1>1. /\ error' = [u \in Thread |-> IF u \in {t} THEN "ETIMEOUT" ELSE error[u]]
        /\ UNCHANGED <<value, owner, original_priority, hold, suspend_thread,
                       current_priority, stat, timer, pc, arg, taken>>
    BY DEF TakeRefused, Fail, mutexvars
  <1>2. TypeOK'
    BY <1>1 DEF Inv, TypeOK, Error
  <1>3. Held' /\ Lists' /\ Depth' /\ Restores' /\ InOrder' /\ Inherits'
    BY <1>1 DEF Inv, Held, Lists, Depth, Restores, Outermost, InOrder, Inherits
  <1>4. Waits'
    BY <1>1 DEF Inv, Waits
  <1>5. Exclusive'
    <2>1. \A u \in Thread, k \in Mutex : Granted(u, k)' <=> Granted(u, k)
      BY <1>1 DEF Granted
    <2> QED BY <1>1, <2>1, ExclusiveCount DEF Inv
  <1> QED BY <1>2, <1>3, <1>4, <1>5 DEF Inv, HoldFits

\* A take that waits: the owner inherits the priority of the thread, which goes to
\* its place on the list.
LEMMA TakeWaitsInv ==
    ASSUME Inv, NEW t \in Thread, NEW m \in Mutex, NEW time, pc[t] = "run",
           m \in used.mutex, Len(taken[t]) < MaxTaken, owner[m] # t,
           TakeWaits(t, m, time), Fail({t}, "EOK"), UNCHANGED <<sig, delivering, used>>
    PROVE  Inv'
  <1> DEFINE o == owner[m]
             s == Placed(used.flag, suspend_thread[m], t, current_priority')
  <1>1. /\ value[m] = 0
        /\ current_priority' = Raised(t, m)
        /\ suspend_thread' = [suspend_thread EXCEPT ![m] = s]
        /\ stat' = [stat EXCEPT ![t] = "SUSPEND"]
        /\ pc' = [pc EXCEPT ![t] = "schedule"]
        /\ timer' \subseteq timer \cup {t}
        /\ arg' = [arg EXCEPT ![t] = m]
        /\ error' = [u \in Thread |-> IF u \in {t} THEN "EOK" ELSE error[u]]
        /\ UNCHANGED <<value, owner, original_priority, hold, taken>>
    BY DEF TakeWaits, Suspend, Fail
  <1>2. o \in Thread /\ o # t /\ o # NoThread
    BY <1>1 DEF Inv, TypeOK, Held
  <1>3. /\ current_priority' \in [Thread -> 0 .. RT_PRIORITY_NONE - 1]
        /\ \A u \in Thread : u # o => current_priority'[u] = current_priority[u]
        /\ current_priority'[o] <= current_priority[t]
        /\ current_priority'[o] <= current_priority[o]
    <2>1. /\ current_priority \in [Thread -> 0 .. RT_PRIORITY_NONE - 1]
          /\ current_priority[t] \in Nat /\ current_priority[o] \in Nat
      BY <1>2, UrgencyRange DEF Inv, TypeOK
    <2> QED BY <1>1, <1>2, <2>1 DEF Raised
  <1>4. stat[t] = "READY"
    BY DEF Inv, TypeOK, Waits
  <1>5. \A k \in Mutex : /\ t \notin ToSet(suspend_thread[k])
                         /\ IsInjective(suspend_thread[k])
                         /\ suspend_thread[k] \in Seq(Thread)
    BY <1>4 DEF Inv, TypeOK, Lists
  <1>6. current_priority' \in [Thread -> Nat]
    BY <1>3
  <1>7. /\ s \in Seq(Thread) /\ ToSet(s) = ToSet(suspend_thread[m]) \cup {t} /\ IsInjective(s)
        /\ used.flag = "PRIO" /\ Ordered(suspend_thread[m], NotLessUrgent(current_priority'))
              => Ordered(s, NotLessUrgent(current_priority'))
    BY <1>5, <1>6, PlacedList
  <1> HIDE DEF s, o
  <1>8. \A k \in Mutex : suspend_thread'[k] = IF k = m THEN s ELSE suspend_thread[k]
    BY <1>1 DEF Inv, TypeOK
  <1>9. TypeOK'
    <2>1. suspend_thread' \in [Mutex -> Seq(Thread)]
      BY <1>1, <1>7 DEF Inv, TypeOK
    <2> QED BY <1>1, <1>3, <2>1 DEF Inv, TypeOK, Error
  <1>10. Held'
    BY <1>1, <1>2, <1>8 DEF Inv, Held, o
  <1>11. Lists'
    <2>1. ASSUME NEW k \in Mutex
          PROVE  /\ IsInjective(suspend_thread'[k])
                 /\ ToSet(suspend_thread'[k]) =
                       {u \in Thread : stat'[u] = "SUSPEND" /\ arg'[u] = k}
      <3>1. ToSet(suspend_thread[k]) = {u \in Thread : stat[u] = "SUSPEND" /\ arg[u] = k}
        BY DEF Inv, Lists
      <3>2. \A u \in Thread : /\ stat'[u] = IF u = t THEN "SUSPEND" ELSE stat[u]
                              /\ arg'[u] = IF u = t THEN m ELSE arg[u]
        BY <1>1 DEF Inv, TypeOK
      <3>3. CASE k = m
        BY <1>7, <1>8, <3>1, <3>2, <3>3
      <3>4. CASE k # m
        BY <1>4, <1>5, <1>8, <3>1, <3>2, <3>4
      <3> QED BY <3>3, <3>4
    <2>2. \A u \in timer' : stat'[u] = "SUSPEND"
      BY <1>1 DEF Inv, TypeOK, Lists
    <2> QED BY <2>1, <2>2 DEF Lists
  <1>12. Waits'
    BY <1>1, <1>2 DEF Inv, TypeOK, Waits, o
  <1>13. Depth'
    BY <1>1 DEF Inv, TypeOK, Depth
  <1>14. Exclusive'
    <2>1. \A u \in Thread, k \in Mutex : Granted(u, k)' <=> Granted(u, k)
      BY <1>1 DEF Inv, TypeOK, Granted
    <2> QED BY <1>1, <2>1, ExclusiveCount DEF Inv
  <1>15. Restores'
    <2> SUFFICES ASSUME Nested, NEW u \in Thread
                 PROVE  IF \E k \in Mutex : owner[k] = u
                        THEN /\ owner[Outermost(u)'] = u
                             /\ original_priority[Outermost(u)'] = Priority[u]
                        ELSE current_priority'[u] = Priority[u]
      BY <1>1 DEF Restores
    <2>1. IF \E k \in Mutex : owner[k] = u
          THEN owner[Outermost(u)] = u /\ original_priority[Outermost(u)] = Priority[u]
          ELSE current_priority[u] = Priority[u]
      BY DEF Inv, Restores
    <2>2. CASE \E k \in Mutex : owner[k] = u
      <3>1. u = t => taken[u] # << >>
        BY <2>2, RunHolds
      <3>2. Outermost(u)' = Outermost(u)
        BY <1>1, <3>1 DEF Inv, TypeOK, Outermost
      <3> QED BY <2>1, <2>2, <3>2
    <2>3. CASE ~\E k \in Mutex : owner[k] = u
      <3>1. u # o
        BY <2>3 DEF o
      <3> QED BY <1>3, <2>1, <2>3, <3>1
    <2> QED BY <2>2, <2>3
  <1>16. ASSUME used.flag = "PRIO", Cardinality(used.mutex) = 1, NEW k \in Mutex
         PROVE  /\ Ordered(suspend_thread'[k], NotLessUrgent(current_priority'))
                /\ \A u \in ToSet(suspend_thread'[k]) :
                      current_priority'[owner[k]] <= current_priority'[u]
    <2>1. /\ Ordered(suspend_thread[k], NotLessUrgent(current_priority))
          /\ \A u \in ToSet(suspend_thread[k]) :
                      current_priority[owner[k]] <= current_priority[u]
      BY <1>16 DEF Inv, InOrder, Inherits
    <2>2. ASSUME NEW u \in ToSet(suspend_thread[k]) PROVE k = m /\ u # o /\ u \in Thread
      <3>1. u \in Thread /\ stat[u] = "SUSPEND" /\ arg[u] = k
        BY DEF Inv, Lists
      <3>2. owner[k] # u /\ owner[k] # NoThread
        BY <3>1, SuspendedWaits, MutexAssumption
      <3>3. k = m
        BY <1>2, <1>16, <3>2, OneUsed DEF o
      <3> QED BY <3>1, <3>2, <3>3 DEF o
    <2>3. Ordered(suspend_thread[k], NotLessUrgent(current_priority'))
      <3>1. \A u \in ToSet(suspend_thread[k]) : current_priority[u] = current_priority'[u]
        BY <1>3, <2>2
      <3> QED BY <1>5, <2>1, <3>1, UrgencySame
    <2>4. CASE k # m
      <3>1. \A u : u \notin ToSet(suspend_thread[k])
        BY <2>2, <2>4
      <3> QED BY <1>8, <2>3, <2>4, <3>1
    <2>5. CASE k = m
      <3>1. Ordered(suspend_thread'[k], NotLessUrgent(current_priority'))
        BY <1>7, <1>8, <1>16, <2>3, <2>5
      <3>2. ASSUME NEW u \in ToSet(suspend_thread'[k])
            PROVE  current_priority'[o] <= current_priority'[u]
        <4>1. u = t \/ u \in ToSet(suspend_thread[k])
          BY <1>7, <1>8, <2>5
        <4>2. CASE u = t
          BY <1>2, <1>3, <4>2
        <4>3. CASE u \in ToSet(suspend_thread[k])
          <5>1. /\ current_priority[o] <= current_priority[u] /\ u \in Thread
                /\ current_priority'[u] = current_priority[u]
            BY <1>3, <2>1, <2>2, <2>5, <4>3 DEF o
          <5>2. /\ current_priority[o] \in Nat /\ current_priority[u] \in Nat
                /\ current_priority'[o] \in Nat
            BY <1>2, <1>3, <1>6, <5>1, UrgencyRange DEF Inv, TypeOK
          <5> QED BY <1>3, <5>1, <5>2
        <4> QED BY <4>1, <4>2, <4>3
      <3> QED BY <2>5, <3>1, <3>2 DEF o
    <2> QED BY <2>4, <2>5
  <1>17. InOrder' /\ Inherits'
    BY <1>1, <1>16 DEF InOrder, Inherits
  <1> QED BY <1>9, <1>10, <1>11, <1>12, <1>13, <1>14, <1>15, <1>17 DEF Inv, HoldFits

\* All of rt_mutex_take up to its rt_schedule.
LEMMA TakeInv ==
    ASSUME Inv, NEW t \in Thread, NEW m \in Mutex, NEW time, rt_mutex_take(t, m, time)
    PROVE  Inv'
  BY TakeAgainInv, TakeFreeInv, TakeRefusedInv, TakeWaitsInv DEF rt_mutex_take

\* A call that returns RT_EOK counts as a take of the mutex that it waited for.
LEMMA TakeReturnsInv == ASSUME Inv, NEW t \in Thread, TakeReturns(t) PROVE Inv'
  <1>1. /\ pc[t] = "check" /\ pc' = [pc EXCEPT ![t] = "run"]
        /\ taken' = IF error[t] = "EOK" THEN [taken EXCEPT ![t] = Append(taken[t], arg[t])]
                                        ELSE taken
        /\ UNCHANGED <<stat, timer, error, sig, delivering, used, value, owner,
                       original_priority, hold, suspend_thread, current_priority, arg>>
    BY DEF TakeReturns, mutexvars
  <1>2. /\ stat[t] = "READY" /\ taken[t] \in Seq(Mutex) /\ arg[t] \in Mutex
        /\ Len(taken[t]) \in Nat /\ Len(taken[t]) < MaxTaken
    <2>1. stat[t] = "READY" /\ taken[t] \in Seq(Mutex) /\ arg[t] \in Mutex
      BY <1>1 DEF Inv, TypeOK, Waits
    <2>2. Len(taken[t]) < MaxTaken
      BY <1>1 DEF Inv, Depth
    <2> QED BY <2>1, <2>2
  <1>3. /\ Append(taken[t], arg[t]) \in Seq(Mutex) /\ Append(taken[t], arg[t]) # << >>
        /\ Len(Append(taken[t], arg[t])) = Len(taken[t]) + 1
        /\ Append(taken[t], arg[t])[1] = IF taken[t] = << >> THEN arg[t] ELSE taken[t][1]
    <2> DEFINE w == Append(taken[t], arg[t])
    <2>1. /\ w \in Seq(Mutex) /\ w # << >> /\ Len(w) = Len(taken[t]) + 1
          /\ w[Len(taken[t]) + 1] = arg[t] /\ \A i \in 1 .. Len(taken[t]) : w[i] = taken[t][i]
      BY <1>2, AppendProperties
    <2>2. taken[t] = << >> <=> Len(taken[t]) = 0
      BY <1>2
    <2> HIDE DEF w
    <2>3. w[1] = IF taken[t] = << >> THEN arg[t] ELSE taken[t][1]
      BY <1>2, <2>1, <2>2
    <2> QED BY <2>1, <2>3 DEF w
  <1>4. TypeOK'
    BY <1>1, <1>3 DEF Inv, TypeOK
  <1>5. Held' /\ Lists' /\ InOrder' /\ Inherits'
    BY <1>1 DEF Inv, Held, Lists, InOrder, Inherits
  <1>6. Waits'
    BY <1>1, <1>2 DEF Inv, TypeOK, Waits
  <1>7. Depth'
    <2>1. \A u \in Thread : u # t => taken'[u] = taken[u] /\ pc'[u] = pc[u]
      BY <1>1 DEF Inv, TypeOK
    <2>2. Len(taken'[t]) <= MaxTaken /\ pc'[t] = "run"
      BY <1>1, <1>2, <1>3, MutexAssumption DEF Inv, TypeOK
    <2> QED BY <2>1, <2>2 DEF Inv, Depth
  <1>8. Exclusive'
    <2> SUFFICES ASSUME NEW k \in Mutex, NEW u \in Thread
                 PROVE  Count(taken'[u], k) + (IF Granted(u, k)' THEN 1 ELSE 0) =
                           IF u = owner[k] THEN hold[k] ELSE 0
      BY <1>1, ExclusiveCount
    <2>1. Count(taken[u], k) + (IF Granted(u, k) THEN 1 ELSE 0) =
                           IF u = owner[k] THEN hold[k] ELSE 0
      BY ExclusiveCount DEF Inv
    <2>2. CASE u # t
      BY <1>1, <2>1, <2>2 DEF Inv, TypeOK, Granted
    <2>3. CASE u = t /\ error[t] = "EOK"
      <3>1. Count(taken'[t], k) = IF arg[t] = k THEN Count(taken[t], k) + 1 ELSE Count(taken[t], k)
        BY <1>1, <1>2, <2>3, CountAppend DEF Inv, TypeOK
      <3>2. ~Granted(t, k)'
        BY <1>1 DEF Inv, TypeOK, Granted
      <3>3. Granted(t, k) <=> arg[t] = k
        BY <1>1, <1>2, <2>3 DEF Granted
      <3>4. Count(taken[t], k) \in Nat
        BY <1>2, CountType
      <3> QED BY <2>1, <2>3, <3>1, <3>2, <3>3, <3>4
    <2>4. CASE u = t /\ error[t] # "EOK"
      BY <1>1, <2>1, <2>4 DEF Inv, TypeOK, Granted
    <2> QED BY <2>2, <2>3, <2>4
  <1>9. Restores'
    <2>1. \A u \in Thread : Outermost(u)' = Outermost(u)
      BY <1>1, <1>3 DEF Inv, TypeOK, Outermost
    <2> QED BY <1>1, <2>1 DEF Inv, Restores
  <1> QED BY <1>4, <1>5, <1>6, <1>7, <1>8, <1>9 DEF Inv, HoldFits

-----------------------------------------------------------------------------
(* The steps that leave the owner alone.                                   *)

\* rt_schedule and the switch back move the thread on and leave the mutexes alone.
LEMMA ProceedInv == ASSUME Inv, NEW t \in Thread, Proceed(t) PROVE Inv'
  <1>1. sig = {} /\ delivering = {}
    BY MutexAssumption DEF Inv, TypeOK
  <1>2. /\ UNCHANGED <<stat, timer, error, sig, delivering, used, value, owner,
                       original_priority, hold, suspend_thread, current_priority, arg, taken>>
        /\ pc[t] \in {"schedule", "off"}
        /\ \/ pc' = [pc EXCEPT ![t] = "off"]
           \/ pc' = [pc EXCEPT ![t] = "check"] /\ stat[t] = "READY"
    BY <1>1 DEF Proceed, rt_schedule, SwitchBack, objects, mutexvars
  <1>3. TypeOK' /\ Held' /\ Lists' /\ Restores' /\ InOrder' /\ Inherits'
    BY <1>2 DEF Inv, TypeOK, Held, Lists, Restores, Outermost, InOrder, Inherits
  <1>4. Waits' /\ Depth'
    BY <1>2 DEF Inv, TypeOK, Waits, Depth
  <1>5. Exclusive'
    <2>1. \A u \in Thread, k \in Mutex : Granted(u, k)' <=> Granted(u, k)
      BY <1>2 DEF Inv, TypeOK, Granted
    <2> QED BY <1>2, <2>1, ExclusiveCount DEF Inv
  <1> QED BY <1>3, <1>4, <1>5 DEF Inv, HoldFits

\* rt_thread_timeout of a thread that waits: it leaves the list without the mutex,
\* and the owner keeps the priority that it inherited.
LEMMA TimeoutInv == ASSUME Inv, NEW t \in Thread, Timeout(t) PROVE Inv'
  <1>1. /\ t \in timer /\ timer' = timer \ {t}
        /\ stat' = [u \in Thread |-> IF u \in {t} THEN "READY" ELSE stat[u]]
        /\ error' = [u \in Thread |-> IF u \in {t} THEN "ETIMEOUT" ELSE error[u]]
        /\ suspend_thread' = [m \in Mutex |-> RemoveFirst(suspend_thread[m], t)]
        /\ UNCHANGED <<pc, sig, delivering, value, owner, original_priority, hold,
                       current_priority, arg, taken, used>>
    BY DEF Timeout, rt_thread_timeout, Unlink, Resume, Fail
  <1>2. stat[t] = "SUSPEND"
    BY <1>1 DEF Inv, Lists
  <1>3. ASSUME NEW m \in Mutex
        PROVE  /\ suspend_thread'[m] \in Seq(Thread) /\ IsInjective(suspend_thread'[m])
               /\ ToSet(suspend_thread'[m]) = ToSet(suspend_thread[m]) \ {t}
               /\ suspend_thread[m] = << >> => suspend_thread'[m] = << >>
    <2>1. suspend_thread[m] \in Seq(Thread) /\ IsInjective(suspend_thread[m])
      BY DEF Inv, TypeOK, Lists
    <2>2. suspend_thread'[m] = RemoveFirst(suspend_thread[m], t)
      BY <1>1
    <2>3. /\ suspend_thread'[m] \in Seq(Thread) /\ IsInjective(suspend_thread'[m])
          /\ ToSet(suspend_thread'[m]) = ToSet(suspend_thread[m]) \ {t}
      BY <2>1, <2>2, UnlinkedList
    <2>4. suspend_thread[m] = << >> => suspend_thread'[m] = << >>
      BY <2>3, ListIndices, EmptyList
    <2> QED BY <2>3, <2>4
  <1>4. TypeOK'
    <2>1. suspend_thread' \in [Mutex -> Seq(Thread)]
      BY <1>1, <1>3
    <2> QED BY <1>1, <2>1 DEF Inv, TypeOK, Error
  <1>5. Held'
    BY <1>1, <1>3 DEF Inv, Held
  <1>6. Lists'
    <2>1. \A u \in Thread : stat'[u] = IF u = t THEN "READY" ELSE stat[u]
      BY <1>1
    <2>2. ASSUME NEW m \in Mutex
          PROVE  ToSet(suspend_thread'[m]) = {u \in Thread : stat'[u] = "SUSPEND" /\ arg[u] = m}
      BY <1>3, <2>1 DEF Inv, Lists
    <2>3. \A u \in timer' : stat'[u] = "SUSPEND"
      BY <1>1 DEF Inv, TypeOK, Lists
    <2> QED BY <1>1, <1>3, <2>2, <2>3 DEF Lists
  <1>7. Waits' /\ Depth'
    BY <1>1 DEF Inv, TypeOK, Waits, Depth
  <1>8. Exclusive'
    <2>1. \A u \in Thread, k \in Mutex : Granted(u, k)' <=> Granted(u, k)
      BY <1>1, <1>2 DEF Inv, TypeOK, Granted
    <2> QED BY <1>1, <2>1, ExclusiveCount DEF Inv
  <1>9. Restores'
    BY <1>1 DEF Inv, Restores, Outermost
  <1>10. InOrder'
    <2> SUFFICES ASSUME used.flag = "PRIO", Cardinality(used.mutex) = 1, NEW m \in Mutex
                 PROVE  Ordered(suspend_thread'[m], NotLessUrgent(current_priority))
      BY <1>1 DEF InOrder
    <2>1. /\ Ordered(suspend_thread[m], NotLessUrgent(current_priority))
          /\ suspend_thread[m] \in Seq(Thread) /\ IsInjective(suspend_thread[m])
      BY DEF Inv, TypeOK, Lists, InOrder
    <2>2. suspend_thread'[m] = RemoveFirst(suspend_thread[m], t)
      BY <1>1
    <2> QED BY <2>1, <2>2, UnlinkedList
  <1>11. Inherits'
    BY <1>1, <1>3 DEF Inv, Inherits
  <1> QED BY <1>4, <1>5, <1>6, <1>7, <1>8, <1>9, <1>10, <1>11 DEF Inv, HoldFits

-----------------------------------------------------------------------------
(* rt_mutex_release.                                                       *)

\* The count of holds does not wrap when the owner releases.
LEMMA ReleaseCounts ==
    ASSUME Inv, NEW t \in Thread, NEW m \in Mutex, pc[t] = "run", owner[m] = t
    PROVE  /\ hold[m] \in 1 .. HoldRange - 1
           /\ (hold[m] - 1) % HoldRange = hold[m] - 1
           /\ taken[t] \in Seq(Mutex) /\ taken[t] # << >>
           /\ Released(taken[t], m) \in Seq(Mutex)
           /\ Len(Released(taken[t], m)) = Len(taken[t]) - 1
           /\ Len(taken[t]) \in Nat /\ Len(taken[t]) > 0
           /\ \A k \in Mutex : Count(Released(taken[t], m), k) =
                 IF k = m THEN hold[m] - 1 ELSE IF owner[k] = t THEN hold[k] ELSE 0
  <1>1. hold[m] \in 0 .. HoldRange - 1 /\ taken[t] \in Seq(Mutex)
    BY DEF Inv, TypeOK
  <1>2. hold[m] > 0 /\ m \in ToSet(taken[t]) /\ taken[t] # << >>
    BY RunHolds
  <1>3. hold[m] \in 1 .. HoldRange - 1 /\ (hold[m] - 1) % HoldRange = hold[m] - 1
    <2>1. hold[m] - 1 \in 0 .. HoldRange - 1
      BY <1>1, <1>2, MutexAssumption
    <2>2. (hold[m] - 1) % HoldRange = hold[m] - 1
      BY <2>1, MutexAssumption
    <2> QED BY <1>1, <1>2, <2>2, MutexAssumption
  <1>4. /\ Released(taken[t], m) \in Seq(Mutex)
        /\ Len(Released(taken[t], m)) = Len(taken[t]) - 1
    BY <1>1, <1>2, CountReleased
  <1>5. ASSUME NEW k \in Mutex
        PROVE  Count(Released(taken[t], m), k) =
                 IF k = m THEN hold[m] - 1 ELSE IF owner[k] = t THEN hold[k] ELSE 0
    <2>1. Count(Released(taken[t], m), k) =
             IF m = k THEN Count(taken[t], k) - 1 ELSE Count(taken[t], k)
      BY <1>1, <1>2, CountReleased
    <2>2. Count(taken[t], k) = IF t = owner[k] THEN hold[k] ELSE 0
      BY RunHolds
    <2> QED BY <2>1, <2>2
  <1>6. Len(taken[t]) \in Nat /\ Len(taken[t]) > 0
    BY <1>1, <1>2
  <1> QED BY <1>1, <1>2, <1>3, <1>4, <1>5, <1>6

\* Nested releases: the outermost mutex stays, unless it is the one that is
\* given up last.
LEMMA ReleaseOutermost ==
    ASSUME Inv, NEW t \in Thread, NEW m \in Mutex, pc[t] = "run", owner[m] = t,
           m = Last(taken[t])
    PROVE  /\ Released(taken[t], m) # << >> =>
                 /\ Released(taken[t], m)[1] = taken[t][1]
                 /\ taken[t][1] \in Mutex
                 /\ owner[taken[t][1]] = t
                 /\ hold[m] = 1 => taken[t][1] # m
           /\ Released(taken[t], m) = << >> =>
                 /\ taken[t][1] = m
                 /\ \A k \in Mutex : owner[k] = t => k = m
  <1> DEFINE w == Released(taken[t], m)
  <1>1. /\ taken[t] \in Seq(Mutex) /\ taken[t] # << >> /\ w \in Seq(Mutex)
        /\ Len(w) = Len(taken[t]) - 1
        /\ Len(taken[t]) \in Nat /\ Len(taken[t]) > 0
        /\ \A k \in Mutex : Count(w, k) =
              IF k = m THEN hold[m] - 1 ELSE IF owner[k] = t THEN hold[k] ELSE 0
    BY ReleaseCounts
  <1>2. \A i \in 1 .. Len(taken[t]) - 1 : w[i] = taken[t][i]
    BY <1>1, ReleasedLast
  <1> HIDE DEF w
  <1>3. ASSUME w # << >>
        PROVE  /\ w[1] = taken[t][1] /\ taken[t][1] \in Mutex /\ owner[taken[t][1]] = t
               /\ hold[m] = 1 => taken[t][1] # m
    <2>1. Len(w) > 0 /\ 1 \in 1 .. Len(taken[t]) - 1
      BY <1>1, <1>3
    <2>2. w[1] = taken[t][1] /\ w[1] \in Mutex /\ w[1] \in ToSet(w)
      BY <1>1, <1>2, <2>1, ListIndices
    <2>3. Count(w, w[1]) # 0
      BY <1>1, <2>2, CountType
    <2>4. hold[m] = 1 => w[1] # m
      BY <1>1, <2>2, <2>3
    <2>5. owner[w[1]] = t
      BY <1>1, <2>2, <2>3
    <2> QED BY <2>2, <2>4, <2>5
  <1>4. ASSUME w = << >>
        PROVE  taken[t][1] = m /\ \A k \in Mutex : owner[k] = t => k = m
    <2>1. Len(taken[t]) = 1
      BY <1>1, <1>4
    <2>2. taken[t][1] = m
      BY <2>1 DEF Last
    <2>3. ASSUME NEW k \in Mutex, owner[k] = t, k # m PROVE FALSE
      <3>1. Count(w, k) = 0
        BY <1>1, <1>4, CountType, EmptyList
      <3>2. hold[k] > 0
        BY <2>3, RunHolds
      <3> QED BY <1>1, <2>3, <3>1, <3>2
    <2> QED BY <2>2, <2>3
  <1> QED BY <1>3, <1>4 DEF w

\* A release by a thread that is not the owner.
LEMMA ReleaseRefusedInv ==
    ASSUME Inv, NEW t \in Thread, NEW m \in Mutex, pc[t] = "run", ReleaseRefused(t, m),
           UNCHANGED <<taken, pc, arg, sig, delivering, used>>
    PROVE  Inv'
  <1>1. /\ error' = [u \in Thread |-> IF u \in {t} THEN "ERROR" ELSE error[u]]
        /\ UNCHANGED <<value, owner, original_priority, hold, suspend_thread,
                       current_priority, stat, timer, pc, arg, taken>>
    BY DEF ReleaseRefused, Fail, mutexvars
  <1>2. TypeOK'
    BY <1>1 DEF Inv, TypeOK, Error
  <1>3. Held' /\ Lists' /\ Depth' /\ Restores' /\ InOrder' /\ Inherits'
    BY <1>1 DEF Inv, Held, Lists, Depth, Restores, Outermost, InOrder, Inherits
  <1>4. Waits'
    BY <1>1 DEF Inv, Waits
  <1>5. Exclusive'
    <2>1. \A u \in Thread, k \in Mutex : Granted(u, k)' <=> Granted(u, k)
      BY <1>1 DEF Granted
    <2> QED BY <1>1, <2>1, ExclusiveCount DEF Inv
  <1> QED BY <1>2, <1>3, <1>4, <1>5 DEF Inv, HoldFits

\* A release of a mutex that the thread has taken more than once.
LEMMA ReleaseInnerInv ==
    ASSUME Inv, NEW t \in Thread, NEW m \in Mutex, pc[t] = "run", ReleaseInner(t, m),
           Nested => m = Last(taken[t]),
           taken' = [taken EXCEPT ![t] = Released(taken[t], m)],
           UNCHANGED <<pc, arg, sig, delivering, used>>
    PROVE  Inv'
  <1>1. /\ owner[m] = t /\ (hold[m] - 1) % HoldRange # 0
        /\ hold' = [hold EXCEPT ![m] = (hold[m] - 1) % HoldRange]
        /\ UNCHANGED <<value, owner, original_priority, suspend_thread, current_priority,
                       stat, timer, error>>
    BY DEF ReleaseInner
  <1>2. /\ hold[m] \in 1 .. HoldRange - 1 /\ (hold[m] - 1) % HoldRange = hold[m] - 1
        /\ taken[t] \in Seq(Mutex) /\ taken[t] # << >>
        /\ Released(taken[t], m) \in Seq(Mutex)
        /\ Len(Released(taken[t], m)) = Len(taken[t]) - 1
        /\ Len(taken[t]) \in Nat /\ Len(taken[t]) > 0
        /\ \A k \in Mutex : Count(Released(taken[t], m), k) =
                 IF k = m THEN hold[m] - 1 ELSE IF owner[k] = t THEN hold[k] ELSE 0
    BY <1>1, ReleaseCounts
  <1>3. \A k \in Mutex : hold'[k] = IF k = m THEN hold[m] - 1 ELSE hold[k]
    BY <1>1, <1>2 DEF Inv, TypeOK
  <1>4. hold[m] - 1 \in 1 .. HoldRange - 1
    <2>1. hold[m] - 1 # 0
      BY <1>1, <1>2, Zenon
    <2>2. hold[m] \in 1 .. HoldRange - 1 /\ HoldRange \in Nat
      BY <1>2, MutexAssumption
    <2> QED BY <2>1, <2>2
  <1>5. TypeOK'
    <2>1. hold' \in [Mutex -> 0 .. HoldRange - 1]
      <3>1. hold \in [Mutex -> 0 .. HoldRange - 1]
        BY DEF Inv, TypeOK
      <3>2. hold[m] - 1 \in 0 .. HoldRange - 1
        BY <1>4, MutexAssumption
      <3>3. hold' = [hold EXCEPT ![m] = hold[m] - 1]
        BY <1>1, <1>2, Zenon
      <3> QED BY <3>1, <3>2, <3>3
    <2> QED BY <1>1, <1>2, <2>1 DEF Inv, TypeOK
  <1>6. Held'
    BY <1>1, <1>3, <1>4 DEF Inv, Held
  <1>7. Lists' /\ Waits' /\ InOrder' /\ Inherits'
    BY <1>1 DEF Inv, Lists, Waits, InOrder, Inherits
  <1>8. Depth'
    <2>1. \A u \in Thread : u # t => taken'[u] = taken[u]
      BY DEF Inv, TypeOK
    <2>2. taken'[t] = Released(taken[t], m)
      BY DEF Inv, TypeOK
    <2>3. Len(taken'[t]) <= MaxTaken
      BY <1>2, <2>2, MutexAssumption DEF Inv, Depth
    <2> QED BY <2>1, <2>3 DEF Inv, Depth
  <1>9. Exclusive'
    <2> SUFFICES ASSUME NEW k \in Mutex, NEW u \in Thread
                 PROVE  Count(taken'[u], k) + (IF Granted(u, k)' THEN 1 ELSE 0) =
                           IF u = owner'[k] THEN hold'[k] ELSE 0
      BY ExclusiveCount
    <2>0. Granted(u, k)' <=> Granted(u, k)
      BY <1>1 DEF Granted
    <2>1. CASE u # t
      <3>1. taken'[u] = taken[u]
        BY <2>1 DEF Inv, TypeOK
      <3> QED BY <1>1, <1>3, <2>0, <2>1, <3>1, ExclusiveCount DEF Inv
    <2>2. CASE u = t
      <3>1. taken'[t] = Released(taken[t], m) /\ ~Granted(t, k)
        BY DEF Inv, TypeOK, Granted
      <3>2. hold[k] \in Nat
        BY MutexAssumption DEF Inv, TypeOK
      <3> QED BY <1>1, <1>2, <1>3, <2>0, <2>2, <3>1, <3>2
    <2> QED BY <2>1, <2>2
  <1>10. Restores'
    <2>1. ASSUME Nested, NEW u \in Thread PROVE Outermost(u)' = Outermost(u)
      <3>1. CASE u # t
        BY <3>1 DEF Inv, TypeOK, Outermost
      <3>2. CASE u = t
        <4>1. Released(taken[t], m) # << >>
          <5>1. Count(Released(taken[t], m), m) # 0
            BY <1>2, <1>4
          <5> QED BY <1>2, <5>1, CountType, EmptyList
        <4>2. Released(taken[t], m)[1] = taken[t][1]
          BY <1>1, <2>1, <4>1, ReleaseOutermost
        <4>3. taken'[t] = Released(taken[t], m)
          BY DEF Inv, TypeOK
        <4> QED BY <1>2, <3>2, <4>1, <4>2, <4>3 DEF Outermost
      <3> QED BY <3>1, <3>2
    <2> QED BY <1>1, <2>1 DEF Inv, Restores
  <1> QED BY <1>5, <1>6, <1>7, <1>8, <1>9, <1>10 DEF Inv, HoldFits

\* What giving up a mutex does to the thread t that had it, whether the mutex
\* becomes free or gets the owner o.
LEMMA GivenUp ==
    ASSUME Inv, NEW t \in Thread, NEW m \in Mutex, pc[t] = "run", owner[m] = t,
           (hold[m] - 1) % HoldRange = 0,
           Nested => m = Last(taken[t]),
           taken' = [taken EXCEPT ![t] = Released(taken[t], m)],
           current_priority' = [current_priority EXCEPT ![t] = original_priority[m]],
           NEW o \in Thread \cup {NoThread}, o # t,
           owner' = [owner EXCEPT ![m] = o],
           UNCHANGED <<pc, arg, error, used>>
    PROVE  /\ hold[m] = 1
           /\ taken' \in [Thread -> Seq(Mutex)] /\ Depth'
           /\ current_priority' \in [Thread -> 0 .. RT_PRIORITY_NONE - 1]
           /\ \A k \in Mutex : /\ Count(taken'[t], k) = IF owner'[k] = t THEN hold[k] ELSE 0
                               /\ ~Granted(t, k)'
           /\ Nested => IF \E k \in Mutex : owner'[k] = t
                        THEN /\ Outermost(t)' \in Mutex /\ Outermost(t)' # m
                             /\ owner'[Outermost(t)'] = t
                             /\ original_priority[Outermost(t)'] = Priority[t]
                        ELSE current_priority'[t] = Priority[t]
  <1>1. /\ hold[m] \in 1 .. HoldRange - 1 /\ (hold[m] - 1) % HoldRange = hold[m] - 1
        /\ taken[t] \in Seq(Mutex) /\ taken[t] # << >>
        /\ Released(taken[t], m) \in Seq(Mutex)
        /\ Len(Released(taken[t], m)) = Len(taken[t]) - 1
        /\ Len(taken[t]) \in Nat /\ Len(taken[t]) > 0
        /\ \A k \in Mutex : Count(Released(taken[t], m), k) =
                 IF k = m THEN hold[m] - 1 ELSE IF owner[k] = t THEN hold[k] ELSE 0
    BY ReleaseCounts
  <1>2. hold[m] = 1
    <2>1. hold[m] - 1 = 0
      BY <1>1, Zenon
    <2>2. hold[m] \in Int
      BY <1>1
    <2> QED BY <2>1, <2>2
  <1>3. taken'[t] = Released(taken[t], m) /\ \A u \in Thread : u # t => taken'[u] = taken[u]
    BY DEF Inv, TypeOK
  <1>4. \A k \in Mutex : owner'[k] = IF k = m THEN o ELSE owner[k]
    BY DEF Inv, TypeOK
  <1>5. taken' \in [Thread -> Seq(Mutex)]
    BY <1>1 DEF Inv, TypeOK
  <1>6. Depth'
    <2>1. Len(taken'[t]) <= MaxTaken
      BY <1>1, <1>3, MutexAssumption DEF Inv, Depth
    <2> QED BY <1>3, <2>1 DEF Inv, Depth
  <1>7. original_priority[m] \in 0 .. RT_PRIORITY_NONE - 1
    <2>1. original_priority[m] \in 0 .. RT_PRIORITY_NONE
      BY DEF Inv, TypeOK
    <2>2. original_priority[m] < RT_PRIORITY_NONE
      BY MutexAssumption DEF Inv, Held
    <2> QED BY <2>1, <2>2, UrgencyRange
  <1>8. current_priority' \in [Thread -> 0 .. RT_PRIORITY_NONE - 1]
    BY <1>7 DEF Inv, TypeOK
  <1>9. ASSUME NEW k \in Mutex
        PROVE  /\ Count(taken'[t], k) = IF owner'[k] = t THEN hold[k] ELSE 0
               /\ ~Granted(t, k)'
    BY <1>1, <1>2, <1>3, <1>4 DEF Granted
  <1>10. ASSUME Nested
         PROVE  IF \E k \in Mutex : owner'[k] = t
                THEN /\ Outermost(t)' \in Mutex /\ Outermost(t)' # m
                     /\ owner'[Outermost(t)'] = t
                     /\ original_priority[Outermost(t)'] = Priority[t]
                ELSE current_priority'[t] = Priority[t]
    <2>1. Outermost(t) = taken[t][1] /\ original_priority[Outermost(t)] = Priority[t]
      BY <1>1, <1>10 DEF Inv, Restores, Outermost
    <2>2. CASE Released(taken[t], m) # << >>
      <3>1. /\ Released(taken[t], m)[1] = taken[t][1] /\ taken[t][1] \in Mutex
            /\ owner[taken[t][1]] = t /\ taken[t][1] # m
        BY <1>2, <1>10, <2>2, ReleaseOutermost
      <3>2. Outermost(t)' = taken[t][1]
        BY <1>3, <2>2, <3>1 DEF Outermost
      <3> QED BY <1>4, <2>1, <3>1, <3>2
    <2>3. CASE Released(taken[t], m) = << >>
      <3>1. taken[t][1] = m /\ \A k \in Mutex : owner[k] = t => k = m
        BY <1>10, <2>3, ReleaseOutermost
      <3>2. ~\E k \in Mutex : owner'[k] = t
        BY <1>4, <3>1
      <3>3. current_priority'[t] = original_priority[m]
        BY DEF Inv, TypeOK
      <3> QED BY <2>1, <3>1, <3>2, <3>3
    <2> QED BY <2>2, <2>3
  <1> QED BY <1>2, <1>5, <1>6, <1>8, <1>9, <1>10

\* The last release of a mutex that nobody waits for.
LEMMA ReleaseFreeInv ==
    ASSUME Inv, NEW t \in Thread, NEW m \in Mutex, pc[t] = "run", ReleaseFree(t, m),
           Nested => m = Last(taken[t]),
           taken' = [taken EXCEPT ![t] = Released(taken[t], m)],
           UNCHANGED <<pc, arg, sig, delivering, used>>
    PROVE  Inv'
  <1>1. /\ owner[m] = t /\ (hold[m] - 1) % HoldRange = 0
        /\ suspend_thread[m] = << >>
        /\ hold' = [hold EXCEPT ![m] = 0]
        /\ current_priority' = [current_priority EXCEPT ![t] = original_priority[m]]
        /\ value' = [value EXCEPT ![m] = value[m] + 1]
        /\ owner' = [owner EXCEPT ![m] = NoThread]
        /\ original_priority' = [original_priority EXCEPT ![m] = RT_PRIORITY_NONE]
        /\ UNCHANGED <<suspend_thread, stat, timer, error>>
    BY DEF ReleaseFree
  <1>2. NoThread \in Thread \cup {NoThread} /\ NoThread # t
    BY MutexAssumption
  <1>3. /\ hold[m] = 1
        /\ taken' \in [Thread -> Seq(Mutex)] /\ Depth'
        /\ current_priority' \in [Thread -> 0 .. RT_PRIORITY_NONE - 1]
        /\ \A k \in Mutex : /\ Count(taken'[t], k) = IF owner'[k] = t THEN hold[k] ELSE 0
                            /\ ~Granted(t, k)'
        /\ Nested => IF \E k \in Mutex : owner'[k] = t
                     THEN /\ Outermost(t)' \in Mutex /\ Outermost(t)' # m
                          /\ owner'[Outermost(t)'] = t
                          /\ original_priority[Outermost(t)'] = Priority[t]
                     ELSE current_priority'[t] = Priority[t]
    BY <1>1, <1>2, GivenUp
  <1>4. value[m] = 0 /\ stat[t] = "READY"
    BY <1>1, <1>2 DEF Inv, TypeOK, Held, Waits
  <1>5. \A k \in Mutex :
           /\ owner'[k] = IF k = m THEN NoThread ELSE owner[k]
           /\ hold'[k] = IF k = m THEN 0 ELSE hold[k]
           /\ value'[k] = IF k = m THEN 1 ELSE value[k]
           /\ original_priority'[k] = IF k = m THEN RT_PRIORITY_NONE ELSE original_priority[k]
    BY <1>1, <1>4 DEF Inv, TypeOK
  <1>6. TypeOK'
    <2>1. /\ value' \in [Mutex -> {0, 1}] /\ owner' \in [Mutex -> Thread \cup {NoThread}]
          /\ hold' \in [Mutex -> 0 .. HoldRange - 1]
          /\ original_priority' \in [Mutex -> 0 .. RT_PRIORITY_NONE]
      BY <1>1, <1>4, UrgencyRange, MutexAssumption DEF Inv, TypeOK
    <2> QED BY <1>1, <1>3, <2>1 DEF Inv, TypeOK
  <1>7. Held'
    BY <1>1, <1>5 DEF Inv, Held
  <1>8. Lists'
    BY <1>1 DEF Inv, Lists
  <1>9. Waits'
    <2> SUFFICES ASSUME NEW u \in Thread, stat[u] = "SUSPEND" PROVE owner'[arg[u]] # u
      BY <1>1 DEF Inv, Waits
    <2>1. arg[u] \in Mutex /\ owner[arg[u]] # u
      BY SuspendedWaits
    <2> QED BY <1>5, <2>1, MutexAssumption
  <1>10. Exclusive'
    <2> SUFFICES ASSUME NEW k \in Mutex, NEW u \in Thread
                 PROVE  Count(taken'[u], k) + (IF Granted(u, k)' THEN 1 ELSE 0) =
                           IF u = owner'[k] THEN hold'[k] ELSE 0
      BY ExclusiveCount
    <2>0. hold[k] \in Nat
      BY MutexAssumption DEF Inv, TypeOK
    <2>1. CASE u # t
      <3>1. taken'[u] = taken[u] /\ (Granted(u, k)' <=> Granted(u, k))
        BY <1>1, <2>1 DEF Inv, TypeOK, Granted
      <3>2. Count(taken[u], k) + (IF Granted(u, k) THEN 1 ELSE 0) =
               IF u = owner[k] THEN hold[k] ELSE 0
        BY ExclusiveCount DEF Inv
      <3>3. u # NoThread
        BY MutexAssumption
      <3> QED BY <1>1, <1>5, <2>1, <3>1, <3>2, <3>3
    <2>2. CASE u = t
      BY <1>2, <1>3, <1>5, <2>0, <2>2
    <2> QED BY <2>1, <2>2
  <1>11. Restores'
    <2> SUFFICES ASSUME Nested, NEW u \in Thread
                 PROVE  IF \E k \in Mutex : owner'[k] = u
                        THEN /\ owner'[Outermost(u)'] = u
                             /\ original_priority'[Outermost(u)'] = Priority[u]
                        ELSE current_priority'[u] = Priority[u]
      BY DEF Restores
    <2>1. CASE u = t
      BY <1>3, <1>5, <2>1
    <2>2. CASE u # t
      <3>1. IF \E k \in Mutex : owner[k] = u
            THEN owner[Outermost(u)] = u /\ original_priority[Outermost(u)] = Priority[u]
            ELSE current_priority[u] = Priority[u]
        BY DEF Inv, Restores
      <3>2. Outermost(u)' = Outermost(u) /\ current_priority'[u] = current_priority[u]
        BY <1>1, <2>2 DEF Inv, TypeOK, Outermost
      <3>3. owner'[Outermost(u)] = u <=> owner[Outermost(u)] = u
        BY <1>1, <1>2, <2>2, MutexAssumption DEF Inv, TypeOK
      <3>4. owner[Outermost(u)] = u => original_priority'[Outermost(u)] = original_priority[Outermost(u)]
        BY <1>1, <2>2 DEF Inv, TypeOK
      <3>5. (\E k \in Mutex : owner'[k] = u) <=> (\E k \in Mutex : owner[k] = u)
        BY <1>1, <1>5, <2>2, MutexAssumption
      <3> QED BY <3>1, <3>2, <3>3, <3>4, <3>5
    <2> QED BY <2>1, <2>2
  <1>12. ASSUME used.flag = "PRIO", Cardinality(used.mutex) = 1, NEW k \in Mutex
         PROVE  suspend_thread[k] = << >>
    <2> SUFFICES ASSUME suspend_thread[k] # << >> PROVE FALSE
      OBVIOUS
    <2>1. owner[k] # NoThread /\ k # m
      BY <1>1 DEF Inv, Held
    <2> QED BY <1>1, <1>2, <1>12, <2>1, OneUsed
  <1>13. InOrder' /\ Inherits'
    BY <1>1, <1>12, EmptyList DEF InOrder, Inherits
  <1> QED BY <1>3, <1>6, <1>7, <1>8, <1>9, <1>10, <1>11, <1>13 DEF Inv, HoldFits

\* The last release of a mutex that threads wait for: the first of them is the
\* new owner.
LEMMA HandOverInv ==
    ASSUME Inv, NEW t \in Thread, NEW m \in Mutex, pc[t] = "run", HandOver(t, m),
           Nested => m = Last(taken[t]),
           taken' = [taken EXCEPT ![t] = Released(taken[t], m)],
           UNCHANGED <<pc, arg, sig, delivering, used>>
    PROVE  Inv'
  <1> DEFINE n == Head(suspend_thread[m])
  <1>1. /\ owner[m] = t /\ (hold[m] - 1) % HoldRange = 0
        /\ suspend_thread[m] # << >>
        /\ current_priority' = [current_priority EXCEPT ![t] = original_priority[m]]
        /\ owner' = [owner EXCEPT ![m] = n]
        /\ original_priority' = [original_priority EXCEPT ![m] = current_priority[n]]
        /\ hold' = [hold EXCEPT ![m] = 1]
        /\ suspend_thread' = [suspend_thread EXCEPT ![m] = Tail(suspend_thread[m])]
        /\ stat' = [u \in Thread |-> IF u \in {n} THEN "READY" ELSE stat[u]]
        /\ timer' = timer \ {n}
        /\ UNCHANGED <<value, error>>
    BY DEF HandOver, Resume
  <1>2. suspend_thread[m] \in Seq(Thread) /\ IsInjective(suspend_thread[m])
    BY DEF Inv, TypeOK, Lists
  <1>3. /\ n \in Thread /\ n \in ToSet(suspend_thread[m])
        /\ Tail(suspend_thread[m]) \in Seq(Thread)
        /\ IsInjective(Tail(suspend_thread[m]))
        /\ ToSet(Tail(suspend_thread[m])) = ToSet(suspend_thread[m]) \ {n}
    BY <1>1, <1>2, TailList
  <1>4. \A R : Ordered(suspend_thread[m], R) =>
                 /\ Ordered(Tail(suspend_thread[m]), R)
                 /\ \A y \in ToSet(Tail(suspend_thread[m])) : <<n, y>> \in R
    BY <1>1, <1>2, TailList
  <1> HIDE DEF n
  <1>5. stat[n] = "SUSPEND" /\ arg[n] = m
    BY <1>3 DEF Inv, Lists
  <1>6. /\ n # t /\ pc[n] \in {"schedule", "off"} /\ error[n] = "EOK"
        /\ Count(taken[n], m) = 0 /\ \A k \in Mutex : ~Granted(n, k)
    BY <1>1, <1>3, <1>5, SuspendedWaits DEF Inv, Waits
  <1>7. /\ hold[m] = 1
        /\ taken' \in [Thread -> Seq(Mutex)] /\ Depth'
        /\ current_priority' \in [Thread -> 0 .. RT_PRIORITY_NONE - 1]
        /\ \A k \in Mutex : /\ Count(taken'[t], k) = IF owner'[k] = t THEN hold[k] ELSE 0
                            /\ ~Granted(t, k)'
        /\ Nested => IF \E k \in Mutex : owner'[k] = t
                     THEN /\ Outermost(t)' \in Mutex /\ Outermost(t)' # m
                          /\ owner'[Outermost(t)'] = t
                          /\ original_priority[Outermost(t)'] = Priority[t]
                     ELSE current_priority'[t] = Priority[t]
    <2>1. n \in Thread \cup {NoThread} /\ n # t
      BY <1>3, <1>6
    <2>2. UNCHANGED <<pc, arg, error, used>>
      BY <1>1
    <2> QED BY <1>1, <2>1, <2>2, GivenUp
  <1>8. \A k \in Mutex :
           /\ owner'[k] = IF k = m THEN n ELSE owner[k]
           /\ hold'[k] = IF k = m THEN 1 ELSE hold[k]
           /\ original_priority'[k] = IF k = m THEN current_priority[n] ELSE original_priority[k]
           /\ suspend_thread'[k] = IF k = m THEN Tail(suspend_thread[m]) ELSE suspend_thread[k]
    BY <1>1 DEF Inv, TypeOK
  <1>9. \A u \in Thread : /\ stat'[u] = IF u = n THEN "READY" ELSE stat[u]
                          /\ u # t => taken'[u] = taken[u]
                          /\ u # t => current_priority'[u] = current_priority[u]
    BY <1>1 DEF Inv, TypeOK
  <1>10. /\ current_priority[n] \in 0 .. RT_PRIORITY_NONE
         /\ current_priority[n] < RT_PRIORITY_NONE
    BY <1>3, UrgencyRange DEF Inv, TypeOK
  <1>11. TypeOK'
    <2>1. hold' \in [Mutex -> 0 .. HoldRange - 1]
      <3>1. hold[m] \in 0 .. HoldRange - 1
        BY DEF Inv, TypeOK
      <3> QED BY <1>1, <1>7, <3>1 DEF Inv, TypeOK
    <2>2. /\ owner' \in [Mutex -> Thread \cup {NoThread}]
          /\ original_priority' \in [Mutex -> 0 .. RT_PRIORITY_NONE]
          /\ suspend_thread' \in [Mutex -> Seq(Thread)]
      BY <1>1, <1>3, <1>10 DEF Inv, TypeOK
    <2>3. stat' \in [Thread -> {"READY", "SUSPEND"}] /\ timer' \subseteq Thread
      BY <1>1 DEF Inv, TypeOK
    <2> QED BY <1>1, <1>7, <2>1, <2>2, <2>3 DEF Inv, TypeOK
  <1>12. Held'
    <2> SUFFICES ASSUME NEW k \in Mutex
                 PROVE  /\ owner'[k] = NoThread =>
                              value'[k] = 1 /\ hold'[k] = 0 /\ suspend_thread'[k] = << >>
                        /\ owner'[k] # NoThread =>
                              /\ value'[k] = 0 /\ hold'[k] > 0 /\ k \in used'.mutex
                              /\ original_priority'[k] < RT_PRIORITY_NONE
      BY DEF Held
    <2>1. CASE k = m
      <3>1. value[m] = 0 /\ m \in used.mutex /\ n # NoThread
        BY <1>1, <1>3, MutexAssumption DEF Inv, Held
      <3> QED BY <1>1, <1>8, <1>10, <2>1, <3>1
    <2>2. CASE k # m
      BY <1>1, <1>8, <2>2 DEF Inv, Held
    <2> QED BY <2>1, <2>2
  <1>13. Lists'
    <2>1. ASSUME NEW k \in Mutex
          PROVE  /\ IsInjective(suspend_thread'[k])
                 /\ ToSet(suspend_thread'[k]) =
                       {u \in Thread : stat'[u] = "SUSPEND" /\ arg[u] = k}
      <3>1. /\ ToSet(suspend_thread[k]) = {u \in Thread : stat[u] = "SUSPEND" /\ arg[u] = k}
            /\ IsInjective(suspend_thread[k])
        BY DEF Inv, Lists
      <3>2. CASE k = m
        BY <1>3, <1>8, <1>9, <3>1, <3>2
      <3>3. CASE k # m
        BY <1>5, <1>8, <1>9, <3>1, <3>3
      <3> QED BY <3>2, <3>3
    <2>2. \A u \in timer' : stat'[u] = "SUSPEND"
      BY <1>1, <1>9 DEF Inv, TypeOK, Lists
    <2> QED BY <2>1, <2>2 DEF Lists
  <1>14. Waits'
    <2> SUFFICES ASSUME NEW u \in Thread, stat'[u] = "SUSPEND"
                 PROVE  pc[u] \in {"schedule", "off"} /\ error[u] = "EOK" /\ owner'[arg[u]] # u
      BY <1>1 DEF Waits
    <2>1. stat[u] = "SUSPEND" /\ u # n
      BY <1>9
    <2>2. arg[u] \in Mutex /\ owner[arg[u]] # u
      BY <2>1, SuspendedWaits
    <2> QED BY <1>8, <2>1, <2>2 DEF Inv, Waits
  <1>15. Exclusive'
    <2> SUFFICES ASSUME NEW k \in Mutex, NEW u \in Thread
                 PROVE  Count(taken'[u], k) + (IF Granted(u, k)' THEN 1 ELSE 0) =
                           IF u = owner'[k] THEN hold'[k] ELSE 0
      BY ExclusiveCount
    <2>0. hold[k] \in Nat
      BY MutexAssumption DEF Inv, TypeOK
    <2>1. Count(taken[u], k) + (IF Granted(u, k) THEN 1 ELSE 0) =
             IF u = owner[k] THEN hold[k] ELSE 0
      BY ExclusiveCount DEF Inv
    <2>2. CASE u = t
      BY <1>6, <1>7, <1>8, <2>0, <2>2
    <2>3. CASE u = n
      <3>1. Granted(u, k)' <=> k = m
        <4>1. pc[u] # "run" /\ error[u] = "EOK" /\ arg[u] = m /\ stat'[u] = "READY"
          BY <1>5, <1>6, <1>9, <2>3
        <4> QED BY <1>1, <4>1 DEF Granted
      <3>2. taken'[u] = taken[u] /\ ~Granted(u, k)
        BY <1>6, <1>9, <2>3
      <3>3. Count(taken[u], k) \in Nat
        BY CountType DEF Inv, TypeOK
      <3>4. CASE k = m
        BY <1>6, <1>8, <2>3, <3>1, <3>2, <3>4
      <3>5. CASE k # m
        BY <1>8, <2>1, <2>3, <3>1, <3>2, <3>3, <3>5
      <3> QED BY <3>4, <3>5
    <2>4. CASE u # t /\ u # n
      <3>1. taken'[u] = taken[u] /\ (Granted(u, k)' <=> Granted(u, k))
        BY <1>1, <1>9, <2>4 DEF Granted
      <3> QED BY <1>1, <1>8, <2>1, <2>4, <3>1
    <2> QED BY <2>2, <2>3, <2>4
  <1>16. Restores'
    <2> SUFFICES ASSUME Nested, NEW u \in Thread
                 PROVE  IF \E k \in Mutex : owner'[k] = u
                        THEN /\ owner'[Outermost(u)'] = u
                             /\ original_priority'[Outermost(u)'] = Priority[u]
                        ELSE current_priority'[u] = Priority[u]
      BY DEF Restores
    <2>1. IF \E k \in Mutex : owner[k] = u
          THEN owner[Outermost(u)] = u /\ original_priority[Outermost(u)] = Priority[u]
          ELSE current_priority[u] = Priority[u]
      BY DEF Inv, Restores
    <2>2. CASE u = t
      BY <1>7, <1>8, <2>2
    <2>3. CASE u # t /\ u # n
      <3>1. Outermost(u)' = Outermost(u) /\ current_priority'[u] = current_priority[u]
        BY <1>9, <2>3 DEF Outermost
      <3>2. owner'[Outermost(u)] = u <=> owner[Outermost(u)] = u
        <4>1. Outermost(u) \in Mutex
          <5>1. taken[u] \in Seq(Mutex) /\ arg[u] \in Mutex
            BY DEF Inv, TypeOK
          <5>2. taken[u] # << >> => taken[u][1] \in Mutex
            BY <5>1
          <5> QED BY <5>1, <5>2 DEF Outermost
        <4> QED BY <1>1, <1>8, <2>3, <4>1
      <3>3. owner[Outermost(u)] = u => original_priority'[Outermost(u)] = original_priority[Outermost(u)]
        BY <1>1, <2>3 DEF Inv, TypeOK
      <3>4. (\E k \in Mutex : owner'[k] = u) <=> (\E k \in Mutex : owner[k] = u)
        BY <1>1, <1>8, <2>3
      <3> QED BY <2>1, <3>1, <3>2, <3>3, <3>4
    <2>4. CASE u = n
      <3>1. taken'[u] = taken[u] /\ taken[u] \in Seq(Mutex) /\ Outermost(u)' = Outermost(u)
        <4>1. taken'[u] = taken[u] /\ taken[u] \in Seq(Mutex)
          BY <1>6, <1>9, <2>4 DEF Inv, TypeOK
        <4> QED BY <4>1 DEF Outermost
      <3>2. \A k \in Mutex : Count(taken[u], k) \in Nat
        BY <3>1, CountType
      <3>3. \A k \in Mutex : Count(taken[u], k) = IF u = owner[k] THEN hold[k] ELSE 0
        BY <1>6, <2>4, <3>2, ExclusiveCount DEF Inv
      <3>4. owner'[m] = u
        BY <1>8, <2>4
      <3>5. CASE taken[u] = << >>
        <4>1. ASSUME NEW k \in Mutex PROVE owner[k] # u
          <5>1. Count(taken[u], k) = 0
            BY <3>1, <3>5, CountType, EmptyList
          <5>2. owner[k] = u => hold[k] > 0
            BY MutexAssumption DEF Inv, Held
          <5>3. hold[k] \in Nat
            BY MutexAssumption DEF Inv, TypeOK
          <5> QED BY <3>3, <5>1, <5>2, <5>3
        <4>2. Outermost(u)' = m
          BY <1>5, <2>4, <3>1, <3>5 DEF Outermost
        <4>3. current_priority[u] = Priority[u]
          BY <2>1, <4>1
        <4>4. original_priority'[m] = Priority[u]
          BY <1>8, <2>4, <4>3
        <4> QED BY <3>4, <4>2, <4>4
      <3>6. CASE taken[u] # << >>
        <4>1. Outermost(u) = taken[u][1] /\ taken[u][1] \in Mutex /\ taken[u][1] \in ToSet(taken[u])
          BY <3>1, <3>6, ListIndices DEF Outermost
        <4>2. owner[taken[u][1]] = u
          <5>1. Count(taken[u], taken[u][1]) # 0
            BY <3>1, <4>1, CountType
          <5> QED BY <3>3, <4>1, <5>1
        <4>3. taken[u][1] # m
          BY <1>1, <1>6, <2>4, <4>2
        <4>4. Outermost(u)' = taken[u][1] /\ owner'[taken[u][1]] = u
          BY <1>8, <3>1, <4>1, <4>2, <4>3
        <4>5. original_priority'[taken[u][1]] = Priority[u]
          BY <1>8, <2>1, <4>1, <4>2, <4>3
        <4> QED BY <4>1, <4>4, <4>5
      <3> QED BY <3>5, <3>6
    <2> QED BY <2>2, <2>3, <2>4
  <1>17. ASSUME used.flag = "PRIO", Cardinality(used.mutex) = 1, NEW k \in Mutex
         PROVE  /\ Ordered(suspend_thread'[k], NotLessUrgent(current_priority'))
                /\ \A u \in ToSet(suspend_thread'[k]) :
                      current_priority'[owner'[k]] <= current_priority'[u]
    <2>1. CASE k # m
      <3>1. suspend_thread[k] = << >>
        <4> SUFFICES ASSUME suspend_thread[k] # << >> PROVE FALSE
          OBVIOUS
        <4>1. owner[k] # NoThread /\ owner[m] # NoThread
          BY <1>1, MutexAssumption DEF Inv, Held
        <4> QED BY <1>17, <2>1, <4>1, OneUsed
      <3> QED BY <1>8, <2>1, <3>1, EmptyList
    <2>2. CASE k = m
      <3> DEFINE w == Tail(suspend_thread[m])
      <3>1. Ordered(suspend_thread[m], NotLessUrgent(current_priority))
        BY <1>17 DEF Inv, InOrder
      <3>2. /\ Ordered(w, NotLessUrgent(current_priority))
            /\ \A y \in ToSet(w) : <<n, y>> \in NotLessUrgent(current_priority)
        BY <1>4, <3>1
      <3>3. \A y \in ToSet(w) : y \in Thread /\ current_priority[n] <= current_priority[y]
        BY <3>2 DEF NotLessUrgent
      <3>4. stat[t] # "SUSPEND"
        BY DEF Inv, Waits
      <3>5. \A y \in ToSet(w) : y # t
        BY <1>3, <3>4 DEF Inv, Lists
      <3>6. \A y \in ToSet(w) : current_priority[y] = current_priority'[y]
        BY <1>9, <3>3, <3>5
      <3>7. Ordered(w, NotLessUrgent(current_priority'))
        BY <1>3, <3>2, <3>6, UrgencySame
      <3>8. current_priority'[n] = current_priority[n] /\ owner'[m] = n
        BY <1>3, <1>6, <1>8, <1>9
      <3> QED BY <1>8, <2>2, <3>3, <3>6, <3>7, <3>8
    <2> QED BY <2>1, <2>2
  <1>18. InOrder' /\ Inherits'
    BY <1>17 DEF InOrder, Inherits
  <1> QED BY <1>7, <1>11, <1>12, <1>13, <1>14, <1>15, <1>16, <1>18 DEF Inv, HoldFits

\* All of rt_mutex_release.
LEMMA ReleaseInv ==
    ASSUME Inv, NEW t \in Thread, NEW m \in Mutex, rt_mutex_release(t, m)
    PROVE  Inv'
  <1>1. pc[t] = "run" /\ UNCHANGED <<pc, arg, sig, delivering, used>>
    BY DEF rt_mutex_release
  <1>2. CASE ReleaseRefused(t, m)
    <2>1. taken' = taken
      BY <1>2 DEF rt_mutex_release, ReleaseRefused
    <2> QED BY <1>1, <1>2, <2>1, ReleaseRefusedInv
  <1>3. CASE ReleaseInner(t, m) \/ ReleaseFree(t, m) \/ HandOver(t, m)
    <2>1. owner[m] = t
      BY <1>3 DEF ReleaseInner, ReleaseFree, HandOver
    <2>2. taken' = [taken EXCEPT ![t] = Released(taken[t], m)]
      BY <2>1 DEF rt_mutex_release
    <2>3. taken[t] # << >>
      BY <1>1, <2>1, RunHolds
    <2>4. Nested => m = Last(taken[t])
      BY <2>3 DEF rt_mutex_release
    <2> QED BY <1>1, <1>3, <2>2, <2>4, ReleaseInnerInv, ReleaseFreeInv, HandOverInv
  <1> QED BY <1>2, <1>3 DEF rt_mutex_release

-----------------------------------------------------------------------------
(* The theorems.                                                           *)

\* Inv is an invariant of the mutexes if no thread takes more of them at a time
\* than mutex->hold can count.
THEOREM Invariance == ASSUME HoldFits PROVE Spec => []Inv
  <1>1. Init => Inv
    BY InitInv
  <1>2. Inv /\ [Next]_vars => Inv'
    <2> SUFFICES ASSUME Inv, [Next]_vars PROVE Inv'
      OBVIOUS
    <2>1. CASE UNCHANGED vars
      <3>1. UNCHANGED <<stat, timer, error, pc, sig, delivering, used, value, owner,
                        original_priority, hold, suspend_thread, current_priority, arg, taken>>
        BY <2>1 DEF vars, waitvars, mutexvars
      <3>2. Exclusive'
        BY <3>1, ExclusiveCount DEF Inv, Granted
      <3> QED BY <3>1, <3>2 DEF Inv, HoldFits, TypeOK, Held, Lists, Waits, Depth, Restores,
                      Outermost, InOrder, Inherits
    <2>2. CASE Next
      <3>1. ASSUME NEW t \in Thread,
                   \/ \E m \in Mutex, time \in used.time[t] : rt_mutex_take(t, m, time)
                   \/ TakeReturns(t) \/ Proceed(t) \/ Timeout(t)
                   \/ \E m \in Mutex : rt_mutex_release(t, m)
            PROVE  Inv'
        BY <3>1, TakeInv, TakeReturnsInv, ProceedInv, TimeoutInv, ReleaseInv
      <3> QED BY <2>2, <3>1 DEF Next
    <2> QED BY <2>1, <2>2
  <1> QED BY <1>1, <1>2, PTL DEF Spec

\* The variables of the mutexes and of the threads keep their types: a release
\* never raises mutex->value above 1, and no thread is given the priority 255.
THEOREM TypeCorrect == ASSUME HoldFits PROVE Spec => []TypeOK
  <1>1. Inv => TypeOK
    BY DEF Inv
  <1> QED BY <1>1, Invariance, PTL

\* Mutual exclusion: the takes that returned RT_EOK, or are about to, are those of
\* the owner, as many as mutex->hold says.
THEOREM MutualExclusion == ASSUME HoldFits PROVE Spec => []Exclusive
  <1>1. Inv => Exclusive
    BY DEF Inv
  <1> QED BY <1>1, Invariance, PTL

\* A thread waits only on the list of a mutex that another thread owns.
THEOREM NobodyStranded == ASSUME HoldFits PROVE Spec => []NoStranded
  <1>1. Inv => NoStranded
    BY SuspendedWaits, MutexAssumption DEF NoStranded
  <1> QED BY <1>1, Invariance, PTL

\* Priority inheritance leaves nothing behind, if threads release in the reverse
\* order of their takes: without a mutex a thread has its own priority.
THEOREM PriorityRestored == ASSUME HoldFits, Nested PROVE Spec => []Restored
  <1>1. Inv => Restored
    BY DEF Inv, Restores, Restored
  <1> QED BY <1>1, Invariance, PTL

\* The owner of a single priority mutex is at least as urgent as all that wait.
THEOREM PriorityInherited == ASSUME HoldFits PROVE Spec => []Inherits
  <1>1. Inv => Inherits
    BY DEF Inv
  <1> QED BY <1>1, Invariance, PTL

=============================================================================
