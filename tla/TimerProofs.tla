----------------------------- MODULE TimerProofs -----------------------------
(***************************************************************************)
(* Proofs about module Timer, for any number of timers, CPUs and threads   *)
(* and any range of the tick.  The inductive invariant Inv joins FlagExact *)
(* and InOrder with what a thread knows of the timer it is starting or     *)
(* stopping, what a check knows of the timer it calls, what is so of a     *)
(* stopped timer, with the distance between the tick and each timeout, and *)
(* with how far a timer can be overdue.                                    *)
(***************************************************************************)
EXTENDS Timer, ListTheorems

\* The timer is on the list, or its owner is about to insert it.
Counted(x) == Listed(x) \/ \E u \in User : call[u] = [at |-> "insert", timer |-> x]

\* Where a thread may be in a call, and the timer of it.
Call == [at : {"run", "tick", "insert", "remove", "clear", "mode"},
         timer : Timer \cup {CHOOSE x \in Timer : TRUE}]

\* Where a CPU is while it has the lock, and all the places it may be at.
Inside == {"loop"} \cup Firing
Places == {"idle", "enter"} \cup Inside

\* The types of what FlagExact leaves out.
Types ==
    /\ rt_timer_list \in Seq(Timer)
    /\ arrival \in Seq(Timer) /\ IsInjective(arrival)
    /\ init_tick \in [Timer -> Nat] /\ \A x \in Timer : init_tick[x] \in InitTick[x]
    /\ left \in [Timer -> Int]
    /\ tardy \subseteq ToSet(rt_timer_list)
    /\ current_tick \in [CPU -> 0 .. RT_TICK_MAX]
    /\ at \in [CPU -> Places]
    /\ call \in [User -> Call]

\* Only its owner is in a call with a timer.  Until the second section of
\* rt_timer_start the timer is off the list and its flag is clear, and from the
\* section of rt_timer_stop on it is off the list.
Calls == \A u \in User : LET x == call[u].timer IN call[u].at # "run" =>
    /\ x \in Timer /\ Owner[x] = u
    /\ call[u].at \in {"tick", "insert", "clear"} => ~Listed(x)
    /\ call[u].at \in {"tick", "insert"} => x \notin activated /\ x \notin stopped
    /\ call[u].at = "mode" => x \in Switched

\* The CPU in the loop has the lock.  The timer that it calls is off the list until
\* it is inserted again, and its owner can at most wait for the lock or switch it.
Checks == \A c \in CPU :
    /\ at[c] \in Inside <=> lock = c
    /\ at[c] \in Firing =>
          /\ fired.timer \in Timer
          /\ at[c] = "set" <=> Listed(fired.timer)
          /\ at[c] = "stop" => fired.timer \in SelfStop
          /\ \A u \in User : call[u].timer = fired.timer =>
                call[u].at \in {"run", "remove", "mode"}

\* A stopped timer: if a check is still busy with it, then because its function
\* has stopped it, and the check has found or will find its flag clear.
Held(x) ==
    /\ ~Listed(x)
    /\ \A c \in CPU : at[c] \in Firing /\ fired.timer = x =>
          /\ x \notin activated /\ x \notin Switched
          /\ at[c] \in {"func", "stop", "clear"}
          /\ at[c] = "clear" => ~fired.active

Holds == \A x \in stopped \ (Switched \cap SelfStop) : x \in Timer => Held(x)

\* A timeout is as many ticks away as there are left.
Clock == \A x \in Timer : Counted(x) =>
    /\ timeout_tick[x] = (tick + left[x]) % TickRange
    /\ left[x] + MaxLate + 1 < Half

\* How late a timer can be.  Between a tick and the end of the check of CPU 0,
\* which sees that tick, there is no further tick.
Late ==
    /\ \A u \in User : call[u].at = "insert" => left[call[u].timer] >= -MaxLate
    /\ \A x \in ToSet(rt_timer_list) :
          IF x \in tardy
          THEN left[x] <= 0 /\ left[x] >= IF at[0] = "idle" THEN -MaxLate ELSE -MaxLate - 1
          ELSE left[x] >= IF at[0] = "idle" THEN 1 ELSE 0
    /\ at[0] # "idle" => current_tick[0] = tick

Inv ==
    /\ Types
    /\ FlagExact
    /\ Calls
    /\ Checks
    /\ Holds
    /\ Clock
    /\ InOrder
    /\ Late

-----------------------------------------------------------------------------
(* Ticks: subtraction modulo the range of the tick.                        *)

\* The range of the tick counter and its half, RT_TICK_MAX / 2.
LEMMA TickFacts ==
    /\ TickRange \in Nat \ {0} /\ Half \in Nat /\ 2 * Half + 1 <= TickRange
    /\ RT_TICK_MAX = TickRange - 1
    /\ MaxLate \in Nat
  <1>1. TickRange \in Nat \ {0} /\ MaxLate \in Nat
    BY TimerAssumption
  <1>2. ASSUME NEW n \in Nat PROVE n \div 2 \in Nat /\ 2 * (n \div 2) <= n
    OBVIOUS
  <1>3. TickRange - 1 \in Nat
    BY <1>1
  <1>4. Half = (TickRange - 1) \div 2 /\ RT_TICK_MAX = TickRange - 1
    BY DEF Half, RT_TICK_MAX
  <1>5. Half \in Nat /\ 2 * Half <= TickRange - 1
    BY <1>2, <1>3, <1>4
  <1> QED BY <1>1, <1>4, <1>5

\* The remainder of what is less than one range away from the values of the tick.
LEMMA Wraps ==
    ASSUME NEW n \in Int, n >= -TickRange, n < 2 * TickRange
    PROVE  /\ n % TickRange \in 0 .. TickRange - 1
           /\ n < 0 => n % TickRange = n + TickRange
           /\ n >= 0 /\ n < TickRange => n % TickRange = n
           /\ n >= TickRange => n % TickRange = n - TickRange
  <1>1. TickRange \in Nat \ {0}
    BY TickFacts
  <1>2. n % TickRange \in 0 .. TickRange - 1
    BY <1>1
  <1>3. ASSUME n < 0 PROVE n % TickRange = n + TickRange
    <2>1. n \in -TickRange .. -1
      BY <1>1, <1>3
    <2> QED BY <1>1, <2>1
  <1>4. ASSUME n >= 0, n < TickRange PROVE n % TickRange = n
    <2>1. n \in 0 .. TickRange - 1
      BY <1>1, <1>4
    <2> QED BY <1>1, <2>1
  <1>5. ASSUME n >= TickRange PROVE n % TickRange = n - TickRange
    <2>1. n \in TickRange .. 2 * TickRange - 1
      BY <1>1, <1>5
    <2> QED BY <1>1, <2>1
  <1> QED BY <1>2, <1>3, <1>4, <1>5

\* A value of the tick, and a timeout that is p ticks away from it.
LEMMA TimeoutOf ==
    ASSUME NEW t \in 0 .. RT_TICK_MAX, NEW p \in Int, -Half < p, p < Half
    PROVE  /\ (t + p) % TickRange \in 0 .. RT_TICK_MAX
           /\ (t + p) % TickRange \in {t + p, t + p + TickRange, t + p - TickRange}
  <1>1. t + p \in Int /\ t + p >= -TickRange /\ t + p < 2 * TickRange
    BY TickFacts
  <1> QED BY <1>1, Wraps, TickFacts

\* rt_timer_check: a timer is due if nothing is left.
LEMMA DueTick ==
    ASSUME NEW t \in 0 .. RT_TICK_MAX, NEW p \in Int, -Half < p, p < Half
    PROVE  Minus(t, (t + p) % TickRange) < Half <=> p <= 0
  <1> DEFINE b == (t + p) % TickRange
  <1>1. b \in 0 .. RT_TICK_MAX /\ b \in {t + p, t + p + TickRange, t + p - TickRange}
    BY TimeoutOf
  <1> HIDE DEF b
  <1>2. t - b \in Int /\ t - b >= -TickRange /\ t - b < 2 * TickRange
    BY <1>1, TickFacts
  <1>3. (t - b) % TickRange \in {t - b, t - b + TickRange} /\ (t - b) % TickRange \in 0 .. TickRange - 1
    BY <1>1, <1>2, Wraps, TickFacts
  <1>4. (t - b) % TickRange < Half <=> p <= 0
    BY <1>1, <1>3, TickFacts
  <1> QED BY <1>4 DEF Minus, b

\* rt_timer_start: the loop finds out which of two timeouts is later.
LEMMA LaterTimeout ==
    ASSUME NEW t \in 0 .. RT_TICK_MAX, NEW p \in Int, NEW q \in Int,
           -Half < p, p < Half, -Half < q, q < Half, p - q < Half, q - p < Half
    PROVE  Minus((t + p) % TickRange, (t + q) % TickRange) \in 1 .. Half - 1 <=> q < p
  <1> DEFINE a == (t + p) % TickRange
             b == (t + q) % TickRange
  <1>1. a \in 0 .. RT_TICK_MAX /\ a \in {t + p, t + p + TickRange, t + p - TickRange}
    BY TimeoutOf
  <1>2. b \in 0 .. RT_TICK_MAX /\ b \in {t + q, t + q + TickRange, t + q - TickRange}
    BY TimeoutOf
  <1> HIDE DEF a, b
  <1>3. a - b \in Int /\ a - b >= -TickRange /\ a - b < 2 * TickRange
    BY <1>1, <1>2, TickFacts
  <1>4. (a - b) % TickRange \in {a - b, a - b + TickRange} /\ (a - b) % TickRange \in 0 .. TickRange - 1
    BY <1>1, <1>2, <1>3, Wraps, TickFacts
  <1>5. (a - b) % TickRange \in 1 .. Half - 1 <=> q < p
    BY <1>1, <1>2, <1>4, TickFacts
  <1> QED BY <1>5 DEF Minus, a, b

\* A tick brings every timeout nearer.
LEMMA NextTick ==
    ASSUME NEW t \in 0 .. RT_TICK_MAX, NEW p \in Int, -Half < p, p < Half, -Half < p - 1
    PROVE  /\ (t + 1) % TickRange \in 0 .. RT_TICK_MAX
           /\ (((t + 1) % TickRange) + (p - 1)) % TickRange = (t + p) % TickRange
  <1> DEFINE n == (t + 1) % TickRange
             a == (t + p) % TickRange
  <1>1. a \in 0 .. RT_TICK_MAX /\ a \in {t + p, t + p + TickRange, t + p - TickRange}
    BY TimeoutOf
  <1>2. n \in 0 .. RT_TICK_MAX /\ n \in {t + 1, t + 1 - TickRange}
    <2>1. t + 1 \in Int /\ t + 1 >= 0 /\ t + 1 < 2 * TickRange
      BY TickFacts
    <2> QED BY <2>1, Wraps, TickFacts
  <1> HIDE DEF n, a
  <1>3. PICK q \in Int : q = p - 1
    OBVIOUS
  <1> DEFINE d == (n + q) % TickRange
  <1>4. d \in 0 .. RT_TICK_MAX /\ d \in {n + q, n + q + TickRange, n + q - TickRange}
    <2>1. -Half < q /\ q < Half
      BY <1>3, TickFacts
    <2> QED BY <1>2, <2>1, TimeoutOf
  <1> HIDE DEF d
  <1>5. d = a
    BY <1>1, <1>2, <1>3, <1>4, TickFacts
  <1> QED BY <1>2, <1>3, <1>5 DEF n, a, d

-----------------------------------------------------------------------------
(* The order of the list: what is due sooner, then what arrived earlier.   *)

\* Pairs of timers of which the first goes before the second, with l ticks left
\* and the arrivals s.
Sooner(l, s) == {xy \in Timer \X Timer :
    \/ l[xy[1]] < l[xy[2]]
    \/ l[xy[1]] = l[xy[2]] /\ Place(s, xy[1]) < Place(s, xy[2])}

\* Membership in Sooner, spelled out for a pair of timers.
LEMMA SoonerPair ==
    ASSUME NEW l, NEW s, NEW x \in Timer, NEW y \in Timer
    PROVE  <<x, y>> \in Sooner(l, s) <=>
              l[x] < l[y] \/ (l[x] = l[y] /\ Place(s, x) < Place(s, y))
  BY DEF Sooner

\* InOrder in terms of Sooner.
LEMMA InOrderList ==
    ASSUME NEW s \in Seq(Timer), NEW l, NEW a
    PROVE  Ordered(s, Sooner(l, a)) <=>
              \A i, j \in DOMAIN s : i < j =>
                 LET x == s[i]
                     y == s[j]
                 IN  \/ l[x] < l[y]
                     \/ l[x] = l[y] /\ Place(a, x) < Place(a, y)
  <1>1. \A i \in DOMAIN s : s[i] \in Timer
    BY ListIndices
  <1>2. \A i, j \in DOMAIN s : <<s[i], s[j]>> \in Sooner(l, a) <=>
              l[s[i]] < l[s[j]] \/ (l[s[i]] = l[s[j]] /\ Place(a, s[i]) < Place(a, s[j]))
    BY <1>1, SoonerPair
  <1> QED BY <1>2 DEF Ordered

\* A list without repetition has each timer at its place.
LEMMA PlaceIndex ==
    ASSUME NEW s \in Seq(Timer), IsInjective(s), NEW i \in 1 .. Len(s)
    PROVE  Place(s, s[i]) = i
  <1> DEFINE I == {j \in 1 .. Len(s) : s[j] = s[i]}
  <1>1. Len(s) \in Nat /\ DOMAIN s = 1 .. Len(s)
    BY ListIndices
  <1>2. \A j \in 1 .. Len(s) : s[j] = s[i] => j = i
    BY <1>1 DEF IsInjective
  <1>3. I = {i} /\ I \subseteq Nat
    BY <1>1, <1>2
  <1>4. Min(I) \in I
    BY <1>3, LeastOfNat
  <1>5. Place(s, s[i]) = Min(I)
    BY <1>3 DEF Place, SelectInSeq
  <1> QED BY <1>3, <1>4, <1>5

\* Timers keep their order when another one is removed.
LEMMA PlaceRemoved ==
    ASSUME NEW s \in Seq(Timer), IsInjective(s), NEW z,
           NEW x \in ToSet(s) \ {z}, NEW y \in ToSet(s) \ {z}, Place(s, x) < Place(s, y)
    PROVE  Place(RemoveFirst(s, z), x) < Place(RemoveFirst(s, z), y)
  <1> DEFINE w == RemoveFirst(s, z)
             R == {ab \in ToSet(s) \X ToSet(s) : Place(s, ab[1]) < Place(s, ab[2])}
  <1>1. Len(s) \in Nat /\ DOMAIN s = 1 .. Len(s)
    BY ListIndices
  <1>2. Ordered(s, R)
    <2> SUFFICES ASSUME NEW i \in 1 .. Len(s), NEW j \in 1 .. Len(s), i < j
                 PROVE  <<s[i], s[j]>> \in R
      BY <1>1 DEF Ordered
    <2>1. Place(s, s[i]) = i /\ Place(s, s[j]) = j
      BY PlaceIndex
    <2>2. s[i] \in ToSet(s) /\ s[j] \in ToSet(s)
      BY ListIndices
    <2> QED BY <2>1, <2>2
  <1>3. w \in Seq(Timer) /\ IsInjective(w) /\ ToSet(w) = ToSet(s) \ {z} /\ Ordered(w, R)
    BY <1>2, UnlinkedList
  <1> HIDE DEF w
  <1>4. PICK i \in 1 .. Len(w) : w[i] = x
    BY <1>3, ListIndices
  <1>5. PICK j \in 1 .. Len(w) : w[j] = y
    BY <1>3, ListIndices
  <1>6. Place(w, x) = i /\ Place(w, y) = j
    BY <1>3, <1>4, <1>5, PlaceIndex
  <1>7. DOMAIN w = 1 .. Len(w) /\ Len(w) \in Nat
    BY <1>3, ListIndices
  <1>8. PICK a \in 1 .. Len(s) : s[a] = x
    BY ListIndices
  <1>9. PICK b \in 1 .. Len(s) : s[b] = y
    BY ListIndices
  <1>10. Place(s, x) = a /\ Place(s, y) = b
    BY <1>8, <1>9, PlaceIndex
  <1>11. i # j
    <2> SUFFICES ASSUME i = j PROVE FALSE
      OBVIOUS
    <2>1. x = y
      BY <1>4, <1>5
    <2> QED BY <1>10, <2>1
  <1>12. ~(j < i)
    <2> SUFFICES ASSUME j < i PROVE FALSE
      OBVIOUS
    <2>1. <<y, x>> \in R
      BY <1>3, <1>4, <1>5, <1>7 DEF Ordered
    <2>2. Place(s, y) < Place(s, x)
      BY <2>1
    <2> QED BY <1>10, <2>2
  <1>13. i < j
    BY <1>7, <1>11, <1>12
  <1> QED BY <1>6, <1>13 DEF w

\* Timers keep their order when a new one arrives, which is the last.
LEMMA PlaceAppended ==
    ASSUME NEW s \in Seq(Timer), IsInjective(s), NEW z \in Timer, z \notin ToSet(s),
           NEW x \in ToSet(s)
    PROVE  /\ Place(Append(s, z), x) = Place(s, x)
           /\ Place(s, x) < Place(Append(s, z), z)
  <1> DEFINE w == Append(s, z)
  <1>1. w \in Seq(Timer) /\ IsInjective(w)
    BY AppendedList
  <1>2. Len(s) \in Nat /\ Len(w) = Len(s) + 1 /\ w[Len(s) + 1] = z
        /\ \A i \in 1 .. Len(s) : w[i] = s[i]
    OBVIOUS
  <1> HIDE DEF w
  <1>3. PICK i \in 1 .. Len(s) : s[i] = x
    BY ListIndices
  <1>4. Place(s, x) = i
    BY <1>3, PlaceIndex
  <1>5. i \in 1 .. Len(w) /\ w[i] = x /\ Len(w) \in 1 .. Len(w) /\ w[Len(w)] = z
    BY <1>2, <1>3
  <1>6. Place(w, x) = i /\ Place(w, z) = Len(w)
    BY <1>1, <1>5, PlaceIndex
  <1>7. i < Len(w)
    BY <1>2
  <1> QED BY <1>4, <1>6, <1>7 DEF w

\* The timers of set X have l ticks left at tick t, not too many and not too few
\* for the comparisons of their timeouts.
Comparable(X, t, l, out) == \A x \in X :
    /\ l[x] \in Int /\ -MaxLate - 1 <= l[x] /\ l[x] + MaxLate + 1 < Half
    /\ out[x] = (t + l[x]) % TickRange

\* The comparison in the loop of rt_timer_start, between two timers whose
\* timeouts are less than half the range apart, agrees with the ticks they have left.
LEMMA ComparableTimers ==
    ASSUME NEW X, NEW t \in 0 .. RT_TICK_MAX, NEW l, NEW out, Comparable(X, t, l, out),
           MaxLate + 1 < Half, NEW x \in X, NEW y \in X
    PROVE  Minus(out[y], out[x]) \in 1 .. Half - 1 <=> l[x] < l[y]
  <1>1. PICK p \in Int : p = l[y] /\ -MaxLate - 1 <= p /\ p + MaxLate + 1 < Half
    BY DEF Comparable
  <1>2. PICK q \in Int : q = l[x] /\ -MaxLate - 1 <= q /\ q + MaxLate + 1 < Half
    BY DEF Comparable
  <1>3. -Half < p /\ p < Half /\ -Half < q /\ q < Half /\ p - q < Half /\ q - p < Half
    BY <1>1, <1>2, TickFacts
  <1>4. Minus((t + p) % TickRange, (t + q) % TickRange) \in 1 .. Half - 1 <=> q < p
    BY <1>3, LaterTimeout
  <1>5. out[y] = (t + p) % TickRange /\ out[x] = (t + q) % TickRange
    BY <1>1, <1>2 DEF Comparable
  <1> QED BY <1>1, <1>2, <1>4, <1>5

\* The loop of rt_timer_start inserts a timer that was not in the list where it
\* belongs.
LEMMA InsertedTimer ==
    ASSUME NEW s \in Seq(Timer), IsInjective(s), NEW a \in Seq(Timer), IsInjective(a),
           ToSet(a) = ToSet(s), NEW x \in Timer, x \notin ToSet(s),
           NEW t \in 0 .. RT_TICK_MAX, NEW l, NEW out, MaxLate + 1 < Half,
           Comparable(ToSet(s) \cup {x}, t, l, out), Ordered(s, Sooner(l, a))
    PROVE  /\ Inserted(s, x, out) \in Seq(Timer)
           /\ ToSet(Inserted(s, x, out)) = ToSet(s) \cup {x}
           /\ IsInjective(Inserted(s, x, out))
           /\ Ordered(Inserted(s, x, out), Sooner(l, Append(a, x)))
  <1> DEFINE K == {i \in 1 .. Len(s) : Minus(out[s[i]], out[x]) \in 1 .. Half - 1}
             b == Append(a, x)
  <1>1. /\ Len(s) \in Nat /\ DOMAIN s = 1 .. Len(s)
        /\ \A i \in 1 .. Len(s) : s[i] \in Timer /\ s[i] \in ToSet(s)
        /\ ToSet(s) \subseteq Timer
    BY ListIndices
  <1>2. Inserted(s, x, out) = InsertedBefore(s, K, x)
    <2>1. ASSUME K # {} PROVE Min(K) # 0
      <3>1. K \subseteq 1 .. Len(s)
        OBVIOUS
      <3> HIDE DEF K
      <3>2. K \subseteq Nat
        BY <1>1, <3>1
      <3>3. Min(K) \in K
        BY <2>1, <3>2, LeastOfNat
      <3>4. Min(K) \in 1 .. Len(s)
        BY <3>1, <3>3, Zenon
      <3> QED BY <1>1, <3>4
    <2> QED BY <2>1 DEF Inserted, InsertedBefore, SelectInSeq
  <1>3. K \subseteq 1 .. Len(s)
    OBVIOUS
  <1>4. \A i \in 1 .. Len(s) : i \in K <=> l[x] < l[s[i]]
    <2> SUFFICES ASSUME NEW i \in 1 .. Len(s)
                 PROVE  Minus(out[s[i]], out[x]) \in 1 .. Half - 1 <=> l[x] < l[s[i]]
      OBVIOUS
    <2>1. s[i] \in ToSet(s) \cup {x} /\ x \in ToSet(s) \cup {x}
      BY <1>1
    <2> HIDE DEF K
    <2> QED BY <2>1, ComparableTimers
  <1>5. \A y \in ToSet(s) : Place(b, y) = Place(a, y) /\ Place(a, y) < Place(b, x)
    BY PlaceAppended
  <1> HIDE DEF K, b
  <1>6. Ordered(s, Sooner(l, b))
    <2> SUFFICES ASSUME NEW y \in ToSet(s), NEW z \in ToSet(s), <<y, z>> \in Sooner(l, a)
                 PROVE  <<y, z>> \in Sooner(l, b)
      BY OtherOrder
    <2>1. y \in Timer /\ z \in Timer
      BY <1>1
    <2>2. l[y] < l[z] \/ (l[y] = l[z] /\ Place(a, y) < Place(a, z))
      BY <2>1, SoonerPair
    <2>3. l[y] < l[z] \/ (l[y] = l[z] /\ Place(b, y) < Place(b, z))
      BY <1>5, <2>2
    <2> QED BY <2>1, <2>3, SoonerPair
  <1>7. l[x] \in Int /\ \A i \in 1 .. Len(s) : l[s[i]] \in Int
    BY <1>1 DEF Comparable
  <1>8. ASSUME NEW i \in 1 .. Len(s), \A k \in K : i < k PROVE <<s[i], x>> \in Sooner(l, b)
    <2>1. i \notin K
      BY <1>8
    <2>2. l[s[i]] <= l[x]
      BY <1>4, <1>7, <2>1
    <2>3. Place(b, s[i]) < Place(b, x)
      BY <1>1, <1>5
    <2>4. l[s[i]] < l[x] \/ (l[s[i]] = l[x] /\ Place(b, s[i]) < Place(b, x))
      BY <1>7, <2>2, <2>3
    <2> QED BY <1>1, <2>4, SoonerPair
  <1>9. ASSUME NEW i \in 1 .. Len(s), NEW k \in K, k <= i PROVE <<x, s[i]>> \in Sooner(l, b)
    <2>1. k \in 1 .. Len(s) /\ l[x] < l[s[k]]
      BY <1>3, <1>4
    <2>2. k = i \/ k < i
      BY <1>1, <1>9, <2>1
    <2>3. l[s[k]] <= l[s[i]]
      <3>1. CASE k = i
        BY <1>7, <3>1
      <3>2. CASE k < i
        <4>1. <<s[k], s[i]>> \in Sooner(l, b)
          BY <1>1, <1>6, <2>1, <3>2 DEF Ordered
        <4>2. l[s[k]] < l[s[i]] \/ l[s[k]] = l[s[i]]
          <5>1. s[k] \in Timer /\ s[i] \in Timer
            BY <1>1, <2>1
          <5>2. l[s[k]] < l[s[i]] \/ (l[s[k]] = l[s[i]] /\ Place(b, s[k]) < Place(b, s[i]))
            BY <4>1, <5>1, SoonerPair
          <5> QED BY <5>2
        <4> QED BY <1>7, <2>1, <4>2
      <3> QED BY <2>2, <3>1, <3>2
    <2>4. l[x] < l[s[i]]
      BY <1>7, <2>1, <2>3
    <2> QED BY <1>1, <2>4, SoonerPair
  <1>10. /\ InsertedBefore(s, K, x) \in Seq(Timer)
         /\ ToSet(InsertedBefore(s, K, x)) = ToSet(s) \cup {x}
         /\ IsInjective(s) /\ x \notin ToSet(s) => IsInjective(InsertedBefore(s, K, x))
    BY <1>3, InsertedList
  <1>11. Ordered(InsertedBefore(s, K, x), Sooner(l, b))
    BY <1>3, <1>6, <1>8, <1>9, InsertedOrder
  <1> QED BY <1>2, <1>10, <1>11 DEF b

-----------------------------------------------------------------------------
(* What removes and what inserts a timer.                                  *)

\* The time of a timer is short enough for the comparisons.
LEMMA InitTicks ==
    ASSUME Inv, NEW x \in Timer
    PROVE  /\ init_tick[x] \in Nat /\ init_tick[x] >= 1
           /\ init_tick[x] + MaxLate + 1 < Half /\ MaxLate + 1 < Half
           /\ (tick + init_tick[x]) % TickRange \in 0 .. RT_TICK_MAX
  <1>1. init_tick[x] \in InitTick[x] /\ init_tick[x] \in Nat /\ tick \in 0 .. RT_TICK_MAX
    BY DEF Inv, Types, FlagExact
  <1>2. InitTick[x] \subseteq 1 .. Half - 1 /\ \A i \in InitTick[x] : i + MaxLate + 1 < Half
    BY TimerAssumption
  <1>3. init_tick[x] >= 1 /\ init_tick[x] + MaxLate + 1 < Half
    BY <1>1, <1>2
  <1>4. init_tick[x] \in Int /\ -Half < init_tick[x] /\ init_tick[x] < Half
    BY <1>1, <1>3, TickFacts
  <1>5. (tick + init_tick[x]) % TickRange \in 0 .. RT_TICK_MAX
    BY <1>1, <1>4, TimeoutOf
  <1> QED BY <1>1, <1>3, <1>5, TickFacts

\* The timers of the list can be compared.
LEMMA ListComparable ==
    ASSUME Inv
    PROVE  Comparable(ToSet(rt_timer_list), tick, left, timeout_tick)
  <1> SUFFICES ASSUME NEW x \in ToSet(rt_timer_list)
               PROVE  /\ left[x] \in Int /\ -MaxLate - 1 <= left[x]
                      /\ left[x] + MaxLate + 1 < Half
                      /\ timeout_tick[x] = (tick + left[x]) % TickRange
    BY DEF Comparable
  <1>1. x \in Timer /\ left[x] \in Int
    BY ListIndices DEF Inv, Types
  <1>2. Counted(x)
    BY DEF Counted, Listed
  <1>3. -MaxLate - 1 <= left[x]
    BY <1>1, TickFacts DEF Inv, Late
  <1> QED BY <1>1, <1>2, <1>3 DEF Inv, Clock

\* The other timers keep their order when timer x is unlinked.
LEMMA UnlinkedOrder ==
    ASSUME Inv, NEW x \in Timer, NEW l, \A y \in Timer \ {x} : l[y] = left[y]
    PROVE  /\ RemoveFirst(rt_timer_list, x) \in Seq(Timer)
           /\ IsInjective(RemoveFirst(rt_timer_list, x))
           /\ ToSet(RemoveFirst(rt_timer_list, x)) = ToSet(rt_timer_list) \ {x}
           /\ RemoveFirst(arrival, x) \in Seq(Timer)
           /\ IsInjective(RemoveFirst(arrival, x))
           /\ ToSet(RemoveFirst(arrival, x)) = ToSet(rt_timer_list) \ {x}
           /\ Ordered(RemoveFirst(rt_timer_list, x), Sooner(l, RemoveFirst(arrival, x)))
  <1> DEFINE s == RemoveFirst(rt_timer_list, x)
             a == RemoveFirst(arrival, x)
  <1>1. rt_timer_list \in Seq(Timer) /\ arrival \in Seq(Timer) /\ IsInjective(arrival)
    BY DEF Inv, Types
  <1>2. /\ ToSet(arrival) = ToSet(rt_timer_list) /\ IsInjective(rt_timer_list)
        /\ Ordered(rt_timer_list, Sooner(left, arrival))
    BY <1>1, InOrderList DEF Inv, InOrder
  <1>3. /\ s \in Seq(Timer) /\ IsInjective(s) /\ ToSet(s) = ToSet(rt_timer_list) \ {x}
        /\ Ordered(s, Sooner(left, arrival))
    BY <1>1, <1>2, UnlinkedList
  <1>4. a \in Seq(Timer) /\ IsInjective(a) /\ ToSet(a) = ToSet(arrival) \ {x}
    BY <1>1, UnlinkedList
  <1>5. ASSUME NEW y \in ToSet(s), NEW z \in ToSet(s), <<y, z>> \in Sooner(left, arrival)
        PROVE  <<y, z>> \in Sooner(l, a)
    <2>1. /\ y \in Timer \ {x} /\ z \in Timer \ {x}
          /\ y \in ToSet(arrival) \ {x} /\ z \in ToSet(arrival) \ {x}
      BY <1>1, <1>2, <1>3, ListIndices
    <2>2. left[y] < left[z] \/ (left[y] = left[z] /\ Place(arrival, y) < Place(arrival, z))
      BY <1>5, <2>1, SoonerPair
    <2>3. Place(arrival, y) < Place(arrival, z) => Place(a, y) < Place(a, z)
      BY <1>1, <2>1, PlaceRemoved
    <2> HIDE DEF a
    <2>4. l[y] < l[z] \/ (l[y] = l[z] /\ Place(a, y) < Place(a, z))
      BY <2>1, <2>2, <2>3
    <2> QED BY <2>1, <2>4, SoonerPair
  <1> HIDE DEF s, a
  <1>6. Ordered(s, Sooner(l, a))
    BY <1>3, <1>5, OtherOrder
  <1> QED BY <1>2, <1>3, <1>4, <1>6 DEF s, a

\* Timer x enters a list which it is not in.
LEMMA InsertEffect ==
    ASSUME NEW s \in Seq(Timer), IsInjective(s), NEW a \in Seq(Timer), IsInjective(a),
           ToSet(a) = ToSet(s), NEW x \in Timer, x \notin ToSet(s),
           tick \in 0 .. RT_TICK_MAX, MaxLate + 1 < Half,
           Comparable(ToSet(s) \cup {x}, tick, left', timeout_tick'),
           Ordered(s, Sooner(left', a)),
           rt_timer_list' = Inserted(s, x, timeout_tick'), arrival' = Append(a, x)
    PROVE  /\ rt_timer_list' \in Seq(Timer)
           /\ arrival' \in Seq(Timer) /\ IsInjective(arrival')
           /\ ToSet(rt_timer_list') = ToSet(s) \cup {x}
           /\ InOrder'
  <1>1. /\ rt_timer_list' \in Seq(Timer) /\ ToSet(rt_timer_list') = ToSet(s) \cup {x}
        /\ IsInjective(rt_timer_list') /\ Ordered(rt_timer_list', Sooner(left', arrival'))
    BY InsertedTimer
  <1>2. /\ arrival' \in Seq(Timer) /\ IsInjective(arrival')
        /\ ToSet(arrival') = ToSet(a) \cup {x}
    BY AppendedList
  <1>3. InOrder'
    BY <1>1, <1>2, InOrderList DEF InOrder
  <1> QED BY <1>1, <1>2, <1>3

\* What the other variables have to do in a step that removes or inserts timer x:
\* nobody else is about to insert x, and CPU 0 checks with the new tick.
Aside(x) ==
    /\ UNCHANGED <<tick, init_tick, lock>>
    /\ at' \in [CPU -> Places] /\ (at'[0] = "idle" <=> at[0] = "idle")
    /\ activated' \subseteq Timer /\ periodic' \subseteq Timer
    /\ current_tick' \in [CPU -> 0 .. RT_TICK_MAX]
    /\ at[0] # "idle" => current_tick'[0] = tick
    /\ call' \in [User -> Call]
    /\ \A u \in User : call'[u].at = "insert" => call'[u] = call[u] /\ call[u].timer # x

\* The parts of the invariant that are about ticks and the list.
Timing ==
    /\ Types
    /\ tick \in 0 .. RT_TICK_MAX /\ lock \in CPU \cup {NoCPU}
    /\ timeout_tick \in [Timer -> 0 .. RT_TICK_MAX]
    /\ activated \subseteq Timer /\ periodic \subseteq Timer
    /\ Clock
    /\ InOrder
    /\ Late

\* _rt_timer_remove keeps what is said of the other timers.
LEMMA RemoveInv ==
    ASSUME Inv, NEW x \in Timer, _rt_timer_remove(x), Aside(x)
    PROVE  Timing' /\ ToSet(rt_timer_list') = ToSet(rt_timer_list) \ {x}
  <1>1. /\ rt_timer_list' = RemoveFirst(rt_timer_list, x) /\ arrival' = RemoveFirst(arrival, x)
        /\ timeout_tick' = [timeout_tick EXCEPT ![x] = 0] /\ left' = [left EXCEPT ![x] = 0]
        /\ tardy' = tardy \ {x}
    BY DEF _rt_timer_remove
  <1>2. \A y \in Timer \ {x} : left'[y] = left[y] /\ timeout_tick'[y] = timeout_tick[y]
    BY <1>1 DEF Inv, FlagExact, Types
  <1>3. /\ rt_timer_list' \in Seq(Timer) /\ IsInjective(rt_timer_list')
        /\ ToSet(rt_timer_list') = ToSet(rt_timer_list) \ {x}
        /\ arrival' \in Seq(Timer) /\ IsInjective(arrival')
        /\ ToSet(arrival') = ToSet(rt_timer_list) \ {x}
        /\ Ordered(rt_timer_list', Sooner(left', arrival'))
    BY <1>1, <1>2, UnlinkedOrder
  <1>4. InOrder'
    BY <1>3, InOrderList DEF InOrder
  <1>5. left' \in [Timer -> Int] /\ timeout_tick' \in [Timer -> 0 .. RT_TICK_MAX]
    <2>1. 0 \in Int /\ 0 \in 0 .. RT_TICK_MAX
      BY TickFacts
    <2> QED BY <1>1, <2>1 DEF Inv, FlagExact, Types
  <1>6. Types'
    <2>1. tardy' \subseteq ToSet(rt_timer_list')
      BY <1>1, <1>3 DEF Inv, Types
    <2> QED BY <1>3, <1>5, <2>1 DEF Inv, Types, Aside
  <1>7. ASSUME NEW y \in Timer, Counted(y)' PROVE y # x /\ Counted(y)
    <2>1. CASE Listed(y)'
      BY <1>3, <2>1 DEF Listed, Counted
    <2>2. CASE \E u \in User : call'[u] = [at |-> "insert", timer |-> y]
      BY <2>2 DEF Counted, Aside
    <2> QED BY <1>7, <2>1, <2>2 DEF Counted
  <1>8. Clock'
    <2> SUFFICES ASSUME NEW y \in Timer, Counted(y)'
                 PROVE  timeout_tick'[y] = (tick + left'[y]) % TickRange
                        /\ left'[y] + MaxLate + 1 < Half
      BY DEF Clock, Aside
    <2>1. y # x /\ Counted(y)
      BY <1>7
    <2> QED BY <1>2, <2>1 DEF Inv, Clock
  <1>9. Late'
    <2>1. ASSUME NEW u \in User, call'[u].at = "insert" PROVE left'[call'[u].timer] >= -MaxLate
      <3>1. call'[u] = call[u] /\ call[u].timer # x
        BY <2>1 DEF Aside
      <3>2. call[u].timer \in Timer
        BY <2>1, <3>1 DEF Inv, Calls
      <3> QED BY <1>2, <2>1, <3>1, <3>2 DEF Inv, Late
    <2>2. \A y \in ToSet(rt_timer_list') : /\ y \in ToSet(rt_timer_list) /\ left'[y] = left[y]
                                           /\ y \in tardy' <=> y \in tardy
      <3>1. \A y \in ToSet(rt_timer_list') : y \in Timer
        BY <1>3, ListIndices
      <3> QED BY <1>1, <1>2, <1>3, <3>1
    <2> QED BY <2>1, <2>2 DEF Inv, Late, Aside
  <1> QED BY <1>3, <1>4, <1>5, <1>6, <1>8, <1>9 DEF Timing, Inv, FlagExact, Aside

\* rt_timer_start with the lock held inserts the timer with all of its ticks left.
LEMMA WholeInv ==
    ASSUME Inv, NEW x \in Timer, StartWhole(x), Aside(x)
    PROVE  Timing' /\ ToSet(rt_timer_list') = ToSet(rt_timer_list) \cup {x}
  <1> DEFINE s == RemoveFirst(rt_timer_list, x)
             a == RemoveFirst(arrival, x)
  <1>1. /\ timeout_tick' = [timeout_tick EXCEPT ![x] = (tick + init_tick[x]) % TickRange]
        /\ left' = [left EXCEPT ![x] = init_tick[x]]
        /\ rt_timer_list' = Inserted(s, x, timeout_tick') /\ arrival' = Append(a, x)
        /\ tardy' = tardy \ {x}
    BY DEF StartWhole
  <1>2. /\ init_tick[x] \in Nat /\ init_tick[x] >= 1
        /\ init_tick[x] + MaxLate + 1 < Half /\ MaxLate + 1 < Half
        /\ (tick + init_tick[x]) % TickRange \in 0 .. RT_TICK_MAX
    BY InitTicks
  <1>3. /\ \A y \in Timer \ {x} : left'[y] = left[y] /\ timeout_tick'[y] = timeout_tick[y]
        /\ left'[x] = init_tick[x] /\ timeout_tick'[x] = (tick + init_tick[x]) % TickRange
    BY <1>1 DEF Inv, FlagExact, Types
  <1>4. /\ s \in Seq(Timer) /\ IsInjective(s) /\ ToSet(s) = ToSet(rt_timer_list) \ {x}
        /\ a \in Seq(Timer) /\ IsInjective(a) /\ ToSet(a) = ToSet(rt_timer_list) \ {x}
        /\ Ordered(s, Sooner(left', a))
    BY <1>3, UnlinkedOrder
  <1> HIDE DEF s, a
  <1>5. Comparable(ToSet(s) \cup {x}, tick, left', timeout_tick')
    <2> SUFFICES ASSUME NEW y \in ToSet(s) \cup {x}
                 PROVE  /\ left'[y] \in Int /\ -MaxLate - 1 <= left'[y]
                        /\ left'[y] + MaxLate + 1 < Half
                        /\ timeout_tick'[y] = (tick + left'[y]) % TickRange
      BY DEF Comparable
    <2>1. CASE y = x
      BY <1>2, <1>3, <2>1, TickFacts
    <2>2. CASE y \in ToSet(s)
      <3>1. y \in ToSet(rt_timer_list) /\ y # x /\ y \in Timer
        BY <1>4, <2>2, ListIndices
      <3> QED BY <1>3, <3>1, ListComparable DEF Comparable
    <2> QED BY <2>1, <2>2
  <1>6. /\ rt_timer_list' \in Seq(Timer)
        /\ arrival' \in Seq(Timer) /\ IsInjective(arrival')
        /\ ToSet(rt_timer_list') = ToSet(s) \cup {x}
        /\ InOrder'
    <2>1. tick \in 0 .. RT_TICK_MAX
      BY DEF Inv, FlagExact
    <2> QED BY <1>1, <1>2, <1>4, <1>5, <2>1, InsertEffect
  <1>7. ToSet(rt_timer_list') = ToSet(rt_timer_list) \cup {x}
    BY <1>4, <1>6
  <1>8. left' \in [Timer -> Int] /\ timeout_tick' \in [Timer -> 0 .. RT_TICK_MAX]
    BY <1>1, <1>2 DEF Inv, FlagExact, Types
  <1>9. Types'
    <2>1. tardy' \subseteq ToSet(rt_timer_list')
      BY <1>1, <1>7 DEF Inv, Types
    <2> QED BY <1>6, <1>8, <2>1 DEF Inv, Types, Aside
  <1>10. ASSUME NEW y \in Timer, Counted(y)', y # x PROVE Counted(y)
    <2>1. CASE Listed(y)'
      BY <1>7, <1>10, <2>1 DEF Listed, Counted
    <2>2. CASE \E u \in User : call'[u] = [at |-> "insert", timer |-> y]
      BY <2>2 DEF Counted, Aside
    <2> QED BY <1>10, <2>1, <2>2 DEF Counted
  <1>11. Clock'
    <2> SUFFICES ASSUME NEW y \in Timer, Counted(y)'
                 PROVE  timeout_tick'[y] = (tick + left'[y]) % TickRange
                        /\ left'[y] + MaxLate + 1 < Half
      BY DEF Clock, Aside
    <2>1. CASE y = x
      BY <1>2, <1>3, <2>1
    <2>2. CASE y # x
      <3>1. Counted(y)
        BY <1>10, <2>2
      <3> QED BY <1>3, <2>2, <3>1 DEF Inv, Clock
    <2> QED BY <2>1, <2>2
  <1>12. Late'
    <2>1. ASSUME NEW u \in User, call'[u].at = "insert" PROVE left'[call'[u].timer] >= -MaxLate
      <3>1. call'[u] = call[u] /\ call[u].timer # x
        BY <2>1 DEF Aside
      <3>2. call[u].timer \in Timer
        BY <2>1, <3>1 DEF Inv, Calls
      <3> QED BY <1>3, <2>1, <3>1, <3>2 DEF Inv, Late
    <2>2. ASSUME NEW y \in ToSet(rt_timer_list')
          PROVE  IF y \in tardy'
                 THEN /\ left'[y] <= 0
                      /\ left'[y] >= IF at[0] = "idle" THEN -MaxLate ELSE -MaxLate - 1
                 ELSE left'[y] >= IF at[0] = "idle" THEN 1 ELSE 0
      <3>1. CASE y = x
        BY <1>1, <1>2, <1>3, <3>1
      <3>2. CASE y # x
        <4>1. y \in ToSet(rt_timer_list) /\ left'[y] = left[y] /\ (y \in tardy' <=> y \in tardy)
          <5>1. y \in Timer
            BY <1>6, ListIndices
          <5> QED BY <1>1, <1>3, <1>7, <3>2, <5>1
        <4> QED BY <4>1 DEF Inv, Late
      <3> QED BY <3>1, <3>2
    <2> QED BY <2>1, <2>2 DEF Inv, Late, Aside
  <1> QED BY <1>6, <1>7, <1>8, <1>9, <1>11, <1>12 DEF Timing, Inv, FlagExact, Aside

\* The second section of rt_timer_start inserts the timer with the ticks that are
\* left then.
LEMMA StartInsertTiming ==
    ASSUME Inv, NEW u \in User, StartInsert(u)
    PROVE  Timing' /\ ToSet(rt_timer_list') = ToSet(rt_timer_list) \cup {call[u].timer}
  <1> DEFINE x == call[u].timer
  <1>1. /\ call[u].at = "insert"
        /\ rt_timer_list' = Inserted(rt_timer_list, x, timeout_tick)
        /\ arrival' = Append(arrival, x)
        /\ tardy' = IF left[x] <= 0 THEN tardy \cup {x} ELSE tardy
        /\ activated' = activated \cup {x}
        /\ call' = [call EXCEPT ![u] = [at |-> "run", timer |-> x]]
        /\ UNCHANGED <<tick, timeout_tick, init_tick, periodic, lock, current_tick, at, left>>
    BY DEF StartInsert, Goes, clockVars, checkVars
  <1>2. x \in Timer /\ Owner[x] = u /\ ~Listed(x) /\ call[u] = [at |-> "insert", timer |-> x]
    BY <1>1 DEF Inv, Calls, Types, Call
  <1>3. /\ left[x] \in Int /\ left[x] >= -MaxLate /\ left[x] + MaxLate + 1 < Half
        /\ timeout_tick[x] = (tick + left[x]) % TickRange
    BY <1>1, <1>2 DEF Inv, Types, Late, Clock, Counted
  <1> HIDE DEF x
  <1>4. MaxLate + 1 < Half /\ tick \in 0 .. RT_TICK_MAX
    BY <1>2, InitTicks DEF Inv, FlagExact
  <1>5. /\ rt_timer_list \in Seq(Timer) /\ arrival \in Seq(Timer) /\ IsInjective(arrival)
        /\ ToSet(arrival) = ToSet(rt_timer_list) /\ IsInjective(rt_timer_list)
        /\ Ordered(rt_timer_list, Sooner(left, arrival))
    <2>1. rt_timer_list \in Seq(Timer) /\ arrival \in Seq(Timer) /\ IsInjective(arrival)
      BY DEF Inv, Types
    <2> QED BY <2>1, InOrderList DEF Inv, InOrder
  <1>6. Comparable(ToSet(rt_timer_list) \cup {x}, tick, left', timeout_tick')
    BY <1>1, <1>3, ListComparable, TickFacts DEF Comparable
  <1>7. /\ rt_timer_list' \in Seq(Timer)
        /\ arrival' \in Seq(Timer) /\ IsInjective(arrival')
        /\ ToSet(rt_timer_list') = ToSet(rt_timer_list) \cup {x}
        /\ InOrder'
    BY <1>1, <1>2, <1>4, <1>5, <1>6, InsertEffect DEF Listed
  <1>8. call' \in [User -> Call] /\ \A v \in User : call'[v] = IF v = u THEN [at |-> "run", timer |-> x] ELSE call[v]
    BY <1>1, <1>2 DEF Inv, Types, Call
  <1>9. Types'
    <2>1. tardy' \subseteq ToSet(rt_timer_list')
      BY <1>1, <1>7 DEF Inv, Types
    <2> QED BY <1>1, <1>7, <1>8, <2>1 DEF Inv, Types
  <1>10. ASSUME NEW y \in Timer, Counted(y)' PROVE Counted(y)
    <2>1. CASE Listed(y)'
      BY <1>2, <1>7, <2>1 DEF Listed, Counted
    <2>2. CASE \E v \in User : call'[v] = [at |-> "insert", timer |-> y]
      BY <1>8, <2>2 DEF Counted
    <2> QED BY <1>10, <2>1, <2>2 DEF Counted
  <1>11. Clock'
    BY <1>1, <1>10 DEF Inv, Clock
  <1>12. Late'
    <2>1. \A v \in User : call'[v].at = "insert" => left'[call'[v].timer] >= -MaxLate
      BY <1>1, <1>8 DEF Inv, Late
    <2>2. ASSUME NEW y \in ToSet(rt_timer_list')
          PROVE  IF y \in tardy'
                 THEN /\ left[y] <= 0
                      /\ left[y] >= IF at[0] = "idle" THEN -MaxLate ELSE -MaxLate - 1
                 ELSE left[y] >= IF at[0] = "idle" THEN 1 ELSE 0
      <3>1. CASE y = x
        <4>1. x \notin tardy
          BY <1>2 DEF Inv, Types, Listed
        <4> QED BY <1>1, <1>3, <3>1, <4>1, TickFacts
      <3>2. CASE y # x
        <4>1. y \in ToSet(rt_timer_list) /\ (y \in tardy' <=> y \in tardy)
          BY <1>1, <1>7, <3>2
        <4> QED BY <4>1 DEF Inv, Late
      <3> QED BY <3>1, <3>2
    <2> QED BY <1>1, <2>1, <2>2 DEF Inv, Late
  <1> QED BY <1>1, <1>2, <1>7, <1>9, <1>11, <1>12 DEF Timing, Inv, FlagExact, x

-----------------------------------------------------------------------------
(* The lock and the timer that is being called.                            *)

\* What FlagExact says of the flags.
Flags == \A x \in Timer \ Switched : InHand(x) \/ Fired(x) \/ (Listed(x) <=> x \in activated)

\* The parts that a step has to preserve.
LEMMA InvParts == ASSUME Timing', Calls', Checks', Holds', Flags' PROVE Inv'
  BY DEF Inv, Timing, FlagExact, Flags

\* A section of a thread: nobody is in the loop of a check.  All that is left to
\* show is that a stopped timer is off the list.
LEMMA SectionStep ==
    ASSUME Inv, lock = NoCPU, UNCHANGED <<lock, at>>,
           \A x \in Timer : x \in stopped' \ (Switched \cap SelfStop) => ~Listed(x)'
    PROVE  Checks' /\ Holds' /\ \A x \in Timer : ~Fired(x) /\ ~Fired(x)'
  <1>1. \A c \in CPU : lock # c /\ at[c] \notin Inside
    BY TimerAssumption DEF Inv, Checks
  <1>2. \A c \in CPU : at[c] \notin Firing
    BY <1>1 DEF Inside
  <1>3. Checks'
    BY <1>1, <1>2 DEF Checks
  <1>4. Holds'
    BY <1>2 DEF Holds, Held
  <1> QED BY <1>2, <1>3, <1>4 DEF Fired

\* Where a thread can be in a call with a timer that is being called.
Harmless == {"run", "remove", "mode"}

\* A step of a thread outside of the lock: a check may be busy with the timer.
LEMMA FreeStep ==
    ASSUME Inv, UNCHANGED <<rt_timer_list, lock, at, fired>>,
           \A u \in User : \/ call'[u] = call[u]
                           \/ call'[u].at \in Harmless
                           \/ call'[u].timer = call[u].timer /\ call[u].at \notin Harmless,
           \A x \in Timer : x \in stopped' \ (Switched \cap SelfStop) =>
              \/ x \in stopped /\ (x \in Switched \/ (x \in activated' => x \in activated))
              \/ ~Listed(x) /\ ~Fired(x)
    PROVE  /\ Checks' /\ Holds'
           /\ \A x \in Timer : (Fired(x)' <=> Fired(x)) /\ (Listed(x)' <=> Listed(x))
  <1>1. \A x : (Fired(x)' <=> Fired(x)) /\ (Listed(x)' <=> Listed(x))
    BY DEF Fired, Listed
  <1>2. Checks'
    <2> SUFFICES ASSUME NEW c \in CPU, at[c] \in Firing, NEW u \in User,
                        call'[u].timer = fired.timer
                 PROVE  call'[u].at \in Harmless
      BY <1>1 DEF Inv, Checks, Harmless
    <2>1. call[u].timer = fired.timer => call[u].at \in Harmless
      BY DEF Inv, Checks, Harmless
    <2> QED BY <2>1
  <1>3. Holds'
    <2> SUFFICES ASSUME NEW x \in stopped' \ (Switched \cap SelfStop), x \in Timer
                 PROVE  Held(x)'
      BY DEF Holds
    <2>1. CASE x \in stopped /\ (x \in Switched \/ (x \in activated' => x \in activated))
      BY <1>1, <2>1 DEF Inv, Holds, Held
    <2>2. CASE ~Listed(x) /\ ~Fired(x)
      BY <1>1, <2>2 DEF Held, Fired
    <2> QED BY <2>1, <2>2
  <1> QED BY <1>1, <1>2, <1>3

\* A step of the CPU c in the loop of its check: no other CPU is there.
LEMMA TurnStep ==
    ASSUME Inv, NEW c \in CPU, at[c] \in Inside, NEW place \in Inside, Turns(c, place),
           lock' = lock
    PROVE  /\ lock = c /\ at' \in [CPU -> Places] /\ at'[c] = place
           /\ at'[0] = "idle" <=> at[0] = "idle"
           /\ \A d \in CPU : d # c => at'[d] = at[d] /\ at[d] \notin Inside
           /\ \A d \in CPU : at'[d] \in Inside <=> lock' = d
           /\ \A x : Fired(x)' <=> place \in Firing /\ fired'.timer = x
           /\ \A x : Fired(x) <=> at[c] \in Firing /\ fired.timer = x
  <1>1. 0 \in CPU /\ at \in [CPU -> Places] /\ place \in Places
    BY TimerAssumption DEF Inv, Types, Places
  <1>2. at' \in [CPU -> Places] /\ at'[c] = place /\ \A d \in CPU : d # c => at'[d] = at[d]
    BY <1>1 DEF Turns
  <1>3. lock = c /\ \A d \in CPU : d # c => at[d] \notin Inside
    BY DEF Inv, Checks
  <1>4. at[c] # "idle" /\ place # "idle"
    BY DEF Inside, Firing
  <1>5. at'[0] = "idle" <=> at[0] = "idle"
    BY <1>1, <1>2, <1>4
  <1>6. \A d \in CPU : at'[d] \in Inside <=> lock' = d
    BY <1>2, <1>3
  <1>7. \A d : d \in Firing => d \in Inside
    BY DEF Inside
  <1>8. \A x : Fired(x)' <=> place \in Firing /\ fired'.timer = x
    BY <1>2, <1>3, <1>7 DEF Fired
  <1>9. \A x : Fired(x) <=> at[c] \in Firing /\ fired.timer = x
    BY <1>3, <1>7 DEF Fired
  <1> QED BY <1>2, <1>3, <1>5, <1>6, <1>8, <1>9

\* What is left to show of the timer that the CPU c is busy with after its step.
LEMMA CheckParts ==
    ASSUME Inv, NEW c \in CPU, at[c] \in Inside, NEW place \in Inside, Turns(c, place),
           lock' = lock,
           place \in Firing =>
              /\ fired'.timer \in Timer
              /\ place = "set" <=> fired'.timer \in ToSet(rt_timer_list')
              /\ place = "stop" => fired'.timer \in SelfStop
              /\ \A u \in User : call'[u].timer = fired'.timer => call'[u].at \in Harmless,
           \A x \in Timer : x \in stopped' \ (Switched \cap SelfStop) =>
              /\ ~Listed(x)'
              /\ place \in Firing /\ fired'.timer = x =>
                    /\ x \notin activated' /\ x \notin Switched
                    /\ place \in {"func", "stop", "clear"}
                    /\ place = "clear" => ~fired'.active
    PROVE  Checks' /\ Holds'
  <1>1. /\ at'[c] = place
        /\ \A d \in CPU : d # c => at'[d] \notin Firing
        /\ \A d \in CPU : at'[d] \in Inside <=> lock' = d
    <2>1. \A d : d \in Firing => d \in Inside
      BY DEF Inside
    <2> QED BY <2>1, TurnStep
  <1>2. Checks'
    <2> SUFFICES ASSUME NEW d \in CPU, at'[d] \in Firing
                 PROVE  /\ fired'.timer \in Timer
                        /\ at'[d] = "set" <=> fired'.timer \in ToSet(rt_timer_list')
                        /\ at'[d] = "stop" => fired'.timer \in SelfStop
                        /\ \A u \in User : call'[u].timer = fired'.timer =>
                              call'[u].at \in {"run", "remove", "mode"}
      BY <1>1 DEF Checks, Listed
    <2>1. d = c /\ place \in Firing
      BY <1>1
    <2> QED BY <1>1, <2>1 DEF Harmless
  <1>3. Holds'
    <2> SUFFICES ASSUME NEW x \in stopped' \ (Switched \cap SelfStop), x \in Timer
                 PROVE  Held(x)'
      BY DEF Holds
    <2>1. ~Listed(x)'
      OBVIOUS
    <2>2. ASSUME NEW d \in CPU, at'[d] \in Firing, fired'.timer = x
          PROVE  /\ x \notin activated' /\ x \notin Switched
                 /\ at'[d] \in {"func", "stop", "clear"}
                 /\ at'[d] = "clear" => ~fired'.active
      <3>1. d = c /\ place \in Firing
        BY <1>1, <2>2
      <3> QED BY <1>1, <2>2, <3>1
    <2> QED BY <2>1, <2>2 DEF Held
  <1> QED BY <1>2, <1>3

\* The timer that the CPU c is busy with, before its step.
LEMMA FiredTimer ==
    ASSUME Inv, NEW c \in CPU, at[c] \in Firing
    PROVE  /\ at[c] \in Inside
           /\ fired.timer \in Timer
           /\ at[c] = "set" <=> Listed(fired.timer)
           /\ at[c] = "stop" => fired.timer \in SelfStop
           /\ \A u \in User : call[u].timer = fired.timer => call[u].at \in Harmless
           /\ fired.timer \in stopped \ (Switched \cap SelfStop) =>
                 /\ fired.timer \notin activated /\ fired.timer \notin Switched
                 /\ at[c] \in {"func", "stop", "clear"}
                 /\ at[c] = "clear" => ~fired.active
  <1>1. at[c] \in Inside
    BY DEF Inside
  <1>2. /\ fired.timer \in Timer
        /\ at[c] = "set" <=> Listed(fired.timer)
        /\ at[c] = "stop" => fired.timer \in SelfStop
        /\ \A u \in User : call[u].timer = fired.timer => call[u].at \in Harmless
    BY DEF Inv, Checks, Harmless
  <1>3. fired.timer \in stopped \ (Switched \cap SelfStop) => Held(fired.timer)
    BY <1>2 DEF Inv, Holds
  <1> QED BY <1>1, <1>2, <1>3 DEF Held

\* A stopped timer is off the list.
LEMMA StoppedOff ==
    ASSUME Inv, NEW x \in Timer, x \in stopped \ (Switched \cap SelfStop)
    PROVE  ~Listed(x)
  BY DEF Inv, Holds, Held

-----------------------------------------------------------------------------
(* The initial states and the calls of threads.                            *)

\* At first no timer is active and the list is empty.
LEMMA InitInv == Init => Inv
  <1> SUFFICES ASSUME Init PROVE Inv
    OBVIOUS
  <1>1. ToSet(rt_timer_list) = {} /\ ToSet(arrival) = {} /\ rt_timer_list = << >> /\ arrival = << >>
    BY EmptyList DEF Init
  <1>2. \A u \in User : call[u].at = "run"
    BY DEF Init
  <1>3. \A x \in Timer : ~Counted(x) /\ ~Listed(x)
    BY <1>1, <1>2 DEF Counted, Listed
  <1>4. Types
    <2>1. rt_timer_list \in Seq(Timer) /\ arrival \in Seq(Timer) /\ IsInjective(arrival)
      BY <1>1, EmptyList
    <2>2. init_tick \in [Timer -> Nat] /\ \A x \in Timer : init_tick[x] \in InitTick[x]
      BY TickFacts DEF Init
    <2>3. left \in [Timer -> Int] /\ tardy \subseteq ToSet(rt_timer_list)
      BY DEF Init
    <2>4. current_tick \in [CPU -> 0 .. RT_TICK_MAX]
      BY TickFacts DEF Init
    <2>5. at \in [CPU -> Places]
      BY DEF Init, Places
    <2>6. call \in [User -> Call]
      BY DEF Init, Call
    <2> QED BY <2>1, <2>2, <2>3, <2>4, <2>5, <2>6 DEF Types
  <1>5. FlagExact
    BY <1>3, TickFacts, TimerAssumption DEF Init, FlagExact
  <1>6. Calls
    BY <1>2 DEF Calls
  <1>7. Clock
    BY <1>3 DEF Clock
  <1>8. InOrder
    BY <1>1, EmptyList DEF InOrder
  <1>9. Late
    <2>1. at[0] = "idle"
      BY TimerAssumption DEF Init
    <2> QED BY <1>1, <1>2, <2>1 DEF Late
  <1>10. Checks
    BY TimerAssumption DEF Init, Checks, Inside, Firing
  <1>11. Holds
    BY DEF Init, Holds
  <1> QED BY <1>4, <1>5, <1>6, <1>7, <1>8, <1>9, <1>10, <1>11 DEF Inv

\* No two threads are in a call with the same timer, and none with a timer that is
\* used under the lock.
LEMMA OneCaller ==
    ASSUME Inv, NEW v \in User, call[v].at # "run"
    PROVE  Owner[call[v].timer] = v /\ Owner[call[v].timer] # Locked
  BY TimerAssumption DEF Inv, Calls

\* rt_timer_start, first section: the timer leaves the list and becomes inactive.
LEMMA StartInv ==
    ASSUME Inv, NEW u \in User, NEW x \in Timer, rt_timer_start(u, x)
    PROVE  Inv'
  <1>1. /\ call[u].at = "run" /\ Owner[x] = u /\ lock = NoCPU
        /\ _rt_timer_remove(x)
        /\ activated' = activated \ {x} /\ stopped' = stopped \ {x}
        /\ call' = [call EXCEPT ![u] = [at |-> "tick", timer |-> x]]
        /\ UNCHANGED <<tick, init_tick, lock, current_tick, at, periodic>>
    BY DEF rt_timer_start, Free, Goes, clockVars, checkVars
  <1>2. /\ call' \in [User -> Call]
        /\ \A v \in User : call'[v] = IF v = u THEN [at |-> "tick", timer |-> x] ELSE call[v]
    BY <1>1 DEF Inv, Types, Call
  <1>3. Aside(x)
    <2>1. ASSUME NEW v \in User, call'[v].at = "insert"
          PROVE  call'[v] = call[v] /\ call[v].timer # x
      <3>1. v # u /\ call'[v] = call[v]
        BY <1>2, <2>1
      <3> QED BY <1>1, <2>1, <3>1, OneCaller
    <2> QED BY <1>1, <1>2, <2>1 DEF Aside, Inv, Types, FlagExact, Late
  <1>4. Timing' /\ ToSet(rt_timer_list') = ToSet(rt_timer_list) \ {x}
    BY <1>1, <1>3, RemoveInv
  <1>5. Calls'
    BY <1>1, <1>2, <1>4 DEF Inv, Calls, Listed
  <1>6. Checks' /\ Holds' /\ \A y \in Timer : ~Fired(y) /\ ~Fired(y)'
    <2>1. \A y \in Timer : y \in stopped' \ (Switched \cap SelfStop) => ~Listed(y)'
      BY <1>1, <1>4, StoppedOff DEF Listed
    <2> QED BY <1>1, <2>1, SectionStep
  <1>7. Flags'
    <2> SUFFICES ASSUME NEW y \in Timer \ Switched
                 PROVE  InHand(y)' \/ (Listed(y)' <=> y \in activated')
      BY DEF Flags
    <2>1. CASE y = x
      BY <1>2, <2>1 DEF InHand
    <2>2. CASE y # x
      <3>1. InHand(y) => InHand(y)'
        BY <1>1, <1>2 DEF InHand
      <3> QED BY <1>1, <1>4, <1>6, <2>2, <3>1 DEF Inv, FlagExact, Listed
    <2> QED BY <2>1, <2>2
  <1> QED BY <1>4, <1>5, <1>6, <1>7, InvParts

\* rt_timer_start computes the timeout from the tick, outside the lock.
LEMMA StartTickInv == ASSUME Inv, NEW u \in User, StartTick(u) PROVE Inv'
  <1> DEFINE x == call[u].timer
  <1>1. /\ call[u].at = "tick"
        /\ timeout_tick' = [timeout_tick EXCEPT ![x] = (tick + init_tick[x]) % TickRange]
        /\ left' = [left EXCEPT ![x] = init_tick[x]]
        /\ call' = [call EXCEPT ![u] = [at |-> "insert", timer |-> x]]
        /\ UNCHANGED <<tick, rt_timer_list, init_tick, activated, periodic, lock,
                       current_tick, at, fired, arrival, tardy, stopped>>
    BY DEF StartTick, Goes, clockVars, flagVars, checkVars
  <1>2. x \in Timer /\ Owner[x] = u /\ ~Listed(x) /\ x \notin activated /\ x \notin stopped
    BY <1>1 DEF Inv, Calls
  <1> HIDE DEF x
  <1>3. /\ call' \in [User -> Call]
        /\ \A v \in User : call'[v] = IF v = u THEN [at |-> "insert", timer |-> x] ELSE call[v]
    BY <1>1, <1>2 DEF Inv, Types, Call
  <1>4. /\ init_tick[x] \in Nat /\ init_tick[x] >= 1
        /\ init_tick[x] + MaxLate + 1 < Half
        /\ (tick + init_tick[x]) % TickRange \in 0 .. RT_TICK_MAX
    BY <1>2, InitTicks
  <1>5. /\ \A y \in Timer \ {x} : left'[y] = left[y] /\ timeout_tick'[y] = timeout_tick[y]
        /\ left'[x] = init_tick[x] /\ timeout_tick'[x] = (tick + init_tick[x]) % TickRange
    BY <1>1, <1>2 DEF Inv, FlagExact, Types
  <1>6. Types' /\ timeout_tick' \in [Timer -> 0 .. RT_TICK_MAX]
    <2>1. left' \in [Timer -> Int]
      <3>1. left \in [Timer -> Int] /\ init_tick[x] \in Int
        BY <1>4 DEF Inv, Types
      <3> QED BY <1>1, <3>1
    <2>2. timeout_tick' \in [Timer -> 0 .. RT_TICK_MAX]
      BY <1>1, <1>4 DEF Inv, FlagExact
    <2> QED BY <1>1, <1>3, <2>1, <2>2 DEF Inv, Types
  <1>7. \A y \in ToSet(rt_timer_list) : y \in Timer /\ y # x /\ left'[y] = left[y]
    BY <1>2, <1>5, ListIndices DEF Inv, Types, Listed
  <1>8. InOrder'
    <2>1. ASSUME NEW i \in DOMAIN rt_timer_list
          PROVE  left'[rt_timer_list[i]] = left[rt_timer_list[i]]
      <3>1. rt_timer_list[i] \in ToSet(rt_timer_list)
        BY DEF ToSet
      <3> QED BY <1>7, <3>1
    <2> QED BY <1>1, <2>1 DEF Inv, InOrder
  <1>9. Clock'
    <2> SUFFICES ASSUME NEW y \in Timer, Counted(y)'
                 PROVE  timeout_tick'[y] = (tick + left'[y]) % TickRange
                        /\ left'[y] + MaxLate + 1 < Half
      BY <1>1 DEF Clock
    <2>1. CASE y = x
      BY <1>4, <1>5, <2>1
    <2>2. CASE y # x
      <3>1. Counted(y)
        BY <1>1, <1>3, <2>2 DEF Counted, Listed
      <3> QED BY <1>5, <2>2, <3>1 DEF Inv, Clock
    <2> QED BY <2>1, <2>2
  <1>10. Late'
    <2>1. ASSUME NEW v \in User, call'[v].at = "insert" PROVE left'[call'[v].timer] >= -MaxLate
      <3>1. CASE v = u
        BY <1>3, <1>4, <1>5, <3>1, TickFacts
      <3>2. CASE v # u
        <4>1. call'[v] = call[v] /\ call[v].at = "insert"
          BY <1>3, <2>1, <3>2
        <4>2. call[v].timer \in Timer \ {x}
          BY <1>2, <3>2, <4>1 DEF Inv, Calls
        <4> QED BY <1>5, <4>1, <4>2 DEF Inv, Late
      <3> QED BY <3>1, <3>2
    <2> QED BY <1>1, <1>7, <2>1 DEF Inv, Late
  <1>11. Calls'
    BY <1>1, <1>2, <1>3 DEF Inv, Calls, Listed
  <1>12. /\ Checks' /\ Holds'
         /\ \A y \in Timer : (Fired(y)' <=> Fired(y)) /\ (Listed(y)' <=> Listed(y))
    <2>1. \A v \in User : \/ call'[v] = call[v]
                          \/ call'[v].timer = call[v].timer /\ call[v].at \notin Harmless
      <3>1. call[u].at \notin Harmless /\ call'[u].timer = x /\ call[u].timer = x
        BY <1>1, <1>3 DEF x, Harmless
      <3>2. \A v \in User : v # u => call'[v] = call[v]
        BY <1>3
      <3>3. ASSUME NEW v \in User
            PROVE  \/ call'[v] = call[v]
                   \/ call'[v].timer = call[v].timer /\ call[v].at \notin Harmless
        <4>1. CASE v = u
          BY <3>1, <4>1
        <4>2. CASE v # u
          BY <3>2, <4>2
        <4> QED BY <4>1, <4>2
      <3> QED BY <3>3
    <2> QED BY <1>1, <2>1, FreeStep
  <1>13. Flags'
    <2> SUFFICES ASSUME NEW y \in Timer, InHand(y) PROVE InHand(y)'
      BY <1>1, <1>12 DEF Inv, FlagExact, Flags
    <2> QED BY <1>1, <1>3 DEF InHand, x
  <1>14. Timing'
    BY <1>1, <1>6, <1>8, <1>9, <1>10 DEF Timing, Inv, FlagExact
  <1> QED BY <1>11, <1>12, <1>13, <1>14, InvParts

\* rt_timer_start, second section: the timer enters the list and becomes active.
LEMMA StartInsertInv == ASSUME Inv, NEW u \in User, StartInsert(u) PROVE Inv'
  <1> DEFINE x == call[u].timer
  <1>1. /\ call[u].at = "insert" /\ lock = NoCPU
        /\ activated' = activated \cup {x}
        /\ call' = [call EXCEPT ![u] = [at |-> "run", timer |-> x]]
        /\ UNCHANGED <<lock, at, stopped>>
    BY DEF StartInsert, Goes, checkVars
  <1>2. Timing' /\ ToSet(rt_timer_list') = ToSet(rt_timer_list) \cup {x}
    BY StartInsertTiming
  <1>3. x \in Timer /\ Owner[x] = u /\ x \notin stopped
    BY <1>1 DEF Inv, Calls
  <1>4. \A v \in User : call'[v] = IF v = u THEN [at |-> "run", timer |-> x] ELSE call[v]
    BY <1>1 DEF Inv, Types
  <1>5. Calls'
    <2> SUFFICES ASSUME NEW v \in User, call'[v].at # "run"
                 PROVE  LET y == call'[v].timer IN
                        /\ y \in Timer /\ Owner[y] = v
                        /\ call'[v].at \in {"tick", "insert", "clear"} =>
                              y \notin ToSet(rt_timer_list')
                        /\ call'[v].at \in {"tick", "insert"} =>
                              y \notin activated' /\ y \notin stopped
                        /\ call'[v].at = "mode" => y \in Switched
      BY <1>1 DEF Calls, Listed
    <2>1. v # u /\ call'[v] = call[v]
      BY <1>4
    <2>2. call[v].timer # x
      BY <1>3, <2>1, OneCaller
    <2> QED BY <1>1, <1>2, <2>1, <2>2 DEF Inv, Calls, Listed
  <1>6. Checks' /\ Holds' /\ \A y \in Timer : ~Fired(y) /\ ~Fired(y)'
    <2>1. \A y \in Timer : y \in stopped' \ (Switched \cap SelfStop) => ~Listed(y)'
      BY <1>1, <1>2, <1>3, StoppedOff DEF Listed
    <2> QED BY <1>1, <2>1, SectionStep
  <1>7. Flags'
    <2> SUFFICES ASSUME NEW y \in Timer \ Switched
                 PROVE  InHand(y)' \/ (Listed(y)' <=> y \in activated')
      BY DEF Flags
    <2>1. CASE y = x
      BY <1>1, <1>2, <2>1 DEF Listed
    <2>2. CASE y # x
      <3>1. InHand(y) => InHand(y)'
        BY <1>4, <2>2 DEF InHand
      <3> QED BY <1>1, <1>2, <1>6, <2>2, <3>1 DEF Inv, FlagExact, Listed
    <2> QED BY <2>1, <2>2
  <1> QED BY <1>2, <1>5, <1>6, <1>7, InvParts

\* A step that leaves the ticks and the list alone, and of the calls changes only
\* that of thread u, which is not about to insert a timer before or after it.
LEMMA CallTiming ==
    ASSUME Inv, NEW u \in User, NEW c \in Call, call[u].at # "insert", c.at # "insert",
           call' = [call EXCEPT ![u] = c], activated' \subseteq Timer, periodic' \subseteq Timer,
           UNCHANGED <<tick, rt_timer_list, timeout_tick, init_tick, lock, current_tick, at,
                       left, arrival, tardy>>
    PROVE  Timing' /\ \A v \in User : call'[v] = IF v = u THEN c ELSE call[v]
  <1>1. call' \in [User -> Call] /\ \A v \in User : call'[v] = IF v = u THEN c ELSE call[v]
    BY DEF Inv, Types
  <1>2. Types'
    BY <1>1 DEF Inv, Types
  <1>3. \A y \in Timer : Counted(y)' => Counted(y)
    BY <1>1 DEF Counted, Listed
  <1>4. Clock'
    BY <1>3 DEF Inv, Clock
  <1>5. Late'
    BY <1>1 DEF Inv, Late
  <1>6. InOrder'
    BY DEF Inv, InOrder
  <1> QED BY <1>1, <1>2, <1>4, <1>5, <1>6 DEF Timing, Inv, FlagExact

\* rt_timer_stop called for a timer that is active.
LEMMA StopInv ==
    ASSUME Inv, NEW u \in User, NEW x \in Timer, rt_timer_stop(u, x)
    PROVE  Inv'
  <1> DEFINE c == [at |-> "remove", timer |-> x]
  <1>1. /\ call[u].at = "run" /\ Owner[x] = u
        /\ call' = [call EXCEPT ![u] = c]
        /\ UNCHANGED <<tick, rt_timer_list, timeout_tick, init_tick, activated, periodic, lock,
                       current_tick, at, fired, left, arrival, tardy, stopped>>
    BY DEF rt_timer_stop, Free, Goes, clockVars, listVars, flagVars, checkVars
  <1>2. c \in Call /\ c.at = "remove" /\ c.timer = x
    BY DEF Call
  <1> HIDE DEF c
  <1>3. activated' \subseteq Timer /\ periodic' \subseteq Timer
    BY <1>1 DEF Inv, FlagExact
  <1>4. Timing' /\ \A v \in User : call'[v] = IF v = u THEN c ELSE call[v]
    BY <1>1, <1>2, <1>3, CallTiming
  <1>5. Calls'
    BY <1>1, <1>2, <1>4 DEF Inv, Calls, Listed
  <1>6. /\ Checks' /\ Holds'
        /\ \A y \in Timer : (Fired(y)' <=> Fired(y)) /\ (Listed(y)' <=> Listed(y))
    <2>1. \A v \in User : call'[v] = call[v] \/ call'[v].at \in Harmless
      BY <1>2, <1>4 DEF Harmless
    <2> QED BY <1>1, <2>1, FreeStep
  <1>7. Flags'
    <2> SUFFICES ASSUME NEW y \in Timer, InHand(y) PROVE InHand(y)'
      BY <1>1, <1>6 DEF Inv, FlagExact, Flags
    <2> QED BY <1>1, <1>4 DEF InHand
  <1> QED BY <1>4, <1>5, <1>6, <1>7, InvParts

\* rt_timer_stop takes the timer off the list.
LEMMA StopRemoveInv == ASSUME Inv, NEW u \in User, StopRemove(u) PROVE Inv'
  <1> DEFINE x == call[u].timer
  <1>1. /\ call[u].at = "remove" /\ lock = NoCPU
        /\ _rt_timer_remove(x)
        /\ call' = [call EXCEPT ![u] = [at |-> "clear", timer |-> x]]
        /\ UNCHANGED <<tick, init_tick, activated, periodic, lock, current_tick, at, stopped>>
    BY DEF StopRemove, Goes, clockVars, flagVars, checkVars
  <1>2. x \in Timer /\ Owner[x] = u
    BY <1>1 DEF Inv, Calls
  <1> HIDE DEF x
  <1>3. /\ call' \in [User -> Call]
        /\ \A v \in User : call'[v] = IF v = u THEN [at |-> "clear", timer |-> x] ELSE call[v]
    BY <1>1, <1>2 DEF Inv, Types, Call
  <1>4. Aside(x)
    <2>1. ASSUME NEW v \in User, call'[v].at = "insert"
          PROVE  call'[v] = call[v] /\ call[v].timer # x
      <3>1. v # u /\ call'[v] = call[v]
        BY <1>3, <2>1
      <3> QED BY <1>2, <2>1, <3>1, OneCaller
    <2> QED BY <1>1, <1>3, <2>1 DEF Aside, Inv, Types, FlagExact, Late
  <1>5. Timing' /\ ToSet(rt_timer_list') = ToSet(rt_timer_list) \ {x}
    BY <1>1, <1>2, <1>4, RemoveInv
  <1>6. Calls'
    BY <1>1, <1>2, <1>3, <1>5 DEF Inv, Calls, Listed
  <1>7. Checks' /\ Holds' /\ \A y \in Timer : ~Fired(y) /\ ~Fired(y)'
    <2>1. \A y \in Timer : y \in stopped' \ (Switched \cap SelfStop) => ~Listed(y)'
      BY <1>1, <1>5, StoppedOff DEF Listed
    <2> QED BY <1>1, <2>1, SectionStep
  <1>8. Flags'
    <2> SUFFICES ASSUME NEW y \in Timer \ Switched
                 PROVE  InHand(y)' \/ (Listed(y)' <=> y \in activated')
      BY DEF Flags
    <2>1. CASE y = x
      BY <1>3, <2>1 DEF InHand
    <2>2. CASE y # x
      <3>1. InHand(y) => InHand(y)'
        BY <1>1, <1>3, <2>2 DEF InHand, x
      <3> QED BY <1>1, <1>5, <1>7, <2>2, <3>1 DEF Inv, FlagExact, Listed
    <2> QED BY <2>1, <2>2
  <1> QED BY <1>5, <1>6, <1>7, <1>8, InvParts

\* rt_timer_stop clears the flag, in a section of its own.
LEMMA StopClearInv == ASSUME Inv, NEW u \in User, StopClear(u) PROVE Inv'
  <1> DEFINE x == call[u].timer
             c == [at |-> "run", timer |-> x]
  <1>1. /\ call[u].at = "clear"
        /\ activated' = activated \ {x} /\ stopped' = stopped \cup {x}
        /\ call' = [call EXCEPT ![u] = c]
        /\ UNCHANGED <<tick, rt_timer_list, timeout_tick, init_tick, periodic, lock,
                       current_tick, at, fired, left, arrival, tardy>>
    BY DEF StopClear, Goes, clockVars, listVars, checkVars
  <1>2. x \in Timer /\ Owner[x] = u /\ ~Listed(x)
    BY <1>1 DEF Inv, Calls
  <1>3. c \in Call /\ c.at = "run" /\ c.timer = x
    BY <1>2 DEF Call
  <1> HIDE DEF c
  <1>4. activated' \subseteq Timer /\ periodic' \subseteq Timer
    BY <1>1 DEF Inv, FlagExact
  <1>5. Timing' /\ \A v \in User : call'[v] = IF v = u THEN c ELSE call[v]
    BY <1>1, <1>3, <1>4, CallTiming
  <1>6. Calls'
    <2> SUFFICES ASSUME NEW v \in User, call'[v].at # "run"
                 PROVE  LET y == call'[v].timer IN
                        /\ y \in Timer /\ Owner[y] = v
                        /\ call'[v].at \in {"tick", "insert", "clear"} => ~Listed(y)
                        /\ call'[v].at \in {"tick", "insert"} =>
                              y \notin activated' /\ y \notin stopped'
                        /\ call'[v].at = "mode" => y \in Switched
      BY <1>1 DEF Calls, Listed
    <2>1. v # u /\ call'[v] = call[v]
      BY <1>3, <1>5
    <2>2. call[v].timer # x
      BY <1>2, <2>1, OneCaller
    <2> QED BY <1>1, <2>1, <2>2 DEF Inv, Calls
  <1>7. /\ Checks' /\ Holds'
        /\ \A y \in Timer : (Fired(y)' <=> Fired(y)) /\ (Listed(y)' <=> Listed(y))
    <2>1. \A v \in User : call'[v] = call[v] \/ call'[v].at \in Harmless
      BY <1>3, <1>5 DEF Harmless
    <2>2. ~Fired(x)
      <3> SUFFICES ASSUME NEW d \in CPU, at[d] \in Firing, fired.timer = x PROVE FALSE
        BY DEF Fired
      <3>1. call[u].at \in Harmless
        BY FiredTimer DEF x
      <3> QED BY <1>1, <3>1 DEF Harmless
    <2> QED BY <1>1, <1>2, <2>1, <2>2, FreeStep
  <1>8. Flags'
    <2> SUFFICES ASSUME NEW y \in Timer \ Switched
                 PROVE  InHand(y)' \/ Fired(y)' \/ (Listed(y)' <=> y \in activated')
      BY DEF Flags
    <2>1. CASE y = x
      BY <1>1, <1>2, <2>1 DEF Listed
    <2>2. CASE y # x
      <3>1. InHand(y) => InHand(y)'
        BY <1>1, <1>5, <2>2 DEF InHand
      <3> QED BY <1>1, <1>7, <2>2, <3>1 DEF Inv, FlagExact
    <2> QED BY <2>1, <2>2
  <1> QED BY <1>5, <1>6, <1>7, <1>8, InvParts

\* RT_TIMER_CTRL_SET_TIME counts from the next start on.
LEMMA SetTimeInv ==
    ASSUME Inv, NEW u \in User, NEW x \in Timer, NEW time \in InitTick[x],
           SetTime(u, x, time)
    PROVE  Inv'
  <1>1. /\ init_tick' = [init_tick EXCEPT ![x] = time]
        /\ UNCHANGED <<tick, rt_timer_list, timeout_tick, activated, periodic, lock,
                       current_tick, at, fired, call, left, arrival, tardy, stopped>>
    BY DEF SetTime, listVars, flagVars, checkVars
  <1>2. time \in Nat
    BY TimerAssumption, TickFacts
  <1>3. init_tick' \in [Timer -> Nat] /\ \A y \in Timer : init_tick'[y] \in InitTick[y]
    BY <1>1, <1>2 DEF Inv, Types
  <1>4. Types'
    BY <1>1, <1>3 DEF Inv, Types
  <1>5. \A y \in Timer : /\ Counted(y)' <=> Counted(y)
                         /\ InHand(y)' <=> InHand(y)
                         /\ Listed(y)' <=> Listed(y)
                         /\ Fired(y)' <=> Fired(y)
    BY <1>1 DEF Counted, Listed, InHand, Fired
  <1>6. Clock'
    BY <1>1, <1>5 DEF Inv, Clock
  <1>7. FlagExact'
    BY <1>1, <1>5 DEF Inv, FlagExact
  <1>8. Checks' /\ Holds'
    BY <1>1, <1>5 DEF Inv, Checks, Holds, Held, Listed
  <1> QED BY <1>1, <1>4, <1>6, <1>7, <1>8 DEF Inv, Calls, Listed, InOrder, Late

\* RT_TIMER_CTRL_SET_ONESHOT and _SET_PERIODIC load the flag.
LEMMA SetModeInv ==
    ASSUME Inv, NEW u \in User, NEW x \in Timer, SetMode(u, x)
    PROVE  Inv'
  <1> DEFINE c == [at |-> "mode", timer |-> x]
  <1>1. /\ call[u].at = "run" /\ Owner[x] \in {u, Locked} /\ x \in Switched
        /\ call' = [call EXCEPT ![u] = c]
        /\ UNCHANGED <<tick, rt_timer_list, timeout_tick, init_tick, activated, periodic, lock,
                       current_tick, at, fired, left, arrival, tardy, stopped>>
    BY DEF SetMode, Free, Goes, clockVars, listVars, flagVars, checkVars
  <1>2. c \in Call /\ c.at = "mode" /\ c.timer = x /\ Owner[x] = u
    BY <1>1, TimerAssumption DEF Call
  <1> HIDE DEF c
  <1>3. activated' \subseteq Timer /\ periodic' \subseteq Timer
    BY <1>1 DEF Inv, FlagExact
  <1>4. Timing' /\ \A v \in User : call'[v] = IF v = u THEN c ELSE call[v]
    BY <1>1, <1>2, <1>3, CallTiming
  <1>5. Calls'
    BY <1>1, <1>2, <1>4 DEF Inv, Calls, Listed
  <1>6. /\ Checks' /\ Holds'
        /\ \A y \in Timer : (Fired(y)' <=> Fired(y)) /\ (Listed(y)' <=> Listed(y))
    <2>1. \A v \in User : call'[v] = call[v] \/ call'[v].at \in Harmless
      BY <1>2, <1>4 DEF Harmless
    <2> QED BY <1>1, <2>1, FreeStep
  <1>7. Flags'
    <2> SUFFICES ASSUME NEW y \in Timer, InHand(y) PROVE InHand(y)'
      BY <1>1, <1>6 DEF Inv, FlagExact, Flags
    <2> QED BY <1>1, <1>4 DEF InHand
  <1> QED BY <1>4, <1>5, <1>6, <1>7, InvParts

\* A store changes the bits of one timer only.
LEMMA StoreEffect ==
    ASSUME Inv, NEW x \in Timer, NEW active, NEW period, Store(x, active, period)
    PROVE  /\ activated' \subseteq Timer /\ periodic' \subseteq Timer
           /\ \A y \in Timer : y # x => (y \in activated' <=> y \in activated)
           /\ active = FALSE => x \notin activated'
           /\ active = TRUE => x \in activated'
  BY DEF Store, Inv, FlagExact

\* They store the flag with the bit ACTIVATED as it was.
LEMMA ModeStoreInv ==
    ASSUME Inv, NEW u \in User, NEW period \in BOOLEAN, ModeStore(u, period)
    PROVE  Inv'
  <1> DEFINE x == call[u].timer
             c == [at |-> "run", timer |-> x]
  <1>1. /\ call[u].at = "mode"
        /\ Store(x, loaded[u], period)
        /\ call' = [call EXCEPT ![u] = c]
        /\ UNCHANGED <<tick, rt_timer_list, timeout_tick, init_tick, lock,
                       current_tick, at, fired, left, arrival, tardy, stopped>>
    BY DEF ModeStore, Goes, clockVars, listVars, checkVars
  <1>2. x \in Timer /\ Owner[x] = u /\ x \in Switched
    BY <1>1 DEF Inv, Calls
  <1>3. c \in Call /\ c.at = "run" /\ c.timer = x
    BY <1>2 DEF Call
  <1> HIDE DEF c
  <1>4. /\ activated' \subseteq Timer /\ periodic' \subseteq Timer
        /\ \A y \in Timer : y # x => (y \in activated' <=> y \in activated)
    BY <1>1, <1>2, StoreEffect
  <1>5. Timing' /\ \A v \in User : call'[v] = IF v = u THEN c ELSE call[v]
    BY <1>1, <1>3, <1>4, CallTiming
  <1>6. Calls'
    <2> SUFFICES ASSUME NEW v \in User, call'[v].at # "run"
                 PROVE  LET y == call'[v].timer IN
                        /\ y \in Timer /\ Owner[y] = v
                        /\ call'[v].at \in {"tick", "insert", "clear"} => ~Listed(y)
                        /\ call'[v].at \in {"tick", "insert"} =>
                              y \notin activated' /\ y \notin stopped
                        /\ call'[v].at = "mode" => y \in Switched
      BY <1>1 DEF Calls, Listed
    <2>1. v # u /\ call'[v] = call[v]
      BY <1>3, <1>5
    <2>2. call[v].timer # x
      BY <1>2, <2>1, OneCaller
    <2> QED BY <1>4, <2>1, <2>2 DEF Inv, Calls
  <1>7. /\ Checks' /\ Holds'
        /\ \A y \in Timer : (Fired(y)' <=> Fired(y)) /\ (Listed(y)' <=> Listed(y))
    <2>1. \A v \in User : call'[v] = call[v] \/ call'[v].at \in Harmless
      BY <1>3, <1>5 DEF Harmless
    <2> QED BY <1>1, <1>2, <1>4, <2>1, FreeStep
  <1>8. Flags'
    <2> SUFFICES ASSUME NEW y \in Timer \ Switched
                 PROVE  InHand(y)' \/ Fired(y)' \/ (Listed(y)' <=> y \in activated')
      BY DEF Flags
    <2>1. y # x /\ (y \in activated' <=> y \in activated)
      BY <1>2, <1>4
    <2>2. InHand(y) => InHand(y)'
      BY <1>1, <1>5, <2>1 DEF InHand
    <2> QED BY <1>7, <2>1, <2>2 DEF Inv, FlagExact
  <1> QED BY <1>5, <1>6, <1>7, <1>8, InvParts

\* rt_timer_start called with the lock held is one step.
LEMMA StartLockedInv ==
    ASSUME Inv, NEW u \in User, NEW x \in Timer, StartLocked(u, x)
    PROVE  Inv'
  <1>1. /\ Owner[x] = Locked /\ lock = NoCPU
        /\ StartWhole(x)
        /\ activated' = activated \cup {x} /\ stopped' = stopped \ {x}
        /\ UNCHANGED <<tick, init_tick, periodic, lock, current_tick, at, call>>
    BY DEF StartLocked, clockVars, checkVars
  <1>2. \A v \in User : call[v].at # "run" => call[v].timer # x
    BY <1>1, OneCaller
  <1>3. Aside(x)
    BY <1>1, <1>2 DEF Aside, Inv, Types, FlagExact, Late
  <1>4. Timing' /\ ToSet(rt_timer_list') = ToSet(rt_timer_list) \cup {x}
    BY <1>1, <1>3, WholeInv
  <1>5. Calls'
    BY <1>1, <1>2, <1>4 DEF Inv, Calls, Listed
  <1>6. Checks' /\ Holds' /\ \A y \in Timer : ~Fired(y) /\ ~Fired(y)'
    <2>1. \A y \in Timer : y \in stopped' \ (Switched \cap SelfStop) => ~Listed(y)'
      BY <1>1, <1>4, StoppedOff DEF Listed
    <2> QED BY <1>1, <2>1, SectionStep
  <1>7. Flags'
    BY <1>1, <1>4, <1>6 DEF Inv, FlagExact, Flags, InHand, Listed
  <1> QED BY <1>4, <1>5, <1>6, <1>7, InvParts

\* rt_timer_stop called with the lock held is one step.
LEMMA StopLockedInv ==
    ASSUME Inv, NEW u \in User, NEW x \in Timer, StopLocked(u, x)
    PROVE  Inv'
  <1>1. /\ Owner[x] = Locked /\ lock = NoCPU
        /\ _rt_timer_remove(x)
        /\ activated' = activated \ {x} /\ stopped' = stopped \cup {x}
        /\ UNCHANGED <<tick, init_tick, periodic, lock, current_tick, at, call>>
    BY DEF StopLocked, clockVars, checkVars
  <1>2. \A v \in User : call[v].at # "run" => call[v].timer # x
    BY <1>1, OneCaller
  <1>3. Aside(x)
    BY <1>1, <1>2 DEF Aside, Inv, Types, FlagExact, Late
  <1>4. Timing' /\ ToSet(rt_timer_list') = ToSet(rt_timer_list) \ {x}
    BY <1>1, <1>3, RemoveInv
  <1>5. Calls'
    BY <1>1, <1>2, <1>4 DEF Inv, Calls, Listed
  <1>6. Checks' /\ Holds' /\ \A y \in Timer : ~Fired(y) /\ ~Fired(y)'
    <2>1. \A y \in Timer : y \in stopped' \ (Switched \cap SelfStop) => ~Listed(y)'
      BY <1>1, <1>4, StoppedOff DEF Listed
    <2> QED BY <1>1, <2>1, SectionStep
  <1>7. Flags'
    BY <1>1, <1>4, <1>6 DEF Inv, FlagExact, Flags, InHand, Listed
  <1> QED BY <1>4, <1>5, <1>6, <1>7, InvParts

-----------------------------------------------------------------------------
(* The tick interrupt.                                                     *)

\* A counted timer can be one tick later without harm, if CPU 0 is not in its
\* check and no thread is too late to insert it.
LEMMA CountedLeft ==
    ASSUME Inv, NEW x \in Timer, Counted(x), at[0] = "idle"
    PROVE  left[x] \in Int /\ left[x] >= -MaxLate /\ left[x] + MaxLate + 1 < Half
  <1>1. left[x] \in Int /\ left[x] + MaxLate + 1 < Half
    BY DEF Inv, Types, Clock
  <1>2. CASE Listed(x)
    BY <1>1, <1>2, TickFacts DEF Inv, Late, Listed
  <1>3. CASE \E u \in User : call[u] = [at |-> "insert", timer |-> x]
    <2>1. PICK u \in User : call[u] = [at |-> "insert", timer |-> x]
      BY <1>3
    <2>2. call[u].at = "insert" /\ call[u].timer = x
      BY <2>1
    <2> QED BY <1>1, <2>2 DEF Inv, Late
  <1> QED BY <1>1, <1>2, <1>3 DEF Counted

\* A CPU that enters its check is not in the loop before or after it.
LEMMA EnterStep ==
    ASSUME Inv, NEW c \in CPU, at[c] \in {"idle", "enter"}, NEW place \in {"idle", "enter"},
           at' = [at EXCEPT ![c] = place],
           UNCHANGED <<rt_timer_list, activated, lock, fired, call, stopped>>
    PROVE  Checks' /\ Holds' /\ \A x \in Timer : Fired(x)' <=> Fired(x)
  <1>1. \A p \in {"idle", "enter"} : p \notin Inside /\ p \notin Firing
    BY DEF Inside, Firing
  <1>2. \A d \in CPU : at'[d] = IF d = c THEN place ELSE at[d]
    BY DEF Inv, Types
  <1>3. \A d \in CPU : /\ at'[d] \in Inside <=> at[d] \in Inside
                       /\ at'[d] \in Firing <=> at[d] \in Firing
                       /\ at[d] \in Firing => at'[d] = at[d]
    BY <1>1, <1>2
  <1>4. \A x : Listed(x)' <=> Listed(x)
    BY DEF Listed
  <1>5. Checks'
    BY <1>3, <1>4 DEF Inv, Checks, Listed
  <1>6. Holds'
    BY <1>3, <1>4 DEF Inv, Holds, Held
  <1>7. \A x \in Timer : Fired(x)' <=> Fired(x)
    BY <1>3 DEF Fired
  <1> QED BY <1>5, <1>6, <1>7

\* The tick of CPU 0.
LEMMA TickInv == ASSUME Inv, TickInterrupt(0) PROVE Inv'
  <1>1. /\ at[0] = "idle"
        /\ \A u \in User : call[u].at = "insert" => left[call[u].timer] > -MaxLate
        /\ tick' = (tick + 1) % TickRange
        /\ left' = [x \in Timer |-> IF Counted(x) THEN left[x] - 1 ELSE left[x]]
        /\ current_tick' = [current_tick EXCEPT ![0] = tick']
        /\ at' = [at EXCEPT ![0] = "enter"]
        /\ UNCHANGED <<rt_timer_list, timeout_tick, init_tick, activated, periodic, lock, fired,
                       call, arrival, tardy, stopped>>
    BY DEF TickInterrupt, Counted, flagVars
  <1>2. 0 \in CPU /\ tick \in 0 .. RT_TICK_MAX /\ tick' \in 0 .. RT_TICK_MAX
    <2>1. 0 \in CPU /\ tick \in 0 .. RT_TICK_MAX
      BY TimerAssumption DEF Inv, FlagExact
    <2>2. tick + 1 \in Int /\ tick + 1 >= -TickRange /\ tick + 1 < 2 * TickRange
      BY <2>1, TickFacts
    <2> QED BY <1>1, <2>1, <2>2, Wraps, TickFacts
  <1>3. \A x \in Timer : /\ Counted(x)' <=> Counted(x)
                         /\ InHand(x)' <=> InHand(x)
                         /\ Listed(x)' <=> Listed(x)
    BY <1>1 DEF Counted, InHand, Listed
  <1>4. Checks' /\ Holds' /\ \A x \in Timer : Fired(x)' <=> Fired(x)
    BY <1>1, <1>2, EnterStep DEF Inv, Types
  <1>5. \A x \in Timer : left[x] \in Int /\ left'[x] = IF Counted(x) THEN left[x] - 1 ELSE left[x]
    BY <1>1 DEF Inv, Types
  <1>6. \A x \in ToSet(rt_timer_list) : x \in Timer /\ Counted(x)
    BY ListIndices DEF Inv, Types, Counted, Listed
  <1>7. /\ at'[0] = "enter" /\ current_tick'[0] = tick'
        /\ at' \in [CPU -> Places]
        /\ current_tick' \in [CPU -> 0 .. RT_TICK_MAX]
    BY <1>1, <1>2 DEF Inv, Types, Places
  <1>8. Types'
    <2>1. left' \in [Timer -> Int]
      BY <1>1, <1>5
    <2> QED BY <1>1, <1>7, <2>1 DEF Inv, Types
  <1>9. FlagExact'
    BY <1>1, <1>2, <1>3, <1>4 DEF Inv, FlagExact
  <1>10. Calls'
    BY <1>1 DEF Inv, Calls, Listed
  <1>11. Clock'
    <2> SUFFICES ASSUME NEW x \in Timer, Counted(x)
                 PROVE  /\ timeout_tick[x] = (tick' + left'[x]) % TickRange
                        /\ left'[x] + MaxLate + 1 < Half
      BY <1>1, <1>3 DEF Clock
    <2>1. PICK p \in Int : p = left[x] /\ p >= -MaxLate /\ p + MaxLate + 1 < Half
      BY <1>1, CountedLeft
    <2>2. -Half < p /\ p < Half /\ -Half < p - 1
      BY <2>1, InitTicks, TickFacts
    <2>3. (tick' + (p - 1)) % TickRange = (tick + p) % TickRange
      BY <1>1, <1>2, <2>2, NextTick
    <2>4. left'[x] = p - 1 /\ timeout_tick[x] = (tick + p) % TickRange
      BY <1>5, <2>1 DEF Inv, Clock
    <2>5. (p - 1) + MaxLate + 1 < Half
      BY <2>1, TickFacts
    <2> QED BY <2>3, <2>4, <2>5
  <1>12. InOrder'
    <2>1. ASSUME NEW i \in DOMAIN rt_timer_list
          PROVE  /\ left'[rt_timer_list[i]] = left[rt_timer_list[i]] - 1
                 /\ left[rt_timer_list[i]] \in Int
      <3>1. rt_timer_list[i] \in ToSet(rt_timer_list)
        BY DEF ToSet
      <3> QED BY <1>5, <1>6, <3>1
    <2>2. ASSUME NEW i \in DOMAIN rt_timer_list, NEW j \in DOMAIN rt_timer_list
          PROVE  /\ left[rt_timer_list[i]] < left[rt_timer_list[j]]
                       => left'[rt_timer_list[i]] < left'[rt_timer_list[j]]
                 /\ left[rt_timer_list[i]] = left[rt_timer_list[j]]
                       => left'[rt_timer_list[i]] = left'[rt_timer_list[j]]
      BY <2>1
    <2> QED BY <1>1, <2>2 DEF Inv, InOrder
  <1>13. Late'
    <2>1. ASSUME NEW u \in User, call'[u].at = "insert" PROVE left'[call'[u].timer] >= -MaxLate
      <3>1. call' = call /\ call[u].timer \in Timer /\ left[call[u].timer] > -MaxLate
        BY <1>1, <2>1 DEF Inv, Calls
      <3> QED BY <1>5, <3>1, TickFacts
    <2>2. ASSUME NEW x \in ToSet(rt_timer_list)
          PROVE  IF x \in tardy THEN left'[x] <= 0 /\ left'[x] >= -MaxLate - 1
                                ELSE left'[x] >= 0
      <3>1. left[x] \in Int /\ left'[x] = left[x] - 1
        BY <1>5, <1>6
      <3>2. IF x \in tardy THEN left[x] <= 0 /\ left[x] >= -MaxLate ELSE left[x] >= 1
        BY <1>1 DEF Inv, Late
      <3> QED BY <3>1, <3>2, TickFacts
    <2> QED BY <1>1, <1>7, <2>1, <2>2 DEF Late
  <1> QED BY <1>4, <1>8, <1>9, <1>10, <1>11, <1>12, <1>13 DEF Inv

\* A step of a check that leaves the ticks and the list alone.
LEMMA CheckTiming ==
    ASSUME Inv, UNCHANGED <<tick, rt_timer_list, timeout_tick, init_tick, call, left, arrival,
                            tardy>>,
           lock' \in CPU \cup {NoCPU}, at' \in [CPU -> Places],
           activated' \subseteq Timer, periodic' \subseteq Timer,
           current_tick' \in [CPU -> 0 .. RT_TICK_MAX], Late'
    PROVE  Timing' /\ \A x \in Timer : /\ InHand(x)' <=> InHand(x)
                                       /\ Listed(x)' <=> Listed(x)
  <1>1. \A x \in Timer : /\ Counted(x)' <=> Counted(x)
                         /\ InHand(x)' <=> InHand(x)
                         /\ Listed(x)' <=> Listed(x)
    BY DEF Counted, InHand, Listed
  <1>2. Types'
    BY DEF Inv, Types
  <1>3. Clock'
    BY <1>1 DEF Inv, Clock
  <1>4. InOrder'
    BY DEF Inv, InOrder
  <1> QED BY <1>1, <1>2, <1>3, <1>4 DEF Timing, Inv, FlagExact

\* One that leaves the flags alone as well.
LEMMA CheckKeeps ==
    ASSUME Inv, UNCHANGED <<tick, rt_timer_list, timeout_tick, init_tick, activated, periodic,
                            call, left, arrival, tardy, stopped>>,
           lock' \in CPU \cup {NoCPU}, at' \in [CPU -> Places],
           current_tick' \in [CPU -> 0 .. RT_TICK_MAX], Late', Checks', Holds',
           \A x \in Timer : Fired(x) => Fired(x)'
    PROVE  Inv'
  <1>1. Timing' /\ \A x \in Timer : /\ InHand(x)' <=> InHand(x)
                                    /\ Listed(x)' <=> Listed(x)
    <2>1. activated' \subseteq Timer /\ periodic' \subseteq Timer
      BY DEF Inv, FlagExact
    <2> QED BY <2>1, CheckTiming
  <1>2. Calls'
    BY DEF Inv, Calls, Listed
  <1>3. Flags'
    BY <1>1 DEF Inv, FlagExact, Flags
  <1> QED BY <1>1, <1>2, <1>3, InvParts

\* The tick interrupt of a CPU that does not count the tick.
LEMMA OtherTickInv == ASSUME Inv, NEW c \in CPU \ {0}, TickInterrupt(c) PROVE Inv'
  <1>1. /\ at[c] = "idle"
        /\ UNCHANGED <<tick, left>>
        /\ current_tick' = [current_tick EXCEPT ![c] = tick]
        /\ at' = [at EXCEPT ![c] = "enter"]
        /\ UNCHANGED <<rt_timer_list, timeout_tick, init_tick, activated, periodic, lock, fired,
                       call, arrival, tardy, stopped>>
    BY DEF TickInterrupt, flagVars
  <1>2. tick \in 0 .. RT_TICK_MAX /\ lock' \in CPU \cup {NoCPU} /\ 0 \in CPU
    BY <1>1, TimerAssumption DEF Inv, FlagExact
  <1>3. /\ at'[0] = at[0] /\ current_tick'[0] = current_tick[0]
        /\ at' \in [CPU -> Places]
        /\ current_tick' \in [CPU -> 0 .. RT_TICK_MAX]
    BY <1>1, <1>2 DEF Inv, Types, Places
  <1>4. Late'
    BY <1>1, <1>3 DEF Inv, Late
  <1>5. Checks' /\ Holds' /\ \A x \in Timer : Fired(x)' <=> Fired(x)
    BY <1>1, EnterStep
  <1> QED BY <1>1, <1>2, <1>3, <1>4, <1>5, CheckKeeps

\* rt_timer_check takes the lock.
LEMMA CheckEnterInv == ASSUME Inv, NEW c \in CPU, CheckEnter(c) PROVE Inv'
  <1>1. /\ at[c] = "enter" /\ lock = NoCPU /\ lock' = c
        /\ at' = [at EXCEPT ![c] = "loop"]
        /\ UNCHANGED <<tick, rt_timer_list, timeout_tick, init_tick, activated, periodic,
                       current_tick, fired, call, left, arrival, tardy, stopped>>
    BY DEF CheckEnter, clockVars, listVars, flagVars
  <1>2. 0 \in CPU
    BY TimerAssumption
  <1>3. /\ at'[0] = "idle" <=> at[0] = "idle"
        /\ at' \in [CPU -> Places]
        /\ current_tick' \in [CPU -> 0 .. RT_TICK_MAX]
        /\ \A d \in CPU : at'[d] = IF d = c THEN "loop" ELSE at[d]
    BY <1>1, <1>2 DEF Inv, Types, Places, Inside
  <1>4. Late'
    BY <1>1, <1>3 DEF Inv, Late
  <1>5. \A d \in CPU : at[d] \notin Inside /\ at[d] \notin Firing
    BY <1>1, TimerAssumption DEF Inv, Checks, Inside
  <1>6. "loop" \in Inside /\ "loop" \notin Firing
    BY DEF Inside, Firing
  <1>7. Checks'
    BY <1>1, <1>3, <1>5, <1>6 DEF Checks
  <1>8. Holds'
    BY <1>1, <1>3, <1>5, <1>6, StoppedOff DEF Holds, Held, Listed
  <1>9. \A x \in Timer : ~Fired(x)
    BY <1>5 DEF Fired
  <1> QED BY <1>1, <1>3, <1>4, <1>7, <1>8, <1>9, CheckKeeps

\* The step of CPU c in its check, which reads the tick or does not.
LEMMA CheckLate ==
    ASSUME Inv, NEW c \in CPU, at[c] \in Inside, NEW place \in Inside, Turns(c, place),
           UNCHANGED <<tick, rt_timer_list, call, left, tardy, lock>>,
           \/ UNCHANGED current_tick
           \/ current_tick' = [current_tick EXCEPT ![c] = tick]
    PROVE  /\ lock' \in CPU \cup {NoCPU} /\ at' \in [CPU -> Places]
           /\ current_tick' \in [CPU -> 0 .. RT_TICK_MAX] /\ Late'
  <1>1. at' \in [CPU -> Places] /\ (at'[0] = "idle" <=> at[0] = "idle")
    BY TurnStep
  <1>2. 0 \in CPU /\ tick \in 0 .. RT_TICK_MAX /\ lock' \in CPU \cup {NoCPU}
    BY TimerAssumption DEF Inv, FlagExact
  <1>3. /\ current_tick' \in [CPU -> 0 .. RT_TICK_MAX]
        /\ at[0] # "idle" => current_tick'[0] = tick
    BY <1>2 DEF Inv, Types, Late
  <1>4. Late'
    BY <1>1, <1>3 DEF Inv, Late
  <1> QED BY <1>1, <1>2, <1>3, <1>4

\* The check of a CPU removes the first timer and calls its function.
LEMMA FireInv == ASSUME Inv, NEW c \in CPU, Fire(c) PROVE Inv'
  <1> DEFINE x == Head(rt_timer_list)
  <1>1. /\ at[c] = "loop" /\ rt_timer_list # << >>
        /\ _rt_timer_remove(x)
        /\ fired' = Unread(x)
        /\ Turns(c, "func")
        /\ UNCHANGED <<tick, init_tick, current_tick, activated, periodic, lock, call, stopped>>
    BY DEF Fire, clockVars, flagVars
  <1>2. x \in Timer /\ Listed(x)
    BY <1>1, TailList DEF Inv, Types, Listed
  <1> HIDE DEF x
  <1>3. at[c] \in Inside /\ "func" \in Inside /\ "func" \in Firing /\ at[c] \notin Firing
    BY <1>1 DEF Inside, Firing
  <1>4. /\ at' \in [CPU -> Places] /\ (at'[0] = "idle" <=> at[0] = "idle")
        /\ \A y : Fired(y)' <=> fired'.timer = y
        /\ \A y : ~Fired(y)
    BY <1>1, <1>3, TurnStep
  <1>5. \A u \in User : call[u].timer = x => call[u].at \in Harmless
    BY <1>2 DEF Inv, Calls, Types, Call, Harmless
  <1>6. Aside(x)
    <2>1. activated' \subseteq Timer /\ periodic' \subseteq Timer
      BY <1>1 DEF Inv, FlagExact
    <2>2. /\ current_tick' \in [CPU -> 0 .. RT_TICK_MAX]
          /\ at[0] # "idle" => current_tick'[0] = tick
          /\ call' \in [User -> Call]
      BY <1>1 DEF Inv, Types, Late
    <2>3. \A u \in User : call[u].at = "insert" => call[u].timer # x
      BY <1>5 DEF Harmless
    <2> QED BY <1>1, <1>4, <2>1, <2>2, <2>3 DEF Aside
  <1>7. Timing' /\ ToSet(rt_timer_list') = ToSet(rt_timer_list) \ {x}
    BY <1>1, <1>2, <1>6, RemoveInv
  <1>8. fired'.timer = x
    BY <1>1 DEF Unread
  <1>9. Checks' /\ Holds'
    <2>1. /\ fired'.timer \in Timer
          /\ "func" = "set" <=> fired'.timer \in ToSet(rt_timer_list')
          /\ \A u \in User : call'[u].timer = fired'.timer => call'[u].at \in Harmless
      BY <1>1, <1>2, <1>5, <1>7, <1>8
    <2>2. ASSUME NEW y \in Timer, y \in stopped' \ (Switched \cap SelfStop)
          PROVE  ~Listed(y)' /\ fired'.timer # y
      BY <1>1, <1>2, <1>7, <1>8, <2>2, StoppedOff DEF Listed
    <2> QED BY <1>1, <1>3, <2>1, <2>2, CheckParts
  <1>10. Calls'
    BY <1>1, <1>7 DEF Inv, Calls, Listed
  <1>11. Flags'
    <2> SUFFICES ASSUME NEW y \in Timer \ Switched, y # x
                 PROVE  InHand(y)' \/ (Listed(y)' <=> y \in activated')
      BY <1>4, <1>8 DEF Flags
    <2>1. InHand(y)' <=> InHand(y)
      BY <1>1 DEF InHand
    <2> QED BY <1>1, <1>4, <1>7, <2>1 DEF Inv, FlagExact, Listed
  <1> QED BY <1>7, <1>9, <1>10, <1>11, InvParts

\* The timeout function of a timer stops it: the flag is loaded.
LEMMA FuncStopInv == ASSUME Inv, NEW c \in CPU, FuncStop(c) PROVE Inv'
  <1> DEFINE x == fired.timer
  <1>1. /\ at[c] = "func" /\ x \in activated /\ x \in SelfStop
        /\ fired' = Load(x)
        /\ Turns(c, "stop")
        /\ UNCHANGED <<tick, rt_timer_list, timeout_tick, init_tick, activated, periodic, lock,
                       current_tick, call, left, arrival, tardy, stopped>>
    BY DEF FuncStop, clockVars, listVars, flagVars
  <1>2. at[c] \in Firing /\ "stop" \in Inside /\ "stop" \in Firing
    BY <1>1 DEF Inside, Firing
  <1>3. fired'.timer = x
    BY <1>1 DEF Load
  <1>4. /\ at[c] \in Inside /\ x \in Timer /\ ~Listed(x)
        /\ \A u \in User : call[u].timer = x => call[u].at \in Harmless
        /\ x \notin stopped \ (Switched \cap SelfStop)
    BY <1>1, <1>2, FiredTimer
  <1> HIDE DEF x
  <1>5. Checks' /\ Holds'
    <2>1. /\ fired'.timer \in Timer
          /\ "stop" = "set" <=> fired'.timer \in ToSet(rt_timer_list')
          /\ fired'.timer \in SelfStop
          /\ \A u \in User : call'[u].timer = fired'.timer => call'[u].at \in Harmless
      BY <1>1, <1>3, <1>4 DEF Listed
    <2>2. ASSUME NEW y \in Timer, y \in stopped' \ (Switched \cap SelfStop)
          PROVE  ~Listed(y)' /\ fired'.timer # y
      BY <1>1, <1>3, <1>4, <2>2, StoppedOff DEF Listed
    <2> QED BY <1>1, <1>2, <1>4, <2>1, <2>2, CheckParts
  <1>6. \A y \in Timer : Fired(y) => Fired(y)'
    BY <1>1, <1>2, <1>3, <1>4, TurnStep DEF x
  <1>7. /\ lock' \in CPU \cup {NoCPU} /\ at' \in [CPU -> Places]
        /\ current_tick' \in [CPU -> 0 .. RT_TICK_MAX] /\ Late'
    BY <1>1, <1>2, <1>4, CheckLate
  <1> QED BY <1>1, <1>5, <1>6, <1>7, CheckKeeps

\* A step of the check that stores the flag of the timer it is busy with, and
\* then either goes on with that timer or leaves it alone, with flag and list in
\* agreement.
LEMMA StoreInv ==
    ASSUME Inv, NEW c \in CPU, at[c] \in Firing, NEW place \in Inside, Turns(c, place),
           NEW active \in BOOLEAN, Store(fired.timer, active, fired.periodic),
           UNCHANGED <<tick, rt_timer_list, timeout_tick, init_tick, lock, current_tick, call,
                       left, arrival, tardy>>,
           \/ stopped' = stopped
           \/ /\ stopped' = stopped \cup {fired.timer}
              /\ at[c] = "stop" /\ place = "func" /\ active = FALSE,
           \/ /\ place \in {"func", "start"} /\ active = FALSE
              /\ fired'.timer = fired.timer /\ ~Listed(fired.timer)
           \/ place = "loop" /\ (Listed(fired.timer) <=> active = TRUE),
           place = "start" => fired.timer \notin stopped \ (Switched \cap SelfStop)
    PROVE  Inv'
  <1> DEFINE x == fired.timer
  <1>1. /\ at[c] \in Inside /\ x \in Timer
        /\ at[c] = "set" <=> Listed(x)
        /\ at[c] = "stop" => x \in SelfStop
        /\ \A u \in User : call[u].timer = x => call[u].at \in Harmless
        /\ x \in stopped \ (Switched \cap SelfStop) =>
              /\ x \notin activated /\ x \notin Switched
              /\ at[c] \in {"func", "stop", "clear"}
    BY FiredTimer
  <1>2. /\ activated' \subseteq Timer /\ periodic' \subseteq Timer
        /\ \A y \in Timer : y # x => (y \in activated' <=> y \in activated)
        /\ x \in activated' <=> active = TRUE
    BY <1>1, StoreEffect
  <1>3. /\ lock' \in CPU \cup {NoCPU} /\ at' \in [CPU -> Places]
        /\ current_tick' \in [CPU -> 0 .. RT_TICK_MAX] /\ Late'
    BY <1>1, CheckLate
  <1>4. Timing' /\ \A y \in Timer : /\ InHand(y)' <=> InHand(y)
                                    /\ Listed(y)' <=> Listed(y)
    BY <1>2, <1>3, CheckTiming
  <1>5. \A y : Fired(y)' <=> place \in Firing /\ fired'.timer = y
    BY <1>1, TurnStep
  <1>6. \A y : Fired(y) <=> fired.timer = y
    BY <1>1, TurnStep
  <1>7. "loop" \notin Firing
    BY DEF Firing
  <1>8. Calls'
    <2> SUFFICES ASSUME NEW u \in User, call[u].at # "run"
                 PROVE  LET y == call[u].timer IN
                        /\ y \in Timer /\ Owner[y] = u
                        /\ call[u].at \in {"tick", "insert", "clear"} => ~Listed(y)
                        /\ call[u].at \in {"tick", "insert"} =>
                              y \notin activated' /\ y \notin stopped'
                        /\ call[u].at = "mode" => y \in Switched
      BY DEF Calls, Listed
    <2>1. CASE call[u].timer = x
      <3>1. call[u].at \in Harmless
        BY <1>1, <2>1
      <3> QED BY <3>1 DEF Inv, Calls, Harmless
    <2>2. CASE call[u].timer # x
      BY <1>2, <2>2 DEF Inv, Calls
    <2> QED BY <2>1, <2>2
  <1>9. Flags'
    <2> SUFFICES ASSUME NEW y \in Timer \ Switched
                 PROVE  InHand(y)' \/ Fired(y)' \/ (Listed(y)' <=> y \in activated')
      BY DEF Flags
    <2>1. CASE y = x
      BY <1>2, <1>4, <1>5, <2>1
    <2>2. CASE y # x
      BY <1>2, <1>4, <1>6, <2>2 DEF Inv, FlagExact
    <2> QED BY <2>1, <2>2
  <1>10. place \in Firing =>
            /\ fired'.timer = x /\ active = FALSE /\ ~Listed(x)
            /\ place \in {"func", "start"}
    BY <1>7 DEF Firing
  <1>11. place \in Firing =>
            /\ fired'.timer \in Timer
            /\ place = "set" <=> fired'.timer \in ToSet(rt_timer_list')
            /\ place = "stop" => fired'.timer \in SelfStop
            /\ \A u \in User : call'[u].timer = fired'.timer => call'[u].at \in Harmless
    BY <1>1, <1>10 DEF Listed
  <1>12. ASSUME NEW y \in Timer, y \in stopped' \ (Switched \cap SelfStop)
         PROVE  /\ ~Listed(y)'
                /\ place \in Firing /\ fired'.timer = y =>
                      /\ y \notin activated' /\ y \notin Switched
                      /\ place \in {"func", "stop", "clear"}
                      /\ place = "clear" => ~fired'.active
    <2>1. CASE y \in stopped
      <3>1. ~Listed(y)'
        BY <1>4, <1>12, <2>1, StoppedOff
      <3>2. ASSUME place \in Firing, fired'.timer = y
            PROVE  /\ y \notin activated' /\ y \notin Switched
                   /\ place \in {"func", "stop"}
        <4>1. y = x /\ active = FALSE /\ place \in {"func", "start"}
          BY <1>10, <3>2
        <4> QED BY <1>1, <1>2, <1>12, <2>1, <4>1
      <3> QED BY <3>1, <3>2
    <2>2. CASE y \notin stopped
      <3>1. y = x /\ at[c] = "stop" /\ place = "func" /\ active = FALSE
        BY <1>12, <2>2
      <3>2. "func" \in Firing
        BY DEF Firing
      <3>3. ~Listed(y)' /\ y \notin activated'
        BY <1>2, <1>4, <1>10, <3>1, <3>2
      <3>4. y \notin Switched
        BY <1>1, <1>12, <3>1
      <3> QED BY <3>1, <3>3, <3>4
    <2> QED BY <2>1, <2>2
  <1>13. Checks' /\ Holds'
    BY <1>1, <1>11, <1>12, CheckParts
  <1> QED BY <1>4, <1>8, <1>9, <1>13, InvParts

\* The timeout function stops its timer: the flag is stored.
LEMMA FuncClearInv == ASSUME Inv, NEW c \in CPU, FuncClear(c) PROVE Inv'
  <1>1. /\ at[c] = "stop"
        /\ Store(fired.timer, FALSE, fired.periodic)
        /\ stopped' = stopped \cup {fired.timer}
        /\ fired' = Unread(fired.timer)
        /\ Turns(c, "func")
        /\ UNCHANGED <<tick, rt_timer_list, timeout_tick, init_tick, lock, current_tick, call,
                       left, arrival, tardy>>
    BY DEF FuncClear, clockVars, listVars
  <1>2. at[c] \in Firing /\ "func" \in Inside
    BY <1>1 DEF Inside, Firing
  <1>3. fired'.timer = fired.timer
    BY <1>1 DEF Unread
  <1>4. ~Listed(fired.timer)
    BY <1>1, <1>2, FiredTimer
  <1> QED BY <1>1, <1>2, <1>3, <1>4, StoreInv

\* The function has returned and the check loads the flag.
LEMMA TestInv == ASSUME Inv, NEW c \in CPU, Test(c) PROVE Inv'
  <1> DEFINE x == fired.timer
  <1>1. /\ at[c] = "func"
        /\ current_tick' = [current_tick EXCEPT ![c] = tick]
        /\ fired' = Load(x)
        /\ Turns(c, "clear")
        /\ UNCHANGED <<tick, rt_timer_list, timeout_tick, init_tick, activated, periodic, lock,
                       call, left, arrival, tardy, stopped>>
    BY DEF Test, listVars, flagVars
  <1>2. at[c] \in Firing /\ "clear" \in Inside /\ "clear" \in Firing
    BY <1>1 DEF Inside, Firing
  <1>3. fired'.timer = x /\ fired'.active = (x \in activated)
    BY <1>1 DEF Load
  <1>4. /\ at[c] \in Inside /\ x \in Timer /\ ~Listed(x)
        /\ \A u \in User : call[u].timer = x => call[u].at \in Harmless
        /\ x \in stopped \ (Switched \cap SelfStop) => x \notin activated /\ x \notin Switched
    BY <1>1, <1>2, FiredTimer
  <1> HIDE DEF x
  <1>5. Checks' /\ Holds'
    <2>1. /\ fired'.timer \in Timer
          /\ "clear" = "set" <=> fired'.timer \in ToSet(rt_timer_list')
          /\ \A u \in User : call'[u].timer = fired'.timer => call'[u].at \in Harmless
      BY <1>1, <1>3, <1>4 DEF Listed
    <2>2. ASSUME NEW y \in Timer, y \in stopped' \ (Switched \cap SelfStop)
          PROVE  /\ ~Listed(y)'
                 /\ fired'.timer = y =>
                       y \notin activated' /\ y \notin Switched /\ ~fired'.active
      <3>1. y \in stopped \ (Switched \cap SelfStop) /\ ~Listed(y)'
        BY <1>1, <2>2, StoppedOff DEF Listed
      <3>2. ASSUME y = x PROVE y \notin activated' /\ y \notin Switched /\ ~fired'.active
        BY <1>1, <1>3, <1>4, <3>1, <3>2
      <3> QED BY <1>3, <3>1, <3>2
    <2> QED BY <1>1, <1>2, <1>4, <2>1, <2>2, CheckParts
  <1>6. \A y \in Timer : Fired(y) => Fired(y)'
    BY <1>1, <1>2, <1>3, <1>4, TurnStep DEF x
  <1>7. /\ lock' \in CPU \cup {NoCPU} /\ at' \in [CPU -> Places]
        /\ current_tick' \in [CPU -> 0 .. RT_TICK_MAX] /\ Late'
    BY <1>1, <1>2, <1>4, CheckLate
  <1> QED BY <1>1, <1>5, <1>6, <1>7, CheckKeeps

\* The check clears the bit ACTIVATED: a stopped timer is not started again.
LEMMA ClearInv == ASSUME Inv, NEW c \in CPU, Clear(c) PROVE Inv'
  <1>1. /\ at[c] = "clear"
        /\ Store(fired.timer, FALSE, fired.periodic)
        /\ UNCHANGED <<tick, rt_timer_list, timeout_tick, init_tick, lock, current_tick, call,
                       left, arrival, tardy, stopped>>
    BY DEF Clear, clockVars, listVars
  <1>2. at[c] \in Firing /\ "start" \in Inside /\ "loop" \in Inside
    BY <1>1 DEF Inside, Firing
  <1>3. /\ ~Listed(fired.timer)
        /\ fired.timer \in stopped \ (Switched \cap SelfStop) => ~fired.active
    BY <1>1, <1>2, FiredTimer
  <1>4. CASE Restarts
    <2>1. fired' = Unread(fired.timer) /\ Turns(c, "start")
      BY <1>4 DEF Clear
    <2>2. fired'.timer = fired.timer
      BY <2>1 DEF Unread
    <2>3. fired.timer \notin stopped \ (Switched \cap SelfStop)
      BY <1>3, <1>4 DEF Restarts
    <2> QED BY <1>1, <1>2, <1>3, <2>1, <2>2, <2>3, StoreInv
  <1>5. CASE ~Restarts
    <2>1. Turns(c, "loop")
      BY <1>5 DEF Clear
    <2> QED BY <1>1, <1>2, <1>3, <2>1, StoreInv
  <1> QED BY <1>4, <1>5

\* rt_timer_start inside of the check inserts the timer.
LEMMA RestartInv == ASSUME Inv, NEW c \in CPU, Restart(c) PROVE Inv'
  <1> DEFINE x == fired.timer
  <1>1. /\ at[c] = "start"
        /\ StartWhole(x)
        /\ activated' = activated \ {x}
        /\ fired' = [Load(x) EXCEPT !.active = FALSE]
        /\ Turns(c, "set")
        /\ UNCHANGED <<tick, init_tick, current_tick, periodic, lock, call, stopped>>
    BY DEF Restart, clockVars
  <1>2. at[c] \in Firing /\ "set" \in Inside /\ "set" \in Firing
    BY <1>1 DEF Inside, Firing
  <1>3. fired'.timer = x
    BY <1>1 DEF Load
  <1>4. /\ at[c] \in Inside /\ x \in Timer
        /\ \A u \in User : call[u].timer = x => call[u].at \in Harmless
        /\ x \notin stopped \ (Switched \cap SelfStop)
    BY <1>1, <1>2, FiredTimer
  <1>5. /\ at' \in [CPU -> Places] /\ (at'[0] = "idle" <=> at[0] = "idle")
        /\ \A y : Fired(y)' <=> fired'.timer = y
        /\ \A y : Fired(y) <=> x = y
    BY <1>1, <1>2, <1>4, TurnStep
  <1> HIDE DEF x
  <1>6. Aside(x)
    <2>1. activated' \subseteq Timer /\ periodic' \subseteq Timer
      BY <1>1 DEF Inv, FlagExact
    <2>2. /\ current_tick' \in [CPU -> 0 .. RT_TICK_MAX]
          /\ at[0] # "idle" => current_tick'[0] = tick
          /\ call' \in [User -> Call]
      BY <1>1 DEF Inv, Types, Late
    <2>3. \A u \in User : call[u].at = "insert" => call[u].timer # x
      BY <1>4 DEF Harmless
    <2> QED BY <1>1, <1>5, <2>1, <2>2, <2>3 DEF Aside
  <1>7. Timing' /\ ToSet(rt_timer_list') = ToSet(rt_timer_list) \cup {x}
    BY <1>1, <1>4, <1>6, WholeInv
  <1>8. Checks' /\ Holds'
    <2>1. /\ fired'.timer \in Timer
          /\ "set" = "set" <=> fired'.timer \in ToSet(rt_timer_list')
          /\ \A u \in User : call'[u].timer = fired'.timer => call'[u].at \in Harmless
      BY <1>1, <1>3, <1>4, <1>7
    <2>2. ASSUME NEW y \in Timer, y \in stopped' \ (Switched \cap SelfStop)
          PROVE  ~Listed(y)' /\ fired'.timer # y
      BY <1>1, <1>3, <1>4, <1>7, <2>2, StoppedOff DEF Listed
    <2> QED BY <1>1, <1>2, <1>4, <2>1, <2>2, CheckParts
  <1>9. Calls'
    <2> SUFFICES ASSUME NEW u \in User, call[u].at # "run"
                 PROVE  LET y == call[u].timer IN
                        /\ y \in Timer /\ Owner[y] = u
                        /\ call[u].at \in {"tick", "insert", "clear"} =>
                              y \notin ToSet(rt_timer_list')
                        /\ call[u].at \in {"tick", "insert"} =>
                              y \notin activated' /\ y \notin stopped
                        /\ call[u].at = "mode" => y \in Switched
      BY <1>1 DEF Calls, Listed
    <2>1. CASE call[u].timer = x
      <3>1. call[u].at \in Harmless
        BY <1>4, <2>1
      <3> QED BY <3>1 DEF Inv, Calls, Harmless
    <2>2. CASE call[u].timer # x
      BY <1>1, <1>7, <2>2 DEF Inv, Calls, Listed
    <2> QED BY <2>1, <2>2
  <1>10. Flags'
    <2> SUFFICES ASSUME NEW y \in Timer \ Switched, y # x
                 PROVE  InHand(y)' \/ (Listed(y)' <=> y \in activated')
      BY <1>3, <1>5 DEF Flags
    <2>1. InHand(y)' <=> InHand(y)
      BY <1>1 DEF InHand
    <2>2. ~Fired(y)
      BY <1>5
    <2> QED BY <1>1, <1>7, <2>1, <2>2 DEF Inv, FlagExact, Listed
  <1> QED BY <1>7, <1>8, <1>9, <1>10, InvParts

\* rt_timer_start inside of the check sets the bit ACTIVATED.
LEMMA SetActiveInv == ASSUME Inv, NEW c \in CPU, SetActive(c) PROVE Inv'
  <1>1. /\ at[c] = "set"
        /\ Store(fired.timer, TRUE, fired.periodic)
        /\ Turns(c, "loop")
        /\ UNCHANGED <<tick, rt_timer_list, timeout_tick, init_tick, lock, current_tick, call,
                       left, arrival, tardy, stopped>>
    BY DEF SetActive, clockVars, listVars
  <1>2. at[c] \in Firing /\ "loop" \in Inside
    BY <1>1 DEF Inside, Firing
  <1>3. Listed(fired.timer)
    BY <1>1, <1>2, FiredTimer
  <1> QED BY <1>1, <1>2, <1>3, StoreInv

\* A timer of the list is due exactly if nothing is left.
LEMMA DueLeft == ASSUME Inv, NEW x \in ToSet(rt_timer_list) PROVE Due(tick, x) <=> left[x] <= 0
  <1>1. x \in Timer /\ tick \in 0 .. RT_TICK_MAX
    BY ListIndices DEF Inv, Types, FlagExact
  <1>2. PICK p \in Int : /\ p = left[x] /\ -MaxLate - 1 <= p /\ p + MaxLate + 1 < Half
                         /\ timeout_tick[x] = (tick + p) % TickRange
    BY ListComparable DEF Comparable
  <1>3. -Half < p /\ p < Half
    BY <1>1, <1>2, InitTicks, TickFacts
  <1>4. Minus(tick, (tick + p) % TickRange) < Half <=> p <= 0
    BY <1>1, <1>3, DueTick
  <1> QED BY <1>2, <1>4 DEF Due

\* A check ends when the first timer is not due.  That of CPU 0 has seen the tick,
\* so then no timer of the list is due.
LEMMA CheckLeaveInv == ASSUME Inv, NEW c \in CPU, CheckLeave(c) PROVE Inv'
  <1>1. /\ at[c] = "loop"
        /\ ~(rt_timer_list # << >> /\ Due(current_tick[c], Head(rt_timer_list)))
        /\ lock' = NoCPU
        /\ at' = [at EXCEPT ![c] = "idle"]
        /\ current_tick' = [current_tick EXCEPT ![c] = 0]
        /\ UNCHANGED <<tick, rt_timer_list, timeout_tick, init_tick, activated, periodic, fired,
                       call, left, arrival, tardy, stopped>>
    BY DEF CheckLeave, Turns, listVars, flagVars
  <1>2. 0 \in CPU
    BY TimerAssumption
  <1>3. /\ at'[0] = IF c = 0 THEN "idle" ELSE at[0]
        /\ c # 0 => current_tick'[0] = current_tick[0]
        /\ at' \in [CPU -> Places]
        /\ current_tick' \in [CPU -> 0 .. RT_TICK_MAX]
        /\ \A d \in CPU : at'[d] = IF d = c THEN "idle" ELSE at[d]
    BY <1>1, <1>2, TickFacts DEF Inv, Types, Places
  <1>4. Late'
    <2>1. CASE c # 0
      BY <1>1, <1>3, <2>1 DEF Inv, Late
    <2>2. CASE c = 0
      <3>1. ASSUME NEW x \in ToSet(rt_timer_list) PROVE left[x] >= 1 /\ x \notin tardy
        <4> DEFINE h == Head(rt_timer_list)
        <4>1. rt_timer_list \in Seq(Timer) /\ rt_timer_list # << >>
          BY <3>1, EmptyList DEF Inv, Types
        <4>2. h \in Timer /\ h \in ToSet(rt_timer_list) /\ h = rt_timer_list[1]
          BY <4>1, TailList
        <4>3. current_tick[0] = tick
          BY <1>1, <2>2 DEF Inv, Late
        <4>4. left[h] > 0 /\ left[h] \in Int
          <5>1. left[h] \in Int /\ ~(left[h] <= 0)
            BY <1>1, <2>2, <4>1, <4>2, <4>3, DueLeft DEF Inv, Types
          <5> QED BY <5>1
        <4>5. x \in Timer /\ left[x] \in Int
          BY <4>1, ListIndices DEF Inv, Types
        <4>6. left[h] <= left[x]
          <5>1. PICK i \in 1 .. Len(rt_timer_list) : rt_timer_list[i] = x
            BY <4>1, ListIndices
          <5>2. Len(rt_timer_list) \in Nat /\ DOMAIN rt_timer_list = 1 .. Len(rt_timer_list)
            BY <4>1, ListIndices
          <5>3. CASE i = 1
            BY <4>2, <4>4, <5>1, <5>3
          <5>4. CASE i # 1
            <6>1. 1 \in DOMAIN rt_timer_list /\ i \in DOMAIN rt_timer_list /\ 1 < i
              BY <5>2, <5>4
            <6>2. left[h] < left[x] \/ left[h] = left[x]
              BY <4>2, <5>1, <6>1 DEF Inv, InOrder
            <6> QED BY <4>4, <4>5, <6>2
          <5> QED BY <5>3, <5>4
        <4>7. left[x] >= 1
          BY <4>4, <4>5, <4>6
        <4> QED BY <4>5, <4>7 DEF Inv, Late
      <3> QED BY <1>1, <1>3, <2>2, <3>1 DEF Inv, Late
    <2> QED BY <2>1, <2>2
  <1>5. "idle" \notin Inside /\ "idle" \notin Firing /\ "loop" \in Inside /\ "loop" \notin Firing
    BY DEF Inside, Firing
  <1>6. \A d \in CPU : d # c => at[d] \notin Inside /\ at[d] \notin Firing
    BY <1>1, <1>5 DEF Inv, Checks, Inside
  <1>7. Checks'
    BY <1>1, <1>3, <1>5, <1>6, TimerAssumption DEF Checks
  <1>8. Holds'
    BY <1>1, <1>3, <1>5, <1>6, StoppedOff DEF Holds, Held, Listed
  <1>9. \A x \in Timer : ~Fired(x)
    BY <1>1, <1>5, <1>6 DEF Fired
  <1> QED BY <1>1, <1>3, <1>4, <1>7, <1>8, <1>9, CheckKeeps

-----------------------------------------------------------------------------
(* The theorems.                                                           *)

\* Every action preserves the invariant.
LEMMA NextInv == ASSUME Inv, Next PROVE Inv'
  <1>1. ASSUME NEW u \in User, NEW x \in Timer, rt_timer_start(u, x) PROVE Inv'
    BY <1>1, StartInv
  <1>2. ASSUME NEW u \in User, NEW x \in Timer, rt_timer_stop(u, x) PROVE Inv'
    BY <1>2, StopInv
  <1>3. ASSUME NEW u \in User, NEW x \in Timer, StartLocked(u, x) PROVE Inv'
    BY <1>3, StartLockedInv
  <1>4. ASSUME NEW u \in User, NEW x \in Timer, StopLocked(u, x) PROVE Inv'
    BY <1>4, StopLockedInv
  <1>5. ASSUME NEW u \in User, NEW x \in Timer, rt_timer_control(u, x) PROVE Inv'
    BY <1>5, SetTimeInv, SetModeInv DEF rt_timer_control
  <1>6. ASSUME NEW u \in User, GoOn(u) PROVE Inv'
    BY <1>6, StartTickInv, StartInsertInv, StopRemoveInv, StopClearInv, ModeStoreInv DEF GoOn
  <1>7. ASSUME NEW c \in CPU, TickInterrupt(c) PROVE Inv'
    BY <1>7, TickInv, OtherTickInv
  <1>8. ASSUME NEW c \in CPU, CheckEnter(c) PROVE Inv'
    BY <1>8, CheckEnterInv
  <1>9. ASSUME NEW c \in CPU, CheckStep(c) PROVE Inv'
    BY <1>9, FireInv, FuncStopInv, FuncClearInv, TestInv, ClearInv, RestartInv, SetActiveInv,
       CheckLeaveInv DEF CheckStep
  <1> QED BY <1>1, <1>2, <1>3, <1>4, <1>5, <1>6, <1>7, <1>8, <1>9 DEF Next

\* A step that changes nothing preserves the invariant.
LEMMA StutterInv == ASSUME Inv, UNCHANGED vars PROVE Inv'
  <1>1. UNCHANGED <<tick, rt_timer_list, timeout_tick, init_tick, activated, periodic, lock,
                    current_tick, at, fired, call, left, arrival, tardy, stopped>>
    BY DEF vars, clockVars, listVars, flagVars, checkVars
  <1>2. Types' /\ FlagExact'
    BY <1>1 DEF Inv, Types, FlagExact, InHand, Listed, Fired
  <1>3. Calls' /\ Checks' /\ Holds'
    BY <1>1 DEF Inv, Calls, Checks, Holds, Held, Listed
  <1>4. Clock' /\ InOrder' /\ Late'
    BY <1>1 DEF Inv, Clock, Counted, Listed, InOrder, Late
  <1> QED BY <1>2, <1>3, <1>4 DEF Inv

\* Every reachable state of the timers satisfies the inductive invariant.
THEOREM Invariance == Spec => []Inv
  <1>1. Inv /\ [Next]_vars => Inv'
    BY NextInv, StutterInv
  <1> QED BY <1>1, InitInv, PTL DEF Spec

\* The bit RT_TIMER_FLAG_ACTIVATED of a timer says whether it is on the list, at all
\* times at which its owner is not within rt_timer_start or rt_timer_stop and no
\* check is busy with it, for timers that are not switched between one-shot and
\* periodic, although it is tested and written without the lock.
THEOREM FlagIsExact == Spec => []FlagExact
  <1>1. Inv => FlagExact
    BY DEF Inv
  <1> QED BY <1>1, Invariance, PTL

\* A timer that rt_timer_stop has stopped with RT_EOK stays off the list and is not
\* started by a check, for any number of CPUs and wherever their checks were when
\* it was stopped: the removal waits for the lock, and the check tests the flag
\* after the timeout function.
THEOREM StoppedStaysOff == Spec => []StopHolds
  <1>1. ASSUME Inv PROVE StopHolds
    <2> SUFFICES ASSUME NEW x \in stopped \ (Switched \cap SelfStop)
                 PROVE  /\ ~Listed(x)
                        /\ ~\E c \in CPU : at[c] \in {"start", "set"} /\ fired.timer = x
      BY DEF StopHolds
    <2>1. CASE x \in Timer
      <3>1. Held(x)
        BY <1>1, <2>1 DEF Inv, Holds
      <3> QED BY <3>1 DEF Held, Firing
    <2>2. CASE x \notin Timer
      <3>1. ~Listed(x)
        BY <1>1, <2>2, ListIndices DEF Inv, Types, Listed
      <3>2. \A c \in CPU : at[c] \in Firing => fired.timer # x
        BY <1>1, <2>2 DEF Inv, Checks
      <3> QED BY <3>1, <3>2 DEF Firing
    <2> QED BY <2>1, <2>2
  <1> QED BY <1>1, Invariance, PTL

\* The unsigned comparison of rt_timer_check is exact for every range of the tick:
\* no timer of the list is taken for due early or late, whenever the tick wraps.
THEOREM DueIsExact == Spec => []DueExact
  <1>1. Inv => DueExact
    BY DueLeft DEF DueExact
  <1> QED BY <1>1, Invariance, PTL

\* rt_timer_start keeps the list sorted by what is left until each timeout, and
\* first come, first served among those of the same tick.
THEOREM ListInOrder == Spec => []InOrder
  <1>1. Inv => InOrder
    BY DEF Inv
  <1> QED BY <1>1, Invariance, PTL

\* No timer is overdue once the check of CPU 0 for its tick has ended; one that
\* was late already when it was inserted is served by the next check.
THEOREM TimersOnTime == Spec => []OnTime
  <1>1. ASSUME Inv PROVE OnTime
    <2> SUFFICES ASSUME NEW x \in ToSet(rt_timer_list)
                 PROVE  left[x] >= IF x \in tardy THEN -MaxLate - 1
                                   ELSE IF at[0] = "idle" THEN 1 ELSE 0
      BY DEF OnTime
    <2>1. left[x] \in Int /\ MaxLate \in Nat
      BY <1>1, ListIndices, TickFacts DEF Inv, Types
    <2> QED BY <1>1, <2>1 DEF Inv, Late
  <1> QED BY <1>1, Invariance, PTL
=============================================================================
