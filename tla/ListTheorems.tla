---------------------------- MODULE ListTheorems -----------------------------
(***************************************************************************)
(* Lemmas about the linked lists of the kernel (rtservice.h) as sequences  *)
(* in which no node occurs twice: what a list holds, and in which order,   *)
(* after a node is appended, inserted before another one, unlinked, or     *)
(* taken off its head.                                                     *)
(***************************************************************************)
EXTENDS Integers, SequencesExt, SequenceTheorems, WellFoundedInduction, TLAPS

\* Every node of the list is in relation R to all the nodes behind it.
Ordered(s, R) == \A i, j \in DOMAIN s : i < j => <<s[i], s[j]>> \in R

\* The node x before the first of the nodes with an index in K, or at the end.
InsertedBefore(s, K, x) == IF K # {} THEN InsertAt(s, Min(K), x) ELSE Append(s, x)

-----------------------------------------------------------------------------
\* A set of natural numbers that is not empty has a least element.
LEMMA LeastOfNat ==
    ASSUME NEW S, S \subseteq Nat, S # {}
    PROVE  Min(S) \in S /\ \A y \in S : Min(S) <= y
  <1> DEFINE R == {ss \in Nat \X Nat : ss[1] < ss[2]}
  <1>1. IsWellFoundedOn(R, Nat)
    BY NatLessThanWellFounded DEF OpToRel
  <1>2. PICK x \in S : \A y \in S : ~(<<y, x>> \in R)
    BY <1>1, WFMin
  <1>3. ASSUME NEW y \in S PROVE x <= y
    <2>1. x \in Nat /\ y \in Nat /\ <<y, x>> \in Nat \X Nat
      OBVIOUS
    <2>2. ~(y < x)
      BY <1>2, <2>1
    <2> QED BY <2>1, <2>2
  <1> QED BY <1>3 DEF Min

\* A list as a function from its indices.
LEMMA ListIndices ==
    ASSUME NEW S, NEW s \in Seq(S)
    PROVE  /\ Len(s) \in Nat
           /\ DOMAIN s = 1 .. Len(s)
           /\ \A i \in 1 .. Len(s) : s[i] \in S
           /\ ToSet(s) \subseteq S
           /\ \A x : x \in ToSet(s) <=> \E i \in 1 .. Len(s) : s[i] = x
           /\ s = << >> <=> ToSet(s) = {}
           /\ s = << >> <=> Len(s) = 0
  <1>1. /\ Len(s) \in Nat
        /\ DOMAIN s = 1 .. Len(s)
        /\ \A i \in 1 .. Len(s) : s[i] \in S
        /\ s = << >> <=> Len(s) = 0
    OBVIOUS
  <1>2. \A x : x \in ToSet(s) <=> \E i \in 1 .. Len(s) : s[i] = x
    BY <1>1 DEF ToSet
  <1> QED BY <1>1, <1>2

\* The empty list.
LEMMA EmptyList ==
    /\ \A S : << >> \in Seq(S)
    /\ ToSet(<< >>) = {}
    /\ IsInjective(<< >>)
    /\ \A R : Ordered(<< >>, R)
  BY DEF ToSet, IsInjective, Ordered

\* An order can be replaced by one that has the same pairs of the list.
LEMMA OtherOrder ==
    ASSUME NEW S, NEW s \in Seq(S), NEW Q, NEW R, Ordered(s, Q),
           \A x, y \in ToSet(s) : <<x, y>> \in Q => <<x, y>> \in R
    PROVE  Ordered(s, R)
  <1>1. \A i \in DOMAIN s : s[i] \in ToSet(s)
    BY ListIndices
  <1> QED BY <1>1 DEF Ordered

-----------------------------------------------------------------------------
\* List w is list s with node x at index k.
Lands(w, s, x, k) ==
    /\ DOMAIN w = 1 .. Len(s) + 1
    /\ \A i \in 1 .. Len(s) + 1 : w[i] =
          IF i < k THEN s[i] ELSE IF i = k THEN x ELSE s[i - 1]

\* The node that is inserted at index k lands there.
LEMMA InsertAtIndices ==
    ASSUME NEW S, NEW s \in Seq(S), NEW x \in S, NEW k \in 1 .. Len(s)
    PROVE  InsertAt(s, k, x) \in Seq(S) /\ Lands(InsertAt(s, k, x), s, x, k)
  <1>1. /\ InsertAt(s, k, x) \in Seq(S)
        /\ Len(InsertAt(s, k, x)) = Len(s) + 1
        /\ \A i \in 1 .. Len(s) + 1 : InsertAt(s, k, x)[i] =
              IF i < k THEN s[i] ELSE IF i = k THEN x ELSE s[i - 1]
    BY DEF InsertAt
  <1>2. DOMAIN InsertAt(s, k, x) = 1 .. Len(s) + 1
    BY <1>1
  <1> QED BY <1>1, <1>2 DEF Lands

\* The nodes behind the one that is removed move by one.
LEMMA RemoveAtIndices ==
    ASSUME NEW S, NEW s \in Seq(S), NEW k \in 1 .. Len(s)
    PROVE  /\ RemoveAt(s, k) \in Seq(S)
           /\ Len(RemoveAt(s, k)) = Len(s) - 1
           /\ \A i \in 1 .. Len(s) - 1 : RemoveAt(s, k)[i] = IF i < k THEN s[i] ELSE s[i + 1]
  <1> DEFINE a == SubSeq(s, 1, k - 1)
             b == SubSeq(s, k + 1, Len(s))
  <1>1. /\ a \in Seq(S) /\ Len(a) = k - 1
        /\ \A i \in 1 .. k - 1 : a[i] = s[i]
    OBVIOUS
  <1>2. /\ b \in Seq(S) /\ Len(b) = Len(s) - k
        /\ \A i \in 1 .. Len(s) - k : b[i] = s[k + i]
    OBVIOUS
  <1>3. RemoveAt(s, k) = a \o b
    BY DEF RemoveAt
  <1> HIDE DEF a, b
  <1>4. /\ a \o b \in Seq(S) /\ Len(a \o b) = Len(s) - 1
        /\ \A i \in 1 .. Len(a) + Len(b) : (a \o b)[i] =
              IF i <= Len(a) THEN a[i] ELSE b[i - Len(a)]
    <2>1. a \in Seq(S) /\ b \in Seq(S)
      BY <1>1, <1>2
    <2>2. /\ a \o b \in Seq(S) /\ Len(a \o b) = Len(a) + Len(b)
          /\ \A i \in 1 .. Len(a) + Len(b) : (a \o b)[i] =
                IF i <= Len(a) THEN a[i] ELSE b[i - Len(a)]
      BY <2>1, ConcatProperties, Zenon
    <2> QED BY <1>1, <1>2, <2>2
  <1>5. ASSUME NEW i \in 1 .. Len(s) - 1
        PROVE  (a \o b)[i] = IF i < k THEN s[i] ELSE s[i + 1]
    <2>1. CASE i < k
      BY <1>1, <1>2, <1>4, <2>1
    <2>2. CASE ~(i < k)
      <3>1. i - Len(a) \in 1 .. Len(s) - k /\ k + (i - Len(a)) = i + 1
        BY <1>1, <2>2
      <3>2. (a \o b)[i] = b[i - Len(a)]
        BY <1>1, <1>2, <1>4, <2>2
      <3> QED BY <1>2, <2>2, <3>1, <3>2
    <2> QED BY <2>1, <2>2
  <1> QED BY <1>3, <1>4, <1>5

-----------------------------------------------------------------------------
\* rt_list_insert_before at the head of the list: one node more, at the end.
LEMMA AppendedList ==
    ASSUME NEW S, NEW s \in Seq(S), NEW x \in S
    PROVE  /\ Append(s, x) \in Seq(S)
           /\ ToSet(Append(s, x)) = ToSet(s) \cup {x}
           /\ IsInjective(s) /\ x \notin ToSet(s) => IsInjective(Append(s, x))
           /\ \A R : Ordered(s, R) /\ (\A y \in ToSet(s) : <<y, x>> \in R)
                        => Ordered(Append(s, x), R)
  <1> DEFINE w == Append(s, x)
  <1>1. /\ w \in Seq(S) /\ Len(w) = Len(s) + 1 /\ Len(s) \in Nat
        /\ \A i \in 1 .. Len(s) : w[i] = s[i]
        /\ w[Len(s) + 1] = x
        /\ DOMAIN s = 1 .. Len(s) /\ DOMAIN w = 1 .. Len(s) + 1
    OBVIOUS
  <1> HIDE DEF w
  <1>2. ToSet(w) = ToSet(s) \cup {x}
    BY <1>1 DEF ToSet
  <1>3. ASSUME IsInjective(s), x \notin ToSet(s) PROVE IsInjective(w)
    BY <1>1, <1>3 DEF IsInjective, ToSet
  <1>4. ASSUME NEW R, Ordered(s, R), \A y \in ToSet(s) : <<y, x>> \in R
        PROVE  Ordered(w, R)
    BY <1>1, <1>4 DEF Ordered, ToSet
  <1> QED BY <1>1, <1>2, <1>3, <1>4 DEF w

\* The indices below k are those below all of K.
Splits(n, K, k) == \A i \in 1 .. n : i < k <=> \A l \in K : i < l

\* Where the new node lands: behind the nodes that are before all those of K.
LEMMA InsertedIndices ==
    ASSUME NEW S, NEW s \in Seq(S), NEW x \in S, NEW K, K \subseteq 1 .. Len(s)
    PROVE  /\ InsertedBefore(s, K, x) \in Seq(S)
           /\ \E k \in 1 .. Len(s) + 1 :
                 Lands(InsertedBefore(s, K, x), s, x, k) /\ Splits(Len(s), K, k)
  <1>0. Len(s) \in Nat /\ DOMAIN s = 1 .. Len(s)
    OBVIOUS
  <1>1. CASE K = {}
    <2>1. Lands(Append(s, x), s, x, Len(s) + 1) /\ Append(s, x) \in Seq(S)
      BY <1>0 DEF Lands
    <2>2. Splits(Len(s), K, Len(s) + 1)
      BY <1>0, <1>1 DEF Splits
    <2>3. InsertedBefore(s, K, x) = Append(s, x)
      BY <1>1 DEF InsertedBefore
    <2>4. Len(s) + 1 \in 1 .. Len(s) + 1
      BY <1>0
    <2> QED BY <2>1, <2>2, <2>3, <2>4
  <1>2. CASE K # {}
    <2> DEFINE k == Min(K)
    <2>1. k \in K /\ (\A i \in K : k <= i)
      <3>1. K \subseteq Nat
        BY <1>0
      <3> QED BY <1>2, <3>1, LeastOfNat
    <2>2. InsertedBefore(s, K, x) = InsertAt(s, k, x)
      BY <1>2 DEF InsertedBefore
    <2> HIDE DEF k
    <2>3. k \in 1 .. Len(s) /\ k \in 1 .. Len(s) + 1
      BY <1>0, <2>1
    <2>4. InsertAt(s, k, x) \in Seq(S) /\ Lands(InsertAt(s, k, x), s, x, k)
      BY <2>3, InsertAtIndices
    <2>5. Splits(Len(s), K, k)
      BY <1>0, <2>1 DEF Splits
    <2> QED BY <2>2, <2>3, <2>4, <2>5
  <1> QED BY <1>1, <1>2

\* rt_list_insert_before at a node: one node more.
LEMMA InsertedList ==
    ASSUME NEW S, NEW s \in Seq(S), NEW x \in S, NEW K, K \subseteq 1 .. Len(s)
    PROVE  /\ InsertedBefore(s, K, x) \in Seq(S)
           /\ ToSet(InsertedBefore(s, K, x)) = ToSet(s) \cup {x}
           /\ IsInjective(s) /\ x \notin ToSet(s) => IsInjective(InsertedBefore(s, K, x))
  <1> DEFINE w == InsertedBefore(s, K, x)
  <1>0. w \in Seq(S) /\ \E k \in 1 .. Len(s) + 1 : Lands(w, s, x, k)
    BY InsertedIndices
  <1> HIDE DEF w
  <1>2. PICK k \in 1 .. Len(s) + 1 : \A i \in 1 .. Len(s) + 1 :
                 w[i] = IF i < k THEN s[i] ELSE IF i = k THEN x ELSE s[i - 1]
    BY <1>0 DEF Lands
  <1>1. /\ w \in Seq(S)
        /\ DOMAIN s = 1 .. Len(s) /\ DOMAIN w = 1 .. Len(s) + 1 /\ Len(s) \in Nat
    BY <1>0 DEF Lands
  <1>3. w[k] = x /\ \A i \in 1 .. Len(s) : s[i] = w[IF i < k THEN i ELSE i + 1]
    BY <1>1, <1>2
  <1>4. ToSet(w) = ToSet(s) \cup {x}
    <2>1. ASSUME NEW y \in ToSet(w) PROVE y \in ToSet(s) \cup {x}
      <3>1. PICK i \in 1 .. Len(s) + 1 : w[i] = y
        BY <1>1 DEF ToSet
      <3>2. CASE i < k
        BY <3>1, <3>2, <1>1, <1>2 DEF ToSet
      <3>3. CASE i = k
        BY <3>1, <3>3, <1>3
      <3>4. CASE i > k
        <4>1. i - 1 \in 1 .. Len(s) /\ s[i - 1] = y
          BY <3>1, <3>4, <1>1, <1>2
        <4> QED BY <4>1, <1>1 DEF ToSet
      <3> QED BY <3>2, <3>3, <3>4
    <2>2. x \in ToSet(w)
      BY <1>1, <1>3 DEF ToSet
    <2>3. ASSUME NEW y \in ToSet(s) PROVE y \in ToSet(w)
      <3>1. PICK i \in 1 .. Len(s) : s[i] = y
        BY <1>1 DEF ToSet
      <3>2. (IF i < k THEN i ELSE i + 1) \in 1 .. Len(s) + 1
        BY <1>1
      <3> QED BY <3>1, <3>2, <1>1, <1>3 DEF ToSet
    <2> QED BY <2>1, <2>2, <2>3
  <1>5. ASSUME IsInjective(s), x \notin ToSet(s) PROVE IsInjective(w)
    <2>1. \A i \in 1 .. Len(s) : s[i] # x
      BY <1>1, <1>5 DEF ToSet
    <2>2. \A i, j \in 1 .. Len(s) : s[i] = s[j] => i = j
      BY <1>1, <1>5 DEF IsInjective
    <2>3. SUFFICES ASSUME NEW i \in 1 .. Len(s) + 1, NEW j \in 1 .. Len(s) + 1, w[i] = w[j]
                   PROVE  i = j
      BY <1>1 DEF IsInjective
    <2> QED BY <2>1, <2>2, <2>3, <1>1, <1>2
  <1> QED BY <1>1, <1>4, <1>5 DEF w

\* The order of a list is kept if the new node fits between the nodes before it
\* and those behind it.
LEMMA InsertedOrder ==
    ASSUME NEW S, NEW s \in Seq(S), NEW x \in S, NEW K, K \subseteq 1 .. Len(s), NEW R,
           Ordered(s, R),
           \A i \in 1 .. Len(s) : (\A l \in K : i < l) => <<s[i], x>> \in R,
           \A i \in 1 .. Len(s) : (\E l \in K : l <= i) => <<x, s[i]>> \in R
    PROVE  Ordered(InsertedBefore(s, K, x), R)
  <1> DEFINE w == InsertedBefore(s, K, x)
  <1>0. \E k \in 1 .. Len(s) + 1 : Lands(w, s, x, k) /\ Splits(Len(s), K, k)
    BY InsertedIndices
  <1> HIDE DEF w
  <1>1. DOMAIN s = 1 .. Len(s) /\ DOMAIN w = 1 .. Len(s) + 1 /\ Len(s) \in Nat
    BY <1>0 DEF Lands
  <1>2. PICK k \in 1 .. Len(s) + 1 :
                 /\ \A i \in 1 .. Len(s) + 1 : w[i] =
                       IF i < k THEN s[i] ELSE IF i = k THEN x ELSE s[i - 1]
                 /\ \A i \in 1 .. Len(s) : i < k <=> \A l \in K : i < l
    BY <1>0 DEF Lands, Splits
  <1>3. \A i \in 1 .. Len(s) : i < k => <<s[i], x>> \in R
    BY <1>2
  <1>4. \A i \in 1 .. Len(s) : k <= i => <<x, s[i]>> \in R
    BY <1>1, <1>2
  <1>5. \A i, j \in 1 .. Len(s) : i < j => <<s[i], s[j]>> \in R
    BY <1>1 DEF Ordered
  <1>6. SUFFICES ASSUME NEW i \in 1 .. Len(s) + 1, NEW j \in 1 .. Len(s) + 1, i < j
                 PROVE  <<w[i], w[j]>> \in R
    BY <1>1 DEF Ordered, w
  <1>7. CASE j < k
    BY <1>5, <1>6, <1>7, <1>1, <1>2
  <1>8. CASE j = k
    BY <1>3, <1>6, <1>8, <1>1, <1>2
  <1>9. CASE j > k /\ i < k
    <2>1. w[i] = s[i] /\ w[j] = s[j - 1] /\ i \in 1 .. Len(s) /\ j - 1 \in 1 .. Len(s) /\ i < j - 1
      BY <1>9, <1>1, <1>2
    <2> QED BY <1>5, <2>1
  <1>10. CASE j > k /\ i = k
    <2>1. w[i] = x /\ w[j] = s[j - 1] /\ j - 1 \in 1 .. Len(s) /\ k <= j - 1
      BY <1>10, <1>1, <1>2
    <2> QED BY <1>4, <2>1
  <1>11. CASE j > k /\ i > k
    <2>1. /\ w[i] = s[i - 1] /\ w[j] = s[j - 1] /\ i - 1 < j - 1
          /\ i - 1 \in 1 .. Len(s) /\ j - 1 \in 1 .. Len(s)
      BY <1>6, <1>11, <1>1, <1>2
    <2> QED BY <1>5, <2>1
  <1> QED BY <1>7, <1>8, <1>9, <1>10, <1>11, <1>1

-----------------------------------------------------------------------------
\* The list without the node at index k.
LEMMA RemovedList ==
    ASSUME NEW S, NEW s \in Seq(S), NEW k \in 1 .. Len(s)
    PROVE  /\ RemoveAt(s, k) \in Seq(S)
           /\ ToSet(RemoveAt(s, k)) \subseteq ToSet(s)
           /\ ToSet(s) \subseteq ToSet(RemoveAt(s, k)) \cup {s[k]}
           /\ IsInjective(s) => /\ IsInjective(RemoveAt(s, k))
                                /\ s[k] \notin ToSet(RemoveAt(s, k))
           /\ \A R : Ordered(s, R) => Ordered(RemoveAt(s, k), R)
  <1> DEFINE w == RemoveAt(s, k)
             f(i) == IF i < k THEN i ELSE i + 1
  <1>1. /\ w \in Seq(S) /\ Len(w) = Len(s) - 1 /\ Len(s) \in Nat
        /\ DOMAIN s = 1 .. Len(s) /\ DOMAIN w = 1 .. Len(s) - 1
    BY RemoveAtIndices
  <1>2. \A i \in 1 .. Len(s) - 1 : f(i) \in 1 .. Len(s) /\ f(i) # k /\ w[i] = s[f(i)]
    <2>1. \A i \in 1 .. Len(s) - 1 : w[i] = IF i < k THEN s[i] ELSE s[i + 1]
      BY RemoveAtIndices
    <2> HIDE DEF w
    <2> QED BY <1>1, <2>1
  <1>3. \A i, j \in 1 .. Len(s) - 1 : /\ f(i) = f(j) => i = j
                                      /\ i < j => f(i) < f(j)
    BY <1>1
  <1>4. \A j \in 1 .. Len(s) : j # k => \E i \in 1 .. Len(s) - 1 : f(i) = j
    <2> SUFFICES ASSUME NEW j \in 1 .. Len(s), j # k
                 PROVE  \E i \in 1 .. Len(s) - 1 : f(i) = j
      OBVIOUS
    <2>1. CASE j < k
      <3>1. j \in 1 .. Len(s) - 1
        BY <1>1, <2>1
      <3> QED BY <2>1, <3>1
    <2>2. CASE j > k
      <3>1. j - 1 \in 1 .. Len(s) - 1 /\ ~(j - 1 < k) /\ (j - 1) + 1 = j
        BY <1>1, <2>2
      <3> QED BY <3>1
    <2> QED BY <2>1, <2>2, <1>1
  <1> HIDE DEF w, f
  <1>5. ToSet(w) \subseteq ToSet(s)
    BY <1>1, <1>2 DEF ToSet
  <1>6. ToSet(s) \subseteq ToSet(w) \cup {s[k]}
    <2> SUFFICES ASSUME NEW j \in 1 .. Len(s), j # k PROVE s[j] \in ToSet(w)
      BY <1>1 DEF ToSet
    <2> QED BY <1>1, <1>2, <1>4 DEF ToSet
  <1>7. ASSUME IsInjective(s) PROVE IsInjective(w) /\ s[k] \notin ToSet(w)
    <2>1. \A i, j \in 1 .. Len(s) : s[i] = s[j] => i = j
      BY <1>1, <1>7 DEF IsInjective
    <2>2. IsInjective(w)
      <3> SUFFICES ASSUME NEW i \in 1 .. Len(s) - 1, NEW j \in 1 .. Len(s) - 1, w[i] = w[j]
                   PROVE  i = j
        BY <1>1 DEF IsInjective
      <3>1. f(i) \in 1 .. Len(s) /\ f(j) \in 1 .. Len(s) /\ s[f(i)] = s[f(j)]
        BY <1>2, Zenon
      <3> QED BY <1>3, <2>1, <3>1, Zenon
    <2>3. s[k] \notin ToSet(w)
      BY <1>1, <1>2, <2>1 DEF ToSet
    <2> QED BY <2>2, <2>3
  <1>8. ASSUME NEW R, Ordered(s, R) PROVE Ordered(w, R)
    BY <1>1, <1>2, <1>3, <1>8 DEF Ordered
  <1> QED BY <1>1, <1>5, <1>6, <1>7, <1>8 DEF w

\* rt_list_remove: the node leaves the list, if it is on it, and the others stay
\* in their order.
LEMMA UnlinkedList ==
    ASSUME NEW S, NEW s \in Seq(S), NEW x, IsInjective(s)
    PROVE  /\ RemoveFirst(s, x) \in Seq(S)
           /\ ToSet(RemoveFirst(s, x)) = ToSet(s) \ {x}
           /\ IsInjective(RemoveFirst(s, x))
           /\ x \notin ToSet(s) => RemoveFirst(s, x) = s
           /\ \A R : Ordered(s, R) => Ordered(RemoveFirst(s, x), R)
  <1>1. CASE \E i \in 1 .. Len(s) : s[i] = x
    <2> DEFINE I == {i \in 1 .. Len(s) : s[i] = x}
               k == Min(I)
    <2>1. k \in 1 .. Len(s) /\ s[k] = x
      <3>1. I \subseteq Nat /\ I # {}
        BY <1>1
      <3>2. k \in I
        BY <3>1, LeastOfNat
      <3> QED BY <3>2
    <2>2. RemoveFirst(s, x) = RemoveAt(s, k)
      BY <1>1 DEF RemoveFirst, SelectInSeq
    <2> HIDE DEF k
    <2>3. x \in ToSet(s)
      BY <1>1, ListIndices
    <2> QED BY <2>1, <2>2, <2>3, RemovedList
  <1>2. CASE ~\E i \in 1 .. Len(s) : s[i] = x
    <2>1. RemoveFirst(s, x) = s
      BY <1>2 DEF RemoveFirst
    <2>2. x \notin ToSet(s)
      BY <1>2, ListIndices
    <2> QED BY <2>1, <2>2
  <1> QED BY <1>1, <1>2

\* The first node is taken off the list.
LEMMA TailList ==
    ASSUME NEW S, NEW s \in Seq(S), s # << >>
    PROVE  /\ Head(s) \in S /\ Head(s) \in ToSet(s) /\ Head(s) = s[1]
           /\ Tail(s) \in Seq(S)
           /\ ToSet(Tail(s)) \subseteq ToSet(s)
           /\ ToSet(s) = ToSet(Tail(s)) \cup {Head(s)}
           /\ IsInjective(s) => /\ IsInjective(Tail(s))
                                /\ ToSet(Tail(s)) = ToSet(s) \ {Head(s)}
           /\ \A R : Ordered(s, R) => /\ Ordered(Tail(s), R)
                                      /\ \A y \in ToSet(Tail(s)) : <<Head(s), y>> \in R
  <1> DEFINE w == Tail(s)
  <1>1. /\ Len(s) \in Nat /\ Len(s) # 0 /\ Head(s) = s[1] /\ Head(s) \in S
        /\ w \in Seq(S) /\ Len(w) = Len(s) - 1
        /\ DOMAIN s = 1 .. Len(s) /\ DOMAIN w = 1 .. Len(s) - 1
        /\ \A i \in 1 .. Len(s) - 1 : w[i] = s[i + 1]
    OBVIOUS
  <1> HIDE DEF w
  <1>2. Head(s) \in ToSet(s)
    BY <1>1 DEF ToSet
  <1>3. \A y : y \in ToSet(w) <=> \E i \in 2 .. Len(s) : s[i] = y
    <2>1. ASSUME NEW i \in 2 .. Len(s) PROVE s[i] \in ToSet(w)
      <3>1. i - 1 \in 1 .. Len(s) - 1 /\ w[i - 1] = s[i]
        BY <1>1
      <3> QED BY <3>1, <1>1 DEF ToSet
    <2>2. ASSUME NEW y \in ToSet(w) PROVE \E j \in 2 .. Len(s) : s[j] = y
      <3>1. PICK i \in 1 .. Len(s) - 1 : w[i] = y
        BY <1>1 DEF ToSet
      <3>2. i + 1 \in 2 .. Len(s) /\ s[i + 1] = y
        BY <1>1, <3>1
      <3> QED BY <3>2
    <2> QED BY <2>1, <2>2
  <1>4. \A y : y \in ToSet(s) <=> \E i \in 1 .. Len(s) : s[i] = y
    BY <1>1 DEF ToSet
  <1>5. ToSet(s) = ToSet(w) \cup {Head(s)}
    BY <1>1, <1>3, <1>4
  <1>6. ASSUME IsInjective(s) PROVE IsInjective(w) /\ Head(s) \notin ToSet(w)
    <2>1. \A i, j \in 1 .. Len(s) : s[i] = s[j] => i = j
      BY <1>1, <1>6 DEF IsInjective
    <2>2. ASSUME NEW i \in 1 .. Len(s) - 1, NEW j \in 1 .. Len(s) - 1, w[i] = w[j]
          PROVE  i = j
      <3>1. i + 1 \in 1 .. Len(s) /\ j + 1 \in 1 .. Len(s) /\ s[i + 1] = s[j + 1]
        BY <1>1, <2>2
      <3>2. i + 1 = j + 1
        BY <2>1, <3>1
      <3> QED BY <3>2
    <2>3. IsInjective(w)
      BY <1>1, <2>2 DEF IsInjective
    <2>4. Head(s) \notin ToSet(w)
      <3> SUFFICES ASSUME NEW i \in 2 .. Len(s), s[i] = s[1] PROVE FALSE
        BY <1>1, <1>3
      <3>1. i \in 1 .. Len(s) /\ 1 \in 1 .. Len(s) /\ i # 1
        BY <1>1
      <3> QED BY <2>1, <3>1
    <2> QED BY <2>3, <2>4
  <1>7. ASSUME NEW R, Ordered(s, R)
        PROVE  Ordered(w, R) /\ \A y \in ToSet(w) : <<Head(s), y>> \in R
    <2>1. \A i, j \in 1 .. Len(s) : i < j => <<s[i], s[j]>> \in R
      BY <1>1, <1>7 DEF Ordered
    <2>2. ASSUME NEW i \in 1 .. Len(s) - 1, NEW j \in 1 .. Len(s) - 1, i < j
          PROVE  <<w[i], w[j]>> \in R
      <3>1. i + 1 \in 1 .. Len(s) /\ j + 1 \in 1 .. Len(s) /\ i + 1 < j + 1
        BY <1>1, <2>2
      <3> QED BY <2>1, <3>1, <1>1
    <2>3. Ordered(w, R)
      BY <1>1, <2>2 DEF Ordered
    <2>4. ASSUME NEW y \in ToSet(w) PROVE <<Head(s), y>> \in R
      <3>1. PICK i \in 2 .. Len(s) : s[i] = y
        BY <1>3
      <3>2. i \in 1 .. Len(s) /\ 1 \in 1 .. Len(s) /\ 1 < i
        BY <1>1
      <3> QED BY <2>1, <3>1, <3>2, <1>1
    <2> QED BY <2>3, <2>4
  <1> QED BY <1>1, <1>2, <1>5, <1>6, <1>7 DEF w

=============================================================================
