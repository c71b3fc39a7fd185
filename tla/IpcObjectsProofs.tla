-------------------------- MODULE IpcObjectsProofs ---------------------------
(***************************************************************************)
(* Proofs about IpcObjects, second part, for any threads, sizes and calls: *)
(* the inductive invariants of the ring buffer, the pipe and the wifi      *)
(* driver, the invariant of all objects, the heap, the theorems, and the   *)
(* refinement of Channel.  A theorem about an object that does not keep    *)
(* its promise for all callers states what it asks of them: Untimed for    *)
(* the counts of the memory pool, OneByteForced for the ring buffer, Ends  *)
(* for the pipe and Lossless for the driver.                               *)
(***************************************************************************)
EXTENDS IpcWaitingProofs

-----------------------------------------------------------------------------
(* The ring buffer.                                                        *)

Byte == 0 .. Bytes - 1

RingType(r) == r \in
    [buffer : [Place -> Byte], read_index : Place, read_mirror : BOOLEAN,
     write_index : Place, write_mirror : BOOLEAN]

\* The writer is ahead of the reader, or on the other side of the mirror behind it.
Sides(r) == IF r.read_mirror = r.write_mirror THEN r.read_index <= r.write_index
                                              ELSE r.write_index <= r.read_index

\* The ring has the bytes s.
RingHas(r, s) ==
    /\ RingType(r) /\ Sides(r)
    /\ s = RingSeq(r.buffer, r.read_index, rt_ringbuffer_data_len(r), BufferSize)

RingInv == RingHas(rb, stream) /\ last \in Nat

\* The sizes of the ring buffer.
LEMMA RingSize == BufferSize \in Nat \ {0} /\ Place = 0 .. BufferSize - 1 /\ Bytes \in Nat \ {0}
  BY RingAssumption DEF Place

\* What the indices and the mirror bits say.
LEMMA RingLength ==
    ASSUME NEW r, RingType(r), Sides(r)
    PROVE  /\ rt_ringbuffer_data_len(r) = IF r.read_mirror = r.write_mirror
                                          THEN r.write_index - r.read_index
                                          ELSE BufferSize - (r.read_index - r.write_index)
           /\ rt_ringbuffer_data_len(r) \in 0 .. BufferSize
           /\ rt_ringbuffer_space_len(r) = BufferSize - rt_ringbuffer_data_len(r)
           /\ rt_ringbuffer_space_len(r) \in 0 .. BufferSize
           /\ rt_ringbuffer_status(r) = "FULL" <=> rt_ringbuffer_data_len(r) = BufferSize
  <1> DEFINE x == r.read_index
             y == r.write_index
             n == rt_ringbuffer_data_len(r)
             same == r.read_mirror = r.write_mirror
  <1>1. x \in 0 .. BufferSize - 1 /\ y \in 0 .. BufferSize - 1 /\ BufferSize \in Nat \ {0}
    BY RingSize DEF RingType
  <1>2. IF same THEN x <= y ELSE y <= x
    BY DEF Sides
  <1>3. rt_ringbuffer_status(r) = IF x # y THEN "HALFFULL" ELSE IF same THEN "EMPTY" ELSE "FULL"
    BY DEF rt_ringbuffer_status
  <1>4. n = IF x = y THEN (IF same THEN 0 ELSE BufferSize)
            ELSE IF y > x THEN y - x ELSE BufferSize - (x - y)
    BY <1>3 DEF rt_ringbuffer_data_len
  <1>5. rt_ringbuffer_space_len(r) = BufferSize - n
    BY DEF rt_ringbuffer_space_len
  <1> HIDE DEF x, y, n, same
  <1>6. n = (IF same THEN y - x ELSE BufferSize - (x - y)) /\ n \in 0 .. BufferSize
    BY <1>1, <1>2, <1>4
  <1>7. rt_ringbuffer_status(r) = "FULL" <=> n = BufferSize
    <2>1. rt_ringbuffer_status(r) = "FULL" <=> x = y /\ ~same
      BY <1>3
    <2>2. n = BufferSize <=> x = y /\ ~same
      BY <1>1, <1>2, <1>4
    <2> QED BY <2>1, <2>2
  <1> QED BY <1>1, <1>5, <1>6, <1>7 DEF x, y, n, same

\* An index that has gone z places.
Wrap(z) == IF z < BufferSize THEN z ELSE z - BufferSize

\* The writer is that far behind the reader.
LEMMA WriterPlace ==
    ASSUME NEW r, RingType(r), Sides(r)
    PROVE  r.write_index = Wrap(r.read_index + rt_ringbuffer_data_len(r))
  <1> DEFINE x == r.read_index
             y == r.write_index
             n == rt_ringbuffer_data_len(r)
  <1>1. x \in 0 .. BufferSize - 1 /\ y \in 0 .. BufferSize - 1 /\ BufferSize \in Nat \ {0}
    BY RingSize DEF RingType
  <1>2. \/ n = y - x /\ x <= y
        \/ n = BufferSize - (x - y) /\ y <= x
    BY RingLength DEF Sides
  <1> HIDE DEF x, y, n
  <1>3. y = Wrap(x + n)
    BY <1>1, <1>2 DEF Wrap
  <1> QED BY <1>3 DEF x, y, n

\* How far a place is behind another one.
LEMMA WrappedBack ==
    ASSUME NEW N \in Nat \ {0}, NEW i \in 0 .. N - 1, NEW w \in 0 .. N - 1
    PROVE  (i - w) % N = IF i >= w THEN i - w ELSE i - w + N
  <1> DEFINE d == i - w
  <1>1. CASE i >= w
    <2>1. d \in 0 .. N - 1
      BY <1>1
    <2> HIDE DEF d
    <2>2. d % N = d
      BY <2>1
    <2> QED BY <1>1, <2>2 DEF d
  <1>2. CASE i < w
    <2>1. d \in Int /\ d + N \in 0 .. N - 1
      BY <1>2
    <2> HIDE DEF d
    <2>2. d % N = d + N
      BY <2>1
    <2> QED BY <1>2, <2>2 DEF d
  <1> QED BY <1>1, <1>2

\* How far place i is behind place y.
Behind(i, y) == (i - y) % BufferSize

\* What a write changes.
WriteEffect(r, s, w) ==
    /\ RingType(w)
    /\ w.read_index = r.read_index /\ w.read_mirror = r.read_mirror
    /\ w.write_index = Wrap(r.write_index + Len(s))
    /\ r.write_index + Len(s) < BufferSize => w.write_mirror = r.write_mirror
    /\ r.write_index + Len(s) >= BufferSize => w.write_mirror = ~r.write_mirror
    /\ \A i \in Place : w.buffer[i] =
          IF Behind(i, r.write_index) < Len(s) THEN s[Behind(i, r.write_index) + 1]
                                               ELSE r.buffer[i]

\* What a write leaves in each field.
LEMMA WrittenFields ==
    ASSUME NEW r, RingType(r), NEW s \in Seq(Byte), Len(s) <= BufferSize
    PROVE  WriteEffect(r, s, Written(r, s))
  <1> DEFINE w == Written(r, s)
             y == r.write_index
             n == Len(s)
             buf == [i \in Place |-> IF Behind(i, y) < n THEN s[Behind(i, y) + 1] ELSE r.buffer[i]]
  <1>0. /\ y \in 0 .. BufferSize - 1 /\ BufferSize \in Nat \ {0} /\ n \in Nat
        /\ Place = 0 .. BufferSize - 1
        /\ r.buffer \in [Place -> Byte] /\ r.read_index \in Place /\ r.read_mirror \in BOOLEAN
        /\ r.write_mirror \in BOOLEAN
    BY RingSize, ListIndices DEF RingType
  <1>2. Flips(y, n) <=> y + n >= BufferSize
    BY <1>0 DEF Flips
  <1>3. Wrap(y + n) \in Place /\ Wrap(y + n) = IF Flips(y, n) THEN n - (BufferSize - y) ELSE y + n
    BY <1>0, <1>2 DEF Wrap
  <1>4. w.write_index = Wrap(y + n)
    <2>1. w.write_index = IF Flips(y, n) THEN n - (BufferSize - y) ELSE y + n
      BY DEF Written, RingType
    <2> QED BY <1>3, <2>1
  <1>5. w.read_index = r.read_index /\ w.read_mirror = r.read_mirror
    BY DEF Written, RingType
  <1>6. w.write_mirror = IF Flips(y, n) THEN ~r.write_mirror ELSE r.write_mirror
    BY DEF Written, RingType
  <1>7. /\ y + n < BufferSize => w.write_mirror = r.write_mirror
        /\ y + n >= BufferSize => w.write_mirror = ~r.write_mirror
    BY <1>0, <1>2, <1>6
  <1>8. w.buffer = buf
    BY DEF Written, RingType, Behind
  <1>9. \A i \in Place : Behind(i, y) \in 0 .. BufferSize - 1
    BY <1>0 DEF Behind
  <1>10. buf \in [Place -> Byte]
    <2>1. ASSUME NEW i \in Place
          PROVE  (IF Behind(i, y) < n THEN s[Behind(i, y) + 1] ELSE r.buffer[i]) \in Byte
      <3>1. Behind(i, y) < n => Behind(i, y) + 1 \in 1 .. n
        <4> DEFINE k == Behind(i, y)
        <4>1. k \in 0 .. BufferSize - 1
          BY <1>9
        <4> HIDE DEF k
        <4>2. k < n => k + 1 \in 1 .. n
          BY <1>0, <4>1
        <4> QED BY <4>2 DEF k
      <3>2. \A j \in 1 .. n : s[j] \in Byte
        BY ListIndices
      <3> QED BY <1>0, <3>1, <3>2
    <2> QED BY <2>1
  <1>11. RingType(w)
    <2> DEFINE y2 == IF Flips(y, n) THEN n - (BufferSize - y) ELSE y + n
               m2 == IF Flips(y, n) THEN ~r.write_mirror ELSE r.write_mirror
    <2>1. w = [r EXCEPT !.buffer = buf, !.write_index = y2, !.write_mirror = m2]
      BY DEF Written, Behind
    <2>2. m2 \in BOOLEAN /\ y2 \in Place
      BY <1>0, <1>3
    <2> HIDE DEF w, buf, m2, y2
    <2> QED BY <1>10, <2>1, <2>2 DEF RingType
  <1>12. \A i \in Place : w.buffer[i] = IF Behind(i, y) < n THEN s[Behind(i, y) + 1] ELSE r.buffer[i]
    BY <1>8
  <1> QED BY <1>4, <1>5, <1>7, <1>11, <1>12 DEF WriteEffect

\* The place of the j-th byte, and how far it is behind the writer, who is n places
\* behind the reader.
LEMMA PlaceOf ==
    ASSUME NEW x \in Place, NEW j \in 1 .. BufferSize
    PROVE  /\ (x + j - 1) % BufferSize = Wrap(x + (j - 1)) /\ Wrap(x + (j - 1)) \in Place
  <1>1. /\ BufferSize \in Nat \ {0} /\ x \in 0 .. BufferSize - 1 /\ j - 1 \in 0 .. BufferSize
        /\ x + j - 1 = x + (j - 1) /\ Place = 0 .. BufferSize - 1
    BY RingSize
  <1>2. /\ (x + (j - 1)) % BufferSize \in 0 .. BufferSize - 1
        /\ (x + (j - 1)) % BufferSize =
             IF x + (j - 1) < BufferSize THEN x + (j - 1) ELSE x + (j - 1) - BufferSize
    BY <1>1, Wrapped
  <1> QED BY <1>1, <1>2 DEF Wrap

\* How far a place is behind the writer.
LEMMA BehindWriter ==
    ASSUME NEW x \in Place, NEW n \in 0 .. BufferSize, NEW y \in Place, y = Wrap(x + n),
           NEW j \in 1 .. BufferSize
    PROVE  Behind(Wrap(x + (j - 1)), y) = IF j <= n THEN BufferSize - n + (j - 1) ELSE j - 1 - n
  <1> DEFINE P == Wrap(x + (j - 1))
  <1>1. /\ BufferSize \in Nat \ {0} /\ x \in 0 .. BufferSize - 1 /\ y \in 0 .. BufferSize - 1
        /\ P \in 0 .. BufferSize - 1
    BY RingSize, PlaceOf
  <1>2. P = IF x + (j - 1) < BufferSize THEN x + (j - 1) ELSE (x + (j - 1)) - BufferSize
    BY DEF Wrap
  <1>3. y = IF x + n < BufferSize THEN x + n ELSE (x + n) - BufferSize
    BY DEF Wrap
  <1> HIDE DEF P
  <1>4. Behind(P, y) = IF P >= y THEN P - y ELSE P - y + BufferSize
    BY <1>1, WrappedBack DEF Behind
  <1>5. Behind(P, y) = IF j <= n THEN BufferSize - n + (j - 1) ELSE j - 1 - n
    BY <1>1, <1>2, <1>3, <1>4
  <1> QED BY <1>5 DEF P

\* The bytes of a ring.
LEMMA RingBytes ==
    ASSUME NEW r, NEW q, RingHas(r, q)
    PROVE  /\ q \in Seq(Byte) /\ Len(q) = rt_ringbuffer_data_len(r)
           /\ \A j \in 1 .. rt_ringbuffer_data_len(r) :
                 q[j] = r.buffer[Wrap(r.read_index + (j - 1))]
           /\ rt_ringbuffer_data_len(r) \in 0 .. BufferSize
  <1> DEFINE n == rt_ringbuffer_data_len(r)
             x == r.read_index
  <1>1. n \in 0 .. BufferSize /\ x \in Place /\ BufferSize \in Nat \ {0} /\ r.buffer \in [Place -> Byte]
    BY RingLength, RingSize DEF RingHas, RingType
  <1>2. q = [j \in 1 .. n |-> r.buffer[(x + j - 1) % BufferSize]]
    BY DEF RingHas, RingSeq
  <1> HIDE DEF n, x
  <1>3. ASSUME NEW j \in 1 .. n
        PROVE  q[j] = r.buffer[Wrap(x + (j - 1))] /\ q[j] \in Byte
    <2>1. j \in 1 .. BufferSize
      BY <1>1
    <2>2. (x + j - 1) % BufferSize = Wrap(x + (j - 1)) /\ Wrap(x + (j - 1)) \in Place
      BY <1>1, <2>1, PlaceOf
    <2>3. q[j] = r.buffer[(x + j - 1) % BufferSize]
      BY <1>2
    <2> QED BY <1>1, <2>2, <2>3
  <1>4. q \in [1 .. n -> Byte] /\ n \in Nat
    <2>1. q = [j \in 1 .. n |-> q[j]]
      BY <1>2
    <2> QED BY <1>1, <1>3, <2>1
  <1>5. q \in Seq(Byte) /\ Len(q) = n
    BY <1>4, FunctionIsSeq
  <1> QED BY <1>1, <1>3, <1>5 DEF n, x

\* How to show that a ring has some bytes.
LEMMA HasBytes ==
    ASSUME NEW r, RingType(r), Sides(r), NEW q \in Seq(Byte), Len(q) = rt_ringbuffer_data_len(r),
           \A j \in 1 .. Len(q) : q[j] = r.buffer[Wrap(r.read_index + (j - 1))]
    PROVE  RingHas(r, q)
  <1> DEFINE n == rt_ringbuffer_data_len(r)
             x == r.read_index
  <1>1. n \in 0 .. BufferSize /\ x \in Place /\ BufferSize \in Nat \ {0} /\ Len(q) = n
    BY RingLength, RingSize DEF RingType
  <1>2. q = [j \in 1 .. n |-> q[j]]
    BY <1>1
  <1> HIDE DEF n, x
  <1>3. ASSUME NEW j \in 1 .. n PROVE q[j] = r.buffer[(x + j - 1) % BufferSize]
    <2>1. j \in 1 .. BufferSize
      BY <1>1
    <2>2. (x + j - 1) % BufferSize = Wrap(x + (j - 1))
      BY <1>1, <2>1, PlaceOf
    <2>3. q[j] = r.buffer[Wrap(x + (j - 1))]
      BY <1>1 DEF x
    <2> QED BY <2>2, <2>3
  <1>4. q = [j \in 1 .. n |-> r.buffer[(x + j - 1) % BufferSize]]
    BY <1>2, <1>3
  <1> QED BY <1>4 DEF RingHas, RingSeq, n, x

\* The indices after a write that fits.
LEMMA WrittenLength ==
    ASSUME NEW r, RingType(r), Sides(r), NEW s \in Seq(Byte), NEW w, WriteEffect(r, s, w),
           Len(s) <= rt_ringbuffer_space_len(r)
    PROVE  Sides(w) /\ rt_ringbuffer_data_len(w) = rt_ringbuffer_data_len(r) + Len(s)
  <1> DEFINE x == r.read_index
             y == r.write_index
             y2 == w.write_index
             k == Len(s)
             n == rt_ringbuffer_data_len(r)
             same == r.read_mirror = r.write_mirror
             same2 == w.read_mirror = w.write_mirror
  <1>1. /\ x \in 0 .. BufferSize - 1 /\ y \in 0 .. BufferSize - 1 /\ BufferSize \in Nat \ {0}
        /\ k \in Nat /\ n \in 0 .. BufferSize /\ k <= BufferSize - n
    BY RingSize, RingLength, ListIndices DEF RingType
  <1>2. /\ RingType(w) /\ w.read_index = x
        /\ y2 = IF y + k < BufferSize THEN y + k ELSE (y + k) - BufferSize
    BY DEF WriteEffect, Wrap
  <1>3. (same => n = y - x /\ x <= y) /\ (~same => n = BufferSize - (x - y) /\ y <= x)
    BY RingLength DEF Sides
  <1>4. (y + k < BufferSize => (same2 <=> same)) /\ (y + k >= BufferSize => (same2 <=> ~same))
    BY DEF WriteEffect, RingType
  <1>5. Sides(w) <=> IF same2 THEN x <= y2 ELSE y2 <= x
    BY <1>2 DEF Sides
  <1>6. Sides(w) => rt_ringbuffer_data_len(w) = IF same2 THEN y2 - x ELSE BufferSize - (x - y2)
    BY <1>2, RingLength
  <1> HIDE DEF x, y, y2, k, n, same, same2
  <1>7. IF same2 THEN x <= y2 ELSE y2 <= x
    BY <1>1, <1>2, <1>3, <1>4
  <1>8. (IF same2 THEN y2 - x ELSE BufferSize - (x - y2)) = n + k
    BY <1>1, <1>2, <1>3, <1>4
  <1> QED BY <1>5, <1>6, <1>7, <1>8 DEF n, k

\* Two sequences in one.
LEMMA Joined ==
    ASSUME NEW S, NEW q \in Seq(S), NEW s \in Seq(S)
    PROVE  /\ q \o s \in Seq(S) /\ Len(q \o s) = Len(q) + Len(s)
           /\ \A j \in 1 .. Len(q) + Len(s) :
                 (q \o s)[j] = IF j <= Len(q) THEN q[j] ELSE s[j - Len(q)]
  OBVIOUS

\* Bytes that there is room for come behind the others.
LEMMA WrittenFits ==
    ASSUME NEW r, NEW q, RingHas(r, q), NEW s \in Seq(Byte), Len(s) <= rt_ringbuffer_space_len(r)
    PROVE  RingHas(Written(r, s), q \o s)
  <1> DEFINE x == r.read_index
             y == r.write_index
             k == Len(s)
             n == rt_ringbuffer_data_len(r)
  <1>0. PICK w : w = Written(r, s)
    OBVIOUS
  <1>1. /\ RingType(r) /\ Sides(r) /\ x \in Place /\ y \in Place /\ BufferSize \in Nat \ {0}
        /\ k \in Nat /\ n \in 0 .. BufferSize /\ n + k <= BufferSize /\ k <= BufferSize
        /\ y = Wrap(x + n)
    <2>1. RingType(r) /\ Sides(r)
      BY DEF RingHas
    <2>2. y = Wrap(x + n) /\ n \in 0 .. BufferSize /\ rt_ringbuffer_space_len(r) = BufferSize - n
      BY <2>1, RingLength, WriterPlace
    <2>3. BufferSize \in Nat \ {0} /\ k \in Nat
      BY RingSize, ListIndices
    <2>4. x \in Place /\ y \in Place
      BY <2>1 DEF RingType
    <2> HIDE DEF n, k, x, y
    <2>5. n + k <= BufferSize /\ k <= BufferSize
      BY <2>2, <2>3 DEF k
    <2> QED BY <2>1, <2>2, <2>3, <2>4, <2>5
  <1>2. WriteEffect(r, s, w)
    BY <1>0, <1>1, WrittenFields
  <1>3. Sides(w) /\ rt_ringbuffer_data_len(w) = n + k
    BY <1>1, <1>2, WrittenLength
  <1>4. /\ q \in Seq(Byte) /\ Len(q) = n
        /\ \A j \in 1 .. n : q[j] = r.buffer[Wrap(x + (j - 1))]
    BY RingBytes
  <1>5. q \o s \in Seq(Byte) /\ Len(q \o s) = n + k
        /\ \A j \in 1 .. n + k : (q \o s)[j] = IF j <= n THEN q[j] ELSE s[j - n]
    <2>1. Len(q) = n /\ Len(s) = k /\ q \o s \in Seq(Byte)
      BY <1>4
    <2>2. /\ Len(q \o s) = Len(q) + Len(s)
          /\ \A j \in 1 .. Len(q) + Len(s) : (q \o s)[j] = IF j <= Len(q) THEN q[j] ELSE s[j - Len(q)]
      BY <1>4, Joined
    <2> HIDE DEF n, k
    <2> QED BY <2>1, <2>2
  <1>6. /\ RingType(w) /\ w.read_index = x
        /\ \A i \in Place : w.buffer[i] =
              IF Behind(i, y) < k THEN s[Behind(i, y) + 1] ELSE r.buffer[i]
    BY <1>2 DEF WriteEffect
  <1> HIDE DEF x, y, k, n
  <1>7. ASSUME NEW j \in 1 .. n + k PROVE (q \o s)[j] = w.buffer[Wrap(x + (j - 1))]
    <2> DEFINE P == Wrap(x + (j - 1))
               d == Behind(P, y)
    <2>1. j \in 1 .. BufferSize /\ j \in Int
      BY <1>1
    <2>2. P \in Place /\ d = IF j <= n THEN BufferSize - n + (j - 1) ELSE j - 1 - n
      BY <1>1, <2>1, PlaceOf, BehindWriter
    <2>3. w.buffer[P] = IF d < k THEN s[d + 1] ELSE r.buffer[P]
      BY <1>6, <2>2
    <2>5. j <= n => q[j] = r.buffer[P]
      <3>1. j <= n => j \in 1 .. n
        BY <1>1
      <3> QED BY <1>4, <3>1
    <2>6. (q \o s)[j] = IF j <= n THEN q[j] ELSE s[j - n]
      BY <1>5
    <2> HIDE DEF P, d
    <2>7. CASE j <= n
      <3>1. ~(d < k)
        BY <1>1, <2>1, <2>2, <2>7
      <3> QED BY <2>3, <2>5, <2>6, <2>7, <3>1 DEF P
    <2>8. CASE j > n
      <3>1. d < k /\ d + 1 = j - n /\ ~(j <= n)
        BY <1>1, <2>1, <2>2, <2>8
      <3>2. w.buffer[P] = s[d + 1] /\ (q \o s)[j] = s[j - n]
        BY <2>3, <2>6, <3>1
      <3> QED BY <3>1, <3>2 DEF P
    <2>9. j <= n \/ j > n
      BY <1>1, <2>1
    <2> QED BY <2>7, <2>8, <2>9
  <1>8. RingHas(w, q \o s)
    <2>1. PICK v : v = q \o s
      OBVIOUS
    <2>2. /\ v \in Seq(Byte) /\ Len(v) = rt_ringbuffer_data_len(w)
          /\ \A j \in 1 .. Len(v) : v[j] = w.buffer[Wrap(w.read_index + (j - 1))]
      BY <1>3, <1>5, <1>6, <1>7, <2>1
    <2>3. RingHas(w, v)
      BY <1>3, <1>6, <2>2, HasBytes
    <2> QED BY <2>1, <2>3
  <1> QED BY <1>0, <1>8

\* The length of a ring that has some bytes.
LEMMA HasLength ==
    ASSUME NEW r, NEW q, RingHas(r, q)
    PROVE  /\ RingType(r) /\ Sides(r) /\ q \in Seq(Byte) /\ Len(q) \in 0 .. BufferSize
           /\ rt_ringbuffer_data_len(r) = Len(q)
           /\ rt_ringbuffer_space_len(r) = BufferSize - Len(q)
           /\ rt_ringbuffer_status(r) = "FULL" <=> Len(q) = BufferSize
  <1>1. RingType(r) /\ Sides(r)
    BY DEF RingHas
  <1> QED BY <1>1, RingBytes, RingLength

\* Two steps of an index are one.
LEMMA WrapTwice ==
    ASSUME NEW x \in Place, NEW m \in 0 .. BufferSize, NEW j \in 0 .. BufferSize,
           m + j <= BufferSize
    PROVE  Wrap(x + m) \in Place /\ Wrap(Wrap(x + m) + j) = Wrap(x + (m + j))
  <1>1. BufferSize \in Nat \ {0} /\ x \in 0 .. BufferSize - 1 /\ Place = 0 .. BufferSize - 1
    BY RingSize
  <1> QED BY <1>1 DEF Wrap

\* A byte that is written over the oldest one of a full ring, with the reader behind
\* the writer.
LEMMA WrittenOver ==
    ASSUME NEW r, NEW q, RingHas(r, q), Len(q) = BufferSize, NEW ch \in Byte, NEW v, RingType(v),
           v.buffer = Written(r, <<ch>>).buffer,
           v.write_index = Written(r, <<ch>>).write_index,
           v.write_mirror = Written(r, <<ch>>).write_mirror,
           v.read_index = Written(r, <<ch>>).write_index,
           v.read_mirror = IF Flips(r.write_index, 1) THEN ~r.read_mirror ELSE r.read_mirror
    PROVE  RingHas(v, Append(Tail(q), ch))
  <1> DEFINE x == r.read_index
             s == <<ch>>
             q2 == Append(Tail(q), ch)
             x2 == v.read_index
  <1>0. PICK w : w = Written(r, s)
    OBVIOUS
  <1>1. /\ RingType(r) /\ Sides(r) /\ q \in Seq(Byte) /\ BufferSize \in Nat \ {0}
        /\ rt_ringbuffer_data_len(r) = BufferSize /\ x \in Place /\ Place = 0 .. BufferSize - 1
        /\ r.read_mirror \in BOOLEAN /\ r.write_mirror \in BOOLEAN
    BY HasLength, RingSize DEF RingType
  <1>2. r.read_mirror # r.write_mirror /\ r.write_index = x
    <2> DEFINE y == r.write_index
               same == r.read_mirror = r.write_mirror
    <2>1. y \in Place /\ BufferSize = IF same THEN y - x ELSE BufferSize - (x - y)
      BY <1>1, RingLength DEF RingType
    <2> HIDE DEF x, y, same
    <2>2. ~same /\ y = x
      BY <1>1, <2>1
    <2> QED BY <2>2 DEF y, same
  <1>3. WriteEffect(r, s, w) /\ Len(s) = 1 /\ s[1] = ch /\ s \in Seq(Byte)
    <2>1. Len(s) = 1 /\ s[1] = ch /\ s \in Seq(Byte)
      OBVIOUS
    <2>2. Len(s) <= BufferSize
      BY <1>1, <2>1
    <2> HIDE DEF s
    <2> QED BY <1>0, <1>1, <2>1, <2>2, WrittenFields
  <1>4. x2 = Wrap(x + 1) /\ v.write_index = x2 /\ v.buffer = w.buffer
    BY <1>0, <1>2, <1>3 DEF WriteEffect
  <1>5. v.read_mirror # v.write_mirror
    <2>1. Flips(r.write_index, 1) <=> x + 1 >= BufferSize
      BY <1>1, <1>2 DEF Flips
    <2>2. v.write_mirror = w.write_mirror
      BY <1>0
    <2>3. x + 1 < BufferSize => v.write_mirror = r.write_mirror
      BY <1>2, <1>3, <2>2 DEF WriteEffect
    <2>4. x + 1 >= BufferSize => v.write_mirror = ~r.write_mirror
      BY <1>2, <1>3, <2>2 DEF WriteEffect
    <2> HIDE DEF x
    <2>5. x + 1 < BufferSize \/ x + 1 >= BufferSize
      BY <1>1
    <2>6. CASE x + 1 >= BufferSize
      BY <1>1, <1>2, <2>1, <2>4, <2>6
    <2>7. CASE x + 1 < BufferSize
      BY <1>1, <1>2, <2>1, <2>3, <2>5, <2>7
    <2> QED BY <2>5, <2>6, <2>7
  <1>6. Sides(v) /\ rt_ringbuffer_data_len(v) = BufferSize
    <2>1. v.write_index = v.read_index /\ v.read_index \in Place
      BY <1>4 DEF RingType
    <2>2. Sides(v)
      BY <1>1, <1>5, <2>1 DEF Sides
    <2> QED BY <1>1, <1>5, <2>1, <2>2, RingLength
  <1>7. /\ q2 \in Seq(Byte) /\ Len(q2) = BufferSize /\ q2[BufferSize] = ch
        /\ \A j \in 1 .. BufferSize - 1 : q2[j] = q[j + 1]
    <2>1. Tail(q) \in Seq(Byte) /\ Len(Tail(q)) = BufferSize - 1
          /\ \A j \in 1 .. BufferSize - 1 : Tail(q)[j] = q[j + 1]
      BY <1>1
    <2> QED BY <1>1, <2>1
  <1>8. \A j \in 1 .. BufferSize : q[j] = r.buffer[Wrap(x + (j - 1))]
    BY <1>1, RingBytes
  <1>9. ASSUME NEW j \in 1 .. BufferSize
        PROVE  q2[j] = v.buffer[Wrap(x2 + (j - 1))]
    <2>1. Wrap(x2 + (j - 1)) = Wrap(x + j)
      <3>1. Wrap(Wrap(x + 1) + (j - 1)) = Wrap(x + (1 + (j - 1)))
        <4>1. 1 \in 0 .. BufferSize /\ j - 1 \in 0 .. BufferSize /\ 1 + (j - 1) <= BufferSize
          BY <1>1
        <4> HIDE DEF x
        <4> QED BY <1>1, <4>1, WrapTwice
      <3>2. x + (1 + (j - 1)) = x + j
        BY <1>1
      <3> HIDE DEF x, x2
      <3> QED BY <1>4, <3>1, <3>2
    <2>2. \A i \in Place : w.buffer[i] = IF Behind(i, x) < 1 THEN s[Behind(i, x) + 1]
                                                              ELSE r.buffer[i]
      BY <1>2, <1>3 DEF WriteEffect
    <2>3. x = Wrap(x + BufferSize)
      BY <1>1 DEF Wrap
    <2>4. CASE j = BufferSize
      <3>1. Wrap(x + j) = x
        BY <2>3, <2>4
      <3>2. Behind(x, x) = 0
        BY <1>1 DEF Behind
      <3>3. w.buffer[x] = ch
        BY <1>1, <1>3, <2>2, <3>2
      <3> HIDE DEF q2, x, x2, s
      <3> QED BY <1>4, <1>7, <2>1, <2>4, <3>1, <3>3
    <2>5. CASE j < BufferSize
      <3> DEFINE k == j + 1
      <3>1. k \in 1 .. BufferSize /\ j \in 1 .. BufferSize - 1 /\ k - 1 = j
        BY <1>1, <2>5
      <3> HIDE DEF k
      <3>2. Wrap(x + (k - 1)) \in Place
        BY <1>1, <3>1, PlaceOf
      <3>3. Behind(Wrap(x + (k - 1)), x) = BufferSize - BufferSize + (k - 1)
        <4>1. k <= BufferSize /\ BufferSize \in 0 .. BufferSize
          BY <1>1, <3>1
        <4> HIDE DEF x
        <4> QED BY <1>1, <2>3, <3>1, <4>1, BehindWriter
      <3>4. Behind(Wrap(x + (k - 1)), x) = j
        BY <1>1, <3>1, <3>3
      <3>5. w.buffer[Wrap(x + j)] = r.buffer[Wrap(x + j)]
        BY <2>2, <3>1, <3>2, <3>4
      <3>6. q[k] = r.buffer[Wrap(x + j)]
        BY <1>8, <3>1
      <3>7. q2[j] = q[k]
        BY <1>7, <3>1 DEF k
      <3> HIDE DEF q2, x, x2, s
      <3> QED BY <1>4, <2>1, <3>5, <3>6, <3>7
    <2> QED BY <1>1, <2>4, <2>5
  <1> HIDE DEF q2
  <1> QED BY <1>6, <1>7, <1>9, HasBytes DEF q2

\* m bytes are taken from the front.
LEMMA TakenBytes ==
    ASSUME NEW r, NEW q, RingHas(r, q), NEW m \in 0 .. Len(q), NEW v, RingType(v),
           v.buffer = r.buffer, v.write_index = r.write_index, v.write_mirror = r.write_mirror,
           v.read_index = Wrap(r.read_index + m),
           r.read_index + m < BufferSize => v.read_mirror = r.read_mirror,
           r.read_index + m >= BufferSize => v.read_mirror = ~r.read_mirror
    PROVE  RingHas(v, SubSeq(q, m + 1, Len(q)))
  <1> DEFINE x == r.read_index
             y == r.write_index
             n == Len(q)
             q2 == SubSeq(q, m + 1, n)
             x2 == v.read_index
             same == r.read_mirror = r.write_mirror
             same2 == v.read_mirror = v.write_mirror
  <1>1. /\ RingType(r) /\ Sides(r) /\ q \in Seq(Byte) /\ BufferSize \in Nat \ {0}
        /\ rt_ringbuffer_data_len(r) = n /\ x \in Place /\ y \in Place /\ Place = 0 .. BufferSize - 1
        /\ n \in 0 .. BufferSize /\ r.read_mirror \in BOOLEAN /\ r.write_mirror \in BOOLEAN
        /\ m \in 0 .. n
    BY HasLength, RingSize DEF RingType
  <1>2. (same => n = y - x /\ x <= y) /\ (~same => n = BufferSize - (x - y) /\ y <= x)
    BY <1>1, RingLength DEF Sides
  <1>3. (x + m < BufferSize => (same2 <=> same)) /\ (x + m >= BufferSize => (same2 <=> ~same))
    BY <1>1 DEF RingType
  <1>4. x2 = IF x + m < BufferSize THEN x + m ELSE (x + m) - BufferSize
    BY DEF Wrap
  <1>5. Sides(v) <=> IF same2 THEN x2 <= y ELSE y <= x2
    BY DEF Sides
  <1>6. Sides(v) => rt_ringbuffer_data_len(v) = IF same2 THEN y - x2 ELSE BufferSize - (x2 - y)
    BY RingLength
  <1>7. Sides(v) /\ rt_ringbuffer_data_len(v) = n - m
    <2> HIDE DEF x, y, n, x2, same, same2
    <2>1. IF same2 THEN x2 <= y ELSE y <= x2
      BY <1>1, <1>2, <1>3, <1>4
    <2>2. (IF same2 THEN y - x2 ELSE BufferSize - (x2 - y)) = n - m
      BY <1>1, <1>2, <1>3, <1>4
    <2> QED BY <1>5, <1>6, <2>1, <2>2
  <1>8. q2 \in Seq(Byte) /\ Len(q2) = n - m /\ \A j \in 1 .. n - m : q2[j] = q[m + j]
    <2>1. q2 \in Seq(Byte) /\ Len(q2) = n - m
      BY <1>1
    <2>2. \A j \in 1 .. n - m : q2[j] = q[m + j]
      BY <1>1
    <2> QED BY <2>1, <2>2
  <1>9. ASSUME NEW j \in 1 .. n - m PROVE q2[j] = v.buffer[Wrap(x2 + (j - 1))]
    <2> DEFINE k == m + j
    <2>1. k \in 1 .. n /\ j - 1 \in 0 .. BufferSize /\ m + (j - 1) <= BufferSize /\ m \in 0 .. BufferSize
          /\ k - 1 = m + (j - 1)
      BY <1>1
    <2>2. q2[j] = q[k]
      BY <1>8
    <2> HIDE DEF k, n, q2
    <2>3. q[k] = r.buffer[Wrap(x + (k - 1))]
      BY <1>1, <2>1, RingBytes
    <2>4. Wrap(Wrap(x + m) + (j - 1)) = Wrap(x + (m + (j - 1)))
      BY <1>1, <2>1, WrapTwice
    <2> HIDE DEF x
    <2> QED BY <2>1, <2>2, <2>3, <2>4 DEF x
  <1> HIDE DEF q2
  <1> QED BY <1>7, <1>8, <1>9, HasBytes DEF q2

\* The smaller and the larger one of two numbers.
LEMMA MinOfTwo ==
    ASSUME NEW a \in Int, NEW b \in Int
    PROVE  Min({a, b}) = (IF a <= b THEN a ELSE b) /\ Max({a, b}) = (IF a <= b THEN b ELSE a)
  <1> DEFINE K == {a, b}
  <1>1. \E x \in K : \A y \in K : x <= y
    OBVIOUS
  <1>2. \E x \in K : \A y \in K : x >= y
    OBVIOUS
  <1>3. Min(K) \in K /\ \A y \in K : Min(K) <= y
    BY <1>1 DEF Min
  <1>4. Max(K) \in K /\ \A y \in K : Max(K) >= y
    BY <1>2 DEF Max
  <1> QED BY <1>3, <1>4

\* A new ring is empty.
LEMMA EmptyHas ==
    ASSUME NEW buffer \in [Place -> Byte]
    PROVE  RingHas(EmptyRing(buffer), << >>)
  <1> DEFINE r == EmptyRing(buffer)
  <1>1. BufferSize \in Nat \ {0} /\ 0 \in Place
    BY RingSize
  <1>2. RingType(r) /\ r.read_index = 0 /\ r.write_index = 0 /\ r.read_mirror = FALSE
        /\ r.write_mirror = FALSE
    BY <1>1 DEF EmptyRing, RingType
  <1>3. Sides(r)
    BY <1>2 DEF Sides
  <1>4. rt_ringbuffer_data_len(r) = 0
    <2>1. rt_ringbuffer_status(r) = "EMPTY"
      BY <1>2 DEF rt_ringbuffer_status
    <2> QED BY <2>1 DEF rt_ringbuffer_data_len
  <1> HIDE DEF r
  <1>5. PICK e : e = << >>
    OBVIOUS
  <1>6. e \in Seq(Byte) /\ Len(e) = 0
    BY <1>5
  <1>7. \A j \in 1 .. Len(e) : e[j] = r.buffer[Wrap(r.read_index + (j - 1))]
    BY <1>6
  <1>8. RingHas(r, e)
    BY <1>2, <1>3, <1>4, <1>6, <1>7, HasBytes
  <1> QED BY <1>5, <1>8 DEF r

\* The bytes that a user puts.
LEMMA FreshBytes ==
    ASSUME last \in Nat, NEW n \in Nat
    PROVE  Fresh(n) \in Seq(Byte) /\ Len(Fresh(n)) = n
  <1>1. Bytes \in Nat \ {0}
    BY RingSize
  <1>2. ASSUME NEW i \in 1 .. n PROVE (last + i) % Bytes \in Byte
    <2> DEFINE k == last + i
    <2>1. k \in Nat
      OBVIOUS
    <2> HIDE DEF k
    <2>2. k % Bytes \in 0 .. Bytes - 1
      BY <1>1, <2>1
    <2> QED BY <2>2 DEF k, Byte
  <1>3. Fresh(n) \in [1 .. n -> Byte]
    BY <1>2 DEF Fresh
  <1> QED BY <1>3, FunctionIsSeq

\* A number modulo Bytes is a byte.
LEMMA NextLast ==
    ASSUME NEW k \in Nat
    PROVE  k % Bytes \in Nat /\ k % Bytes \in Byte
  <1>1. k % Bytes \in 0 .. Bytes - 1
    BY RingSize
  <1> QED BY <1>1 DEF Byte

\* What there is room for.
LEMMA AcceptedBytes ==
    ASSUME NEW r, NEW q, RingHas(r, q), NEW s \in Seq(Byte)
    PROVE  /\ Accepted(r, s) \in Seq(Byte) /\ Len(Accepted(r, s)) <= rt_ringbuffer_space_len(r)
           /\ Len(Accepted(r, s)) = IF Len(s) <= BufferSize - Len(q) THEN Len(s)
                                                                  ELSE BufferSize - Len(q)
  <1> DEFINE n == Len(s)
             k == rt_ringbuffer_space_len(r)
             m == Min({n, k})
  <1>1. n \in Nat /\ Len(q) \in 0 .. BufferSize /\ k = BufferSize - Len(q) /\ BufferSize \in Nat
    BY HasLength, RingSize, ListIndices
  <1>2. Accepted(r, s) = SubSeq(s, 1, m)
    BY DEF Accepted
  <1>3. n \in Int /\ k \in Int
    BY <1>1
  <1> HIDE DEF n, k
  <1>4. m = IF n <= k THEN n ELSE k
    BY <1>3, MinOfTwo
  <1> HIDE DEF m
  <1>5. m \in 0 .. n
    BY <1>1, <1>4
  <1>6. SubSeq(s, 1, m) \in Seq(Byte) /\ Len(SubSeq(s, 1, m)) = m
    BY <1>5 DEF n
  <1> QED BY <1>1, <1>2, <1>4, <1>6 DEF n, k

\* rt_ringbuffer_put.
LEMMA RingPutInv ==
    ASSUME RingInv, NEW s \in Seq(Byte), RingPut(s)
    PROVE  /\ RingInv'
           /\ stream' \in Seq(Byte)
           /\ Len(stream') = Len(stream) + Len(Accepted(rb, s))
           /\ Len(Accepted(rb, s)) = IF Len(s) <= BufferSize - Len(stream) THEN Len(s)
                                                             ELSE BufferSize - Len(stream)
  <1> DEFINE a == Accepted(rb, s)
  <1>1. RingHas(rb, stream) /\ last \in Nat
    BY DEF RingInv
  <1>2. /\ a \in Seq(Byte) /\ Len(a) <= rt_ringbuffer_space_len(rb)
        /\ Len(a) = IF Len(s) <= BufferSize - Len(stream) THEN Len(s) ELSE BufferSize - Len(stream)
    BY <1>1, AcceptedBytes
  <1>3. rb' = Written(rb, a) /\ stream' = stream \o a /\ last' = (last + Len(a)) % Bytes
    BY DEF RingPut, rt_ringbuffer_put
  <1> HIDE DEF a
  <1>4. RingHas(Written(rb, a), stream \o a)
    BY <1>1, <1>2, WrittenFits
  <1>5. RingHas(rb, stream)'
    BY <1>3, <1>4 DEF RingHas, RingType, Sides, RingSeq
  <1>6. last' \in Nat
    <2> DEFINE k == last + Len(a)
    <2>1. k \in Nat
      BY <1>1, <1>2
    <2> HIDE DEF k
    <2> QED BY <1>3, <2>1, NextLast DEF k
  <1>7. stream \in Seq(Byte)
    BY <1>1, HasLength
  <1>8. stream' \in Seq(Byte) /\ Len(stream') = Len(stream) + Len(a)
    <2>1. stream \o a \in Seq(Byte) /\ Len(stream \o a) = Len(stream) + Len(a)
      BY <1>2, <1>7, Joined
    <2> QED BY <1>3, <2>1
  <1>9. RingInv'
    BY <1>5, <1>6 DEF RingInv
  <1> QED BY <1>2, <1>8, <1>9 DEF a

\* rt_ringbuffer_get.
LEMMA RingGetInv ==
    ASSUME RingInv, NEW n \in Nat, RingGet(n)
    PROVE  /\ RingInv'
           /\ Got(rb, n) = IF n <= Len(stream) THEN n ELSE Len(stream)
           /\ stream' \in Seq(Byte) /\ Len(stream') = Len(stream) - Got(rb, n)
  <1> DEFINE m == Got(rb, n)
             x == rb.read_index
  <1>1. RingHas(rb, stream) /\ last \in Nat
    BY DEF RingInv
  <1>2. /\ RingType(rb) /\ stream \in Seq(Byte) /\ Len(stream) \in 0 .. BufferSize
        /\ rt_ringbuffer_data_len(rb) = Len(stream) /\ BufferSize \in Nat \ {0}
        /\ x \in 0 .. BufferSize - 1 /\ Place = 0 .. BufferSize - 1
    BY <1>1, HasLength, RingSize DEF RingType
  <1>3. m = IF n <= Len(stream) THEN n ELSE Len(stream)
    <2> DEFINE k == Len(stream)
    <2>1. k \in Int /\ n \in Int /\ m = Min({n, k})
      BY <1>2 DEF Got
    <2> HIDE DEF k, m
    <2> QED BY <2>1, MinOfTwo DEF k
  <1>4. /\ rb' = rt_ringbuffer_get(rb, n) /\ stream' = SubSeq(stream, m + 1, Len(stream))
        /\ last' = last
    BY DEF RingGet
  <1> DEFINE x2 == IF Flips(x, m) THEN m - (BufferSize - x) ELSE x + m
             m2 == IF Flips(x, m) THEN ~rb.read_mirror ELSE rb.read_mirror
  <1>5. rb' = [rb EXCEPT !.read_index = x2, !.read_mirror = m2]
    BY <1>4 DEF rt_ringbuffer_get
  <1> HIDE DEF m
  <1>6. m \in 0 .. Len(stream)
    BY <1>2, <1>3
  <1>7. (Flips(x, m) <=> x + m >= BufferSize) /\ m \in 0 .. BufferSize
    BY <1>2, <1>6 DEF Flips
  <1>8. x2 = Wrap(x + m) /\ x2 \in Place
    BY <1>2, <1>7 DEF Wrap
  <1>9. m2 \in BOOLEAN /\ (x + m < BufferSize => m2 = rb.read_mirror)
        /\ (x + m >= BufferSize => m2 = ~rb.read_mirror)
    BY SMTT(30), <1>2, <1>7 DEF RingType
  <1> HIDE DEF x2, m2
  <1>10. PICK v : v = [rb EXCEPT !.read_index = x2, !.read_mirror = m2]
    OBVIOUS
  <1>11. /\ v.buffer = rb.buffer /\ v.write_index = rb.write_index
         /\ v.write_mirror = rb.write_mirror /\ v.read_index = x2 /\ v.read_mirror = m2
    BY <1>2, <1>10 DEF RingType
  <1>12. RingType(v)
    BY <1>2, <1>8, <1>9, <1>10 DEF RingType
  <1>13. RingHas(v, SubSeq(stream, m + 1, Len(stream)))
    BY <1>1, <1>6, <1>8, <1>9, <1>11, <1>12, TakenBytes
  <1>14. RingHas(rb, stream)'
    BY <1>4, <1>5, <1>10, <1>13 DEF RingHas, RingType, Sides, RingSeq
  <1>15. stream' \in Seq(Byte) /\ Len(stream') = Len(stream) - m
    BY <1>2, <1>4, <1>6
  <1> QED BY <1>1, <1>3, <1>4, <1>14, <1>15 DEF RingInv, m

\* rt_ringbuffer_create.
LEMMA RingCreateInv ==
    ASSUME RingCreate
    PROVE  RingInv' /\ stream' = << >>
  <1>1. [i \in Place |-> 0] \in [Place -> Byte]
    BY RingSize DEF Byte
  <1>2. RingHas(NewRing, << >>)
    BY <1>1, EmptyHas DEF NewRing
  <1>3. RingHas(rb, stream)' /\ last' = 0 /\ stream' = << >>
    BY <1>2 DEF RingCreate, RingHas, RingType, Sides, RingSeq
  <1> QED BY <1>3 DEF RingInv

\* rt_ringbuffer_init.
LEMMA RingInitInv ==
    ASSUME RingInit
    PROVE  RingInv
  <1>1. [i \in Place |-> 0] \in [Place -> Byte]
    BY RingSize DEF Byte
  <1>2. RingHas(NewRing, << >>)
    BY <1>1, EmptyHas DEF NewRing
  <1> QED BY <1>2 DEF RingInit, RingInv

\* rt_ringbuffer_reset.
LEMMA RingResetInv ==
    ASSUME RingInv, RingReset
    PROVE  RingInv'
  <1>1. rb.buffer \in [Place -> Byte]
    BY DEF RingInv, RingHas, RingType
  <1>2. RingHas(EmptyRing(rb.buffer), << >>)
    BY <1>1, EmptyHas
  <1>3. RingHas(rb, stream)' /\ last' = 0
    BY <1>2 DEF RingReset, RingHas, RingType, Sides, RingSeq
  <1> QED BY <1>3 DEF RingInv

\* The newest bytes of a sequence that is no longer than the buffer, and of one that
\* has one more.
LEMMA NewestAll ==
    ASSUME NEW s \in Seq(Byte), Len(s) <= BufferSize
    PROVE  Newest(s) = s
  <1> DEFINE n == Len(s)
             b == n - BufferSize + 1
  <1>1. n \in Nat /\ BufferSize \in Nat \ {0}
    BY RingSize, ListIndices
  <1>2. b \in Int /\ b <= 1
    BY <1>1
  <1>3. Newest(s) = SubSeq(s, Max({1, b}), Len(s))
    BY DEF Newest
  <1> HIDE DEF b
  <1>4. Max({1, b}) = 1
    <2>1. PICK a \in Int : a = 1
      OBVIOUS
    <2>2. Max({a, b}) = IF a <= b THEN b ELSE a
      BY <1>2, MinOfTwo
    <2> QED BY <1>2, <2>1, <2>2
  <1>5. SubSeq(s, 1, Len(s)) = s
    OBVIOUS
  <1> QED BY <1>3, <1>4, <1>5

\* A byte after a full buffer leaves all of it but the oldest.
LEMMA NewestButOne ==
    ASSUME NEW q \in Seq(Byte), NEW ch \in Byte, Len(q) = BufferSize
    PROVE  Newest(Append(q, ch)) = Append(Tail(q), ch)
  <1>1. BufferSize \in Nat \ {0} /\ q # << >>
    BY RingSize
  <1>0. PICK s : s = Append(q, ch)
    OBVIOUS
  <1> DEFINE b == Len(s) - BufferSize + 1
  <1>2. s \in Seq(Byte) /\ Len(s) = BufferSize + 1
    BY <1>0, <1>1
  <1>3. b = 2
    BY <1>1, <1>2
  <1>4. Newest(s) = SubSeq(s, Max({1, b}), Len(s))
    BY DEF Newest
  <1> HIDE DEF b
  <1>5. Max({1, b}) = 2
    <2>1. PICK a \in Int : a = 1
      OBVIOUS
    <2>2. b \in Int
      BY <1>3
    <2>3. Max({a, b}) = IF a <= b THEN b ELSE a
      BY <2>2, MinOfTwo
    <2> QED BY <1>3, <2>1, <2>3
  <1>6. SubSeq(s, 2, Len(s)) = Tail(s) /\ s # << >>
    BY <1>1, <1>2
  <1>7. Tail(s) = Append(Tail(q), ch)
    BY <1>0, <1>1, <1>2
  <1> QED BY <1>0, <1>4, <1>5, <1>6, <1>7

\* A byte that is put into a ring which is not full.
LEMMA OneMore ==
    ASSUME NEW r, NEW q, RingHas(r, q), NEW ch \in Byte, Len(q) < BufferSize
    PROVE  RingHas(Written(r, <<ch>>), Append(q, ch)) /\ Newest(Append(q, ch)) = Append(q, ch)
  <1>1. PICK s : s = <<ch>>
    OBVIOUS
  <1>2. s \in Seq(Byte) /\ Len(s) = 1
    BY <1>1
  <1>3. q \in Seq(Byte) /\ BufferSize \in Nat /\ rt_ringbuffer_space_len(r) = BufferSize - Len(q)
        /\ Len(q) \in Nat
    BY HasLength, RingSize, ListIndices
  <1>4. RingHas(Written(r, s), q \o s)
    <2>1. Len(s) <= rt_ringbuffer_space_len(r)
      BY <1>2, <1>3
    <2> QED BY <1>2, <2>1, WrittenFits
  <1>5. q \o <<ch>> = Append(q, ch)
    BY <1>3
  <1>6. Append(q, ch) \in Seq(Byte) /\ Len(Append(q, ch)) = Len(q) + 1
    BY <1>3
  <1>7. Len(Append(q, ch)) <= BufferSize
    BY <1>3, <1>6
  <1> QED BY <1>1, <1>4, <1>5, <1>6, <1>7, NewestAll

\* The reader of a full ring goes where the writer has gone.
LEMMA OneOver ==
    ASSUME NEW r, NEW q, RingHas(r, q), NEW ch \in Byte, Len(q) = BufferSize, NEW m2,
           m2 = IF Flips(r.write_index, 1) THEN ~r.read_mirror ELSE r.read_mirror
    PROVE  RingHas([Written(r, <<ch>>) EXCEPT !.read_index = Written(r, <<ch>>).write_index,
                                              !.read_mirror = m2],
                   Newest(Append(q, ch)))
  <1>1. PICK w : w = Written(r, <<ch>>)
    OBVIOUS
  <1>2. PICK v : v = [w EXCEPT !.read_index = w.write_index, !.read_mirror = m2]
    OBVIOUS
  <1>3. RingType(r) /\ q \in Seq(Byte) /\ BufferSize \in Nat \ {0}
    BY HasLength, RingSize
  <1>4. RingType(w)
    <2>1. PICK s : s = <<ch>>
      OBVIOUS
    <2>2. s \in Seq(Byte) /\ Len(s) <= BufferSize
      BY <1>3, <2>1
    <2>3. WriteEffect(r, s, Written(r, s))
      BY <1>3, <2>2, WrittenFields
    <2> QED BY <1>1, <2>1, <2>3 DEF WriteEffect
  <1>5. m2 \in BOOLEAN /\ w.write_index \in Place
    BY <1>3, <1>4 DEF RingType
  <1>6. /\ v.buffer = w.buffer /\ v.write_index = w.write_index /\ v.write_mirror = w.write_mirror
        /\ v.read_index = w.write_index /\ v.read_mirror = m2
    BY <1>2, <1>4 DEF RingType
  <1>7. RingType(v)
    <2> DEFINE z == w.write_index
    <2>1. z \in Place /\ v = [w EXCEPT !.read_index = z, !.read_mirror = m2]
      BY <1>2, <1>5
    <2> HIDE DEF z
    <2> QED BY <1>4, <1>5, <2>1 DEF RingType
  <1>8. RingHas(v, Append(Tail(q), ch))
    BY <1>1, <1>6, <1>7, WrittenOver
  <1>9. Newest(Append(q, ch)) = Append(Tail(q), ch)
    BY <1>3, NewestButOne
  <1> QED BY <1>1, <1>2, <1>8, <1>9

\* The byte that follows the bytes put so far.
LEMMA NextByte ==
    ASSUME last \in Nat
    PROVE  Fresh(1)[1] \in Byte /\ Fresh(1) = <<Fresh(1)[1]>>
  <1>1. Fresh(1) \in Seq(Byte) /\ Len(Fresh(1)) = 1
    BY FreshBytes
  <1> QED BY <1>1

\* rt_ringbuffer_putchar and rt_ringbuffer_putchar_force.
LEMMA RingPutcharInv ==
    ASSUME RingInv, NEW force \in BOOLEAN, RingPutchar(force)
    PROVE  RingInv'
  <1>1. PICK ch : ch = Fresh(1)[1]
    OBVIOUS
  <1>2. RingHas(rb, stream) /\ last \in Nat /\ ch \in Byte /\ ch \in Nat
    <2>1. RingHas(rb, stream) /\ last \in Nat
      BY DEF RingInv
    <2> QED BY <1>1, <2>1, NextByte, RingSize DEF Byte
  <1>3. /\ rb' = IF force THEN rt_ringbuffer_putchar_force(rb, ch) ELSE rt_ringbuffer_putchar(rb, ch)
        /\ IF force \/ rt_ringbuffer_space_len(rb) > 0
           THEN stream' = Newest(Append(stream, ch)) /\ last' = ch
           ELSE UNCHANGED <<stream, last>>
    BY <1>1 DEF RingPutchar
  <1>4. /\ rt_ringbuffer_space_len(rb) = BufferSize - Len(stream) /\ Len(stream) \in 0 .. BufferSize
        /\ rt_ringbuffer_status(rb) = "FULL" <=> Len(stream) = BufferSize
        /\ BufferSize \in Nat \ {0} /\ RingType(rb)
    BY <1>2, HasLength, RingSize
  <1>5. CASE Len(stream) < BufferSize
    <2>1. rt_ringbuffer_space_len(rb) > 0 /\ rt_ringbuffer_space_len(rb) # 0
          /\ rt_ringbuffer_status(rb) # "FULL"
      BY <1>4, <1>5
    <2>2. rb' = Written(rb, <<ch>>) /\ stream' = Newest(Append(stream, ch)) /\ last' = ch
      BY <1>3, <2>1 DEF rt_ringbuffer_putchar_force, rt_ringbuffer_putchar
    <2>3. RingHas(rb', stream')
      BY <1>2, <1>5, <2>2, OneMore
    <2> QED BY <1>2, <2>2, <2>3 DEF RingInv, RingHas, RingType, Sides, RingSeq
  <1>6. CASE Len(stream) = BufferSize
    <2>1. rt_ringbuffer_space_len(rb) = 0 /\ ~(rt_ringbuffer_space_len(rb) > 0)
          /\ rt_ringbuffer_status(rb) = "FULL"
      BY <1>4, <1>6
    <2>2. CASE ~force
      <3>1. rb' = rb /\ stream' = stream /\ last' = last
        BY <1>3, <2>1, <2>2 DEF rt_ringbuffer_putchar
      <3> QED BY <1>2, <3>1 DEF RingInv, RingHas, RingType, Sides, RingSeq
    <2>3. CASE force
      <3> DEFINE m2 == IF Flips(rb.write_index, 1) THEN ~rb.read_mirror ELSE rb.read_mirror
      <3>1. stream' = Newest(Append(stream, ch)) /\ last' = ch
            /\ rb' = rt_ringbuffer_putchar_force(rb, ch)
        BY <1>3, <2>3
      <3>2. Flips(rb.write_index, 1) <=> rb.write_index = BufferSize - 1
        <4>1. rb.write_index \in 0 .. BufferSize - 1
          BY <1>4, RingSize DEF RingType
        <4> QED BY <1>4, <4>1 DEF Flips
      <3>3. PICK w : w = Written(rb, <<ch>>)
        OBVIOUS
      <3>4. rb' = [w EXCEPT !.read_index = w.write_index,
                            !.read_mirror = IF rb.write_index = BufferSize - 1 THEN ~@ ELSE @]
        BY <2>1, <3>1, <3>3 DEF rt_ringbuffer_putchar_force
      <3>5. w.read_mirror = rb.read_mirror /\ RingType(w)
        <4>1. PICK s : s = <<ch>>
          OBVIOUS
        <4>2. s \in Seq(Byte) /\ Len(s) <= BufferSize
          BY <1>2, <1>4, <4>1
        <4>3. WriteEffect(rb, s, Written(rb, s))
          BY <1>4, <4>2, WrittenFields
        <4> QED BY <3>3, <4>1, <4>3 DEF WriteEffect
      <3>6. rb' = [w EXCEPT !.read_index = w.write_index, !.read_mirror = m2]
        BY <3>2, <3>4, <3>5
      <3>7. RingHas([w EXCEPT !.read_index = w.write_index, !.read_mirror = m2],
                    Newest(Append(stream, ch)))
        BY <1>2, <1>6, <3>3, OneOver
      <3> HIDE DEF m2
      <3>8. RingHas(rb', stream')
        BY <3>1, <3>6, <3>7
      <3> QED BY <1>2, <3>1, <3>8 DEF RingInv, RingHas, RingType, Sides, RingSeq
    <2> QED BY <2>2, <2>3
  <1> QED BY <1>4, <1>5, <1>6

\* rt_ringbuffer_put_force of one byte; of none it puts none.
LEMMA RingPutForceInv ==
    ASSUME RingInv, NEW n \in {0, 1}, RingPutForce(Fresh(n))
    PROVE  RingInv'
  <1>1. RingHas(rb, stream) /\ last \in Nat /\ n \in Nat
    BY DEF RingInv
  <1>2. /\ rt_ringbuffer_space_len(rb) = BufferSize - Len(stream) /\ Len(stream) \in 0 .. BufferSize
        /\ BufferSize \in Nat \ {0} /\ RingType(rb) /\ stream \in Seq(Byte)
    BY <1>1, HasLength, RingSize
  <1>3. PICK s : s = Fresh(n)
    OBVIOUS
  <1>4. s \in Seq(Byte) /\ Len(s) = n
    BY <1>1, <1>3, FreshBytes
  <1>5. Newest(s) = s
    BY <1>2, <1>4, NewestAll
  <1>6. PICK w : w = Written(rb, s)
    OBVIOUS
  <1>7. /\ rb' = IF n > rt_ringbuffer_space_len(rb)
                 THEN [w EXCEPT !.read_index = w.write_index,
                                !.read_mirror = IF Flips(rb.write_index, n) THEN ~@ ELSE @]
                 ELSE w
        /\ stream' = Newest(stream \o s) /\ last' = (last + n) % Bytes
    BY <1>3, <1>4, <1>5, <1>6 DEF RingPutForce, rt_ringbuffer_put_force
  <1>8. last' \in Nat
    BY <1>1, <1>7, NextLast
  <1>9. CASE n <= rt_ringbuffer_space_len(rb)
    <2>1. ~(n > rt_ringbuffer_space_len(rb)) /\ Len(stream) + n <= BufferSize
      BY <1>1, <1>2, <1>9
    <2>2. stream \o s \in Seq(Byte) /\ Len(stream \o s) = Len(stream) + n
      BY <1>2, <1>4, Joined
    <2>3. Newest(stream \o s) = stream \o s
      BY <2>1, <2>2, NewestAll
    <2>4. RingHas(w, stream \o s)
      BY <1>1, <1>4, <1>6, <1>9, WrittenFits
    <2>5. RingHas(rb', stream')
      BY <1>7, <2>1, <2>3, <2>4
    <2> QED BY <1>8, <2>5 DEF RingInv, RingHas, RingType, Sides, RingSeq
  <1>10. CASE n > rt_ringbuffer_space_len(rb)
    <2>1. n = 1 /\ Len(stream) = BufferSize
      BY <1>1, <1>2, <1>10
    <2>2. PICK ch \in Byte : s = <<ch>>
      <3>1. s[1] \in Byte /\ s = <<s[1]>>
        BY <1>4, <2>1
      <3> QED BY <3>1
    <2> DEFINE m2 == IF Flips(rb.write_index, 1) THEN ~rb.read_mirror ELSE rb.read_mirror
    <2>3. w.read_mirror = rb.read_mirror /\ RingType(w)
      <3>1. Len(s) <= BufferSize
        BY <1>2, <1>4, <2>1
      <3>2. WriteEffect(rb, s, Written(rb, s))
        BY <1>2, <1>4, <3>1, WrittenFields
      <3> QED BY <1>6, <3>2 DEF WriteEffect
    <2>4. rb' = [w EXCEPT !.read_index = w.write_index, !.read_mirror = m2]
      BY <1>7, <1>10, <2>1, <2>3
    <2>5. RingHas([w EXCEPT !.read_index = w.write_index, !.read_mirror = m2],
                  Newest(Append(stream, ch)))
      BY <1>1, <1>6, <2>1, <2>2, OneOver
    <2>6. stream \o <<ch>> = Append(stream, ch)
      BY <1>2
    <2> HIDE DEF m2
    <2>7. RingHas(rb', stream')
      BY <1>7, <2>2, <2>4, <2>5, <2>6
    <2> QED BY <1>8, <2>7 DEF RingInv, RingHas, RingType, Sides, RingSeq
  <1>11. n <= rt_ringbuffer_space_len(rb) \/ n > rt_ringbuffer_space_len(rb)
    BY <1>1, <1>2
  <1> QED BY <1>9, <1>10, <1>11

\* rt_ringbuffer_put_force is called for at most one byte.
OneByteForced == \A t \in Thread : Call[t].ring_force \subseteq {0, 1}

\* The operations of a ring buffer's user.
LEMMA RingStepInv == ASSUME RingInv, OneByteForced, RingNext PROVE RingInv'
  <1>1. last \in Nat
    BY DEF RingInv
  <1>2. ASSUME NEW t \in Thread, NEW n \in Call[t].ring_put, RingPut(Fresh(n)) PROVE RingInv'
    <2>1. n \in Nat
      BY CallAssumption
    <2>2. PICK s : s = Fresh(n)
      OBVIOUS
    <2>3. s \in Seq(Byte) /\ RingPut(s)
      BY <1>1, <1>2, <2>1, <2>2, FreshBytes
    <2> QED BY <2>3, RingPutInv
  <1>3. ASSUME NEW t \in Thread, NEW n \in Call[t].ring_force, RingPutForce(Fresh(n))
        PROVE  RingInv'
    BY <1>3, RingPutForceInv DEF OneByteForced
  <1>4. ASSUME NEW t \in Thread, NEW n \in Call[t].ring_get, RingGet(n) PROVE RingInv'
    <2>1. n \in Nat
      BY CallAssumption
    <2> QED BY <1>4, <2>1, RingGetInv
  <1> QED BY <1>2, <1>3, <1>4, RingPutcharInv, RingResetInv DEF RingNext

\* The buffer, as long as nobody touches it.
LEMMA RingSame == ASSUME RingInv, UNCHANGED ringvars PROVE RingInv'
  BY DEF RingInv, RingHas, RingType, Sides, RingSeq, ringvars

\* The invariant of the ring buffer says that it has the bytes put and not taken.
LEMMA RingInvMeans == ASSUME RingInv PROVE RingExact
  BY DEF RingInv, RingHas, RingSeq, RingExact

-----------------------------------------------------------------------------
(* The pipe.                                                               *)

\* The threads that have opened it for reading or writing, and at all.
Opened(m) == {t \in Thread : m \in fd[t]}
Users == {t \in Thread : fd[t] # {}}

IoRecord == [op : {"none", "read", "write"}, left : Nat, nonblock : BOOLEAN, wakeup : BOOLEAN]

\* The counts are those of the threads that have opened the pipe.
PipeOK ==
    /\ waiting_list \in [Queue -> Seq(Thread)] /\ wq_flag \subseteq Queue
    /\ fd \in [Thread -> SUBSET {"read", "write"}]
    /\ io \in [Thread -> IoRecord]
    /\ readers = Cardinality(Opened("read")) /\ writers = Cardinality(Opened("write"))
    /\ ref_count = Cardinality(Users)
    /\ RingInv

\* A thread in no call.
LEMMA NoIoType == NoIo \in IoRecord
  BY DEF NoIo, IoRecord

\* The invariant gives the types.
LEMMA PipeOKMeans == ASSUME PipeOK PROVE PipeTypeOK
  <1>1. ASSUME NEW S \in SUBSET Thread PROVE Cardinality(S) \in 0 .. Cardinality(Thread)
    BY IpcAssumption, FS_Subset, FS_CardinalityType
  <1>2. Opened("read") \in SUBSET Thread /\ Opened("write") \in SUBSET Thread /\ Users \in SUBSET Thread
    BY DEF Opened, Users
  <1>3. {readers, writers, ref_count} \subseteq 0 .. Cardinality(Thread)
    BY <1>1, <1>2 DEF PipeOK
  <1>4. \A t \in Thread : io[t].op \in {"none", "read", "write"} /\ io[t].left \in Nat
    BY DEF PipeOK, IoRecord
  <1> QED BY <1>3, <1>4 DEF PipeOK, PipeTypeOK

\* The counts after an open, and after a close.
LEMMA CountOpened ==
    ASSUME NEW S \in SUBSET Thread, NEW t \in Thread, t \notin S, NEW mode, NEW m
    PROVE  Counts(Cardinality(S), mode, m) = Cardinality(IF m \in mode THEN S \cup {t} ELSE S)
  <1>1. IsFiniteSet(S) /\ Cardinality(S) \in Nat
    BY IpcAssumption, FS_Subset, FS_CardinalityType
  <1>2. Cardinality(S \cup {t}) = Cardinality(S) + 1
    BY <1>1, FS_AddElement
  <1> QED BY <1>1, <1>2 DEF Counts

\* One thread fewer has the pipe open.
LEMMA CountClosed ==
    ASSUME NEW S \in SUBSET Thread, NEW t \in Thread, NEW mode, NEW m, m \in mode <=> t \in S
    PROVE  Cardinality(S) - Counts(0, mode, m) = Cardinality(S \ {t})
  <1>1. IsFiniteSet(S) /\ Cardinality(S) \in Nat
    BY IpcAssumption, FS_Subset, FS_CardinalityType
  <1>2. Cardinality(S \ {t}) = IF t \in S THEN Cardinality(S) - 1 ELSE Cardinality(S)
    BY <1>1, FS_RemoveElement
  <1> QED BY <1>1, <1>2 DEF Counts

\* The lists after a wake-up.
LEMMA WokenLists ==
    ASSUME PipeOK, NEW Q \in SUBSET Queue, rt_wqueue_wakeup(Q)
    PROVE  waiting_list' \in [Queue -> Seq(Thread)] /\ wq_flag' \subseteq Queue
  <1>1. \A q \in Queue : waiting_list[q] # << >> => Tail(waiting_list[q]) \in Seq(Thread)
    BY DEF PipeOK
  <1> QED BY <1>1 DEF rt_wqueue_wakeup, PipeOK

\* pipe_fops_open keeps the types.
LEMMA OpenOK ==
    ASSUME PipeOK, NEW t \in Thread, NEW mode \in SUBSET {"read", "write"}, mode # {},
           pipe_fops_open(t, mode)
    PROVE  PipeOK'
  <1>1. RingInv'
    <2>1. CASE ref_count = 0
      BY <2>1, RingCreateInv DEF pipe_fops_open
    <2>2. CASE ref_count # 0
      BY <2>2, RingSame DEF pipe_fops_open, PipeOK
    <2> QED BY <2>1, <2>2
  <1>2. /\ fd[t] = {} /\ fd' = [fd EXCEPT ![t] = mode] /\ fd' \in [Thread -> SUBSET {"read", "write"}]
        /\ readers' = Counts(readers, mode, "read") /\ writers' = Counts(writers, mode, "write")
        /\ ref_count' = ref_count + 1
        /\ waiting_list' = waiting_list /\ wq_flag' = wq_flag /\ io' = io
    BY DEF pipe_fops_open, PipeOK
  <1>3. ASSUME NEW m \in {"read", "write"}
        PROVE  Opened(m)' = (IF m \in mode THEN Opened(m) \cup {t} ELSE Opened(m)) /\ t \notin Opened(m)
    BY <1>2 DEF Opened, PipeOK
  <1>4. Users' = Users \cup {t} /\ t \notin Users
    BY <1>2 DEF Users, PipeOK
  <1>5. ref_count' = Cardinality(Users')
    <2>1. IsFiniteSet(Users)
      BY IpcAssumption, FS_Subset DEF Users
    <2> QED BY <1>2, <1>4, <2>1, FS_AddElement DEF PipeOK
  <1>6. readers' = Cardinality(Opened("read")') /\ writers' = Cardinality(Opened("write")')
    <2>1. ASSUME NEW m \in {"read", "write"}
          PROVE  Counts(Cardinality(Opened(m)), mode, m) = Cardinality(Opened(m)')
      <3>1. PICK S \in SUBSET Thread : S = Opened(m)
        BY DEF Opened
      <3>2. t \notin S /\ Opened(m)' = IF m \in mode THEN S \cup {t} ELSE S
        BY <1>3, <3>1
      <3>3. Counts(Cardinality(S), mode, m) = Cardinality(IF m \in mode THEN S \cup {t} ELSE S)
        BY <3>2, CountOpened
      <3> QED BY <3>1, <3>2, <3>3
    <2> QED BY <1>2, <2>1 DEF PipeOK
  <1> QED BY <1>1, <1>2, <1>5, <1>6 DEF PipeOK

\* pipe_fops_close keeps the types.
LEMMA CloseOK ==
    ASSUME PipeOK, NEW t \in Thread, pipe_fops_close(t)
    PROVE  PipeOK'
  <1>1. RingInv'
    BY RingSame DEF pipe_fops_close, PipeOK
  <1> DEFINE Q == {q \in Queue : (q = "reader" /\ writers' = 0) \/ (q = "writer" /\ readers' = 0)}
  <1>2. /\ fd[t] # {} /\ fd' = [fd EXCEPT ![t] = {}] /\ fd' \in [Thread -> SUBSET {"read", "write"}]
        /\ readers' = readers - Counts(0, fd[t], "read")
        /\ writers' = writers - Counts(0, fd[t], "write")
        /\ ref_count' = ref_count - 1
        /\ rt_wqueue_wakeup(Q) /\ io' = io
    BY DEF pipe_fops_close, PipeOK
  <1>3. ASSUME NEW m \in {"read", "write"}
        PROVE  Opened(m)' = Opened(m) \ {t} /\ (m \in fd[t] <=> t \in Opened(m))
    BY <1>2 DEF Opened, PipeOK
  <1>4. Users' = Users \ {t} /\ t \in Users
    BY <1>2 DEF Users, PipeOK
  <1>5. ref_count' = Cardinality(Users')
    <2>1. IsFiniteSet(Users)
      BY IpcAssumption, FS_Subset DEF Users
    <2> QED BY <1>2, <1>4, <2>1, FS_RemoveElement DEF PipeOK
  <1>6. readers' = Cardinality(Opened("read")') /\ writers' = Cardinality(Opened("write")')
    <2>1. ASSUME NEW m \in {"read", "write"}
          PROVE  Cardinality(Opened(m)) - Counts(0, fd[t], m) = Cardinality(Opened(m)')
      <3>1. Opened(m) \in SUBSET Thread
        BY DEF Opened
      <3> QED BY <1>3, <3>1, CountClosed
    <2> QED BY <1>2, <2>1 DEF PipeOK
  <1>7. waiting_list' \in [Queue -> Seq(Thread)] /\ wq_flag' \subseteq Queue
    <2>1. Q \in SUBSET Queue
      OBVIOUS
    <2> HIDE DEF Q
    <2> QED BY <1>2, <2>1, WokenLists
  <1> HIDE DEF Q
  <1> QED BY <1>1, <1>2, <1>5, <1>6, <1>7 DEF PipeOK

\* How to show PipeOK after a step of a thread in a call.
LEMMA CallOK ==
    ASSUME PipeOK, UNCHANGED <<readers, writers, ref_count, fd>>, RingInv', io' \in [Thread -> IoRecord],
           waiting_list' \in [Queue -> Seq(Thread)], wq_flag' \subseteq Queue
    PROVE  PipeOK'
  BY DEF PipeOK, Opened, Users

\* A call of read or write keeps the types.
LEMMA PipeCallOK ==
    ASSUME PipeOK, NEW t \in Thread, NEW op \in {"read", "write"}, NEW count \in Nat,
           NEW nonblock \in BOOLEAN, PipeCall(t, op, count, nonblock)
    PROVE  PipeOK'
  <1> DEFINE call == [op |-> op, left |-> count, nonblock |-> nonblock, wakeup |-> FALSE]
  <1>1. call \in IoRecord
    BY DEF IoRecord
  <1>2. io' = [io EXCEPT ![t] = call]
    BY DEF PipeCall, Begins
  <1> HIDE DEF call
  <1>3. io' \in [Thread -> IoRecord]
    BY <1>1, <1>2 DEF PipeOK
  <1>4. /\ UNCHANGED <<readers, writers, ref_count, fd>> /\ UNCHANGED ringvars
        /\ waiting_list' = waiting_list /\ wq_flag' = wq_flag
    BY DEF PipeCall
  <1>5. RingInv'
    BY <1>4, RingSame DEF PipeOK
  <1>6. waiting_list' \in [Queue -> Seq(Thread)] /\ wq_flag' \subseteq Queue
    BY <1>4 DEF PipeOK
  <1> QED BY <1>3, <1>4, <1>5, <1>6, CallOK

\* What is left of a list is a list, whatever it was.
LEMMA RemoveFirstInSeq ==
    ASSUME NEW S, NEW s \in Seq(S), NEW x
    PROVE  RemoveFirst(s, x) \in Seq(S)
  <1>1. CASE \E i \in 1 .. Len(s) : s[i] = x
    <2> DEFINE I == {i \in 1 .. Len(s) : s[i] = x}
               k == Min(I)
    <2>1. I \subseteq Nat /\ I # {}
      BY <1>1
    <2>2. k \in I
      BY <2>1, LeastOfNat
    <2>3. RemoveFirst(s, x) = RemoveAt(s, k)
      BY <1>1 DEF RemoveFirst, SelectInSeq
    <2>4. k \in 1 .. Len(s)
      BY <2>2
    <2> HIDE DEF k
    <2> QED BY <2>3, <2>4, RemovedList
  <1>2. CASE ~\E i \in 1 .. Len(s) : s[i] = x
    BY <1>2 DEF RemoveFirst
  <1> QED BY <1>1, <1>2

\* A step in a call keeps the types.
LEMMA PipeStepOK ==
    ASSUME PipeOK, NEW t \in Thread, PipeStep(t)
    PROVE  PipeOK'
  <1>1. UNCHANGED <<readers, writers, ref_count, fd>>
    BY DEF PipeStep
  <1>2. /\ RingInv /\ io \in [Thread -> IoRecord] /\ waiting_list \in [Queue -> Seq(Thread)]
        /\ wq_flag \subseteq Queue /\ io[t].left \in Nat /\ last \in Nat /\ Own(t) \in Queue
        /\ Other(t) \in Queue
    BY DEF PipeOK, IoRecord, RingInv, Own, Other, Queue
  <1>3. UNCHANGED ringvars => RingInv'
    BY <1>2, RingSame
  <1>4. PipeReturns(t) => io' \in [Thread -> IoRecord]
    BY <1>2, NoIoType DEF PipeReturns
  <1>5. UNCHANGED <<waiting_list, wq_flag>> =>
          waiting_list' \in [Queue -> Seq(Thread)] /\ wq_flag' \subseteq Queue
    BY <1>2
  <1>6. CASE ReadRound(t)
    <2> DEFINE some == writers > 0 /\ Got(rb, io[t].left) > 0
    <2>1. /\ IF some THEN RingGet(io[t].left) ELSE UNCHANGED ringvars
          /\ IF some THEN rt_wqueue_wakeup({"writer"}) ELSE UNCHANGED <<stat, timer, waiting_list, wq_flag>>
          /\ PipeReturns(t) \/ PipeGoes(t, "wake")
      BY <1>6 DEF ReadRound
    <2>2. io' \in [Thread -> IoRecord]
      BY <1>2, <1>4, <2>1 DEF PipeGoes
    <2>3. RingInv'
      BY <1>2, <1>3, <2>1, RingGetInv
    <2>4. {"writer"} \in SUBSET Queue
      BY DEF Queue
    <2> HIDE DEF some
    <2>5. waiting_list' \in [Queue -> Seq(Thread)] /\ wq_flag' \subseteq Queue
      BY <1>5, <2>1, <2>4, WokenLists
    <2> QED BY <1>1, <2>2, <2>3, <2>5, CallOK
  <1>7. CASE WriteRound(t)
    <2>1. UNCHANGED <<waiting_list, wq_flag>>
      BY <1>7 DEF WriteRound
    <2>2. CASE readers = 0
      <3>1. UNCHANGED ringvars /\ (PipeGoes(t, "last wake") \/ PipeReturns(t))
        BY <1>7, <2>2 DEF WriteRound
      <3>2. io' \in [Thread -> IoRecord]
        BY <1>2, <1>4, <3>1 DEF PipeGoes
      <3> QED BY <1>1, <1>3, <1>5, <2>1, <3>1, <3>2, CallOK
    <2>3. CASE readers # 0
      <3>1. PICK s : s = Fresh(io[t].left)
        OBVIOUS
      <3>2. PICK left : left = io[t].left - Len(Accepted(rb, s))
        OBVIOUS
      <3>3. RingPut(s) /\ io' = [io EXCEPT ![t].left = left, ![t].wakeup = TRUE]
        BY <1>7, <2>3, <3>1, <3>2 DEF WriteRound
      <3>4. s \in Seq(Byte) /\ Len(s) = io[t].left
        BY <1>2, <3>1, FreshBytes
      <3>5. RingInv'
        BY <1>2, <3>3, <3>4, RingPutInv
      <3>6. left \in Nat
        <4>1. RingHas(rb, stream)
          BY <1>2 DEF RingInv
        <4>2. /\ Len(Accepted(rb, s)) = IF Len(s) <= BufferSize - Len(stream) THEN Len(s)
                                                             ELSE BufferSize - Len(stream)
              /\ Len(stream) \in 0 .. BufferSize /\ BufferSize \in Nat
          BY <3>4, <4>1, AcceptedBytes, HasLength, RingSize
        <4> QED BY <1>2, <3>2, <3>4, <4>2
      <3>7. io' \in [Thread -> IoRecord]
        BY <1>2, <3>3, <3>6 DEF IoRecord
      <3> QED BY <1>1, <1>5, <2>1, <3>5, <3>7, CallOK
    <2> QED BY <2>2, <2>3
  <1>8. CASE PipeWakes(t)
    <2>1. UNCHANGED ringvars /\ rt_wqueue_wakeup({Other(t)}) /\ (PipeReturns(t) \/ io' = io)
      BY <1>8 DEF PipeWakes, PipeGoes
    <2>2. {Other(t)} \in SUBSET Queue
      BY <1>2
    <2>3. waiting_list' \in [Queue -> Seq(Thread)] /\ wq_flag' \subseteq Queue
      BY <2>1, <2>2, WokenLists
    <2>4. io' \in [Thread -> IoRecord]
      BY <1>2, <1>4, <2>1
    <2> QED BY <1>1, <1>3, <2>1, <2>3, <2>4, CallOK
  <1>9. CASE PipeWaits(t)
    <2>1. UNCHANGED ringvars /\ io' = io /\ rt_wqueue_wait(t, Own(t))
      BY <1>9 DEF PipeWaits
    <2>2. waiting_list' \in [Queue -> Seq(Thread)] /\ wq_flag' \subseteq Queue
      <3>1. PICK q : q = Own(t)
        OBVIOUS
      <3>2. Append(waiting_list[q], t) \in Seq(Thread)
        BY <1>2, <3>1
      <3> QED BY <1>2, <2>1, <3>1, <3>2 DEF rt_wqueue_wait
    <2> QED BY <1>1, <1>2, <1>3, <2>1, <2>2, CallOK
  <1>10. CASE PipeBack(t)
    <2>1. /\ UNCHANGED ringvars /\ io' = io /\ wq_flag' \subseteq wq_flag
          /\ waiting_list' = [waiting_list EXCEPT ![Own(t)] = RemoveFirst(@, t)]
      BY <1>10 DEF PipeBack, PipeGoes
    <2>2. waiting_list' \in [Queue -> Seq(Thread)]
      <3>1. PICK q : q = Own(t)
        OBVIOUS
      <3>2. waiting_list[q] \in Seq(Thread)
        BY <1>2, <3>1
      <3>3. RemoveFirst(waiting_list[q], t) \in Seq(Thread)
        BY <3>2, RemoveFirstInSeq
      <3> QED BY <1>2, <2>1, <3>1, <3>3
    <2> QED BY <1>1, <1>2, <1>3, <2>1, <2>2, CallOK
  <1> QED BY <1>6, <1>7, <1>8, <1>9, <1>10 DEF PipeStep

\* One thread reads, another one writes, and none asks for no bytes.
Ends(r, w) ==
    /\ r \in Thread /\ w \in Thread /\ r # w
    /\ \A t \in Thread : Call[t].pipe_open \subseteq
          IF t = r THEN {{"read"}} ELSE IF t = w THEN {{"write"}} ELSE {}
    /\ \A t \in Thread : 0 \notin Call[t].pipe_count

\* Who waits in a queue.
EndOf(q, r, w) == IF q = "reader" THEN r ELSE w

\* Each end is open as its call needs it.
PipeEnds(r, w) ==
    /\ fd[r] \subseteq {"read"} /\ fd[w] \subseteq {"write"}
    /\ \A t \in Thread \ {r, w} : fd[t] = {}
    /\ \A t \in Thread : /\ pc[t] = "run" <=> io[t].op = "none"
                         /\ io[t].op # "none" => io[t].op \in fd[t]
    /\ io[r].op = "read" => io[r].left > 0

\* A thread in a queue sleeps, and nobody has a timer.
PipeLists(r, w) ==
    /\ timer = {}
    /\ \A q \in Queue : waiting_list[q] # << >> =>
          /\ waiting_list[q] = <<EndOf(q, r, w)>>
          /\ stat[EndOf(q, r, w)] = "SUSPEND" /\ pc[EndOf(q, r, w)] \in {"schedule", "off"}

\* The reader may sleep: there is nothing to read, or the writer will wake it up.
ReaderMay(w) == (stream = << >> /\ "write" \in fd[w]) \/ pc[w] \in {"wake", "last wake"}
WriterMay(r) == Len(stream) = BufferSize /\ "read" \in fd[r]

\* The wake-up of the time between the round and the wait is in the flag.
PipeAwake(r, w) ==
    /\ pc[r] \in {"wake", "wait"} => ReaderMay(w) \/ "reader" \in wq_flag
    /\ pc[w] \in {"wake", "wait"} => WriterMay(r) \/ "writer" \in wq_flag
    /\ waiting_list["reader"] # << >> => ReaderMay(w)
    /\ waiting_list["writer"] # << >> => WriterMay(r)

PipeInv(r, w) == PipeEnds(r, w) /\ PipeLists(r, w) /\ PipeAwake(r, w)

\* What the counts say of the ends.
LEMMA EndCounts ==
    ASSUME PipeOK, NEW r, NEW w, Ends(r, w), PipeEnds(r, w)
    PROVE  /\ readers \in Nat /\ writers \in Nat
           /\ (readers = 0 <=> fd[r] = {}) /\ (writers = 0 <=> fd[w] = {})
           /\ (ref_count = 0 <=> fd[r] = {} /\ fd[w] = {})
           /\ (fd[r] = {} <=> "read" \notin fd[r]) /\ (fd[w] = {} <=> "write" \notin fd[w])
  <1>0. /\ r \in Thread /\ w \in Thread /\ r # w /\ fd[r] \subseteq {"read"}
        /\ fd[w] \subseteq {"write"} /\ \A t \in Thread \ {r, w} : fd[t] = {}
    BY DEF Ends, PipeEnds
  <1>1. /\ Opened("read") = IF fd[r] = {} THEN {} ELSE {r}
        /\ Opened("write") = IF fd[w] = {} THEN {} ELSE {w}
        /\ (Users = {} <=> (fd[r] = {} /\ fd[w] = {}))
        /\ (fd[r] = {} <=> "read" \notin fd[r]) /\ (fd[w] = {} <=> "write" \notin fd[w])
    <2>1. (fd[r] = {} <=> "read" \notin fd[r]) /\ (fd[w] = {} <=> "write" \notin fd[w])
      BY <1>0
    <2>2. "read" \notin fd[w] /\ "write" \notin fd[r]
      BY <1>0
    <2>3. Users = {} <=> (fd[r] = {} /\ fd[w] = {})
      BY <1>0 DEF Users
    <2>4. Opened("read") = IF fd[r] = {} THEN {} ELSE {r}
      BY <1>0, <2>1, <2>2 DEF Opened
    <2>5. Opened("write") = IF fd[w] = {} THEN {} ELSE {w}
      BY <1>0, <2>1, <2>2 DEF Opened
    <2> QED BY <2>1, <2>3, <2>4, <2>5
  <1>2. ASSUME NEW S \in SUBSET Thread
        PROVE  Cardinality(S) \in Nat /\ (Cardinality(S) = 0 <=> S = {})
    <2>1. IsFiniteSet(S)
      BY IpcAssumption, FS_Subset
    <2> QED BY <2>1, FS_CardinalityType, FS_EmptySet
  <1>3. Opened("read") \in SUBSET Thread /\ Opened("write") \in SUBSET Thread /\ Users \in SUBSET Thread
    BY DEF Opened, Users
  <1>4. /\ readers \in Nat /\ writers \in Nat /\ (readers = 0 <=> Opened("read") = {})
        /\ (writers = 0 <=> Opened("write") = {}) /\ (ref_count = 0 <=> Users = {})
    BY <1>2, <1>3 DEF PipeOK
  <1>5. (Opened("read") = {} <=> fd[r] = {}) /\ (Opened("write") = {} <=> fd[w] = {})
    BY <1>1
  <1> QED BY <1>1, <1>4, <1>5

\* Who can take a step.
LEMMA EndSteps ==
    ASSUME NEW r, NEW w, Ends(r, w), PipeEnds(r, w), NEW t \in Thread, fd[t] # {}
    PROVE  t = r \/ t = w
  BY DEF Ends, PipeEnds

\* A wake-up empties its queues and leaves the others.
LEMMA WokenEnds ==
    ASSUME NEW r, NEW w, Ends(r, w), PipeOK, PipeLists(r, w), NEW Q \in SUBSET Queue,
           rt_wqueue_wakeup(Q)
    PROVE  /\ wq_flag' = wq_flag \cup Q /\ timer' = {}
           /\ \A q \in Queue : waiting_list'[q] = IF q \in Q THEN << >> ELSE waiting_list[q]
           /\ \A q \in Queue \ Q : waiting_list[q] # << >> =>
                 stat'[EndOf(q, r, w)] = stat[EndOf(q, r, w)]
  <1> DEFINE woken == {q \in Q : waiting_list[q] # << >>}
             S == {Head(waiting_list[q]) : q \in woken}
  <1>1. /\ wq_flag' = wq_flag \cup Q /\ Resume(S)
        /\ waiting_list' = [q \in Queue |-> IF q \in woken THEN Tail(waiting_list[q])
                                                           ELSE waiting_list[q]]
    BY DEF rt_wqueue_wakeup
  <1>2. timer' = {}
    BY <1>1 DEF Resume, PipeLists
  <1>3. ASSUME NEW q \in woken
        PROVE  Tail(waiting_list[q]) = << >> /\ Head(waiting_list[q]) = EndOf(q, r, w)
    <2>1. PICK e : e = EndOf(q, r, w)
      OBVIOUS
    <2>2. waiting_list[q] = <<e>>
      BY <2>1 DEF PipeLists
    <2>3. Tail(<<e>>) = << >> /\ Head(<<e>>) = e
      OBVIOUS
    <2> QED BY <2>1, <2>2, <2>3
  <1>4. \A q \in Queue : waiting_list'[q] = IF q \in Q THEN << >> ELSE waiting_list[q]
    BY <1>1, <1>3
  <1>5. ASSUME NEW q \in Queue \ Q, waiting_list[q] # << >>
        PROVE  stat'[EndOf(q, r, w)] = stat[EndOf(q, r, w)]
    <2>1. EndOf(q, r, w) \in Thread
      BY DEF EndOf, Ends
    <2>2. \A p \in Q : EndOf(p, r, w) # EndOf(q, r, w)
      BY DEF EndOf, Ends, Queue
    <2>3. EndOf(q, r, w) \notin S
      BY <1>3, <2>2
    <2> HIDE DEF S
    <2> QED BY <1>1, <2>1, <2>3 DEF Resume
  <1> QED BY <1>1, <1>2, <1>4, <1>5

\* PipeLists after a step that changes the labels of threads outside of the queues.
LEMMA ListsWoken ==
    ASSUME NEW r, NEW w, Ends(r, w), PipeOK, PipeLists(r, w), NEW Q \in SUBSET Queue,
           rt_wqueue_wakeup(Q),
           \A u \in {r, w} : pc[u] \in {"schedule", "off"} => pc'[u] = pc[u]
    PROVE  PipeLists(r, w)'
  <1>1. /\ timer' = {}
        /\ \A q \in Queue : waiting_list'[q] = IF q \in Q THEN << >> ELSE waiting_list[q]
        /\ \A q \in Queue \ Q : waiting_list[q] # << >> =>
              stat'[EndOf(q, r, w)] = stat[EndOf(q, r, w)]
    BY WokenEnds
  <1>2. ASSUME NEW q \in Queue, waiting_list'[q] # << >>
        PROVE  /\ waiting_list'[q] = <<EndOf(q, r, w)>>
               /\ stat'[EndOf(q, r, w)] = "SUSPEND" /\ pc'[EndOf(q, r, w)] \in {"schedule", "off"}
    <2>1. q \notin Q /\ waiting_list'[q] = waiting_list[q]
      BY <1>1, <1>2
    <2>2. EndOf(q, r, w) \in {r, w}
      BY DEF EndOf
    <2> QED BY <1>1, <1>2, <2>1, <2>2 DEF PipeLists
  <1> QED BY <1>1, <1>2 DEF PipeLists, EndOf

\* Threads on the wait queues are not disturbed.
LEMMA ListsSame ==
    ASSUME NEW r, NEW w, Ends(r, w), PipeLists(r, w), timer' = timer, waiting_list' = waiting_list,
           stat' = stat, \A u \in {r, w} : pc[u] \in {"schedule", "off"} => pc'[u] \in {"schedule", "off"}
    PROVE  PipeLists(r, w)'
  <1>1. \A q : EndOf(q, r, w) \in {r, w}
    BY DEF EndOf
  <1> QED BY <1>1 DEF PipeLists, EndOf

\* What is used of the invariant.
PipeFact(r, w) ==
    /\ r \in Thread /\ w \in Thread /\ r # w
    /\ pc \in [Thread -> Label] /\ fd \in [Thread -> SUBSET {"read", "write"}]
    /\ io \in [Thread -> IoRecord]
    /\ pc[r] \in {"run", "lock", "check"} \cup PipeLabel => waiting_list["reader"] = << >>
    /\ pc[w] \in {"run", "lock", "check"} \cup PipeLabel => waiting_list["writer"] = << >>
    /\ pc[r] # "run" => io[r].op = "read" /\ fd[r] = {"read"} /\ io[r].left > 0
    /\ pc[w] # "run" => io[w].op = "write" /\ fd[w] = {"write"}

\* What the invariant of the pipe says of its two threads.
LEMMA PipeFacts ==
    ASSUME NEW r, NEW w, Ends(r, w), WaitOK, PipeOK, PipeInv(r, w)
    PROVE  PipeFact(r, w)
  <1>1. /\ r \in Thread /\ w \in Thread /\ r # w
        /\ pc \in [Thread -> Label] /\ fd \in [Thread -> SUBSET {"read", "write"}]
        /\ io \in [Thread -> IoRecord]
    BY DEF Ends, WaitOK, PipeOK
  <1>2. /\ waiting_list["reader"] # << >> => pc[r] \in {"schedule", "off"}
        /\ waiting_list["writer"] # << >> => pc[w] \in {"schedule", "off"}
    <2>1. "reader" \in Queue /\ "writer" \in Queue /\ EndOf("reader", r, w) = r
          /\ EndOf("writer", r, w) = w
      BY DEF Queue, EndOf
    <2> QED BY <2>1 DEF PipeInv, PipeLists
  <1>3. {"schedule", "off"} \cap ({"run", "lock", "check"} \cup PipeLabel) = {}
    BY DEF PipeLabel
  <1>4. /\ io[r].op \in {"none", "read", "write"} /\ io[w].op \in {"none", "read", "write"}
    BY <1>1 DEF IoRecord
  <1>5. /\ pc[r] # "run" => io[r].op = "read" /\ fd[r] = {"read"} /\ io[r].left > 0
        /\ pc[w] # "run" => io[w].op = "write" /\ fd[w] = {"write"}
    BY <1>1, <1>4 DEF PipeInv, PipeEnds
  <1> QED BY <1>1, <1>2, <1>3, <1>5 DEF PipeFact

\* Both ends, one by one.
LEMMA EndsAre ==
    ASSUME NEW r, NEW w, r \in Thread, w \in Thread, r # w,
           fd[r] \subseteq {"read"}, fd[w] \subseteq {"write"}, \A t \in Thread \ {r, w} : fd[t] = {},
           \A t \in Thread \ {r, w} : pc[t] = "run" /\ io[t].op = "none",
           pc[r] = "run" <=> io[r].op = "none", pc[w] = "run" <=> io[w].op = "none",
           io[r].op # "none" => io[r].op \in fd[r] /\ io[r].left > 0,
           io[w].op # "none" => io[w].op \in fd[w]
    PROVE  PipeEnds(r, w)
  BY DEF PipeEnds

\* What the two ends have open and where they are: no other thread is in a call of the
\* pipe.
LEMMA OtherThreads ==
    ASSUME NEW r, NEW w, Ends(r, w), PipeEnds(r, w), PipeOK
    PROVE  /\ fd[r] \subseteq {"read"} /\ fd[w] \subseteq {"write"}
           /\ \A t \in Thread \ {r, w} : fd[t] = {} /\ pc[t] = "run" /\ io[t].op = "none"
           /\ (pc[r] = "run" <=> io[r].op = "none") /\ (pc[w] = "run" <=> io[w].op = "none")
           /\ io[r].op # "none" => io[r].op \in fd[r] /\ io[r].left > 0
           /\ io[w].op # "none" => io[w].op \in fd[w]
  BY DEF PipeEnds, Ends

\* pipe_fops_open.
LEMMA OpenInv ==
    ASSUME NEW r, NEW w, Ends(r, w), WaitOK, PipeOK, PipeInv(r, w),
           NEW t \in Thread, NEW mode \in Call[t].pipe_open, pipe_fops_open(t, mode)
    PROVE  PipeInv(r, w)'
  <1>0. PipeFact(r, w)
    BY PipeFacts
  <1>1. \/ t = r /\ mode = {"read"}
        \/ t = w /\ mode = {"write"}
    BY DEF Ends
  <1>2. /\ pc[t] = "run" /\ fd[t] = {} /\ fd' = [fd EXCEPT ![t] = mode]
        /\ pc' = pc /\ stat' = stat /\ timer' = timer /\ io' = io /\ waiting_list' = waiting_list
        /\ wq_flag' = wq_flag
    BY DEF pipe_fops_open, waitvars
  <1>3. PipeEnds(r, w) /\ PipeLists(r, w) /\ PipeAwake(r, w)
    BY DEF PipeInv
  <1>4. PipeEnds(r, w)'
    <2>1. /\ fd'[t] = mode /\ (\A u \in Thread \ {t} : fd'[u] = fd[u]) /\ io[t].op = "none"
      BY <1>0, <1>2, <1>3, OtherThreads DEF PipeFact, PipeEnds
    <2> QED BY <1>1, <1>2, <1>3, <2>1 DEF PipeEnds, Ends
  <1>5. PipeLists(r, w)'
    BY <1>2, <1>3, ListsSame
  <1>6. /\ fd'[t] = mode /\ (\A u \in Thread \ {t} : fd'[u] = fd[u]) /\ r # w /\ r \in Thread
        /\ w \in Thread
    BY <1>0, <1>2 DEF PipeFact
  <1>7. CASE ref_count = 0
    <2>1. fd[r] = {} /\ fd[w] = {}
      BY <1>3, <1>7, EndCounts
    <2>2. pc[r] = "run" /\ pc[w] = "run"
      BY <1>0, <2>1 DEF PipeFact
    <2>3. waiting_list["reader"] = << >> /\ waiting_list["writer"] = << >>
      BY <1>0, <2>2 DEF PipeFact
    <2>4. PipeAwake(r, w)'
      BY <1>2, <2>2, <2>3 DEF PipeAwake
    <2> QED BY <1>4, <1>5, <2>4 DEF PipeInv
  <1>8. CASE ref_count # 0
    <2>1. stream' = stream
      BY <1>8 DEF pipe_fops_open, ringvars
    <2>2. "read" \notin fd[t] /\ "write" \notin fd[t]
      BY <1>2
    <2>3. CASE t = r
      <3>1. /\ pc[r] = "run" /\ waiting_list["reader"] = << >>
            /\ fd'[w] = fd[w] /\ "read" \notin fd[r]
        BY <1>0, <1>2, <1>6, <2>2, <2>3 DEF PipeFact
      <3>2. PipeAwake(r, w)'
        BY <1>2, <1>3, <2>1, <3>1 DEF PipeAwake, ReaderMay, WriterMay
      <3> QED BY <1>4, <1>5, <3>2 DEF PipeInv
    <2>4. CASE t = w
      <3>1. /\ pc[w] = "run" /\ waiting_list["writer"] = << >>
            /\ fd'[r] = fd[r] /\ "write" \notin fd[w]
        BY <1>0, <1>2, <1>6, <2>2, <2>4 DEF PipeFact
      <3>2. PipeAwake(r, w)'
        BY <1>2, <1>3, <2>1, <3>1 DEF PipeAwake, ReaderMay, WriterMay
      <3> QED BY <1>4, <1>5, <3>2 DEF PipeInv
    <2> QED BY <1>1, <2>3, <2>4
  <1> QED BY <1>7, <1>8

\* pipe_fops_close.
LEMMA CloseInv ==
    ASSUME NEW r, NEW w, Ends(r, w), WaitOK, PipeOK, PipeInv(r, w), PipeOK',
           NEW t \in Thread, pipe_fops_close(t)
    PROVE  PipeInv(r, w)'
  <1>0. PipeFact(r, w)
    BY PipeFacts
  <1>1. PipeEnds(r, w) /\ PipeLists(r, w) /\ PipeAwake(r, w)
    BY DEF PipeInv
  <1> DEFINE Q == {q \in Queue : (q = "reader" /\ writers' = 0) \/ (q = "writer" /\ readers' = 0)}
  <1>2. /\ pc[t] = "run" /\ fd[t] # {} /\ fd' = [fd EXCEPT ![t] = {}]
        /\ pc' = pc /\ io' = io /\ stream' = stream /\ rt_wqueue_wakeup(Q)
    BY DEF pipe_fops_close, ringvars
  <1>3. t = r \/ t = w
    BY <1>1, <1>2, EndSteps
  <1>4. PipeEnds(r, w)'
    <2>1. /\ fd'[t] = {} /\ (\A u \in Thread \ {t} : fd'[u] = fd[u]) /\ io[t].op = "none"
      BY <1>0, <1>1, <1>2, OtherThreads DEF PipeFact, PipeEnds
    <2> QED BY <1>1, <1>2, <1>3, <2>1 DEF PipeEnds, Ends
  <1>5. Q \in SUBSET Queue
    OBVIOUS
  <1>6. /\ "reader" \in Q <=> writers' = 0
        /\ "writer" \in Q <=> readers' = 0
    BY DEF Queue
  <1> HIDE DEF Q
  <1>7. PipeLists(r, w)'
    BY <1>1, <1>2, <1>5, ListsWoken
  <1>8. /\ wq_flag' = wq_flag \cup Q
        /\ \A q \in Queue : waiting_list'[q] = IF q \in Q THEN << >> ELSE waiting_list[q]
    BY <1>1, <1>2, <1>5, WokenEnds
  <1>9. (readers' = 0 <=> fd'[r] = {}) /\ (writers' = 0 <=> fd'[w] = {})
    <2>1. (PipeOK /\ PipeEnds(r, w) => (readers = 0 <=> fd[r] = {}) /\ (writers = 0 <=> fd[w] = {}))'
      BY EndCounts, PTL
    <2> QED BY <1>4, <2>1
  <1>10. "reader" \in Queue /\ "writer" \in Queue
    BY DEF Queue
  <1>11. PipeAwake(r, w)'
    <2>1. CASE t = r
      <3>1. /\ pc[r] = "run" /\ waiting_list["reader"] = << >> /\ fd'[r] = {} /\ fd'[w] = fd[w]
            /\ "writer" \in Q
        BY <1>0, <1>2, <1>6, <1>9, <2>1 DEF PipeFact
      <3> QED BY <1>1, <1>2, <1>8, <1>10, <3>1 DEF PipeAwake, ReaderMay, WriterMay
    <2>2. CASE t = w
      <3>1. /\ pc[w] = "run" /\ waiting_list["writer"] = << >> /\ fd'[w] = {} /\ fd'[r] = fd[r]
            /\ "reader" \in Q
        BY <1>0, <1>2, <1>6, <1>9, <2>2 DEF PipeFact
      <3> QED BY <1>1, <1>2, <1>8, <1>10, <3>1 DEF PipeAwake, ReaderMay, WriterMay
    <2> QED BY <1>3, <2>1, <2>2
  <1> QED BY <1>4, <1>7, <1>11 DEF PipeInv

\* A call of read or write begins.
LEMMA PipeCallInv ==
    ASSUME NEW r, NEW w, Ends(r, w), WaitOK, PipeOK, PipeInv(r, w),
           NEW t \in Thread, NEW op \in fd[t], NEW count \in Call[t].pipe_count,
           NEW nonblock \in BOOLEAN, PipeCall(t, op, count, nonblock)
    PROVE  PipeInv(r, w)'
  <1>0. PipeFact(r, w)
    BY PipeFacts
  <1>1. PipeEnds(r, w) /\ PipeLists(r, w) /\ PipeAwake(r, w)
    BY DEF PipeInv
  <1> DEFINE call == [op |-> op, left |-> count, nonblock |-> nonblock, wakeup |-> FALSE]
  <1>2. /\ pc[t] = "run" /\ io' = [io EXCEPT ![t] = call] /\ pc' = [pc EXCEPT ![t] = "lock"]
        /\ fd' = fd /\ stream' = stream /\ waiting_list' = waiting_list /\ wq_flag' = wq_flag
        /\ stat' = stat /\ timer' = timer
    BY DEF PipeCall, Begins, ringvars
  <1>3. t = r \/ t = w
    BY <1>1, EndSteps
  <1>4. count > 0 /\ call.op = op /\ call.left = count /\ op # "none"
    <2>1. count \in Nat /\ count # 0
      BY CallAssumption DEF Ends
    <2> QED BY <2>1, <1>0 DEF PipeFact
  <1> HIDE DEF call
  <1>5. /\ pc'[t] = "lock" /\ io'[t] = call
        /\ \A u \in Thread \ {t} : pc'[u] = pc[u] /\ io'[u] = io[u]
    BY <1>0, <1>2 DEF PipeFact
  <1>6. PipeEnds(r, w)'
    BY <1>0, <1>1, <1>2, <1>3, <1>4, <1>5 DEF PipeEnds, PipeFact
  <1>7. PipeLists(r, w)'
    <2>1. \A u \in {r, w} : pc[u] \in {"schedule", "off"} => pc'[u] \in {"schedule", "off"}
      BY <1>0, <1>2, <1>5 DEF PipeFact
    <2> QED BY <1>1, <1>2, <2>1, ListsSame
  <1>8. PipeAwake(r, w)'
    BY <1>0, <1>1, <1>2, <1>3, <1>5 DEF PipeFact, PipeAwake, ReaderMay, WriterMay
  <1> QED BY <1>6, <1>7, <1>8 DEF PipeInv

\* A thread goes on inside of its call, or returns; the rest of PipeEnds.
LEMMA EndsKept ==
    ASSUME NEW r, NEW w, Ends(r, w), PipeFact(r, w), PipeEnds(r, w), NEW t \in Thread,
           pc[t] # "run", NEW place, pc' = [pc EXCEPT ![t] = place], fd' = fd,
           \A u \in Thread \ {t} : io'[u] = io[u],
           IF place = "run" THEN io'[t].op = "none"
                            ELSE io'[t].op = io[t].op /\ (t = r => io'[t].left = io[t].left)
    PROVE  PipeEnds(r, w)'
  BY DEF PipeFact, PipeEnds

\* A call of read or write returns.
LEMMA Returned ==
    ASSUME NEW r, NEW w, PipeFact(r, w), NEW t \in Thread, PipeReturns(t)
    PROVE  /\ pc' = [pc EXCEPT ![t] = "run"] /\ io'[t].op = "none"
           /\ \A u \in Thread \ {t} : io'[u] = io[u]
  BY NoCall DEF PipeReturns, PipeFact

\* A round of pipe_fops_read.
LEMMA ReadRoundInv ==
    ASSUME NEW r, NEW w, Ends(r, w), WaitOK, PipeOK, PipeInv(r, w),
           NEW t \in Thread, ReadRound(t), fd' = fd
    PROVE  PipeInv(r, w)'
  <1>0. PipeFact(r, w)
    BY PipeFacts
  <1>1. PipeEnds(r, w) /\ PipeLists(r, w) /\ PipeAwake(r, w) /\ RingInv
    BY DEF PipeInv, PipeOK
  <1>2. pc[t] = "lock" /\ io[t].op = "read"
    BY DEF ReadRound
  <1>3. t = r
    <2>1. fd[t] # {}
      BY <1>1, <1>2 DEF PipeEnds
    <2>2. t = r \/ t = w
      BY <1>1, <2>1, EndSteps
    <2> QED BY <1>0, <1>2, <2>2 DEF PipeFact
  <1> DEFINE some == writers > 0 /\ Got(rb, io[t].left) > 0
  <1>4. /\ IF some THEN RingGet(io[t].left) ELSE UNCHANGED ringvars
        /\ IF some THEN rt_wqueue_wakeup({"writer"})
                   ELSE UNCHANGED <<stat, timer, waiting_list, wq_flag>>
        /\ IF some \/ writers = 0 \/ io[t].nonblock THEN PipeReturns(t) ELSE PipeGoes(t, "wake")
    BY DEF ReadRound
  <1>5. io[r].left \in Nat /\ io[r].left > 0 /\ waiting_list["reader"] = << >>
    <2>1. io[r] \in IoRecord
      BY <1>0 DEF PipeFact
    <2>2. io[r].left \in Nat
      BY <2>1 DEF IoRecord
    <2> QED BY <1>0, <1>2, <1>3, <2>2 DEF PipeFact
  <1>6. CASE some
    <2>1. rt_wqueue_wakeup({"writer"}) /\ PipeReturns(t)
      BY <1>4, <1>6
    <2>2. {"writer"} \in SUBSET Queue /\ "reader" \in Queue /\ "writer" \in Queue
      BY DEF Queue
    <2>3. /\ pc' = [pc EXCEPT ![t] = "run"] /\ io'[t].op = "none"
          /\ \A u \in Thread \ {t} : io'[u] = io[u]
      BY <1>0, <2>1, Returned
    <2>4. PipeEnds(r, w)'
      BY <1>0, <1>1, <1>2, <2>3, EndsKept
    <2>5. /\ wq_flag' = wq_flag \cup {"writer"} /\ waiting_list'["writer"] = << >>
          /\ waiting_list'["reader"] = waiting_list["reader"]
      BY <1>1, <2>1, <2>2, WokenEnds
    <2>6. pc'[r] = "run" /\ pc'[w] = pc[w]
      BY <1>0, <1>3, <2>3 DEF PipeFact
    <2>7. PipeLists(r, w)'
      <3>1. \A u \in {r, w} : pc[u] \in {"schedule", "off"} => pc'[u] = pc[u]
        BY <1>2, <1>3, <2>6
      <3> QED BY <1>1, <2>1, <2>2, <3>1, ListsWoken
    <2>8. PipeAwake(r, w)'
      BY <1>5, <2>5, <2>6 DEF PipeAwake
    <2> QED BY <2>4, <2>7, <2>8 DEF PipeInv
  <1>7. CASE ~some
    <2>1. UNCHANGED <<stat, timer, waiting_list, wq_flag>> /\ stream' = stream
      BY <1>4, <1>7 DEF ringvars
    <2>2. PICK place : /\ pc' = [pc EXCEPT ![t] = place]
                       /\ \/ place = "run" /\ io'[t].op = "none" /\ \A u \in Thread \ {t} : io'[u] = io[u]
                          \/ place = "wake" /\ io' = io /\ writers # 0
      <3>1. CASE PipeReturns(t)
        <4>1. /\ pc' = [pc EXCEPT ![t] = "run"] /\ io'[t].op = "none"
              /\ \A u \in Thread \ {t} : io'[u] = io[u]
          BY <1>0, <3>1, Returned
        <4> QED BY <4>1
      <3>2. CASE PipeGoes(t, "wake") /\ writers # 0
        BY <3>2 DEF PipeGoes
      <3> QED BY <1>4, <3>1, <3>2
    <2>3. PipeEnds(r, w)'
      <3>1. \A u \in Thread \ {t} : io'[u] = io[u]
        BY <2>2
      <3>2. IF place = "run" THEN io'[t].op = "none"
                             ELSE io'[t].op = io[t].op /\ (t = r => io'[t].left = io[t].left)
        BY <2>2
      <3> QED BY <1>0, <1>1, <1>2, <2>2, <3>1, <3>2, EndsKept
    <2>4. pc'[r] = place /\ pc'[w] = pc[w]
      BY <1>0, <1>3, <2>2 DEF PipeFact
    <2>5. PipeLists(r, w)'
      <3>1. \A u \in {r, w} : pc[u] \in {"schedule", "off"} => pc'[u] \in {"schedule", "off"}
        BY <1>2, <1>3, <2>4
      <3> QED BY <1>1, <2>1, <3>1, ListsSame
    <2>6. place = "wake" => stream = << >> /\ "write" \in fd[w]
      <3> SUFFICES ASSUME place = "wake" PROVE stream = << >> /\ "write" \in fd[w]
        OBVIOUS
      <3>1. writers # 0
        BY <2>2
      <3>2. writers \in Nat /\ "write" \in fd[w]
        BY <1>1, <3>1, EndCounts
      <3>3. ~(Got(rb, io[r].left) > 0)
        BY <1>3, <1>7, <3>1, <3>2
      <3>4. RingHas(rb, stream)
        BY <1>1 DEF RingInv
      <3>5. /\ Got(rb, io[r].left) = Min({io[r].left, Len(stream)}) /\ Len(stream) \in Nat
            /\ stream \in Seq(Byte)
        <4>1. /\ rt_ringbuffer_data_len(rb) = Len(stream) /\ Len(stream) \in 0 .. BufferSize
              /\ stream \in Seq(Byte)
          BY <3>4, HasLength
        <4>2. Len(stream) \in Nat
          BY <4>1, ListIndices
        <4> QED BY <4>1, <4>2, Zenon DEF Got
      <3>6. Min({io[r].left, Len(stream)}) = IF io[r].left <= Len(stream) THEN io[r].left ELSE Len(stream)
        <4>1. io[r].left \in Int /\ Len(stream) \in Int
          BY <1>5, <3>5
        <4> QED BY <4>1, MinOfTwo
      <3>7. Len(stream) = 0
        BY <1>5, <3>3, <3>5, <3>6
      <3> QED BY <3>2, <3>5, <3>7
    <2>7. PipeAwake(r, w)'
      BY <1>1, <1>5, <2>1, <2>2, <2>4, <2>6 DEF PipeAwake, ReaderMay, WriterMay
    <2> QED BY <2>3, <2>5, <2>7 DEF PipeInv
  <1> QED BY <1>6, <1>7

\* A round of pipe_fops_write.
LEMMA WriteRoundInv ==
    ASSUME NEW r, NEW w, Ends(r, w), WaitOK, PipeOK, PipeInv(r, w),
           NEW t \in Thread, WriteRound(t), fd' = fd
    PROVE  PipeInv(r, w)'
  <1>0. PipeFact(r, w)
    BY PipeFacts
  <1>1. PipeEnds(r, w) /\ PipeLists(r, w) /\ PipeAwake(r, w) /\ RingInv
    BY DEF PipeInv, PipeOK
  <1>2. pc[t] = "lock" /\ io[t].op = "write" /\ UNCHANGED <<stat, timer, waiting_list, wq_flag>>
    BY DEF WriteRound
  <1>3. t = w
    <2>1. fd[t] # {}
      BY <1>1, <1>2 DEF PipeEnds
    <2>2. t = r \/ t = w
      BY <1>1, <2>1, EndSteps
    <2> QED BY <1>0, <1>2, <2>2 DEF PipeFact
  <1>4. waiting_list["writer"] = << >> /\ r # w
    BY <1>0, <1>2, <1>3 DEF PipeFact
  <1>5. CASE readers = 0
    <2>1. UNCHANGED ringvars /\ (PipeGoes(t, "last wake") \/ PipeReturns(t))
      BY <1>5 DEF WriteRound
    <2>2. PICK place : /\ pc' = [pc EXCEPT ![t] = place] /\ place \in {"run", "last wake"}
                       /\ IF place = "run" THEN io'[t].op = "none" ELSE io'[t].op = io[t].op
                       /\ \A u \in Thread \ {t} : io'[u] = io[u]
      <3>1. CASE PipeReturns(t)
        <4>1. /\ pc' = [pc EXCEPT ![t] = "run"] /\ io'[t].op = "none"
              /\ \A u \in Thread \ {t} : io'[u] = io[u]
          BY <1>0, <3>1, Returned
        <4> QED BY <4>1
      <3>2. CASE PipeGoes(t, "last wake")
        BY <3>2 DEF PipeGoes
      <3> QED BY <2>1, <3>1, <3>2
    <2>3. PipeEnds(r, w)'
      BY <1>0, <1>1, <1>2, <1>3, <1>4, <2>2, EndsKept
    <2>4. pc'[w] = place /\ pc'[r] = pc[r]
      BY <1>0, <1>3, <2>2 DEF PipeFact
    <2>5. PipeLists(r, w)'
      <3>1. \A u \in {r, w} : pc[u] \in {"schedule", "off"} => pc'[u] \in {"schedule", "off"}
        BY <1>2, <1>3, <2>4
      <3> QED BY <1>1, <1>2, <3>1, ListsSame
    <2>6. pc[r] = "run" /\ waiting_list["reader"] = << >>
      <3>1. fd[r] = {}
        BY <1>1, <1>5, EndCounts
      <3> QED BY <1>0, <3>1 DEF PipeFact
    <2>7. PipeAwake(r, w)'
      BY <1>2, <1>4, <2>2, <2>4, <2>6 DEF PipeAwake
    <2> QED BY <2>3, <2>5, <2>7 DEF PipeInv
  <1>6. CASE readers # 0
    <2>1. PICK s : s = Fresh(io[t].left)
      OBVIOUS
    <2>2. PICK left : left = io[t].left - Len(Accepted(rb, s))
      OBVIOUS
    <2>3. PICK place : place = IF left = 0 \/ io[t].nonblock THEN "last wake" ELSE "wake"
      OBVIOUS
    <2>4. /\ RingPut(s) /\ io' = [io EXCEPT ![t].left = left, ![t].wakeup = TRUE]
          /\ pc' = [pc EXCEPT ![t] = place]
      BY <1>6, <2>1, <2>2, <2>3 DEF WriteRound
    <2>5. io[t].left \in Nat /\ last \in Nat
      <3>1. io[t] \in IoRecord
        BY <1>0 DEF PipeFact
      <3> QED BY <1>1, <3>1 DEF IoRecord, RingInv
    <2>6. s \in Seq(Byte) /\ Len(s) = io[t].left
      BY <2>1, <2>5, FreshBytes
    <2>7. /\ Len(stream') = Len(stream) + Len(Accepted(rb, s))
          /\ Len(Accepted(rb, s)) = IF Len(s) <= BufferSize - Len(stream) THEN Len(s)
                                                             ELSE BufferSize - Len(stream)
      BY <1>1, <2>4, <2>6, RingPutInv
    <2>8. Len(stream) \in 0 .. BufferSize /\ BufferSize \in Nat
      <3>1. RingHas(rb, stream)
        BY <1>1 DEF RingInv
      <3> QED BY <3>1, HasLength, RingSize
    <2>9. left # 0 => Len(stream') = BufferSize
      BY <2>2, <2>5, <2>6, <2>7, <2>8
    <2>10. place = "wake" => Len(stream') = BufferSize
      BY <2>3, <2>9
    <2>11. "read" \in fd[r]
      BY <1>1, <1>6, EndCounts
    <2>12. PipeEnds(r, w)'
      <3>1. io'[t].op = io[t].op /\ \A u \in Thread \ {t} : io'[u] = io[u]
        BY <1>0, <2>4 DEF PipeFact, IoRecord
      <3>2. place # "run"
        BY <2>3
      <3> QED BY <1>0, <1>1, <1>2, <1>3, <1>4, <2>4, <3>1, <3>2, EndsKept
    <2>13. pc'[w] = place /\ pc'[r] = pc[r]
      BY <1>0, <1>3, <2>4 DEF PipeFact
    <2>14. PipeLists(r, w)'
      <3>1. \A u \in {r, w} : pc[u] \in {"schedule", "off"} => pc'[u] \in {"schedule", "off"}
        BY <1>2, <1>3, <2>13
      <3> QED BY <1>1, <1>2, <3>1, ListsSame
    <2>15. PipeAwake(r, w)'
      <3>1. place \in {"wake", "last wake"}
        BY <2>3
      <3> QED BY <1>2, <1>4, <2>10, <2>11, <2>13, <3>1 DEF PipeAwake, ReaderMay, WriterMay
    <2> QED BY <2>12, <2>14, <2>15 DEF PipeInv
  <1> QED BY <1>5, <1>6

\* rt_wqueue_wakeup, of which the woken thread is told.
LEMMA PipeWakesInv ==
    ASSUME NEW r, NEW w, Ends(r, w), WaitOK, PipeOK, PipeInv(r, w),
           NEW t \in Thread, PipeWakes(t), fd' = fd
    PROVE  PipeInv(r, w)'
  <1>0. PipeFact(r, w)
    BY PipeFacts
  <1>1. PipeEnds(r, w) /\ PipeLists(r, w) /\ PipeAwake(r, w)
    BY DEF PipeInv
  <1>2. /\ pc[t] \in {"wake", "last wake"} /\ rt_wqueue_wakeup({Other(t)}) /\ stream' = stream
        /\ IF pc[t] = "wake" THEN PipeGoes(t, "wait") ELSE PipeReturns(t)
    BY DEF PipeWakes, ringvars
  <1>3. t = r \/ t = w
    <2>1. io[t].op # "none" /\ io[t].op \in fd[t]
      BY <1>1, <1>2 DEF PipeEnds
    <2> QED BY <1>1, <2>1, EndSteps
  <1>4. PICK place : /\ pc' = [pc EXCEPT ![t] = place]
                     /\ place = IF pc[t] = "wake" THEN "wait" ELSE "run"
                     /\ IF place = "run" THEN io'[t].op = "none" ELSE io' = io
                     /\ \A u \in Thread \ {t} : io'[u] = io[u]
    <2>1. CASE pc[t] = "wake"
      BY <1>2, <2>1 DEF PipeGoes
    <2>2. CASE pc[t] # "wake"
      <3>1. /\ pc' = [pc EXCEPT ![t] = "run"] /\ io'[t].op = "none"
            /\ \A u \in Thread \ {t} : io'[u] = io[u]
        BY <1>0, <1>2, <2>2, Returned
      <3> QED BY <2>2, <3>1
    <2> QED BY <2>1, <2>2
  <1>5. PipeEnds(r, w)'
    <2>1. IF place = "run" THEN io'[t].op = "none"
                           ELSE io'[t].op = io[t].op /\ (t = r => io'[t].left = io[t].left)
      BY <1>4
    <2>2. pc[t] # "run"
      BY <1>2
    <2> QED BY <1>0, <1>1, <1>4, <2>1, <2>2, EndsKept
  <1>6. PICK q \in Queue : q = Other(t)
    BY DEF Other, Queue
  <1>7. {q} \in SUBSET Queue /\ rt_wqueue_wakeup({q})
    BY <1>2, <1>6
  <1>8. /\ pc'[t] = place /\ \A u \in Thread \ {t} : pc'[u] = pc[u]
    BY <1>0, <1>4 DEF PipeFact
  <1>9. PipeLists(r, w)'
    <2>1. \A u \in {r, w} : pc[u] \in {"schedule", "off"} => pc'[u] = pc[u]
      BY <1>0, <1>2, <1>8 DEF PipeFact
    <2> QED BY <1>1, <1>7, <2>1, ListsWoken
  <1>10. /\ wq_flag' = wq_flag \cup {q}
         /\ \A p \in Queue : waiting_list'[p] = IF p = q THEN << >> ELSE waiting_list[p]
    BY <1>1, <1>7, WokenEnds
  <1>11. "reader" \in Queue /\ "writer" \in Queue
    BY DEF Queue
  <1>12. CASE t = r
    <2>1. q = "writer"
      BY <1>0, <1>2, <1>6, <1>12 DEF PipeFact, Other
    <2>2. pc'[r] = place /\ pc'[w] = pc[w] /\ waiting_list["reader"] = << >>
      BY <1>0, <1>2, <1>8, <1>12 DEF PipeFact, PipeLabel
    <2>3. pc'[r] \in {"wake", "wait"} => pc[r] \in {"wake", "wait"}
      BY <1>4, <1>12, <2>2
    <2>4. PipeAwake(r, w)'
      BY <1>1, <1>2, <1>10, <1>11, <2>1, <2>2, <2>3 DEF PipeAwake, ReaderMay, WriterMay
    <2> QED BY <1>5, <1>9, <2>4 DEF PipeInv
  <1>13. CASE t = w
    <2>1. q = "reader"
      BY <1>0, <1>2, <1>6, <1>13 DEF PipeFact, Other
    <2>2. pc'[w] = place /\ pc'[r] = pc[r] /\ waiting_list["writer"] = << >>
      BY <1>0, <1>2, <1>8, <1>13 DEF PipeFact, PipeLabel
    <2>3. pc'[w] \in {"wake", "wait"} => pc[w] \in {"wake", "wait"}
      BY <1>4, <1>13, <2>2
    <2>4. PipeAwake(r, w)'
      BY <1>1, <1>2, <1>10, <1>11, <2>1, <2>2, <2>3 DEF PipeAwake, ReaderMay, WriterMay
    <2> QED BY <1>5, <1>9, <2>4 DEF PipeInv
  <1> QED BY <1>3, <1>12, <1>13

\* rt_wqueue_wait, which tests the condition before it goes on the queue.
LEMMA PipeWaitsInv ==
    ASSUME NEW r, NEW w, Ends(r, w), WaitOK, PipeOK, PipeInv(r, w),
           NEW t \in Thread, PipeWaits(t), fd' = fd
    PROVE  PipeInv(r, w)'
  <1>0. PipeFact(r, w)
    BY PipeFacts
  <1>1. PipeEnds(r, w) /\ PipeLists(r, w) /\ PipeAwake(r, w)
    BY DEF PipeInv
  <1>2. pc[t] = "wait" /\ rt_wqueue_wait(t, Own(t)) /\ stream' = stream /\ io' = io
    BY DEF PipeWaits, ringvars
  <1>3. t = r \/ t = w
    <2>1. io[t].op # "none" /\ io[t].op \in fd[t]
      BY <1>1, <1>2 DEF PipeEnds
    <2> QED BY <1>1, <2>1, EndSteps
  <1>4. PICK q \in Queue : q = Own(t)
    BY DEF Own, Queue
  <1>5. /\ q = (IF t = r THEN "reader" ELSE "writer") /\ EndOf(q, r, w) = t
        /\ waiting_list[q] = << >>
    BY <1>0, <1>2, <1>3, <1>4 DEF PipeFact, PipeLabel, Own, EndOf
  <1>6. "reader" \in Queue /\ "writer" \in Queue /\ Queue = {"reader", "writer"}
    BY DEF Queue
  <1>7. waiting_list \in [Queue -> Seq(Thread)] /\ stat \in [Thread -> {"READY", "SUSPEND"}]
    BY DEF PipeOK, WaitOK
  <1>8. CASE q \in wq_flag
    <2>1. /\ wq_flag' = wq_flag \ {q} /\ pc' = [pc EXCEPT ![t] = "lock"]
          /\ stat' = stat /\ timer' = timer /\ waiting_list' = waiting_list
      BY <1>2, <1>4, <1>8 DEF rt_wqueue_wait
    <2>2. PipeEnds(r, w)'
      <3>1. pc[t] # "run" /\ "lock" # "run" /\ \A u \in Thread : io'[u] = io[u]
        BY <1>2
      <3> QED BY <1>0, <1>1, <2>1, <3>1, EndsKept
    <2>3. pc'[t] = "lock" /\ \A u \in Thread \ {t} : pc'[u] = pc[u]
      BY <1>0, <2>1 DEF PipeFact
    <2>4. PipeLists(r, w)'
      <3>1. \A u \in {r, w} : pc[u] \in {"schedule", "off"} => pc'[u] \in {"schedule", "off"}
        BY <1>0, <1>2, <2>3 DEF PipeFact
      <3> QED BY <1>1, <2>1, <3>1, ListsSame
    <2>5. CASE t = r
      <3>1. pc'[r] = "lock" /\ pc'[w] = pc[w] /\ waiting_list["reader"] = << >> /\ q = "reader"
        BY <1>0, <1>5, <2>3, <2>5 DEF PipeFact
      <3>2. PipeAwake(r, w)'
        BY <1>1, <1>2, <2>1, <3>1 DEF PipeAwake, ReaderMay, WriterMay
      <3> QED BY <2>2, <2>4, <3>2 DEF PipeInv
    <2>6. CASE t = w
      <3>1. pc'[w] = "lock" /\ pc'[r] = pc[r] /\ waiting_list["writer"] = << >> /\ q = "writer"
            /\ pc[w] = "wait"
        BY <1>0, <1>2, <1>5, <2>3, <2>6 DEF PipeFact
      <3>2. PipeAwake(r, w)'
        BY <1>1, <1>2, <2>1, <3>1 DEF PipeAwake, ReaderMay, WriterMay
      <3> QED BY <2>2, <2>4, <3>2 DEF PipeInv
    <2> QED BY <1>3, <2>5, <2>6
  <1>9. CASE q \notin wq_flag
    <2>1. /\ waiting_list' = [waiting_list EXCEPT ![q] = Append(@, t)] /\ Suspend(t, "forever")
          /\ wq_flag' = wq_flag
      BY <1>2, <1>4, <1>9 DEF rt_wqueue_wait
    <2>2. /\ pc' = [pc EXCEPT ![t] = "schedule"] /\ stat' = [stat EXCEPT ![t] = "SUSPEND"]
          /\ timer' = {}
      BY <1>1, <2>1 DEF Suspend, PipeLists
    <2>3. PipeEnds(r, w)'
      <3>1. pc[t] # "run" /\ "schedule" # "run" /\ \A u \in Thread : io'[u] = io[u]
        BY <1>2
      <3> QED BY <1>0, <1>1, <2>2, <3>1, EndsKept
    <2>4. /\ pc'[t] = "schedule" /\ stat'[t] = "SUSPEND"
          /\ \A u \in Thread \ {t} : pc'[u] = pc[u] /\ stat'[u] = stat[u]
      BY <1>0, <1>7, <2>2 DEF PipeFact
    <2>5. Append(<< >>, t) = <<t>>
      OBVIOUS
    <2>6. waiting_list'[q] = <<t>> /\ \A p \in Queue \ {q} : waiting_list'[p] = waiting_list[p]
      BY <1>5, <1>7, <2>1, <2>5
    <2>7. PipeLists(r, w)'
      <3>1. ASSUME NEW p \in Queue, waiting_list'[p] # << >>
            PROVE  /\ waiting_list'[p] = <<EndOf(p, r, w)>>
                   /\ stat'[EndOf(p, r, w)] = "SUSPEND" /\ pc'[EndOf(p, r, w)] \in {"schedule", "off"}
        <4>1. CASE p = q
          BY <1>5, <2>4, <2>6, <4>1
        <4>2. CASE p # q
          <5>1. EndOf(p, r, w) \in Thread \ {t}
            BY <1>0, <1>3, <1>5, <1>6, <4>2 DEF EndOf, PipeFact
          <5>2. waiting_list'[p] = waiting_list[p]
            BY <2>6, <4>2
          <5>3. /\ waiting_list[p] = <<EndOf(p, r, w)>>
                /\ stat[EndOf(p, r, w)] = "SUSPEND" /\ pc[EndOf(p, r, w)] \in {"schedule", "off"}
            BY <1>1, <3>1, <5>2 DEF PipeLists
          <5> QED BY <2>4, <5>1, <5>2, <5>3
        <4> QED BY <4>1, <4>2
      <3> QED BY <2>2, <3>1 DEF PipeLists, EndOf
    <2>8. CASE t = r
      <3>1. /\ pc'[r] = "schedule" /\ pc'[w] = pc[w] /\ q = "reader" /\ pc[r] = "wait"
            /\ waiting_list'["writer"] = waiting_list["writer"]
        BY <1>0, <1>2, <1>5, <1>6, <2>4, <2>6, <2>8 DEF PipeFact
      <3>2. PipeAwake(r, w)'
        BY <1>1, <1>2, <1>9, <2>1, <3>1 DEF PipeAwake, ReaderMay, WriterMay
      <3> QED BY <2>3, <2>7, <3>2 DEF PipeInv
    <2>9. CASE t = w
      <3>1. /\ pc'[w] = "schedule" /\ pc'[r] = pc[r] /\ q = "writer" /\ pc[w] = "wait"
            /\ waiting_list'["reader"] = waiting_list["reader"]
        BY <1>0, <1>2, <1>5, <1>6, <2>4, <2>6, <2>9 DEF PipeFact
      <3>2. PipeAwake(r, w)'
        BY <1>1, <1>2, <1>9, <2>1, <3>1 DEF PipeAwake, ReaderMay, WriterMay
      <3> QED BY <2>3, <2>7, <3>2 DEF PipeInv
    <2> QED BY <1>3, <2>8, <2>9
  <1> QED BY <1>8, <1>9

\* A thread is back from rt_wqueue_wait.
LEMMA PipeBackInv ==
    ASSUME NEW r, NEW w, Ends(r, w), WaitOK, PipeOK, PipeInv(r, w),
           NEW t \in Thread, PipeBack(t), fd' = fd
    PROVE  PipeInv(r, w)'
  <1>0. PipeFact(r, w)
    BY PipeFacts
  <1>1. PipeEnds(r, w) /\ PipeLists(r, w) /\ PipeAwake(r, w)
    BY DEF PipeInv
  <1>2. /\ pc[t] = "check" /\ io[t].op # "none" /\ wq_flag' = wq_flag \ {Own(t)}
        /\ waiting_list' = [waiting_list EXCEPT ![Own(t)] = RemoveFirst(@, t)]
        /\ pc' = [pc EXCEPT ![t] = "lock"] /\ io' = io /\ stat' = stat /\ timer' = timer
        /\ stream' = stream
    BY DEF PipeBack, PipeGoes, ringvars
  <1>3. t = r \/ t = w
    <2>1. io[t].op \in fd[t]
      BY <1>1, <1>2 DEF PipeEnds
    <2> QED BY <1>1, <2>1, EndSteps
  <1>4. PICK q \in Queue : q = Own(t)
    BY DEF Own, Queue
  <1>5. /\ q = (IF t = r THEN "reader" ELSE "writer") /\ waiting_list[q] = << >>
    BY <1>0, <1>2, <1>3, <1>4 DEF PipeFact, Own
  <1>6. waiting_list' = waiting_list
    <2>1. waiting_list \in [Queue -> Seq(Thread)]
      BY DEF PipeOK
    <2>2. RemoveFirst(<< >>, t) = << >>
      BY NothingUnlinked
    <2> QED BY <1>2, <1>4, <1>5, <2>1, <2>2
  <1>7. PipeEnds(r, w)'
    <2>1. pc[t] # "run" /\ "lock" # "run" /\ \A u \in Thread : io'[u] = io[u]
      BY <1>2
    <2> QED BY <1>0, <1>1, <1>2, <2>1, EndsKept
  <1>8. pc'[t] = "lock" /\ \A u \in Thread \ {t} : pc'[u] = pc[u]
    BY <1>0, <1>2 DEF PipeFact
  <1>9. PipeLists(r, w)'
    <2>1. \A u \in {r, w} : pc[u] \in {"schedule", "off"} => pc'[u] \in {"schedule", "off"}
      BY <1>0, <1>2, <1>8 DEF PipeFact
    <2> QED BY <1>1, <1>2, <1>6, <2>1, ListsSame
  <1>10. CASE t = r
    <2>1. pc'[r] = "lock" /\ pc'[w] = pc[w] /\ q = "reader"
      BY <1>0, <1>5, <1>8, <1>10 DEF PipeFact
    <2>2. PipeAwake(r, w)'
      BY <1>1, <1>2, <1>4, <1>6, <2>1 DEF PipeAwake, ReaderMay, WriterMay
    <2> QED BY <1>7, <1>9, <2>2 DEF PipeInv
  <1>11. CASE t = w
    <2>1. pc'[w] = "lock" /\ pc'[r] = pc[r] /\ q = "writer" /\ pc[w] = "check"
      BY <1>0, <1>2, <1>5, <1>8, <1>11 DEF PipeFact
    <2>2. PipeAwake(r, w)'
      BY <1>1, <1>2, <1>4, <1>6, <2>1 DEF PipeAwake, ReaderMay, WriterMay
    <2> QED BY <1>7, <1>9, <2>2 DEF PipeInv
  <1> QED BY <1>3, <1>10, <1>11

\* Every step of the pipe keeps the types.
LEMMA AnyPipeStepOK == ASSUME PipeOK, AnyPipeStep PROVE PipeOK'
  <1>1. ASSUME NEW t \in Thread, NEW mode \in Call[t].pipe_open, pipe_fops_open(t, mode)
        PROVE  PipeOK'
    <2>1. mode \in SUBSET {"read", "write"} /\ mode # {}
      BY CallAssumption
    <2> QED BY <1>1, <2>1, OpenOK
  <1>2. ASSUME NEW t \in Thread, NEW op \in fd[t], NEW count \in Call[t].pipe_count,
               NEW nonblock \in BOOLEAN, PipeCall(t, op, count, nonblock)
        PROVE  PipeOK'
    <2>1. op \in {"read", "write"} /\ count \in Nat
      BY CallAssumption DEF PipeOK
    <2> QED BY <1>2, <2>1, PipeCallOK
  <1> QED BY <1>1, <1>2, CloseOK, PipeStepOK DEF AnyPipeStep, PipeNext

\* Every step of the pipe keeps the invariant of its two ends.
LEMMA AnyPipeStepInv ==
    ASSUME NEW r, NEW w, Ends(r, w), WaitOK, PipeOK, PipeInv(r, w), AnyPipeStep
    PROVE  PipeInv(r, w)'
  <1>1. PipeOK'
    BY AnyPipeStepOK
  <1>2. ASSUME NEW t \in Thread, PipeStep(t) PROVE PipeInv(r, w)'
    <2>1. fd' = fd
      BY <1>2 DEF PipeStep
    <2> QED BY <1>2, <2>1, ReadRoundInv, WriteRoundInv, PipeWakesInv, PipeWaitsInv, PipeBackInv
         DEF PipeStep
  <1>3. ASSUME NEW t \in Thread, pipe_fops_close(t) PROVE PipeInv(r, w)'
    BY <1>1, <1>3, CloseInv
  <1> QED BY <1>2, <1>3, OpenInv, PipeCallInv DEF AnyPipeStep, PipeNext

\* A thread that goes on or times out keeps the types.
LEMMA PipeOthersOK ==
    ASSUME PipeOK, NEW t \in Thread, Proceed(t) \/ Timeout(t) PROVE PipeOK'
  <1>1. UNCHANGED pipevars /\ UNCHANGED ringvars
    BY DEF Proceed, Timeout, NotMail, Drivers
  <1>2. RingInv'
    BY <1>1, RingSame DEF PipeOK
  <1> QED BY <1>1, <1>2, CallOK DEF PipeOK, pipevars

\* A thread that goes on or times out keeps the invariant of the two ends.
LEMMA PipeOthersInv ==
    ASSUME NEW r, NEW w, Ends(r, w), Base, PipeOK, PipeInv(r, w), NEW t \in Thread,
           Proceed(t) \/ Timeout(t)
    PROVE  PipeInv(r, w)'
  <1>0. PipeFact(r, w)
    BY PipeFacts DEF Base
  <1>1. PipeEnds(r, w) /\ PipeLists(r, w) /\ PipeAwake(r, w)
    BY DEF PipeInv
  <1>2. ~Timeout(t)
    BY <1>1 DEF Timeout, rt_thread_timeout, PipeLists
  <1>3. rt_schedule(t) \/ SwitchBack(t)
    BY <1>2 DEF Proceed
  <1>4. /\ fd' = fd /\ io' = io /\ waiting_list' = waiting_list /\ wq_flag' = wq_flag
        /\ stream' = stream /\ stat' = stat /\ timer' = timer
    BY <1>2, <1>3 DEF Proceed, NotMail, Drivers, pipevars, ringvars, rt_schedule, SwitchBack
  <1>5. /\ pc[t] \in {"schedule", "off"} /\ pc'[t] \in {"check", "off"}
        /\ (stat[t] # "READY" => pc'[t] = "off") /\ \A u \in Thread \ {t} : pc'[u] = pc[u]
    BY <1>0, <1>3 DEF rt_schedule, SwitchBack, PipeFact
  <1>6. PipeEnds(r, w)'
    BY <1>0, <1>1, <1>4, <1>5 DEF PipeEnds, PipeFact
  <1>7. PipeLists(r, w)'
    <2>1. ASSUME NEW q \in Queue, waiting_list'[q] # << >>
          PROVE  /\ waiting_list'[q] = <<EndOf(q, r, w)>>
                 /\ stat'[EndOf(q, r, w)] = "SUSPEND" /\ pc'[EndOf(q, r, w)] \in {"schedule", "off"}
      <3>1. EndOf(q, r, w) \in Thread
        BY <1>0 DEF EndOf, PipeFact
      <3>2. /\ waiting_list[q] = <<EndOf(q, r, w)>>
            /\ stat[EndOf(q, r, w)] = "SUSPEND" /\ pc[EndOf(q, r, w)] \in {"schedule", "off"}
        BY <1>1, <1>4, <2>1 DEF PipeLists
      <3> QED BY <1>4, <1>5, <3>1, <3>2
    <2> QED BY <1>1, <1>4, <2>1 DEF PipeLists, EndOf
  <1>8. PipeAwake(r, w)'
    <2>1. ASSUME NEW u \in Thread
          PROVE  /\ pc'[u] \in {"wake", "wait", "last wake"} => pc'[u] = pc[u]
                 /\ pc[u] \in {"wake", "last wake"} => pc'[u] = pc[u]
      BY <1>5
    <2>2. r \in Thread /\ w \in Thread
      BY <1>0 DEF PipeFact
    <2> QED BY <1>1, <1>4, <2>1, <2>2 DEF PipeAwake, ReaderMay, WriterMay
  <1> QED BY <1>6, <1>7, <1>8 DEF PipeInv

\* rt_pipe_create.
LEMMA PipeInitOK == ASSUME PipeInit, RingInit PROVE PipeOK
  <1>1. RingInv
    BY RingInitInv
  <1>2. waiting_list \in [Queue -> Seq(Thread)] /\ wq_flag \subseteq Queue
    BY DEF PipeInit
  <1>3. fd \in [Thread -> SUBSET {"read", "write"}] /\ io \in [Thread -> IoRecord]
    BY NoIoType DEF PipeInit
  <1>4. Opened("read") = {} /\ Opened("write") = {} /\ Users = {}
    BY DEF PipeInit, Opened, Users
  <1>5. Cardinality({}) = 0
    BY FS_EmptySet
  <1> QED BY <1>1, <1>2, <1>3, <1>4, <1>5 DEF PipeOK, PipeInit

\* rt_pipe_create, with the two ends.
LEMMA PipeInitInv == ASSUME NEW r, NEW w, Ends(r, w), PipeInit, WaitInit PROVE PipeInv(r, w)
  <1>1. PipeEnds(r, w)
    BY NoCall DEF PipeInit, WaitInit, PipeEnds, Ends
  <1>2. waiting_list["reader"] = << >> /\ waiting_list["writer"] = << >>
        /\ \A q \in Queue : waiting_list[q] = << >>
    BY DEF PipeInit, Queue
  <1>3. pc[r] = "run" /\ pc[w] = "run" /\ timer = {}
    BY DEF WaitInit, Ends
  <1> QED BY <1>1, <1>2, <1>3 DEF PipeInv, PipeLists, PipeAwake

\* The invariant of the two ends says that no wake-up is lost.
LEMMA PipeInvMeans ==
    ASSUME NEW r, NEW w, Ends(r, w), WaitOK, PipeOK, PipeInv(r, w) PROVE NoLostPipe
  <1>0. PipeFact(r, w)
    BY PipeFacts
  <1>1. PipeAwake(r, w) /\ PipeEnds(r, w) /\ RingHas(rb, stream)
    BY DEF PipeInv, PipeOK, RingInv
  <1>2. /\ readers \in Nat /\ writers \in Nat /\ (readers = 0 <=> fd[r] = {})
        /\ (writers = 0 <=> fd[w] = {})
    BY <1>1, EndCounts
  <1>3. waiting_list["reader"] # << >> =>
          \/ stream = << >> /\ writers > 0
          \/ \E t \in Thread : io[t].op = "write" /\ pc[t] \in {"wake", "last wake"}
    <2> SUFFICES ASSUME waiting_list["reader"] # << >>
                 PROVE  \/ stream = << >> /\ writers > 0
                        \/ \E t \in Thread : io[t].op = "write" /\ pc[t] \in {"wake", "last wake"}
      OBVIOUS
    <2>1. CASE stream = << >> /\ "write" \in fd[w]
      <3>1. fd[w] # {}
        BY <2>1
      <3>2. writers > 0
        BY <1>2, <3>1
      <3> QED BY <2>1, <3>2
    <2>2. CASE pc[w] \in {"wake", "last wake"}
      <3>1. w \in Thread /\ io[w].op = "write"
        BY <1>0, <2>2 DEF PipeFact
      <3> QED BY <2>2, <3>1
    <2> QED BY <1>1, <2>1, <2>2 DEF PipeAwake, ReaderMay
  <1>4. waiting_list["writer"] # << >> => rt_ringbuffer_space_len(rb) = 0 /\ readers > 0
    <2> SUFFICES ASSUME waiting_list["writer"] # << >>
                 PROVE  rt_ringbuffer_space_len(rb) = 0 /\ readers > 0
      OBVIOUS
    <2>1. Len(stream) = BufferSize /\ "read" \in fd[r]
      BY <1>1 DEF PipeAwake, WriterMay
    <2>2. rt_ringbuffer_space_len(rb) = BufferSize - Len(stream) /\ BufferSize \in Nat
      BY <1>1, HasLength, RingSize
    <2> QED BY <1>2, <2>1, <2>2
  <1> QED BY <1>3, <1>4 DEF NoLostPipe

\* A pipe that nobody uses has nobody waiting.
LEMMA PipeAtRest == ASSUME PipeInit PROVE NoLostPipe
  BY DEF PipeInit, NoLostPipe, Queue

-----------------------------------------------------------------------------
(* The driver: what each of its steps leaves alone.                        *)

\* Where the threads of the driver are.
WifiAt ==
    /\ at \in [Thread -> {"idle", "alloc", "sent", "transfer", "exchange", "again"}]
    /\ \A t \in Thread : at[t] \in {"alloc", "sent"} => t \in TxThread
    /\ \A t \in Thread : at[t] \in {"transfer", "exchange", "again"} => t = DataThread
    /\ \A t \in Allocating : at[t] = "alloc" /\ alloc[t] = "forever" /\ error[t] = "EOK"
    /\ \A t \in receiving : at[t] = "transfer"
    /\ data_packet \in Block \cup {NoMsg}
    /\ at[DataThread] # "exchange" => data_packet = NoMsg

\* Threads that wait for a block are not disturbed by what happens to the others.
LEMMA PoolKept ==
    ASSUME WaitOK, PoolInv, SameFor(Allocating),
           UNCHANGED <<block_list, block_free_count, suspend_alloc_thread,
                       suspend_thread_count, alloc, wild_alloc>>,
           block_ptr' \in [Thread -> Block \cup {NoBlock}]
    PROVE  /\ PoolInv' /\ Allocating' = Allocating
           /\ PoolExact /\ timer' \subseteq timer => PoolExact'
  <1>1. PoolLists' /\ PoolCount' /\ Allocating' = Allocating
    BY DEF PoolInv, PoolLists, PoolCount, Allocating
  <1>2. /\ WaitList(suspend_alloc_thread, Allocating, block_free_count, stat, error, pc)
        /\ block_free_count \in Int /\ block_free_count <= block_free_count
    BY PoolFacts DEF PoolInv, PoolWait
  <1>3. WaitList(suspend_alloc_thread, Allocating, block_free_count, stat', error', pc')
    BY <1>2, ListKept
  <1>4. PoolExact /\ timer' \subseteq timer => PoolExact'
    BY DEF PoolExact
  <1> QED BY <1>1, <1>3, <1>4 DEF PoolInv, PoolWait

\* Nor are threads that wait for the event.
LEMMA EventKept ==
    ASSUME WaitOK, EventInv, SameFor(receiving), UNCHANGED evvars
    PROVE  EventInv' /\ receiving' = receiving
  <1>1. /\ EventTypes' /\ EventOnce' /\ NoneOverlooked' /\ receiving' = receiving
        /\ suspend_event_thread' = suspend_event_thread
    BY DEF EventInv, EventTypes, EventOnce, NoneOverlooked, evvars
  <1>2. EventGiven'
    BY DEF EventInv, EventGiven, SameFor, evvars
  <1>3. WaitList(suspend_event_thread, receiving, 0, stat, error, pc) /\ 0 \in Int /\ 0 <= 0
    BY DEF EventInv, EventWait
  <1>4. WaitList(suspend_event_thread, receiving, 0, stat', error', pc')
    BY <1>3, ListKept
  <1> QED BY <1>1, <1>2, <1>4 DEF EventInv, EventWait

\* What an allocation that waits as long as it takes may do.
LEMMA AllocEffect ==
    ASSUME WaitOK, PoolInv, NEW t \in Thread, AllocRound(t, "forever")
    PROVE  /\ SameFor(Thread \ {t}) /\ timer' \subseteq timer
           /\ \/ /\ block_list # << >> /\ block_list' = Tail(block_list) /\ pc'[t] = "run"
                 /\ block_ptr' = [block_ptr EXCEPT ![t] = Head(block_list)]
                 /\ alloc' = [alloc EXCEPT ![t] = "idle"]
              \/ /\ block_list' = block_list /\ pc'[t] = "schedule" /\ error'[t] = "EOK"
                 /\ block_ptr' = block_ptr
                 /\ alloc' = [alloc EXCEPT ![t] = "forever"]
  <1>1. CASE TakeBlock(t) /\ AllocReturns(t)
    <2>1. /\ block_free_count > 0 /\ stat' = stat /\ timer' = timer
          /\ block_list' = Tail(block_list)
          /\ block_ptr' = [block_ptr EXCEPT ![t] = Head(block_list)]
          /\ alloc' = [alloc EXCEPT ![t] = "idle"] /\ Return(t)
      BY <1>1 DEF TakeBlock, AllocReturns
    <2>2. block_list # << >>
      BY <2>1, PoolFacts
    <2>3. pc'[t] = "run" /\ \A u \in Thread \ {t} : pc'[u] = pc[u] /\ error'[u] = error[u]
      BY <2>1, ReturnEffect
    <2> QED BY <2>1, <2>2, <2>3 DEF SameFor
  <1>2. CASE AllocWaits(t, "forever")
    <2>1. /\ Suspend(t, "forever") /\ Fail({t}, "EOK") /\ block_list' = block_list
          /\ block_ptr' = block_ptr /\ alloc' = [alloc EXCEPT ![t] = "forever"]
      BY <1>2 DEF AllocWaits
    <2>2. error'[t] = "EOK" /\ pc'[t] = "schedule" /\ SameFor(Thread \ {t})
      BY <2>1, SuspendEffect
    <2>3. timer' \subseteq timer
      BY <2>1 DEF Suspend
    <2> QED BY <2>1, <2>2, <2>3
  <1> QED BY <1>1, <1>2 DEF AllocRound

\* rt_mp_free touches threads that wait for a block only.
LEMMA FreeEffect ==
    ASSUME WaitOK, PoolInv, NEW b, rt_mp_free(b)
    PROVE  /\ SameFor(Thread \ Allocating) /\ timer' \subseteq timer
           /\ \A u \in Allocating : error[u] = "EOK" => error'[u] = "EOK"
  <1> DEFINE l == suspend_alloc_thread
  <1>1. pc' = pc /\ timer' \subseteq timer
    BY DEF rt_mp_free, Resume
  <1>2. CASE l # << >> /\ suspend_thread_count > 0
    <2>1. Resume({Head(l)}) /\ Fail({Head(l)}, "EOK")
      BY <1>2 DEF rt_mp_free
    <2>2. l \in Seq(Thread)
      BY PoolFacts
    <2>3. Head(l) \in Allocating
      <3>1. Head(l) \in ToSet(l)
        BY <1>2, <2>2, TailList
      <3> QED BY <3>1 DEF PoolInv, PoolWait, WaitList, Queued
    <2>4. /\ \A u \in Thread : stat'[u] = IF u \in {Head(l)} THEN "READY" ELSE stat[u]
          /\ \A u \in Thread : error'[u] = IF u \in {Head(l)} THEN "EOK" ELSE error[u]
      BY <2>1, ResumeEffect DEF Fail
    <2>5. Allocating \subseteq Thread
      BY DEF Allocating
    <2> HIDE DEF l
    <2> QED BY <1>1, <2>3, <2>4, <2>5 DEF SameFor
  <1>3. CASE ~(l # << >> /\ suspend_thread_count > 0)
    <2>1. stat' = stat /\ error' = error
      BY <1>3 DEF rt_mp_free
    <2> QED BY <1>1, <2>1 DEF SameFor
  <1> QED BY <1>2, <1>3

\* rt_event_send touches threads that wait for the event only.
LEMMA SendEffect ==
    ASSUME WaitOK, EventInv, NEW s \in SUBSET EventBit, rt_event_send(s)
    PROVE  /\ SameFor(Thread \ receiving) /\ timer' \subseteq timer
           /\ pc' = pc /\ error' = error
  <1>1. /\ suspend_event_thread \in Seq(Thread) /\ IsInjective(suspend_event_thread)
        /\ ToSet(suspend_event_thread) \subseteq receiving /\ EventTypes /\ EventOnce
    BY EventFacts DEF EventInv
  <1>2. Walk(s).woken \subseteq {suspend_event_thread[j] : j \in 1 .. Len(suspend_event_thread)}
    BY <1>1, WalkDone DEF WalkOK
  <1>3. Walk(s).woken \subseteq receiving
    BY <1>1, <1>2, ListIndices
  <1>4. Resume(Walk(s).woken) /\ pc' = pc /\ error' = error
    BY DEF rt_event_send
  <1>5. PICK W : W = Walk(s).woken
    OBVIOUS
  <1>6. \A u \in Thread : stat'[u] = IF u \in W THEN "READY" ELSE stat[u]
    BY <1>4, <1>5, ResumeEffect
  <1>7. timer' \subseteq timer
    BY <1>4 DEF Resume
  <1> QED BY <1>3, <1>4, <1>5, <1>6, <1>7 DEF SameFor

\* rt_event_recv touches the thread that calls it only.
LEMMA RecvEffect ==
    ASSUME WaitOK, NEW t \in Thread, NEW want, NEW option,
           rt_event_recv(t, want, option, "forever")
    PROVE  SameFor(Thread \ {t}) /\ timer' \subseteq timer /\ pc'[t] \in {"run", "schedule"}
  <1>1. CASE RecvAtOnce(t, want, option)
    <2>1. stat' = stat /\ timer' = timer /\ error' = error /\ pc' = pc /\ pc[t] = "run"
      BY <1>1 DEF RecvAtOnce, rt_event_recv
    <2> QED BY <2>1 DEF SameFor
  <1>2. CASE RecvWaits(t, want, option, "forever")
    <2>1. Suspend(t, "forever") /\ Fail({t}, "EOK")
      BY <1>2 DEF RecvWaits
    <2>2. pc'[t] = "schedule" /\ SameFor(Thread \ {t})
      BY <2>1, SuspendEffect
    <2>3. timer' \subseteq timer
      BY <2>1 DEF Suspend
    <2> QED BY <2>2, <2>3
  <1> QED BY <1>1, <1>2 DEF rt_event_recv

-----------------------------------------------------------------------------
(* The driver: where the blocks are.                                       *)

\* No block is in two of the places: A is the pool, M the mailbox, D the transfer,
\* and G are the threads that have one.
Apart(A, M, D, G, p) ==
    /\ A \subseteq Block /\ M \subseteq Block /\ D \subseteq Block
    /\ A \cap M = {} /\ A \cap D = {} /\ M \cap D = {}
    /\ \A t \in G : p[t] \in Block \ (A \cup M \cup D)
    /\ \A t, u \in G : p[t] = p[u] => t = u

\* Every block is in one of them.
InAll(A, M, D, G, p) == A \cup {p[t] : t \in G} \cup M \cup D = Block

\* A sender takes a block from the pool.
LEMMA BlockTaken ==
    ASSUME NEW A, NEW M, NEW D, NEW G \in SUBSET Thread, NEW S, NEW p \in [Thread -> S],
           Apart(A, M, D, G, p), NEW b \in A, NEW t \in Thread \ G, NEW q,
           q = [p EXCEPT ![t] = b]
    PROVE  /\ Apart(A \ {b}, M, D, G \cup {t}, q)
           /\ InAll(A, M, D, G, p) => InAll(A \ {b}, M, D, G \cup {t}, q)
  <1>1. q[t] = b /\ \A u \in G : q[u] = p[u] /\ u # t
    OBVIOUS
  <1>2. Apart(A \ {b}, M, D, G \cup {t}, q)
    BY <1>1 DEF Apart
  <1>3. {q[u] : u \in G \cup {t}} = {p[u] : u \in G} \cup {b}
    BY <1>1
  <1>4. InAll(A, M, D, G, p) => InAll(A \ {b}, M, D, G \cup {t}, q)
    BY <1>3 DEF InAll
  <1> QED BY <1>2, <1>4

\* A thread sends its block, or drops it.
LEMMA BlockSent ==
    ASSUME NEW A, NEW M, NEW D, NEW G \in SUBSET Thread, NEW S, NEW p \in [Thread -> S],
           Apart(A, M, D, G, p), NEW t \in G, NEW q, \A u \in G \ {t} : q[u] = p[u]
    PROVE  /\ Apart(A, M \cup {p[t]}, D, G \ {t}, q) /\ Apart(A, M, D, G \ {t}, q)
           /\ InAll(A, M, D, G, p) => InAll(A, M \cup {p[t]}, D, G \ {t}, q)
  <1>1. Apart(A, M \cup {p[t]}, D, G \ {t}, q) /\ Apart(A, M, D, G \ {t}, q)
    BY DEF Apart
  <1>2. {q[u] : u \in G \ {t}} \cup {p[t]} = {p[u] : u \in G}
    OBVIOUS
  <1>3. InAll(A, M, D, G, p) => InAll(A, M \cup {p[t]}, D, G \ {t}, q)
    BY <1>2 DEF InAll
  <1> QED BY <1>1, <1>3

\* The data thread takes a block from the mailbox and gives it back to the pool, or
\* forgets it.
LEMMA BlockFetched ==
    ASSUME NEW A, NEW M, NEW G, NEW p, Apart(A, M, {}, G, p), NEW b \in M
    PROVE  /\ Apart(A, M \ {b}, {b}, G, p)
           /\ InAll(A, M, {}, G, p) => InAll(A, M \ {b}, {b}, G, p)
  BY DEF Apart, InAll

\* The block in the transfer goes back to the pool, or is forgotten.
LEMMA BlockFreed ==
    ASSUME NEW A, NEW M, NEW D, NEW G, NEW p, Apart(A, M, D, G, p)
    PROVE  /\ Apart(A \cup D, M, {}, G, p) /\ Apart(A, M, {}, G, p)
           /\ InAll(A, M, D, G, p) => InAll(A \cup D, M, {}, G, p)
  BY DEF Apart, InAll

\* Pointers that are not a holder's do not matter.
LEMMA BlockStays ==
    ASSUME NEW A, NEW M, NEW D, NEW G, NEW p, NEW q, \A t \in G : q[t] = p[t]
    PROVE  /\ Apart(A, M, D, G, p) => Apart(A, M, D, G, q)
           /\ InAll(A, M, D, G, p) => InAll(A, M, D, G, q)
  <1>1. {q[t] : t \in G} = {p[t] : t \in G}
    OBVIOUS
  <1> QED BY <1>1 DEF Apart, InAll

\* The places of the driver.
InPool == ToSet(block_list)
InMail == ToSet(MailQueue)
InMove == IF data_packet = NoMsg THEN {} ELSE {data_packet}

WifiPlaces ==
    /\ MailQueue \in Seq(Block) /\ IsInjective(MailQueue)
    /\ Apart(InPool, InMail, InMove, Holding, block_ptr)

WifiAll == InAll(InPool, InMail, InMove, Holding, block_ptr)

WifiInv == MailRing /\ PoolInv /\ PoolExact /\ EventInv /\ WifiAt /\ WifiPlaces

\* The slave is always ready and the mailbox has room for all blocks.
Lossless == SRDY = {TRUE} /\ Size >= Cardinality(Block)

\* The mailbox, as long as nobody sends or receives.
LEMMA MailSame ==
    ASSUME UNCHANGED ring, value' = value
    PROVE  MailQueue' = MailQueue /\ (MailRing => MailRing')
  BY DEF ring, MailQueue, MailRing

\* Holders are threads.
LEMMA HoldingType == Holding \subseteq Thread
  BY WifiAssumption DEF Holding

\* A block in the hands of a thread is not in the mailbox, so that there is room.
LEMMA MailHasRoom ==
    ASSUME MailRing, WifiPlaces, Size >= Cardinality(Block), NEW t \in Holding
    PROVE  entry < Size
  <1>1. MailQueue \in Seq(Block) /\ IsInjective(MailQueue) /\ block_ptr[t] \in Block
        /\ block_ptr[t] \notin ToSet(MailQueue)
    BY DEF WifiPlaces, Apart, InMail
  <1>2. Len(MailQueue) < Cardinality(Block)
    BY <1>1, PoolAssumption, CountedList
  <1>3. Len(MailQueue) = entry /\ entry \in Nat
    BY MailAssumption DEF MailQueue, MailRing
  <1>4. Cardinality(Block) \in Nat
    BY PoolAssumption, FS_CardinalityType
  <1> QED BY <1>2, <1>3, <1>4, MailAssumption

-----------------------------------------------------------------------------
(* The steps of the driver.                                                *)

\* A thread allocates, in rw009_wifi_tx or when it is back.
LEMMA WifiAllocInv ==
    ASSUME WaitOK, WifiInv, NEW t \in TxThread, AllocRound(t, "forever"),
           wild_alloc' = wild_alloc, at[t] \in {"idle", "alloc"}, stat[t] = "READY",
           pc[t] \in {"run", "check"}, t \notin Holding,
           at' = [at EXCEPT ![t] = "alloc"], data_packet' = data_packet,
           UNCHANGED <<mbvars, evvars>>
    PROVE  WifiInv' /\ (WifiAll => WifiAll')
  <1>0. MailRing /\ PoolInv /\ PoolExact /\ EventInv /\ WifiAt /\ WifiPlaces /\ t \in Thread
    BY WifiAssumption DEF WifiInv
  <1>1. PoolInv' /\ PoolExact'
    BY <1>0, AllocRoundInv
  <1>2. /\ SameFor(Thread \ {t}) /\ timer' \subseteq timer
        /\ \/ /\ block_list # << >> /\ block_list' = Tail(block_list) /\ pc'[t] = "run"
              /\ block_ptr' = [block_ptr EXCEPT ![t] = Head(block_list)]
              /\ alloc' = [alloc EXCEPT ![t] = "idle"]
           \/ /\ block_list' = block_list /\ pc'[t] = "schedule" /\ error'[t] = "EOK"
              /\ block_ptr' = block_ptr
              /\ alloc' = [alloc EXCEPT ![t] = "forever"]
    BY <1>0, AllocEffect
  <1>3. MailRing' /\ MailQueue' = MailQueue
    BY <1>0, MailSame DEF mbvars
  <1>4. t \notin receiving /\ receiving \subseteq Thread
    BY <1>0, EventFacts DEF WifiAt
  <1>5. EventInv' /\ receiving' = receiving
    <2>1. SameFor(receiving)
      BY <1>2, <1>4 DEF SameFor
    <2> QED BY <1>0, <2>1, EventKept
  <1>6. /\ at \in [Thread -> {"idle", "alloc", "sent", "transfer", "exchange", "again"}]
        /\ alloc \in [Thread -> {"idle", "none", "ticks", "forever"}]
        /\ block_ptr \in [Thread -> Block \cup {NoBlock}]
        /\ block_list \in Seq(Block) /\ IsInjective(block_list)
        /\ t # DataThread /\ DataThread \in Thread
    BY <1>0, WifiAssumption DEF WifiAt, PoolInv, PoolLists
  <1>7. WifiAt'
    <2>1. \A u \in Allocating' :
             at'[u] = "alloc" /\ alloc'[u] = "forever" /\ error'[u] = "EOK"
      <3> SUFFICES ASSUME NEW u \in Thread, alloc'[u] # "idle"
                   PROVE  at'[u] = "alloc" /\ alloc'[u] = "forever" /\ error'[u] = "EOK"
        BY DEF Allocating
      <3>1. CASE u = t
        BY <1>2, <1>6, <3>1
      <3>2. CASE u # t
        <4>1. alloc'[u] = alloc[u] /\ at'[u] = at[u] /\ error'[u] = error[u]
          BY <1>2, <1>6, <3>2 DEF SameFor
        <4> QED BY <1>0, <4>1 DEF WifiAt, Allocating
      <3> QED BY <3>1, <3>2
    <2>2. \A u \in Thread : at'[u] = IF u = t THEN "alloc" ELSE at[u]
      BY <1>6
    <2>3. at' \in [Thread -> {"idle", "alloc", "sent", "transfer", "exchange", "again"}]
      BY <1>6
    <2> QED BY <1>0, <1>4, <1>5, <1>6, <2>1, <2>2, <2>3 DEF WifiAt
  <1>8. InMove' = InMove /\ InMail' = InMail
    BY <1>3 DEF InMove, InMail
  <1>9. \A u \in TxThread : u # t => (u \in Holding' <=> u \in Holding)
    BY <1>2, <1>6, WifiAssumption DEF Holding, SameFor
  <1>10. Apart(InPool, InMail, InMove, Holding, block_ptr) /\ Holding \subseteq TxThread
         /\ Holding' \subseteq TxThread
    BY <1>0 DEF WifiPlaces, Holding
  <1>11. CASE /\ block_list # << >> /\ block_list' = Tail(block_list) /\ pc'[t] = "run"
              /\ block_ptr' = [block_ptr EXCEPT ![t] = Head(block_list)]
    <2>1. Head(block_list) \in InPool /\ InPool' = InPool \ {Head(block_list)}
      BY <1>6, <1>11, TailList DEF InPool
    <2>2. t \in Holding'
      <3>1. at'[t] = "alloc" /\ pc'[t] = "run" /\ t \in TxThread
        BY <1>0, <1>6, <1>11
      <3> QED BY <3>1 DEF Holding
    <2>3. Holding' = Holding \cup {t}
      BY <1>9, <1>10, <2>2
    <2>4. Holding \in SUBSET Thread /\ t \in Thread \ Holding
      BY <1>0, HoldingType
    <2> DEFINE A == InPool
               M == InMail
               D == InMove
               G == Holding
               b == Head(block_list)
    <2> HIDE DEF A, M, D, G
    <2>5. /\ Apart(A \ {b}, M, D, G \cup {t}, block_ptr')
          /\ InAll(A, M, D, G, block_ptr) => InAll(A \ {b}, M, D, G \cup {t}, block_ptr')
      <3>1. Apart(A, M, D, G, block_ptr) /\ b \in A /\ t \in Thread \ G /\ G \in SUBSET Thread
        BY <1>10, <2>1, <2>4 DEF A, M, D, G
      <3> HIDE DEF b
      <3>2. block_ptr' = [block_ptr EXCEPT ![t] = b]
        BY <1>11 DEF b
      <3> QED BY <1>6, <3>1, <3>2, BlockTaken
    <2> QED BY <1>0, <1>1, <1>3, <1>5, <1>7, <1>8, <2>1, <2>3, <2>5
            DEF WifiInv, WifiPlaces, WifiAll, A, M, D, G
  <1>12. CASE block_list' = block_list /\ pc'[t] = "schedule" /\ block_ptr' = block_ptr
    <2>1. Holding' = Holding
      <3>1. t \notin Holding'
        BY <1>12 DEF Holding
      <3> QED BY <1>9, <1>10, <3>1
    <2>2. InPool' = InPool
      BY <1>12 DEF InPool
    <2> QED BY <1>0, <1>1, <1>3, <1>5, <1>7, <1>8, <1>12, <2>1, <2>2
            DEF WifiInv, WifiPlaces, WifiAll
  <1> QED BY <1>2, <1>11, <1>12

\* rw009_wifi_tx, and a thread that is back in its rt_mp_alloc.
LEMMA WifiTxInv ==
    ASSUME WaitOK, WifiInv, NEW t \in Thread, rw009_wifi_tx(t)
    PROVE  WifiInv' /\ (WifiAll => WifiAll')
  <1>1. /\ t \in TxThread /\ at[t] = "idle" /\ pc[t] = "run" /\ AllocRound(t, "forever")
        /\ wild_alloc' = wild_alloc /\ data_packet' = data_packet
        /\ at' = [at EXCEPT ![t] = "alloc"] /\ UNCHANGED <<mbvars, evvars>>
    BY DEF rw009_wifi_tx, rt_mp_alloc, Goes
  <1>2. stat[t] = "READY" /\ t \notin Holding
    BY <1>1, PoolFacts DEF WifiInv, Holding
  <1> QED BY <1>1, <1>2, WifiAllocInv

\* A sender is back from rt_mp_alloc.
LEMMA WifiBackInv ==
    ASSUME WaitOK, WifiInv, NEW t \in Thread, AllocBack(t), NotPool
    PROVE  WifiInv' /\ (WifiAll => WifiAll')
  <1>1. /\ t \in Allocating /\ pc[t] = "check" /\ wild_alloc' = wild_alloc
        /\ at' = at /\ data_packet' = data_packet /\ UNCHANGED <<mbvars, evvars>>
    BY DEF AllocBack, NotPool, wifivars, Allocating
  <1>2. /\ at[t] = "alloc" /\ alloc[t] = "forever" /\ error[t] = "EOK" /\ t \in TxThread
        /\ at \in [Thread -> {"idle", "alloc", "sent", "transfer", "exchange", "again"}]
    BY <1>1 DEF WifiInv, WifiAt
  <1>3. AllocRound(t, "forever")
    BY <1>2 DEF AllocBack
  <1>4. at' = [at EXCEPT ![t] = "alloc"]
    BY <1>1, <1>2
  <1>5. stat[t] = "READY" /\ t \notin Holding
    BY <1>1, PoolFacts DEF WifiInv, Holding
  <1> QED BY <1>1, <1>2, <1>3, <1>4, <1>5, WifiAllocInv

\* What stays if only threads that wait for the event are touched, or a thread that
\* is not in a call.
LEMMA WifiRest ==
    ASSUME WaitOK, WifiInv, SameFor(Allocating), timer' \subseteq timer,
           UNCHANGED <<mbvars, mpvars, data_packet>>
    PROVE  /\ MailRing' /\ PoolInv' /\ PoolExact' /\ Allocating' = Allocating
           /\ \A u \in Allocating : alloc'[u] = alloc[u] /\ error'[u] = error[u]
           /\ InPool' = InPool /\ InMail' = InMail /\ InMove' = InMove
           /\ block_ptr' = block_ptr /\ MailQueue' = MailQueue
  <1>1. MailRing /\ PoolInv /\ PoolExact /\ block_ptr \in [Thread -> Block \cup {NoBlock}]
    BY DEF WifiInv, PoolInv, PoolLists
  <1>2. MailRing' /\ MailQueue' = MailQueue
    BY <1>1, MailSame DEF mbvars
  <1>3. PoolInv' /\ PoolExact' /\ Allocating' = Allocating
    BY <1>1, PoolKept DEF mpvars
  <1> QED BY <1>2, <1>3 DEF InPool, InMail, InMove, mpvars, SameFor

\* A thread or the interrupt handler sends the event, and goes to another place
\* where it has no block.
LEMMA WifiSendInv ==
    ASSUME WaitOK, WifiInv, rt_event_send({1}), UNCHANGED <<mbvars, mpvars, data_packet>>,
           \/ at' = at
           \/ \E t \in Thread : /\ at[t] \in {"sent", "again"} /\ pc[t] = "run"
                                /\ at' = [at EXCEPT ![t] = "idle"]
    PROVE  WifiInv' /\ (WifiAll => WifiAll')
  <1>0. /\ MailRing /\ PoolInv /\ PoolExact /\ EventInv /\ WifiAt /\ WifiPlaces
        /\ {1} \in SUBSET EventBit
    BY WifiAssumption DEF WifiInv
  <1>1. EventInv' /\ receiving' = receiving
    BY <1>0, EventSendInv
  <1>2. /\ SameFor(Thread \ receiving) /\ timer' \subseteq timer /\ pc' = pc /\ error' = error
    BY <1>0, SendEffect
  <1>3. SameFor(Allocating)
    <2>1. \A u \in Allocating : u \in Thread /\ u \notin receiving
      <3>1. \A u \in Allocating : u \in Thread /\ at[u] = "alloc"
        BY <1>0 DEF WifiAt, Allocating
      <3> QED BY <1>0, <3>1 DEF WifiAt
    <2> QED BY <1>2, <2>1 DEF SameFor
  <1>4. /\ MailRing' /\ PoolInv' /\ PoolExact' /\ Allocating' = Allocating
        /\ \A u \in Allocating : alloc'[u] = alloc[u] /\ error'[u] = error[u]
        /\ InPool' = InPool /\ InMail' = InMail /\ InMove' = InMove
        /\ block_ptr' = block_ptr /\ MailQueue' = MailQueue
    BY <1>2, <1>3, WifiRest
  <1>5. /\ at' \in [Thread -> {"idle", "alloc", "sent", "transfer", "exchange", "again"}]
        /\ \A u \in Thread :
              at'[u] = at[u] \/ (at[u] \in {"sent", "again"} /\ at'[u] = "idle")
    <2>1. at \in [Thread -> {"idle", "alloc", "sent", "transfer", "exchange", "again"}]
      BY <1>0 DEF WifiAt
    <2> QED BY <2>1
  <1>6. WifiAt'
    <2>1. Allocating \subseteq Thread /\ receiving \subseteq Thread /\ DataThread \in Thread
      BY <1>0, EventFacts, WifiAssumption DEF Allocating
    <2>2. at'[DataThread] # "exchange" => data_packet = NoMsg
      BY <1>0, <1>5, <2>1 DEF WifiAt
    <2>3. /\ \A t \in Thread : at'[t] \in {"alloc", "sent"} => t \in TxThread
          /\ \A t \in Thread : at'[t] \in {"transfer", "exchange", "again"} => t = DataThread
      BY <1>0, <1>5 DEF WifiAt
    <2>4. \A t \in Allocating : at'[t] = "alloc" /\ alloc'[t] = "forever" /\ error'[t] = "EOK"
      BY <1>0, <1>4, <1>5, <2>1 DEF WifiAt
    <2>5. \A t \in receiving : at'[t] = "transfer"
      BY <1>0, <1>5, <2>1 DEF WifiAt
    <2> QED BY <1>0, <1>1, <1>4, <1>5, <2>2, <2>3, <2>4, <2>5 DEF WifiAt
  <1>7. Holding' = Holding
    <2>1. \A u \in TxThread : at'[u] = "alloc" <=> at[u] = "alloc"
      BY <1>5, WifiAssumption
    <2> QED BY <1>2, <2>1 DEF Holding
  <1> QED BY <1>0, <1>1, <1>4, <1>6, <1>7 DEF WifiInv, WifiPlaces, WifiAll

\* The data thread waits for the event.
LEMMA WifiRecvInv ==
    ASSUME WaitOK, WifiInv, NEW t \in Thread, DataRecv(t)
    PROVE  WifiInv' /\ (WifiAll => WifiAll')
  <1>0. /\ MailRing /\ PoolInv /\ PoolExact /\ EventInv /\ WifiAt /\ WifiPlaces
        /\ {1} \in SUBSET EventBit /\ {"AND", "CLEAR"} \in EventOption
    BY WifiAssumption DEF WifiInv
  <1>a. /\ t = DataThread /\ at[t] = "idle" /\ pc[t] = "run"
        /\ rt_event_recv(t, {1}, {"AND", "CLEAR"}, "forever")
        /\ at' = [at EXCEPT ![t] = "transfer"] /\ UNCHANGED <<mbvars, mpvars, data_packet>>
    BY DEF DataRecv, Goes, rt_event_recv
  <1>1. EventInv' /\ receiving' \subseteq receiving \cup {t}
    BY <1>0, <1>a, EventRecvInv
  <1>2. SameFor(Thread \ {t}) /\ timer' \subseteq timer
    BY <1>a, RecvEffect
  <1>3. SameFor(Allocating)
    <2>1. \A u \in Allocating : u \in Thread /\ u # t
      BY <1>0, <1>a, PoolFacts
    <2> QED BY <1>2, <2>1 DEF SameFor
  <1>4. /\ MailRing' /\ PoolInv' /\ PoolExact' /\ Allocating' = Allocating
        /\ \A u \in Allocating : alloc'[u] = alloc[u] /\ error'[u] = error[u]
        /\ InPool' = InPool /\ InMail' = InMail /\ InMove' = InMove
        /\ block_ptr' = block_ptr /\ MailQueue' = MailQueue
    BY <1>a, <1>2, <1>3, WifiRest
  <1>5. /\ at' \in [Thread -> {"idle", "alloc", "sent", "transfer", "exchange", "again"}]
        /\ \A u \in Thread : at'[u] = IF u = t THEN "transfer" ELSE at[u]
    <2>1. at \in [Thread -> {"idle", "alloc", "sent", "transfer", "exchange", "again"}]
      BY <1>0 DEF WifiAt
    <2> QED BY <1>a, <2>1
  <1>6. WifiAt'
    <2>1. Allocating \subseteq Thread /\ receiving \subseteq Thread /\ t \notin Allocating
      BY <1>0, <1>a, EventFacts, PoolFacts
    <2>2. data_packet = NoMsg
      BY <1>0, <1>a DEF WifiAt
    <2>3. /\ \A u \in Thread : at'[u] \in {"alloc", "sent"} => u \in TxThread
          /\ \A u \in Thread : at'[u] \in {"transfer", "exchange", "again"} => u = DataThread
      BY <1>0, <1>a, <1>5 DEF WifiAt
    <2>4. \A u \in Allocating : at'[u] = "alloc" /\ alloc'[u] = "forever" /\ error'[u] = "EOK"
      BY <1>0, <1>4, <1>5, <2>1 DEF WifiAt
    <2>5. \A u \in receiving' : at'[u] = "transfer"
      BY <1>0, <1>1, <1>5, <2>1 DEF WifiAt
    <2> QED BY <1>0, <1>a, <1>4, <1>5, <2>2, <2>3, <2>4, <2>5 DEF WifiAt
  <1>7. Holding' = Holding
    <2>1. \A u \in TxThread : u # t /\ u \in Thread
      BY <1>a, WifiAssumption
    <2>2. \A u \in TxThread : at'[u] = at[u] /\ pc'[u] = pc[u]
      BY <1>2, <1>5, <2>1 DEF SameFor
    <2> QED BY <2>2 DEF Holding
  <1> QED BY <1>0, <1>1, <1>4, <1>6, <1>7 DEF WifiInv, WifiPlaces, WifiAll

\* It is back from rt_event_recv.
LEMMA WifiEventBackInv ==
    ASSUME WaitOK, WifiInv, NEW t \in Thread, EventBack(t), NotEvent
    PROVE  WifiInv' /\ (WifiAll => WifiAll')
  <1>0. MailRing /\ PoolInv /\ PoolExact /\ EventInv /\ WifiAt /\ WifiPlaces
    BY DEF WifiInv
  <1>a. /\ t \in receiving /\ Return(t) /\ stat' = stat /\ timer' = timer /\ at' = at
        /\ UNCHANGED <<mbvars, mpvars, data_packet>>
    BY DEF EventBack, NotEvent, wifivars
  <1>1. EventInv' /\ receiving' = receiving \ {t}
    BY <1>0, EventBackInv
  <1>2. \A u \in Thread \ {t} : pc'[u] = pc[u] /\ error'[u] = error[u]
    BY <1>a, ReturnEffect
  <1>b. at[t] = "transfer" /\ t = DataThread
    BY <1>0, <1>a DEF WifiAt
  <1>3. SameFor(Allocating)
    <2>1. \A u \in Allocating : u \in Thread /\ at[u] = "alloc"
      BY <1>0 DEF WifiAt, Allocating
    <2> QED BY <1>a, <1>b, <1>2, <2>1 DEF SameFor
  <1>4. /\ MailRing' /\ PoolInv' /\ PoolExact' /\ Allocating' = Allocating
        /\ \A u \in Allocating : alloc'[u] = alloc[u] /\ error'[u] = error[u]
        /\ InPool' = InPool /\ InMail' = InMail /\ InMove' = InMove
        /\ block_ptr' = block_ptr /\ MailQueue' = MailQueue
    BY <1>a, <1>3, WifiRest
  <1>6. WifiAt'
    <2>4. \A u \in Allocating : at[u] = "alloc" /\ alloc'[u] = "forever" /\ error'[u] = "EOK"
      BY <1>0, <1>4 DEF WifiAt
    <2> QED BY <1>0, <1>a, <1>1, <1>4, <2>4 DEF WifiAt
  <1>7. Holding' = Holding
    <2>1. \A u \in TxThread : u # t /\ u \in Thread
      BY <1>b, WifiAssumption
    <2> QED BY <1>a, <1>2, <2>1 DEF Holding
  <1> QED BY <1>0, <1>1, <1>4, <1>6, <1>7 DEF WifiInv, WifiPlaces, WifiAll

\* A thread sends its block to the mailbox, or drops it because there is no room.
LEMMA WifiMailInv ==
    ASSUME WaitOK, MailIdle, WifiInv, NEW t \in Thread, pc[t] = "run", TxSend(t)
    PROVE  WifiInv' /\ (Lossless /\ WifiAll => WifiAll')
  <1>0. MailRing /\ PoolInv /\ PoolExact /\ EventInv /\ WifiAt /\ WifiPlaces
    BY DEF WifiInv
  <1> DEFINE b == block_ptr[t]
  <1>1. /\ at[t] = "alloc" /\ rt_mb_send_wait(t, b, "none")
        /\ block_ptr' = [block_ptr EXCEPT ![t] = NoBlock] /\ at' = [at EXCEPT ![t] = "sent"]
        /\ UNCHANGED <<block_list, block_free_count, suspend_alloc_thread,
                       suspend_thread_count, alloc, wild_alloc, evvars, data_packet>>
    BY DEF TxSend, Goes
  <1>2. t \in TxThread /\ t \in Holding /\ t # DataThread /\ DataThread \in Thread
    BY <1>0, <1>1, WifiAssumption DEF WifiAt, Holding
  <1>3. b \in Block /\ b \in Msg
    BY <1>0, <1>2, WifiAssumption DEF WifiPlaces, Apart
  <1>4. /\ SendRound(t, b, "none") /\ MailReturns(t)
        /\ \/ Deposit(b)
           \/ entry = Size /\ UNCHANGED <<stat, timer, ring, value>>
    BY <1>1 DEF rt_mb_send_wait, SendRound
  <1>5. stat' = stat /\ timer' = timer /\ Return(t)
    BY <1>4 DEF Deposit, MailIdle, MailReturns
  <1>6. SameFor(Thread \ {t}) /\ pc'[t] = "run"
    BY <1>5, ReturnEffect DEF SameFor
  <1>7. /\ Allocating \subseteq Thread /\ t \notin Allocating
        /\ receiving \subseteq Thread /\ t \notin receiving
    BY <1>0, PoolFacts, EventFacts
  <1>8. SameFor(Allocating) /\ SameFor(receiving)
    BY <1>6, <1>7 DEF SameFor
  <1>9. /\ block_ptr \in [Thread -> Block \cup {NoBlock}]
        /\ block_ptr' \in [Thread -> Block \cup {NoBlock}]
    BY <1>0, <1>1 DEF PoolInv, PoolLists
  <1>10. PoolInv' /\ PoolExact' /\ Allocating' = Allocating
    BY <1>0, <1>1, <1>5, <1>8, <1>9, PoolKept
  <1>11. EventInv' /\ receiving' = receiving
    BY <1>0, <1>1, <1>8, EventKept
  <1>12. /\ at' \in [Thread -> {"idle", "alloc", "sent", "transfer", "exchange", "again"}]
         /\ \A u \in Thread : at'[u] = IF u = t THEN "sent" ELSE at[u]
    BY <1>0, <1>1 DEF WifiAt
  <1>13. WifiAt'
    <2>1. \A u \in Allocating : at'[u] = "alloc" /\ alloc'[u] = "forever" /\ error'[u] = "EOK"
      BY <1>0, <1>1, <1>7, <1>8, <1>12 DEF WifiAt, SameFor
    <2>2. \A u \in receiving : at'[u] = "transfer"
      BY <1>0, <1>7, <1>12 DEF WifiAt
    <2>3. /\ \A u \in Thread : at'[u] \in {"alloc", "sent"} => u \in TxThread
          /\ \A u \in Thread : at'[u] \in {"transfer", "exchange", "again"} => u = DataThread
          /\ at'[DataThread] # "exchange" => data_packet = NoMsg
      BY <1>0, <1>2, <1>12 DEF WifiAt
    <2> QED BY <1>0, <1>1, <1>10, <1>11, <1>12, <2>1, <2>2, <2>3 DEF WifiAt
  <1>14. Holding' = Holding \ {t}
    <2>1. \A u \in TxThread : u # t => at'[u] = at[u] /\ pc'[u] = pc[u]
      BY <1>6, <1>12, WifiAssumption DEF SameFor
    <2>2. at'[t] # "alloc"
      BY <1>12
    <2> QED BY <2>1, <2>2 DEF Holding
  <1>15. InPool' = InPool /\ InMove' = InMove
    BY <1>1 DEF InPool, InMove
  <1> DEFINE A == InPool
             M == InMail
             D == InMove
             G == Holding
  <1>16. /\ Apart(A, M \cup {b}, D, G \ {t}, block_ptr') /\ Apart(A, M, D, G \ {t}, block_ptr')
         /\ InAll(A, M, D, G, block_ptr) => InAll(A, M \cup {b}, D, G \ {t}, block_ptr')
    <2>1. G \in SUBSET Thread /\ t \in G /\ Apart(A, M, D, G, block_ptr)
      BY <1>0, <1>2, HoldingType DEF WifiPlaces
    <2> HIDE DEF A, M, D, G
    <2>2. \A u \in G \ {t} : block_ptr'[u] = block_ptr[u]
      BY <1>1, <1>9, <2>1
    <2> QED BY <1>9, <2>1, <2>2, BlockSent
  <1>17. CASE Deposit(b)
    <2>1. MailRing' /\ MailQueue' = Append(MailQueue, b)
      BY <1>0, <1>3, <1>17, DepositRing
    <2>2. b \notin ToSet(MailQueue) /\ MailQueue \in Seq(Block) /\ IsInjective(MailQueue)
      BY <1>0, <1>2 DEF WifiPlaces, Apart, InMail
    <2>3. MailQueue' \in Seq(Block) /\ IsInjective(MailQueue') /\ InMail' = InMail \cup {b}
      BY <1>3, <2>1, <2>2, AppendedList DEF InMail
    <2> QED BY <1>0, <1>10, <1>11, <1>13, <1>14, <1>15, <1>16, <2>1, <2>3
            DEF WifiInv, WifiPlaces, WifiAll
  <1>18. CASE entry = Size /\ UNCHANGED <<stat, timer, ring, value>>
    <2>1. MailRing' /\ MailQueue' = MailQueue
      BY <1>0, <1>18, MailSame
    <2>2. InMail' = InMail
      BY <2>1 DEF InMail
    <2>3. ~Lossless
      <3>1. SUFFICES ASSUME Lossless PROVE FALSE
        OBVIOUS
      <3>2. entry < Size
        BY <1>0, <1>2, <3>1, MailHasRoom DEF Lossless
      <3> QED BY <1>18, <3>2, MailAssumption
    <2> QED BY <1>0, <1>10, <1>11, <1>13, <1>14, <1>15, <1>16, <2>1, <2>2, <2>3
            DEF WifiInv, WifiPlaces, WifiAll
  <1> QED BY <1>4, <1>17, <1>18

\* The data thread looks into the mailbox.
LEMMA WifiTransferInv ==
    ASSUME WaitOK, MailIdle, WifiInv, NEW t \in Thread, pc[t] = "run", TransferMail(t)
    PROVE  WifiInv' /\ (WifiAll => WifiAll')
  <1>0. MailRing /\ PoolInv /\ PoolExact /\ EventInv /\ WifiAt /\ WifiPlaces
    BY DEF WifiInv
  <1>1. /\ at[t] = "transfer" /\ rt_mb_recv(t, "none")
        /\ data_packet' = (IF entry > 0 THEN value' ELSE NoMsg)
        /\ at' = [at EXCEPT ![t] = "exchange"] /\ UNCHANGED <<mpvars, evvars>>
    BY DEF TransferMail, Goes
  <1>2. t = DataThread /\ data_packet = NoMsg /\ DataThread \in Thread \ TxThread
    BY <1>0, <1>1, WifiAssumption DEF WifiAt
  <1>4. /\ MailReturns(t)
        /\ \/ Withdraw
           \/ entry = 0 /\ UNCHANGED <<stat, timer, ring, value>>
    BY <1>1 DEF rt_mb_recv, RecvRound
  <1>5. stat' = stat /\ timer' = timer /\ Return(t)
    BY <1>4 DEF Withdraw, MailIdle, MailReturns
  <1>6. SameFor(Thread \ {t}) /\ pc'[t] = "run"
    BY <1>5, ReturnEffect DEF SameFor
  <1>7. /\ Allocating \subseteq Thread /\ t \notin Allocating
        /\ receiving \subseteq Thread /\ t \notin receiving
    BY <1>0, PoolFacts, EventFacts
  <1>8. SameFor(Allocating) /\ SameFor(receiving)
    BY <1>6, <1>7 DEF SameFor
  <1>9. block_ptr \in [Thread -> Block \cup {NoBlock}] /\ block_ptr' = block_ptr
    BY <1>0, <1>1 DEF PoolInv, PoolLists, mpvars
  <1>10. PoolInv' /\ PoolExact' /\ Allocating' = Allocating
    BY <1>0, <1>1, <1>5, <1>8, <1>9, PoolKept DEF mpvars
  <1>11. EventInv' /\ receiving' = receiving
    BY <1>0, <1>1, <1>8, EventKept
  <1>12. /\ at' \in [Thread -> {"idle", "alloc", "sent", "transfer", "exchange", "again"}]
         /\ \A u \in Thread : at'[u] = IF u = t THEN "exchange" ELSE at[u]
    BY <1>0, <1>1 DEF WifiAt
  <1>13. data_packet' \in Block \cup {NoMsg} => WifiAt'
    <2>1. \A u \in Allocating : at'[u] = "alloc" /\ alloc'[u] = "forever" /\ error'[u] = "EOK"
      BY <1>0, <1>1, <1>7, <1>8, <1>12 DEF WifiAt, SameFor, mpvars
    <2>2. \A u \in receiving : at'[u] = "transfer"
      BY <1>0, <1>7, <1>12 DEF WifiAt
    <2>3. /\ \A u \in Thread : at'[u] \in {"alloc", "sent"} => u \in TxThread
          /\ \A u \in Thread : at'[u] \in {"transfer", "exchange", "again"} => u = DataThread
          /\ at'[DataThread] = "exchange"
      BY <1>0, <1>2, <1>12 DEF WifiAt
    <2> QED BY <1>10, <1>11, <1>12, <2>1, <2>2, <2>3 DEF WifiAt
  <1>14. Holding' = Holding
    <2>1. \A u \in TxThread : at'[u] = at[u] /\ pc'[u] = pc[u]
      BY <1>2, <1>6, <1>12, WifiAssumption DEF SameFor
    <2> QED BY <2>1 DEF Holding
  <1>15. InPool' = InPool /\ InMove = {}
    BY <1>1, <1>2 DEF InPool, InMove, mpvars
  <1>16. MailQueue \in Seq(Block) /\ IsInjective(MailQueue) /\ entry \in Nat
    BY <1>0, MailAssumption DEF WifiPlaces, MailRing
  <1>17. CASE Withdraw
    <2>1. /\ MailRing' /\ MailQueue' = Tail(MailQueue) /\ value' = Head(MailQueue)
          /\ MailQueue # << >> /\ entry > 0
      BY <1>0, <1>17, WithdrawRing DEF Withdraw
    <2>2. PICK b : b = Head(MailQueue)
      OBVIOUS
    <2>3. /\ b \in Block /\ b \in ToSet(MailQueue) /\ MailQueue' \in Seq(Block)
          /\ IsInjective(MailQueue') /\ InMail' = InMail \ {b}
      BY <1>16, <2>1, <2>2, TailList DEF InMail
    <2>4. data_packet' = b /\ b # NoMsg
      BY <1>1, <2>1, <2>2, <2>3, MailAssumption, WifiAssumption
    <2>5. InMove' = {b}
      BY <2>4 DEF InMove
    <2> DEFINE A == InPool
               M == InMail
               G == Holding
    <2>6. /\ Apart(A, M \ {b}, {b}, G, block_ptr)
          /\ InAll(A, M, {}, G, block_ptr) => InAll(A, M \ {b}, {b}, G, block_ptr)
      <3>1. b \in M /\ Apart(A, M, {}, G, block_ptr)
        BY <1>0, <1>15, <2>3 DEF WifiPlaces, InMail
      <3> HIDE DEF A, M, G
      <3> QED BY <3>1, BlockFetched
    <2>7. WifiPlaces' /\ (WifiAll => WifiAll')
      BY <1>9, <1>14, <1>15, <2>3, <2>5, <2>6 DEF WifiPlaces, WifiAll
    <2> QED BY <1>10, <1>11, <1>13, <2>1, <2>3, <2>4, <2>7 DEF WifiInv
  <1>18. CASE entry = 0 /\ UNCHANGED <<stat, timer, ring, value>>
    <2>1. MailRing' /\ MailQueue' = MailQueue
      BY <1>0, <1>18, MailSame
    <2>2. InMail' = InMail /\ data_packet' = NoMsg
      BY <1>1, <1>18, <2>1 DEF InMail
    <2>3. InMove' = {}
      BY <2>2 DEF InMove
    <2>7. WifiPlaces' /\ (WifiAll => WifiAll')
      BY <1>0, <1>9, <1>14, <1>15, <2>1, <2>2, <2>3 DEF WifiPlaces, WifiAll
    <2> QED BY <1>10, <1>11, <1>13, <2>1, <2>2, <2>7 DEF WifiInv
  <1> QED BY <1>4, <1>17, <1>18

\* The exchange ends: the block goes back to the pool if the slave was ready.
LEMMA WifiEndsInv ==
    ASSUME WaitOK, WifiInv, NEW t \in Thread, pc[t] = "run", NEW srdy \in BOOLEAN,
           NEW s2m \in BOOLEAN, TransferEnds(t, srdy, s2m)
    PROVE  WifiInv' /\ (srdy /\ WifiAll => WifiAll')
  <1>0. MailRing /\ PoolInv /\ PoolExact /\ EventInv /\ WifiAt /\ WifiPlaces
    BY DEF WifiInv
  <1>1. /\ at[t] = "exchange" /\ data_packet' = NoMsg
        /\ \/ data_packet # NoMsg /\ srdy /\ rt_mp_free(data_packet)
           \/ ~(data_packet # NoMsg /\ srdy) /\ UNCHANGED <<waitvars, mpvars>>
        /\ at' = [at EXCEPT ![t] = IF data_packet = NoMsg /\ ~s2m THEN "idle" ELSE "again"]
        /\ UNCHANGED <<mbvars, evvars>>
    BY DEF TransferEnds, Goes
  <1>2. /\ t = DataThread /\ DataThread \in Thread \ TxThread
        /\ data_packet \in Block \cup {NoMsg}
    BY <1>0, <1>1, WifiAssumption DEF WifiAt
  <1>3. MailRing' /\ MailQueue' = MailQueue
    BY <1>0, <1>1, MailSame DEF mbvars
  <1>4. /\ at' \in [Thread -> {"idle", "alloc", "sent", "transfer", "exchange", "again"}]
        /\ \A u \in Thread : u # t => at'[u] = at[u]
        /\ at'[t] \in {"idle", "again"}
    BY <1>0, <1>1 DEF WifiAt
  <1>5. /\ Allocating \subseteq Thread /\ t \notin Allocating
        /\ receiving \subseteq Thread /\ t \notin receiving
    BY <1>0, PoolFacts, EventFacts
  <1>6. /\ PoolInv' /\ PoolExact' /\ alloc' = alloc /\ block_ptr' = block_ptr /\ pc' = pc
        /\ SameFor(Thread \ Allocating)
        /\ \A u \in Allocating : error[u] = "EOK" => error'[u] = "EOK"
        /\ \/ InPool' = InPool \cup InMove
           \/ ~srdy /\ InPool' = InPool
    <2>1. CASE data_packet # NoMsg /\ srdy /\ rt_mp_free(data_packet)
      <3>1. InMove = {data_packet} /\ data_packet \in Block
        BY <1>2, <2>1 DEF InMove
      <3>2. data_packet \notin ToSet(block_list)
        BY <1>0, <3>1 DEF WifiPlaces, Apart, InPool
      <3>3. /\ PoolInv' /\ PoolExact' /\ alloc' = alloc /\ block_ptr' = block_ptr /\ pc' = pc
            /\ block_list' = <<data_packet>> \o block_list
        BY <1>0, <2>1, <3>1, <3>2, FreeInv
      <3>4. /\ SameFor(Thread \ Allocating)
            /\ \A u \in Allocating : error[u] = "EOK" => error'[u] = "EOK"
        BY <1>0, <2>1, FreeEffect
      <3>5. block_list \in Seq(Block)
        BY <1>0, PoolFacts
      <3>6. ToSet(<<data_packet>> \o block_list) = ToSet(block_list) \cup {data_packet}
        BY <3>1, <3>5, PrependedList
      <3>7. InPool' = InPool \cup InMove
        BY <3>1, <3>3, <3>6 DEF InPool
      <3> QED BY <3>3, <3>4, <3>7
    <2>2. CASE ~(data_packet # NoMsg /\ srdy) /\ UNCHANGED <<waitvars, mpvars>>
      <3>1. /\ SameFor(Allocating) /\ SameFor(Thread \ Allocating) /\ timer' \subseteq timer
            /\ pc' = pc /\ error' = error /\ alloc' = alloc
        BY <2>2 DEF SameFor, waitvars, mpvars
      <3>2. block_ptr' \in [Thread -> Block \cup {NoBlock}] /\ block_ptr' = block_ptr
        BY <1>0, <2>2 DEF PoolInv, PoolLists, mpvars
      <3>3. PoolInv' /\ PoolExact'
        BY <1>0, <2>2, <3>1, <3>2, PoolKept DEF mpvars
      <3>4. InPool' = InPool /\ (srdy => InMove = {})
        BY <2>2 DEF InPool, InMove, mpvars
      <3> QED BY <3>1, <3>2, <3>3, <3>4
    <2> QED BY <1>1, <2>1, <2>2
  <1>7. EventInv' /\ receiving' = receiving
    <2>1. SameFor(receiving)
      <3>1. \A u \in receiving : u \in Thread \ Allocating
        BY <1>0, <1>5 DEF WifiAt
      <3> QED BY <1>6, <3>1 DEF SameFor
    <2> QED BY <1>0, <1>1, <2>1, EventKept
  <1>8. WifiAt'
    <2>1. Allocating' = Allocating
      BY <1>6 DEF Allocating
    <2>2. \A u \in Allocating : at'[u] = "alloc" /\ alloc'[u] = "forever" /\ error'[u] = "EOK"
      BY <1>0, <1>4, <1>5, <1>6 DEF WifiAt
    <2>3. \A u \in receiving : at'[u] = "transfer"
      BY <1>0, <1>4, <1>5 DEF WifiAt
    <2>4. /\ \A u \in Thread : at'[u] \in {"alloc", "sent"} => u \in TxThread
          /\ \A u \in Thread : at'[u] \in {"transfer", "exchange", "again"} => u = DataThread
      BY <1>0, <1>2, <1>4 DEF WifiAt
    <2> QED BY <1>1, <1>4, <1>7, <2>1, <2>2, <2>3, <2>4 DEF WifiAt
  <1>9. Holding' = Holding
    <2>1. \A u \in TxThread : at'[u] = at[u]
      BY <1>2, <1>4, WifiAssumption
    <2> QED BY <1>6, <2>1 DEF Holding
  <1>10. InMove' = {} /\ InMail' = InMail
    BY <1>1, <1>3 DEF InMove, InMail
  <1> DEFINE A == InPool
             M == InMail
             D == InMove
             G == Holding
  <1>11. /\ Apart(A \cup D, M, {}, G, block_ptr) /\ Apart(A, M, {}, G, block_ptr)
         /\ InAll(A, M, D, G, block_ptr) => InAll(A \cup D, M, {}, G, block_ptr)
    <2>1. Apart(A, M, D, G, block_ptr)
      BY <1>0 DEF WifiPlaces
    <2> HIDE DEF A, M, D, G
    <2> QED BY <2>1, BlockFreed
  <1>12. WifiPlaces' /\ (srdy /\ WifiAll => WifiAll')
    BY <1>0, <1>3, <1>6, <1>9, <1>10, <1>11 DEF WifiPlaces, WifiAll
  <1> QED BY <1>3, <1>6, <1>7, <1>8, <1>12 DEF WifiInv

\* The steps of the driver.
LEMMA WifiStepInv ==
    ASSUME WaitOK, MailIdle, WifiInv, DriverStep
    PROVE  WifiInv' /\ (Lossless /\ WifiAll => WifiAll')
  <1>1. ASSUME NEW t \in Thread, WifiStep(t)
        PROVE  WifiInv' /\ (Lossless /\ WifiAll => WifiAll')
    <2>0. pc[t] = "run"
      BY <1>1 DEF WifiStep
    <2>1. CASE TxSend(t)
      BY <2>0, <2>1, WifiMailInv
    <2>2. CASE TxEvent(t) \/ DataAgain(t)
      <3>1. /\ rt_event_send({1}) /\ UNCHANGED <<mbvars, mpvars, data_packet>>
            /\ at[t] \in {"sent", "again"} /\ at' = [at EXCEPT ![t] = "idle"]
        BY <2>2 DEF TxEvent, DataAgain, Goes
      <3> QED BY <2>0, <3>1, WifiSendInv
    <2>3. CASE DataRecv(t)
      BY <2>3, WifiRecvInv
    <2>4. CASE TransferMail(t)
      BY <2>0, <2>4, WifiTransferInv
    <2>5. ASSUME NEW srdy \in SRDY, NEW s2m \in BOOLEAN, TransferEnds(t, srdy, s2m)
          PROVE  WifiInv' /\ (Lossless /\ WifiAll => WifiAll')
      <3>1. srdy \in BOOLEAN /\ (Lossless => srdy)
        BY WifiAssumption DEF Lossless
      <3> QED BY <2>0, <2>5, <3>1, WifiEndsInv
    <2> QED BY <1>1, <2>1, <2>2, <2>3, <2>4, <2>5 DEF WifiStep
  <1>2. CASE spi_wifi_isr
    <2>1. rt_event_send({1}) /\ UNCHANGED <<mbvars, mpvars, data_packet>> /\ at' = at
      BY <1>2 DEF spi_wifi_isr, wifivars
    <2> QED BY <2>1, WifiSendInv
  <1> QED BY <1>1, <1>2, WifiTxInv DEF DriverStep

\* A thread goes on in rt_schedule; there are no timeouts.
LEMMA WifiOthersInv ==
    ASSUME Base, WifiInv, NEW t \in Thread, Proceed(t) \/ Timeout(t)
    PROVE  WifiInv' /\ (WifiAll => WifiAll')
  <1>0. MailRing /\ PoolInv /\ PoolExact /\ EventInv /\ WifiAt /\ WifiPlaces
    BY DEF WifiInv
  <1>1. ~Timeout(t)
    BY <1>0 DEF Timeout, rt_thread_timeout, PoolExact
  <1>2. PoolInv' /\ PoolExact' /\ EventInv'
    BY <1>0, PoolOthersInv, EventOthersInv
  <1>3. /\ UNCHANGED <<mbvars, mpvars, evvars, wifivars>> /\ error' = error
        /\ \A u \in Thread : pc'[u] = "run" <=> pc[u] = "run"
    <2>1. sig = {} /\ pc \in [Thread -> Label]
      BY DEF Base, WaitOK
    <2>2. Proceed(t)
      BY <1>1
    <2>3. /\ UNCHANGED <<mbvars, mpvars, evvars, wifivars>> /\ error' = error
      BY <2>1, <2>2 DEF Proceed, NotMail, rt_schedule, SwitchBack
    <2>4. \A u \in Thread : pc'[u] = "run" <=> pc[u] = "run"
      BY <2>1, <2>2 DEF Proceed, rt_schedule, SwitchBack
    <2> QED BY <2>3, <2>4
  <1>4. MailRing' /\ MailQueue' = MailQueue
    BY <1>0, <1>3, MailSame DEF mbvars
  <1>5. WifiAt'
    BY <1>0, <1>3 DEF WifiAt, Allocating, wifivars, mpvars, evvars
  <1>6. Holding' = Holding
    BY <1>3, WifiAssumption DEF Holding, wifivars
  <1>7. InPool' = InPool /\ InMail' = InMail /\ InMove' = InMove /\ block_ptr' = block_ptr
    BY <1>3, <1>4 DEF InPool, InMail, InMove, wifivars, mpvars
  <1>8. WifiPlaces' /\ (WifiAll => WifiAll')
    BY <1>0, <1>4, <1>6, <1>7 DEF WifiPlaces, WifiAll
  <1> QED BY <1>2, <1>4, <1>5, <1>8 DEF WifiInv

\* rt_hw_wifi_init.
LEMMA WifiInitInv ==
    ASSUME WaitOK, timer = {}, MailInit, PoolInit, EventInit, WifiInit
    PROVE  WifiInv /\ WifiAll
  <1>1. PoolInv /\ PoolExact /\ EventInv /\ MailRing
    BY PoolInitInv, EventInitInv, MailInitRing
  <1>2. Allocating = {} /\ receiving = {}
    BY DEF PoolInit, EventInit, Allocating
  <1>3. /\ at = [t \in Thread |-> "idle"] /\ data_packet = NoMsg /\ DataThread \in Thread
        /\ TxThread \subseteq Thread
    BY WifiAssumption DEF WifiInit
  <1>4. WifiAt
    BY <1>2, <1>3 DEF WifiAt
  <1>5. MailQueue = << >>
    BY DEF MailQueue, MailInit
  <1>6. InMail = {} /\ InMove = {} /\ Holding = {}
    <2>1. \A t \in TxThread : at[t] # "alloc"
      BY <1>3
    <2> QED BY <1>3, <1>5, <2>1, EmptyList DEF InMail, InMove, Holding
  <1>7. InPool = Block
    BY PoolAssumption, ListedSet DEF InPool, PoolInit
  <1>8. WifiPlaces /\ WifiAll
    BY <1>5, <1>6, <1>7, EmptyList DEF WifiPlaces, WifiAll, Apart, InAll
  <1> QED BY <1>1, <1>4, <1>8 DEF WifiInv

\* With all blocks in the places, they are counted by the counts.
LEMMA WifiInvMeans ==
    ASSUME WaitOK, WifiInv
    PROVE  WifiTypeOK /\ (WifiAll => BlocksConserved)
  <1>0. MailRing /\ PoolInv /\ WifiAt /\ WifiPlaces
    BY DEF WifiInv
  <1>1. WifiTypeOK
    BY <1>0, WifiAssumption DEF WifiAt, WifiTypeOK
  <1> DEFINE A == InPool
             M == InMail
             D == InMove
             G == Holding
             H == {block_ptr[t] : t \in G}
  <1>2. ASSUME WifiAll PROVE BlocksConserved
    <2>1. /\ IsFiniteSet(A) /\ Cardinality(A) = Len(block_list)
      BY <1>0, PoolFacts, CountedList DEF InPool
    <2>2. /\ IsFiniteSet(M) /\ Cardinality(M) = Len(MailQueue) /\ Len(MailQueue) = entry
      <3>1. Len(MailQueue) = entry
        BY <1>0, MailAssumption DEF MailQueue, MailRing
      <3> QED BY <1>0, <3>1, CountedList DEF InMail, WifiPlaces
    <2>3. IsFiniteSet(D)
      BY FS_EmptySet, FS_Singleton DEF InMove
    <2>4. Apart(A, M, D, G, block_ptr) /\ InAll(A, M, D, G, block_ptr)
      BY <1>0, <1>2 DEF WifiPlaces, WifiAll
    <2>5. IsFiniteSet(G)
      BY HoldingType, IpcAssumption, FS_Subset
    <2> HIDE DEF A, M, D, G
    <2>6. IsFiniteSet(H) /\ Cardinality(H) = Cardinality(G)
      <3> DEFINE f == [t \in G |-> block_ptr[t]]
      <3>1. f \in Bijection(G, H)
        <4>1. f \in [G -> H]
          OBVIOUS
        <4>2. \A a, b \in G : f[a] = f[b] => a = b
          BY <2>4 DEF Apart
        <4>3. \A y \in H : \E a \in G : f[a] = y
          OBVIOUS
        <4> HIDE DEF f, H
        <4> QED BY <4>1, <4>2, <4>3 DEF Bijection, Injection, Surjection, IsInjective
      <3>2. ExistsBijection(G, H)
        BY <3>1 DEF ExistsBijection
      <3> QED BY <2>5, <3>2, FS_Bijection
    <2>7. A \cap H = {} /\ M \cap H = {} /\ D \cap H = {} /\ A \cap M = {} /\ A \cap D = {}
          /\ M \cap D = {}
      BY <2>4 DEF Apart
    <2>8. A \cup H \cup M \cup D = Block
      BY <2>4 DEF InAll
    <2> HIDE DEF H
    <2>9. IsFiniteSet(A \cup H) /\ Cardinality(A \cup H) = Cardinality(A) + Cardinality(H)
      BY <2>1, <2>6, <2>7, DisjointUnion
    <2>10. /\ IsFiniteSet(A \cup H \cup M)
           /\ Cardinality(A \cup H \cup M) = Cardinality(A \cup H) + Cardinality(M)
      <3>1. (A \cup H) \cap M = {}
        BY <2>7
      <3> QED BY <2>2, <2>9, <3>1, DisjointUnion
    <2>11. Cardinality(Block) = Cardinality(A \cup H \cup M) + Cardinality(D)
      <3>1. (A \cup H \cup M) \cap D = {}
        BY <2>7
      <3>2. Cardinality((A \cup H \cup M) \cup D) = Cardinality(A \cup H \cup M) + Cardinality(D)
        BY <2>3, <2>10, <3>1, DisjointUnion
      <3> QED BY <2>8, <3>2
    <2>12. /\ Cardinality(A) \in Nat /\ Cardinality(M) \in Nat /\ Cardinality(D) \in Nat
           /\ Cardinality(H) \in Nat
      BY <2>1, <2>2, <2>3, <2>6, FS_CardinalityType
    <2>13. Len(block_list) + Cardinality(G) + entry + Cardinality(D) = Cardinality(Block)
      BY <2>1, <2>2, <2>6, <2>9, <2>10, <2>11, <2>12
    <2> QED BY <2>8, <2>13 DEF BlocksConserved, A, M, D, G, H, InPool, InMail, InMove
  <1> QED BY <1>1, <1>2

-----------------------------------------------------------------------------
(* All objects.                                                            *)

\* The object in use keeps its invariant.
InUseOK ==
    /\ object = "mailbox" => MailInv
    /\ object = "mempool" => PoolInv
    /\ object = "event" => EventInv
    /\ object = "message queue" => MqInv
    /\ object = "data queue" => DqInv
    /\ object = "completion" => CompletionInv
    /\ object = "pipe" => PipeOK
    /\ object = "wifi" => WifiInv

IpcInv == Base /\ InUseOK

\* A step of nothing.
LEMMA WaitsSame ==
    ASSUME UNCHANGED vars
    PROVE  /\ stat' = stat /\ error' = error /\ pc' = pc /\ timer' = timer
           /\ UNCHANGED <<mbvars, mpvars, evvars, wifivars, mqvars, dqvars, cpvars, ringvars,
                          pipevars>>
  BY DEF vars, waitvars

\* A step of nothing keeps the invariants.
LEMMA MailStutters == ASSUME UNCHANGED vars, MailInv PROVE MailInv'
  <1>1. InCall("recv")' = InCall("recv") /\ InCall("send")' = InCall("send")
    BY WaitsSame DEF InCall, mbvars
  <1> QED BY <1>1, WaitsSame DEF MailInv, MailRing, MailCalls, MailWait, mbvars, ring

\* The pool.
LEMMA PoolStutters ==
    ASSUME UNCHANGED vars PROVE (PoolInv => PoolInv') /\ (PoolExact => PoolExact')
  <1>1. Allocating' = Allocating
    BY WaitsSame DEF Allocating, mpvars
  <1> QED BY <1>1, WaitsSame DEF PoolInv, PoolLists, PoolCount, PoolWait, PoolExact, mpvars

\* The event.
LEMMA EventStutters == ASSUME UNCHANGED vars, EventInv PROVE EventInv'
  BY WaitsSame DEF EventInv, EventTypes, EventWait, EventGiven, EventOnce, NoneOverlooked, evvars

\* The message queue.
LEMMA MqStutters == ASSUME UNCHANGED vars, MqInv PROVE MqInv'
  <1>1. InMq("recv")' = InMq("recv")
    BY WaitsSame DEF InMq, mqvars
  <1>2. ASSUME NEW f, NEW q, MqData(f, q) PROVE MqData(f, q)'
    <2>1. MqTypes' /\ MqCalls'
      BY <1>2, WaitsSame DEF MqData, MqTypes, MqCalls, mqvars, lists
    <2>2. MqLists(f, q)'
      BY <1>2, WaitsSame DEF MqData, MqLists, Hands, mqvars, lists
    <2> QED BY <2>1, <2>2 DEF MqData
  <1> QED BY <1>1, <1>2, WaitsSame DEF MqInv, MqWait, mqvars, lists

\* The data queue.
LEMMA DqStutters == ASSUME UNCHANGED vars, DqInv PROVE DqInv'
  <1>1. InDq("pop")' = InDq("pop") /\ InDq("push")' = InDq("push") /\ DqCount' = DqCount
    BY WaitsSame DEF InDq, DqCount, dqvars, indices
  <1> QED BY <1>1, WaitsSame DEF DqInv, DqRing, DqCalls, DqWait, dqvars, indices

\* The completion.
LEMMA CompletionStutters == ASSUME UNCHANGED vars, CompletionInv PROVE CompletionInv'
  BY WaitsSame DEF CompletionInv, cpvars

\* The pipe and its ring buffer.
LEMMA PipeStutters ==
    ASSUME UNCHANGED vars
    PROVE  (PipeOK => PipeOK') /\ (RingInv => RingInv') /\ \A r, w : PipeInv(r, w) => PipeInv(r, w)'
  <1>1. RingInv => RingInv'
    BY WaitsSame DEF RingInv, ringvars
  <1>2. PipeOK => PipeOK'
    BY <1>1, WaitsSame DEF PipeOK, Opened, Users, pipevars
  <1>3. ASSUME NEW r, NEW w, PipeInv(r, w) PROVE PipeInv(r, w)'
    BY <1>3, WaitsSame DEF PipeInv, PipeEnds, PipeLists, PipeAwake, ReaderMay, WriterMay, pipevars,
       ringvars
  <1> QED BY <1>1, <1>2, <1>3

\* The driver.
LEMMA WifiStutters ==
    ASSUME UNCHANGED vars, WifiInv PROVE WifiInv' /\ (WifiAll => WifiAll')
  <1>1. MailRing' /\ MailQueue' = MailQueue
    BY WaitsSame, MailSame DEF WifiInv, mbvars
  <1>2. PoolInv' /\ PoolExact' /\ EventInv'
    BY PoolStutters, EventStutters DEF WifiInv
  <1>3. WifiAt'
    BY WaitsSame DEF WifiInv, WifiAt, Allocating, wifivars, mpvars, evvars
  <1>4. /\ InPool' = InPool /\ InMail' = InMail /\ InMove' = InMove /\ Holding' = Holding
        /\ block_ptr' = block_ptr
    BY <1>1, WaitsSame DEF InPool, InMail, InMove, Holding, wifivars, mpvars
  <1> QED BY <1>1, <1>2, <1>3, <1>4 DEF WifiInv, WifiPlaces, WifiAll

\* Every step keeps the invariant of the object in use.
LEMMA InUseStep == ASSUME IpcInv, [Next]_vars PROVE IpcInv'
  <1>0. Base /\ WaitOK /\ Base' /\ object' = object /\ StepOf
    BY BaseStep DEF IpcInv, Base
  <1>1. ASSUME object = "mailbox" PROVE MailInv'
    BY <1>0, <1>1, MailStutters, MailStepInv, MailOthersInv DEF IpcInv, InUseOK, StepOf
  <1>2. ASSUME object = "mempool" PROVE PoolInv'
    BY <1>0, <1>2, PoolStutters, PoolStepInv, PoolOthersInv DEF IpcInv, InUseOK, StepOf
  <1>3. ASSUME object = "event" PROVE EventInv'
    BY <1>0, <1>3, EventStutters, EventStepInv, EventOthersInv DEF IpcInv, InUseOK, StepOf
  <1>4. ASSUME object = "message queue" PROVE MqInv'
    BY <1>0, <1>4, MqStutters, MqStepInv, MqOthersInv DEF IpcInv, InUseOK, StepOf
  <1>5. ASSUME object = "data queue" PROVE DqInv'
    BY <1>0, <1>5, DqStutters, DqStepInv, DqOthersInv DEF IpcInv, InUseOK, StepOf
  <1>6. ASSUME object = "completion" PROVE CompletionInv'
    BY <1>0, <1>6, CompletionStutters, CompletionStepInv, CompletionOthersInv
       DEF IpcInv, InUseOK, StepOf
  <1>7. ASSUME object = "pipe" PROVE PipeOK'
    BY <1>0, <1>7, PipeStutters, AnyPipeStepOK, PipeOthersOK DEF IpcInv, InUseOK, StepOf
  <1>8. ASSUME object = "wifi" PROVE WifiInv'
    <2>1. MailIdle
      BY <1>0, <1>8 DEF Base, Elsewhere
    <2> QED BY <1>0, <1>8, <2>1, WifiStutters, WifiBackInv, WifiEventBackInv, WifiStepInv,
            WifiOthersInv DEF IpcInv, InUseOK, StepOf
  <1> QED BY <1>0, <1>1, <1>2, <1>3, <1>4, <1>5, <1>6, <1>7, <1>8 DEF IpcInv, InUseOK

\* All objects are initialised, whichever is in use.
LEMMA InUseInit == Init => IpcInv
  <1> SUFFICES ASSUME Init PROVE IpcInv
    OBVIOUS
  <1>1. Base /\ WaitOK /\ timer = {}
    BY BaseInit DEF Base, Init, WaitInit
  <1>2. \A t \in Thread : pc[t] \notin MqLabel
    BY DEF Init, WaitInit, MqLabel
  <1>3. MailInv
    BY <1>1, MailInitRing, MailAtRest DEF Init
  <1>4. /\ PoolInv /\ EventInv /\ MqInv /\ DqInv /\ CompletionInv /\ PipeOK /\ WifiInv
    BY <1>1, <1>2, PoolInitInv, EventInitInv, MqInitInv, DqInitInv, CompletionInitInv, PipeInitOK,
       WifiInitInv DEF Init
  <1> QED BY <1>1, <1>3, <1>4 DEF IpcInv, InUseOK

\* In every reachable state the object in use satisfies its inductive invariant, and
\* the others are as their initialisation left them.
THEOREM IpcInvariance == Spec => []IpcInv
  <1>1. IpcInv /\ [Next]_vars => IpcInv'
    BY InUseStep
  <1> QED BY <1>1, InUseInit, PTL DEF Spec

\* What holds of each object, used or not.
LEMMA EachObject ==
    ASSUME IpcInv
    PROVE  /\ MailTypeOK /\ NoLostMail /\ NoLostBlock
           /\ EventTypeOK /\ NoneOverlooked /\ ConsumedOnce
           /\ MqTypeOK /\ NoLostMessage /\ ChainsExact
           /\ DqTypeOK /\ NoLostData /\ CompletionTypeOK /\ NoLostDone
           /\ WifiTypeOK /\ PoolInv /\ WaitOK
  <1>0. WaitOK /\ Elsewhere
    BY DEF IpcInv, Base
  <1>1. MailInv
    <2>1. CASE object = "mailbox"
      BY <2>1 DEF IpcInv, InUseOK
    <2>2. CASE object # "mailbox"
      <3>1. MailRing
        BY <1>0, <2>2, MailInitRing DEF IpcInv, InUseOK, Elsewhere, WifiInv
      <3> QED BY <1>0, <2>2, <3>1, MailAtRest DEF Elsewhere
    <2> QED BY <2>1, <2>2
  <1>2. PoolInv
    BY <1>0, PoolInitInv DEF IpcInv, InUseOK, Elsewhere, WifiInv
  <1>3. EventInv
    BY <1>0, EventInitInv DEF IpcInv, InUseOK, Elsewhere, WifiInv
  <1>4. MqInv
    <2>1. object # "message queue" => \A t \in Thread : pc[t] \notin MqLabel
      BY <1>0 DEF WaitOK
    <2> QED BY <1>0, <2>1, MqInitInv DEF IpcInv, InUseOK, Elsewhere
  <1>5. DqInv /\ CompletionInv
    BY <1>0, DqInitInv, CompletionInitInv DEF IpcInv, InUseOK, Elsewhere
  <1>6. WifiTypeOK
    <2>1. CASE object = "wifi"
      BY <1>0, <2>1, WifiInvMeans DEF IpcInv, InUseOK
    <2>2. CASE object # "wifi"
      BY <1>0, <2>2 DEF Elsewhere, WifiInit, WifiTypeOK
    <2> QED BY <2>1, <2>2
  <1> QED BY <1>0, <1>1, <1>2, <1>3, <1>4, <1>5, <1>6, MailInvMeans, PoolInvMeans, EventInvMeans,
          MqInvMeans, DqInvMeans, CompletionInvMeans

\* An event that was sent once is given to one clearing thread, and a thread returns
\* RT_EOK exactly if a send gave it what it waits for, for any threads, events, calls,
\* timeouts and resets, in the driver too.
THEOREM EventConsumedOnce == Spec => []ConsumedOnce
  <1>1. IpcInv => ConsumedOnce
    BY EachObject
  <1> QED BY <1>1, IpcInvariance, PTL

-----------------------------------------------------------------------------
(* The pool, if nobody limits the time that it waits for a block.          *)

ExactPool == object \notin {"mempool", "wifi"} \/ PoolExact

\* Every step keeps the counts of the pool.
LEMMA ExactPoolStep == ASSUME Untimed, IpcInv, ExactPool, [Next]_vars PROVE ExactPool'
  <1>0. Base /\ WaitOK /\ Base' /\ object' = object /\ StepOf /\ IpcInv'
    BY BaseStep, InUseStep DEF IpcInv, Base
  <1>1. ASSUME object = "mempool" PROVE PoolExact'
    <2>1. PoolInv /\ PoolExact
      BY <1>1 DEF IpcInv, InUseOK, ExactPool
    <2> QED BY <1>0, <1>1, <2>1, PoolStutters, PoolStepInv, PoolOthersInv DEF StepOf
  <1>2. ASSUME object = "wifi" PROVE PoolExact'
    BY <1>0, <1>2 DEF IpcInv, InUseOK, WifiInv
  <1> QED BY <1>0, <1>1, <1>2 DEF ExactPool

\* The counts agree at first.
LEMMA ExactPoolInit == Init => ExactPool
  <1> SUFFICES ASSUME Init PROVE PoolExact
    BY DEF ExactPool
  <1>1. WaitOK /\ timer = {} /\ PoolInit
    BY BaseInit DEF Base, Init, WaitInit
  <1> QED BY <1>1, PoolInitInv

\* The counts agree in every reachable state.
LEMMA ExactPoolAlways == Untimed => (Spec => []ExactPool)
  <1> SUFFICES ASSUME Untimed PROVE Spec => []ExactPool
    OBVIOUS
  <1>1. IpcInv /\ ExactPool /\ [Next]_vars => ExactPool'
    BY ExactPoolStep
  <1> QED BY <1>1, ExactPoolInit, IpcInvariance, PTL DEF Spec

\* They give the types and the agreement with the lists.
LEMMA ExactPoolMeans == ASSUME IpcInv, ExactPool PROVE PoolTypeOK /\ CountsExact
  <1>0. WaitOK /\ PoolInv
    BY EachObject
  <1>1. CASE PoolExact
    BY <1>0, <1>1, PoolInvMeans
  <1>2. CASE object \notin {"mempool", "wifi"}
    <2>1. PoolInit
      BY <1>2 DEF IpcInv, Base, Elsewhere
    <2>2. PoolLists
      BY <1>0 DEF PoolInv
    <2>3. Cardinality(Block) \in Nat /\ Cardinality(Thread) \in Nat
      BY PoolAssumption, IpcAssumption, FS_CardinalityType
    <2>4. << >> \in Seq(Thread) /\ Len(<< >>) = 0
      OBVIOUS
    <2> QED BY <2>1, <2>2, <2>3, <2>4 DEF PoolInit, PoolLists, PoolTypeOK, CountsExact
  <1> QED BY <1>1, <1>2 DEF ExactPool

-----------------------------------------------------------------------------
(* The inductive invariant.                                                *)

Header == [used : BOOLEAN, next : Nat, prev : Nat]
Chunk == [ptr : Nat, size : Nat]

\* The headers lie one behind the other: next and prev name the nearest ones.
Chained(mem) ==
    /\ mem \in [DOMAIN mem -> Header]
    /\ DOMAIN mem \subseteq 0 .. heap_end /\ 0 \in DOMAIN mem /\ heap_end \in DOMAIN mem
    /\ mem[heap_end].used /\ mem[0].prev = 0
    /\ \A p \in DOMAIN mem \ {heap_end} :
          /\ mem[p].next \in DOMAIN mem /\ mem[p].next > p + SIZEOF_STRUCT_MEM
          /\ \A q \in DOMAIN mem : q <= p \/ q >= mem[p].next
    /\ \A p \in DOMAIN mem \ {0, heap_end} :
          /\ mem[p].prev \in DOMAIN mem /\ mem[p].prev < p
          /\ \A q \in DOMAIN mem : q <= mem[p].prev \/ q >= p

\* No two free blocks touch, but where the block at x is one of them.
PluggedBut(mem, x) == \A p \in DOMAIN mem \ {heap_end} :
    p # x /\ mem[p].next # x => mem[p].used \/ mem[mem[p].next].used
Plugged(mem) == \A p \in DOMAIN mem \ {heap_end} : mem[p].used \/ mem[mem[p].next].used

\* lfree is a free block or the end.
LowFree(mem, lfree) == lfree \in DOMAIN mem /\ (lfree # heap_end => ~mem[lfree].used)

\* A heap of these headers.
HeapOf(mem, lfree) == [mem |-> mem, lfree |-> lfree]

HeapOK(h) ==
    /\ h = HeapOf(h.mem, h.lfree)
    /\ Chained(h.mem) /\ Plugged(h.mem) /\ LowFree(h.mem, h.lfree)

InUse(mem) == {p \in DOMAIN mem \ {heap_end} : mem[p].used}

\* held are the chunks that each thread has: they are the blocks in use.
Owned(mem, held) ==
    /\ held \in [Thread -> SUBSET Chunk]
    /\ \A t \in Thread : \A b \in held[t] :
          b.ptr \in InUse(mem) /\ b.ptr + SIZEOF_STRUCT_MEM + b.size <= mem[b.ptr].next
    /\ \A p \in InUse(mem) : \E t \in Thread : \E b \in held[t] : b.ptr = p
    /\ \A t, u \in Thread : \A b \in held[t], c \in held[u] : b.ptr = c.ptr => t = u /\ b = c

Held == [t \in Thread |-> HeldBlocks(t)]

\* What a thread has and where it is in rt_realloc.
Growing == {NotGrowing} \cup [step : {"malloc"}, size : 1 .. mem_size_aligned]
             \cup [step : {"free"}, size : Nat, ptr : Nat]

CallsOK ==
    /\ rmem \in [Thread -> Chunk \cup {NoMem}]
    /\ growing \in [Thread -> Growing]
    /\ \A t \in Thread : growing[t].step # "none" => rmem[t] # NoMem
    /\ \A t \in Thread : growing[t].step = "free" => growing[t].ptr # rmem[t].ptr

HInv == HeapOK(heap) /\ Owned(heap.mem, Held) /\ CallsOK

-----------------------------------------------------------------------------
(* The chain.                                                              *)

\* The sizes.
LEMMA Sizes ==
    /\ SIZEOF_STRUCT_MEM \in Nat /\ SIZEOF_STRUCT_MEM > 0
    /\ MIN_SIZE \in Nat /\ MIN_SIZE > 0
    /\ mem_size_aligned \in Nat /\ mem_size_aligned >= MIN_SIZE
    /\ heap_end \in Nat /\ heap_end > SIZEOF_STRUCT_MEM
    /\ heap_end = mem_size_aligned + SIZEOF_STRUCT_MEM
  BY HeapAssumption DEF heap_end

\* next and prev are inverse to each other.
LEMMA Neighbours ==
    ASSUME NEW mem, Chained(mem), NEW p \in DOMAIN mem \ {heap_end}
    PROVE  /\ p \in Nat /\ p < heap_end /\ mem[p].next \in Nat
           /\ mem[p].next \in DOMAIN mem /\ mem[p].next > p + SIZEOF_STRUCT_MEM
           /\ mem[p].next <= heap_end
           /\ mem[p].next # heap_end => mem[mem[p].next].prev = p
           /\ p # 0 => /\ mem[p].prev \in DOMAIN mem \ {heap_end} /\ mem[p].prev < p
                       /\ mem[mem[p].prev].next = p
  <1>1. /\ \A o \in DOMAIN mem : mem[o] \in Header /\ mem[o].next \in Nat /\ mem[o].prev \in Nat
        /\ DOMAIN mem \subseteq 0 .. heap_end
    BY DEF Chained, Header
  <1>2. /\ mem[p].next \in DOMAIN mem /\ mem[p].next > p + SIZEOF_STRUCT_MEM
        /\ \A q \in DOMAIN mem : q <= p \/ q >= mem[p].next
    BY DEF Chained
  <1>3. p \in Nat /\ p < heap_end /\ mem[p].next \in Nat /\ mem[p].next <= heap_end
        /\ mem[p].next > p
    BY <1>1, <1>2, Sizes
  <1>4. ASSUME mem[p].next # heap_end PROVE mem[mem[p].next].prev = p
    <2> DEFINE n == mem[p].next
    <2>1. n \in DOMAIN mem \ {0, heap_end}
      BY <1>2, <1>3, <1>4
    <2>2. /\ mem[n].prev \in DOMAIN mem /\ mem[n].prev < n
          /\ \A q \in DOMAIN mem : q <= mem[n].prev \/ q >= n
      BY <2>1 DEF Chained
    <2>3. p <= mem[n].prev /\ (mem[n].prev <= p \/ mem[n].prev >= n) /\ mem[n].prev \in Nat
      BY <1>1, <1>2, <1>3, <2>1, <2>2
    <2> QED BY <1>3, <2>2, <2>3
  <1>5. ASSUME p # 0
        PROVE  /\ mem[p].prev \in DOMAIN mem \ {heap_end} /\ mem[p].prev < p
               /\ mem[mem[p].prev].next = p
    <2> DEFINE q == mem[p].prev
    <2>1. /\ q \in DOMAIN mem /\ q < p
          /\ \A r \in DOMAIN mem : r <= q \/ r >= p
      BY <1>5 DEF Chained
    <2>2. q \in DOMAIN mem \ {heap_end} /\ q \in Nat
      BY <1>1, <1>3, <2>1
    <2>3. /\ mem[q].next \in DOMAIN mem /\ mem[q].next > q + SIZEOF_STRUCT_MEM
          /\ \A r \in DOMAIN mem : r <= q \/ r >= mem[q].next
      BY <2>2 DEF Chained
    <2>4. mem[q].next \in Nat /\ mem[q].next > q
      BY <1>1, <2>2, <2>3, Sizes
    <2>5. p >= mem[q].next
      BY <2>1, <2>3, <1>3, <2>2
    <2>6. mem[q].next >= p
      BY <2>1, <2>3, <2>4, <2>2
    <2> QED BY <1>3, <2>1, <2>2, <2>4, <2>5, <2>6
  <1> QED BY <1>2, <1>3, <1>4, <1>5

\* m is mem with the block at p marked.
IsMarked(m, mem, p, u) ==
    /\ Chained(m) /\ DOMAIN m = DOMAIN mem
    /\ \A o \in DOMAIN mem :
          /\ m[o].next = mem[o].next
          /\ m[o].used = IF o = p THEN u ELSE mem[o].used

\* The block at p is marked as used or free.
LEMMA MarkChain ==
    ASSUME NEW mem, NEW lfree, Chained(mem), NEW p \in DOMAIN mem \ {heap_end}, NEW u \in BOOLEAN
    PROVE  \E m : Marked(HeapOf(mem, lfree), p, u) = HeapOf(m, lfree) /\ IsMarked(m, mem, p, u)
  <1> DEFINE m == [mem EXCEPT ![p].used = u]
  <1>1. mem \in [DOMAIN mem -> Header]
    BY DEF Chained
  <1>2. Marked(HeapOf(mem, lfree), p, u) = HeapOf(m, lfree)
    BY DEF Marked, HeapOf
  <1>4. DOMAIN m = DOMAIN mem /\ m \in [DOMAIN m -> Header]
    BY <1>1 DEF Header
  <1>5. \A o \in DOMAIN mem :
           /\ m[o].next = mem[o].next /\ m[o].prev = mem[o].prev
           /\ m[o].used = IF o = p THEN u ELSE mem[o].used
    BY <1>1 DEF Header
  <1> HIDE DEF m
  <1>7. Chained(m)
    BY <1>4, <1>5 DEF Chained
  <1>8. IsMarked(m, mem, p, u)
    BY <1>4, <1>5, <1>7 DEF IsMarked
  <1> QED BY <1>2, <1>8

\* m is mem with the block at p cut at p2.
IsSplit(m, mem, p, p2) ==
    /\ Chained(m) /\ DOMAIN m = DOMAIN mem \cup {p2}
    /\ p2 \notin DOMAIN mem /\ p2 < heap_end /\ p2 \in Nat
    /\ m[p2].next = mem[p].next /\ m[p2].prev = p /\ ~m[p2].used
    /\ \A o \in DOMAIN mem :
          /\ m[o].next = IF o = p THEN p2 ELSE mem[o].next
          /\ m[o].used = mem[o].used

\* The block at p is cut after size, with room for a block in the rest.
LEMMA SplitChain ==
    ASSUME NEW mem, NEW lfree, Chained(mem), NEW p \in DOMAIN mem \ {heap_end},
           NEW size \in Nat, size > 0,
           NEW p2, p2 = p + SIZEOF_STRUCT_MEM + size, p2 + SIZEOF_STRUCT_MEM < mem[p].next
    PROVE  \E m : Split(HeapOf(mem, lfree), p, size) = HeapOf(m, lfree) /\ IsSplit(m, mem, p, p2)
  <1> DEFINE n == mem[p].next
             e(o) == CASE o = p2 -> Mem(FALSE, n, p)
                       [] o = p -> [mem[o] EXCEPT !.next = p2]
                       [] o = n /\ n # heap_end -> [mem[o] EXCEPT !.prev = p2]
                       [] OTHER -> mem[o]
             m == [o \in DOMAIN mem \cup {p2} |-> e(o)]
             h == HeapOf(mem, lfree)
  <1>1. mem \in [DOMAIN mem -> Header] /\ DOMAIN mem \subseteq 0 .. heap_end
    BY DEF Chained
  <1>2. Split(h, p, size) = HeapOf(m, lfree)
    <2>1. h.mem = mem
      BY DEF HeapOf
    <2> HIDE DEF h
    <2> DEFINE e2(x, y, o) ==
                 CASE o = x -> Mem(FALSE, y[p].next, p)
                   [] o = p -> [y[o] EXCEPT !.next = x]
                   [] o = y[p].next /\ y[p].next # heap_end -> [y[o] EXCEPT !.prev = x]
                   [] OTHER -> y[o]
               m2(x, y) == [o \in DOMAIN y \cup {x} |-> e2(x, y, o)]
    <2>3. Split(h, p, size) = [h EXCEPT !.mem = m2(p + SIZEOF_STRUCT_MEM + size, h.mem)]
      BY DEF Split
    <2>4. m = m2(p2, mem)
      OBVIOUS
    <2> HIDE DEF m, m2
    <2>2. Split(h, p, size) = [h EXCEPT !.mem = m]
      BY <2>1, <2>3, <2>4
    <2> HIDE DEF m
    <2> QED BY <2>2 DEF HeapOf, h
  <1>3. /\ p \in Nat /\ n \in Nat /\ n \in DOMAIN mem /\ n <= heap_end /\ p < heap_end
        /\ n > p + SIZEOF_STRUCT_MEM
    BY Neighbours
  <1>4. p2 \in Nat /\ p < p2 /\ p2 < n /\ p2 < heap_end /\ p2 > p + SIZEOF_STRUCT_MEM
    BY <1>3, Sizes
  <1>5. p2 \notin DOMAIN mem
    BY <1>3, <1>4 DEF Chained
  <1>6. p # n /\ p2 # n /\ p2 # p /\ n # 0
    BY <1>3, <1>4
  <1>7. DOMAIN m = DOMAIN mem \cup {p2}
    OBVIOUS
  <1>8. m[p2] = [used |-> FALSE, next |-> n, prev |-> p]
    BY <1>6 DEF Mem
  <1>9. ASSUME NEW o \in DOMAIN mem
        PROVE  /\ m[o] \in Header
               /\ m[o].next = IF o = p THEN p2 ELSE mem[o].next
               /\ m[o].prev = IF o = n /\ n # heap_end THEN p2 ELSE mem[o].prev
               /\ m[o].used = mem[o].used
    <2>1. mem[o] \in Header /\ o # p2
      BY <1>1, <1>5
    <2>2. CASE o = p
      <3>1. m[o] = [mem[o] EXCEPT !.next = p2]
        BY <2>1, <2>2, <1>6
      <3> QED BY <2>1, <2>2, <3>1, <1>4, <1>6 DEF Header
    <2>3. CASE o = n /\ n # heap_end
      <3>1. m[o] = [mem[o] EXCEPT !.prev = p2]
        BY <2>1, <2>3, <1>6
      <3> QED BY <2>1, <2>3, <3>1, <1>4, <1>6 DEF Header
    <2>4. CASE o # p /\ ~(o = n /\ n # heap_end)
      <3>1. m[o] = mem[o]
        BY <2>1, <2>4
      <3> QED BY <2>1, <2>4, <3>1
    <2> QED BY <2>2, <2>3, <2>4
  <1>10. m \in [DOMAIN m -> Header]
    <2> HIDE DEF e
    <2>1. m = [o \in DOMAIN m |-> m[o]]
      BY <1>7
    <2> HIDE DEF m, n
    <2>2. m[p2] \in Header
      BY <1>3, <1>8 DEF Header
    <2>3. \A o \in DOMAIN m : m[o] \in Header
      BY <1>7, <1>9, <2>2
    <2> QED BY <2>1, <2>3
  <1> HIDE DEF m, n
  <1>11. Chained(m)
    <2>1. /\ DOMAIN m \subseteq 0 .. heap_end /\ 0 \in DOMAIN m /\ heap_end \in DOMAIN m
          /\ m[heap_end].used /\ m[0].prev = 0
      <3>1. /\ 0 \in DOMAIN mem /\ heap_end \in DOMAIN mem
            /\ mem[heap_end].used /\ mem[0].prev = 0
        BY DEF Chained
      <3> QED BY <3>1, <1>1, <1>4, <1>6, <1>7, <1>9, Sizes
    <2>2. ASSUME NEW o \in DOMAIN m \ {heap_end}
          PROVE  /\ m[o].next \in DOMAIN m /\ m[o].next > o + SIZEOF_STRUCT_MEM
                 /\ \A q \in DOMAIN m : q <= o \/ q >= m[o].next
      <3>1. CASE o = p2
        <4>1. m[o].next = n
          BY <3>1, <1>8
        <4>2. \A q \in DOMAIN mem : q <= p \/ q >= n
          BY DEF Chained, n
        <4> QED BY <3>1, <4>1, <4>2, <1>1, <1>3, <1>4, <1>7, Sizes DEF n
      <3>2. CASE o = p
        <4>1. \A q \in DOMAIN mem : q <= p \/ q >= n
          BY DEF Chained, n
        <4>2. m[o].next = p2
          BY <3>2, <1>9
        <4> QED BY <3>2, <4>1, <4>2, <1>1, <1>3, <1>4, <1>7, Sizes
      <3>3. CASE o # p /\ o # p2
        <4>1. o \in DOMAIN mem \ {heap_end} /\ m[o].next = mem[o].next
          BY <3>3, <1>7, <1>9
        <4>2. /\ mem[o].next \in DOMAIN mem /\ mem[o].next > o + SIZEOF_STRUCT_MEM
              /\ \A q \in DOMAIN mem : q <= o \/ q >= mem[o].next
              /\ \A q \in DOMAIN mem : q <= p \/ q >= n
          BY <4>1 DEF Chained, n
        <4>3. p2 <= o \/ p2 >= mem[o].next
          <5>1. o <= p \/ o >= n
            BY <4>1, <4>2
          <5>2. p <= o \/ p >= mem[o].next
            BY <4>2
          <5>3. o \in Nat /\ mem[o].next \in Nat
            BY <4>1, <4>2, <1>1
          <5> QED BY <5>1, <5>2, <5>3, <3>3, <1>3, <1>4
        <4> QED BY <4>1, <4>2, <4>3, <1>7
      <3> QED BY <3>1, <3>2, <3>3
    <2>3. ASSUME NEW o \in DOMAIN m \ {0, heap_end}
          PROVE  /\ m[o].prev \in DOMAIN m /\ m[o].prev < o
                 /\ \A q \in DOMAIN m : q <= m[o].prev \/ q >= o
      <3>0. \A q \in DOMAIN mem : q <= p \/ q >= n
        BY DEF Chained, n
      <3>1. CASE o = p2
        <4>1. m[o].prev = p
          BY <3>1, <1>8
        <4> QED BY <3>0, <3>1, <4>1, <1>1, <1>3, <1>4, <1>7
      <3>2. CASE o = n
        <4>1. m[o].prev = p2
          BY <3>2, <1>3, <1>9
        <4> QED BY <3>0, <3>2, <4>1, <1>1, <1>3, <1>4, <1>7
      <3>3. CASE o # n /\ o # p2
        <4>1. o \in DOMAIN mem \ {0, heap_end} /\ m[o].prev = mem[o].prev
          BY <3>3, <1>7, <1>9
        <4>2. /\ mem[o].prev \in DOMAIN mem /\ mem[o].prev < o
              /\ \A q \in DOMAIN mem : q <= mem[o].prev \/ q >= o
          BY <4>1 DEF Chained
        <4>3. p2 <= mem[o].prev \/ p2 >= o
          <5>1. n <= mem[o].prev \/ n >= o
            BY <4>2, <1>3
          <5>2. o <= p \/ o >= n
            BY <3>0, <4>1
          <5>3. o \in Nat /\ mem[o].prev \in Nat
            BY <4>1, <4>2, <1>1
          <5> QED BY <5>1, <5>2, <5>3, <3>3, <1>3, <1>4
        <4> QED BY <4>1, <4>2, <4>3, <1>7
      <3> QED BY <3>1, <3>2, <3>3
    <2> QED BY <1>10, <2>1, <2>2, <2>3 DEF Chained
  <1>12. IsSplit(m, mem, p, p2)
    BY <1>4, <1>5, <1>7, <1>8, <1>9, <1>11 DEF n, IsSplit
  <1> QED BY <1>2, <1>12

\* The block at n, behind the one at p, becomes a part of it.
LEMMA MergeChain ==
    ASSUME NEW mem, Chained(mem), NEW p \in DOMAIN mem \ {heap_end},
           NEW n, n = mem[p].next, n # heap_end, NEW m, m = Merge(mem, p, n)
    PROVE  /\ Chained(m) /\ DOMAIN m = DOMAIN mem \ {n} /\ n \in DOMAIN mem /\ p \in DOMAIN m
           /\ \A o \in DOMAIN m :
                 /\ m[o].next = IF o = p THEN mem[n].next ELSE mem[o].next
                 /\ m[o].prev = IF o = mem[n].next THEN p ELSE mem[o].prev
                 /\ m[o].used = mem[o].used
  <1> DEFINE nn == mem[n].next
             e(o) == CASE o = p -> [mem[o] EXCEPT !.next = nn]
                       [] o = nn -> [mem[o] EXCEPT !.prev = p]
                       [] OTHER -> mem[o]
  <1>1. mem \in [DOMAIN mem -> Header] /\ DOMAIN mem \subseteq 0 .. heap_end
    BY DEF Chained
  <1>2. m = [o \in DOMAIN mem \ {n} |-> e(o)]
    BY Zenon DEF Merge
  <1>3. /\ p \in Nat /\ n \in Nat /\ n \in DOMAIN mem \ {heap_end} /\ n <= heap_end /\ p < heap_end
        /\ n > p + SIZEOF_STRUCT_MEM
        /\ \A q \in DOMAIN mem : q <= p \/ q >= n
    BY Neighbours DEF Chained
  <1>4. /\ nn \in Nat /\ nn \in DOMAIN mem /\ nn <= heap_end /\ nn > n + SIZEOF_STRUCT_MEM
        /\ \A q \in DOMAIN mem : q <= n \/ q >= nn
    BY <1>3, Neighbours DEF Chained
  <1>5. p < n /\ n < nn /\ nn > p + SIZEOF_STRUCT_MEM /\ p # n /\ p # nn /\ n # nn /\ n # 0
    BY <1>3, <1>4, Sizes
  <1>6. DOMAIN m = DOMAIN mem \ {n} /\ p \in DOMAIN m /\ nn \in DOMAIN m
    <2> HIDE DEF e, nn
    <2>1. DOMAIN m = DOMAIN mem \ {n}
      BY <1>2
    <2> QED BY <2>1, <1>4, <1>5
  <1>7. ASSUME NEW o \in DOMAIN m
        PROVE  /\ m[o] \in Header
               /\ m[o].next = IF o = p THEN nn ELSE mem[o].next
               /\ m[o].prev = IF o = nn THEN p ELSE mem[o].prev
               /\ m[o].used = mem[o].used
    <2>1. mem[o] \in Header /\ m[o] = e(o) /\ o \in DOMAIN mem
      <3> HIDE DEF e
      <3> QED BY <1>1, <1>2, <1>6
    <2>2. CASE o = p
      <3>1. m[o] = [mem[o] EXCEPT !.next = nn]
        BY <2>1, <2>2, <1>5
      <3> HIDE DEF nn
      <3> QED BY <2>1, <2>2, <3>1, <1>4, <1>5 DEF Header
    <2>3. CASE o = nn
      <3>1. m[o] = [mem[o] EXCEPT !.prev = p]
        BY <2>1, <2>3, <1>5
      <3> HIDE DEF nn
      <3> QED BY <2>1, <2>3, <3>1, <1>3, <1>5 DEF Header
    <2>4. CASE o # p /\ o # nn
      <3>1. m[o] = mem[o]
        BY <2>1, <2>4
      <3> QED BY <2>1, <2>4, <3>1
    <2> QED BY <2>2, <2>3, <2>4
  <1>8. m \in [DOMAIN m -> Header]
    <2> HIDE DEF e
    <2>1. m = [o \in DOMAIN m |-> m[o]]
      BY <1>2
    <2>2. \A o \in DOMAIN m : m[o] \in Header
      BY <1>7
    <2> QED BY <2>1, <2>2
  <1> HIDE DEF nn, e
  <1>9. Chained(m)
    <2>1. /\ DOMAIN m \subseteq 0 .. heap_end /\ 0 \in DOMAIN m /\ heap_end \in DOMAIN m
          /\ m[heap_end].used /\ m[0].prev = 0
      <3>1. /\ 0 \in DOMAIN mem /\ heap_end \in DOMAIN mem
            /\ mem[heap_end].used /\ mem[0].prev = 0
        BY DEF Chained
      <3>2. 0 \in DOMAIN m /\ heap_end \in DOMAIN m /\ 0 # nn
        BY <3>1, <1>3, <1>4, <1>5, <1>6
      <3> QED BY <3>1, <3>2, <1>1, <1>6, <1>7
    <2>2. ASSUME NEW o \in DOMAIN m \ {heap_end}
          PROVE  /\ m[o].next \in DOMAIN m /\ m[o].next > o + SIZEOF_STRUCT_MEM
                 /\ \A q \in DOMAIN m : q <= o \/ q >= m[o].next
      <3>1. CASE o = p
        <4>1. m[o].next = nn
          BY <3>1, <1>7
        <4>2. ASSUME NEW q \in DOMAIN m PROVE q <= p \/ q >= nn
          <5>1. q \in Nat /\ (q <= p \/ q >= n) /\ (q <= n \/ q >= nn) /\ q # n
            BY <1>1, <1>3, <1>4, <1>6
          <5> QED BY <5>1, <1>3
        <4> QED BY <3>1, <4>1, <4>2, <1>5, <1>6
      <3>2. CASE o # p
        <4>1. o \in DOMAIN mem \ {heap_end} /\ m[o].next = mem[o].next /\ o # n
          BY <3>2, <1>6, <1>7
        <4>2. /\ mem[o].next \in DOMAIN mem /\ mem[o].next > o + SIZEOF_STRUCT_MEM
              /\ \A q \in DOMAIN mem : q <= o \/ q >= mem[o].next
          BY <4>1 DEF Chained
        <4>3. mem[o].next # n
          <5>1. mem[n].prev = p
            BY Neighbours
          <5>2. mem[o].next # heap_end => mem[mem[o].next].prev = o
            BY <4>1, Neighbours
          <5> QED BY <3>2, <5>1, <5>2
        <4> QED BY <4>1, <4>2, <4>3, <1>6
      <3> QED BY <3>1, <3>2
    <2>3. ASSUME NEW o \in DOMAIN m \ {0, heap_end}
          PROVE  /\ m[o].prev \in DOMAIN m /\ m[o].prev < o
                 /\ \A q \in DOMAIN m : q <= m[o].prev \/ q >= o
      <3>1. CASE o = nn
        <4>1. m[o].prev = p
          BY <3>1, <1>7
        <4>2. ASSUME NEW q \in DOMAIN m PROVE q <= p \/ q >= nn
          <5>1. q \in Nat /\ (q <= p \/ q >= n) /\ (q <= n \/ q >= nn) /\ q # n
            BY <1>1, <1>3, <1>4, <1>6
          <5> QED BY <5>1, <1>3
        <4> QED BY <3>1, <4>1, <4>2, <1>3, <1>4, <1>5, <1>6
      <3>2. CASE o # nn
        <4>1. o \in DOMAIN mem \ {0, heap_end} /\ m[o].prev = mem[o].prev /\ o # n
          BY <3>2, <1>6, <1>7
        <4>2. /\ mem[o].prev \in DOMAIN mem /\ mem[o].prev < o
              /\ \A q \in DOMAIN mem : q <= mem[o].prev \/ q >= o
          BY <4>1 DEF Chained
        <4>3. mem[o].prev # n
          <5>1. mem[mem[o].prev].next = o
            BY <4>1, Neighbours
          <5> QED BY <3>2, <5>1 DEF nn
        <4> QED BY <4>1, <4>2, <4>3, <1>6
      <3> QED BY <3>1, <3>2
    <2> QED BY <1>8, <2>1, <2>2, <2>3 DEF Chained
  <1> QED BY <1>3, <1>6, <1>7, <1>9 DEF nn

\* The first half of plug_holes: the block behind the free one at p is in use, and
\* the blocks in use are what they were.
LEMMA ForwardPlugs ==
    ASSUME NEW mem, NEW lfree, Chained(mem), LowFree(mem, lfree),
           NEW p \in DOMAIN mem \ {heap_end}, ~mem[p].used, PluggedBut(mem, p)
    PROVE  \E m, l :
           /\ PlugForward(HeapOf(mem, lfree), p) = HeapOf(m, l)
           /\ Chained(m) /\ LowFree(m, l) /\ PluggedBut(m, p)
           /\ p \in DOMAIN m \ {heap_end} /\ ~m[p].used /\ m[m[p].next].used
           /\ InUse(m) = InUse(mem) /\ \A o \in InUse(m) : m[o].next = mem[o].next
  <1> DEFINE n == mem[p].next
             h == HeapOf(mem, lfree)
  <1>1. h.mem = mem /\ h.lfree = lfree
    BY DEF HeapOf
  <1>2. /\ p \in Nat /\ n \in Nat /\ n \in DOMAIN mem /\ n <= heap_end /\ p < heap_end
        /\ n > p + SIZEOF_STRUCT_MEM
    BY Neighbours
  <1>3. CASE n # heap_end /\ ~mem[n].used
    <2> DEFINE m == Merge(mem, p, n)
               l == IF lfree = n THEN p ELSE lfree
               nn == mem[n].next
    <2>1. PlugForward(h, p) = HeapOf(m, l)
      <3> HIDE DEF h
      <3> QED BY <1>1, <1>3, Zenon DEF PlugForward, Merged, HeapOf
    <2>2. /\ Chained(m) /\ DOMAIN m = DOMAIN mem \ {n} /\ p \in DOMAIN m
          /\ \A o \in DOMAIN m :
                /\ m[o].next = IF o = p THEN nn ELSE mem[o].next
                /\ m[o].used = mem[o].used
      BY <1>3, MergeChain
    <2>3. nn \in Nat /\ nn > n /\ nn \in DOMAIN mem /\ nn # p /\ n # p
      BY <1>2, <1>3, Neighbours, Sizes
    <2> HIDE DEF m
    <2>4. mem[nn].used /\ nn \in DOMAIN m
      BY <1>2, <1>3, <2>2, <2>3 DEF PluggedBut
    <2>5. m[p].next = nn /\ ~m[p].used /\ m[nn].used
      BY <2>2, <2>4
    <2>6. LowFree(m, l)
      BY <1>3, <2>2, <2>5 DEF LowFree
    <2>7. PluggedBut(m, p)
      <3> SUFFICES ASSUME NEW o \in DOMAIN m \ {heap_end}, o # p, m[o].next # p
                   PROVE  m[o].used \/ m[m[o].next].used
        BY DEF PluggedBut
      <3>1. o \in DOMAIN mem \ {heap_end} /\ m[o].next = mem[o].next /\ m[o].used = mem[o].used
        BY <2>2
      <3>2. mem[o].used \/ mem[mem[o].next].used
        BY <3>1 DEF PluggedBut
      <3>3. m[o].next \in DOMAIN m
        BY <2>2 DEF Chained
      <3> QED BY <3>1, <3>2, <3>3, <2>2
    <2>8. InUse(m) = InUse(mem) /\ \A o \in InUse(m) : m[o].next = mem[o].next
      BY <1>3, <2>2, <2>5 DEF InUse
    <2> HIDE DEF l, nn, h
    <2> QED BY <2>1, <2>2, <2>5, <2>6, <2>7, <2>8 DEF h
  <1>4. CASE n = heap_end \/ mem[n].used
    <2>1. PlugForward(h, p) = h
      <3> HIDE DEF h
      <3> QED BY <1>1, <1>4, Zenon DEF PlugForward
    <2>2. mem[n].used
      BY <1>4 DEF Chained
    <2> QED BY <2>1, <2>2
  <1> QED BY <1>3, <1>4

\* plug_holes makes the heap exact again after the block at p became free.
LEMMA PlugHoles ==
    ASSUME NEW mem, NEW lfree, Chained(mem), LowFree(mem, lfree),
           NEW p \in DOMAIN mem \ {heap_end}, ~mem[p].used, PluggedBut(mem, p),
           NEW h, h = plug_holes(HeapOf(mem, lfree), p)
    PROVE  /\ HeapOK(h) /\ InUse(h.mem) = InUse(mem)
           /\ \A o \in InUse(mem) : h.mem[o].next = mem[o].next
  <1>1. PICK m, l :
           /\ PlugForward(HeapOf(mem, lfree), p) = HeapOf(m, l)
           /\ Chained(m) /\ LowFree(m, l) /\ PluggedBut(m, p)
           /\ p \in DOMAIN m \ {heap_end} /\ ~m[p].used /\ m[m[p].next].used
           /\ InUse(m) = InUse(mem) /\ \A o \in InUse(m) : m[o].next = mem[o].next
    BY ForwardPlugs
  <1> DEFINE g == HeapOf(m, l)
             q == m[p].prev
  <1>2. g.mem = m /\ g.lfree = l
    BY DEF HeapOf
  <1>3. h = PlugBackward(g, p)
    BY <1>1, Zenon DEF plug_holes
  <1>4. \A o \in DOMAIN m \ {heap_end} : m[o].next = p => p # 0 /\ o = q
    <2> SUFFICES ASSUME NEW o \in DOMAIN m \ {heap_end}, m[o].next = p PROVE p # 0 /\ o = q
      OBVIOUS
    <2>1. o \in Nat /\ m[o].next > o + SIZEOF_STRUCT_MEM
          /\ (m[o].next # heap_end => m[m[o].next].prev = o)
      BY <1>1, Neighbours
    <2> QED BY <1>1, <2>1, Sizes
  <1>5. CASE q # p /\ ~m[q].used
    <2> DEFINE m2 == Merge(m, q, p)
               l2 == IF l = p THEN q ELSE l
    <2>1. h = HeapOf(m2, l2)
      <3> HIDE DEF g
      <3> QED BY <1>2, <1>3, <1>5, Zenon DEF PlugBackward, Merged, HeapOf
    <2>2. p # 0
      BY <1>1, <1>5 DEF Chained
    <2>3. q \in DOMAIN m \ {heap_end} /\ m[q].next = p
      BY <1>1, <2>2, Neighbours
    <2>4. /\ Chained(m2) /\ DOMAIN m2 = DOMAIN m \ {p} /\ q \in DOMAIN m2
          /\ \A o \in DOMAIN m2 :
                /\ m2[o].next = IF o = q THEN m[p].next ELSE m[o].next
                /\ m2[o].used = m[o].used
      <3>1. Chained(m) /\ p = m[q].next /\ p # heap_end
        BY <1>1, <2>3
      <3>2. m2 = Merge(m, q, p)
        OBVIOUS
      <3> HIDE DEF q, m2
      <3> QED BY <2>3, <3>1, <3>2, MergeChain
    <2> HIDE DEF m2
    <2>5. Plugged(m2)
      <3> SUFFICES ASSUME NEW o \in DOMAIN m2 \ {heap_end}
                   PROVE  m2[o].used \/ m2[m2[o].next].used
        BY DEF Plugged
      <3>1. m2[o].next \in DOMAIN m2 /\ o \in DOMAIN m \ {heap_end} /\ o # p
        BY <2>4 DEF Chained
      <3>2. CASE o = q
        <4>1. m2[o].next = m[p].next
          BY <2>4, <3>2
        <4> QED BY <1>1, <2>4, <3>1, <4>1
      <3>3. CASE o # q
        <4>1. m2[o].next = m[o].next /\ m[o].next # p
          BY <1>4, <2>4, <3>1, <3>3
        <4>2. m[o].used \/ m[m[o].next].used
          BY <1>1, <3>1, <4>1 DEF PluggedBut
        <4> QED BY <2>4, <3>1, <4>1, <4>2
      <3> QED BY <3>2, <3>3
    <2>6. LowFree(m2, l2)
      BY <1>1, <1>5, <2>4 DEF LowFree
    <2>7. InUse(m2) = InUse(m) /\ \A o \in InUse(m) : m2[o].next = m[o].next
      BY <1>1, <1>5, <2>4 DEF InUse
    <2> HIDE DEF l2
    <2>8. h.mem = m2 /\ h.lfree = l2
      BY <2>1 DEF HeapOf
    <2> QED BY <1>1, <2>1, <2>4, <2>5, <2>6, <2>7, <2>8 DEF HeapOK
  <1>6. CASE q = p \/ m[q].used
    <2>1. h = g
      <3> HIDE DEF g
      <3> QED BY <1>2, <1>3, <1>6, Zenon DEF PlugBackward
    <2>2. q = p => p = 0
      <3> SUFFICES ASSUME p # 0 PROVE q < p /\ p \in Nat
        BY <1>1 DEF Chained, Header
      <3> QED BY <1>1, Neighbours
    <2>3. Plugged(m)
      <3> SUFFICES ASSUME NEW o \in DOMAIN m \ {heap_end}
                   PROVE  m[o].used \/ m[m[o].next].used
        BY DEF Plugged
      <3>1. CASE o = p
        BY <1>1, <3>1
      <3>2. CASE m[o].next = p
        <4>1. p # 0 /\ o = q
          BY <1>4, <3>2
        <4> QED BY <4>1, <1>6, <2>2
      <3>3. CASE o # p /\ m[o].next # p
        BY <1>1, <3>3 DEF PluggedBut
      <3> QED BY <3>1, <3>2, <3>3
    <2> QED BY <1>1, <1>2, <2>1, <2>3 DEF HeapOK
  <1> QED BY <1>5, <1>6

-----------------------------------------------------------------------------
(* The sections under heap_sem.                                            *)

\* rt_malloc takes a free block that is large enough, and disturbs no block in use.
LEMMA TakenExact ==
    ASSUME HeapOK(heap), NEW size \in Nat, size > 0, NEW p \in Fits(size),
           NEW h, h = Taken(p, size)
    PROVE  /\ HeapOK(h)
           /\ p \in DOMAIN heap.mem \ {heap_end} /\ p \notin InUse(heap.mem)
           /\ InUse(h.mem) = InUse(heap.mem) \cup {p}
           /\ \A o \in InUse(heap.mem) : h.mem[o].next = heap.mem[o].next
           /\ p + SIZEOF_STRUCT_MEM + size <= h.mem[p].next
  <1> DEFINE mem == heap.mem
             lfree == heap.lfree
             p2 == p + SIZEOF_STRUCT_MEM + size
             cut == Room(heap, p) >= size + SIZEOF_STRUCT_MEM + MIN_SIZE
             whole == Marked(heap, p, TRUE)
  <1>1. Chained(mem) /\ Plugged(mem) /\ LowFree(mem, lfree) /\ heap = HeapOf(mem, lfree)
    BY DEF HeapOK
  <1>2. p \in DOMAIN mem /\ p < mem_size_aligned - size /\ ~mem[p].used /\ Room(heap, p) >= size
    BY DEF Fits
  <1>3. p \in DOMAIN mem \ {heap_end} /\ p \in Nat /\ mem[p].next \in Nat
        /\ mem[p].next \in DOMAIN mem /\ mem[p].next > p
    <2>1. p \in Nat
      BY <1>1, <1>2 DEF Chained
    <2>2. p # heap_end
      BY <1>2, <2>1, Sizes
    <2>3. p \in DOMAIN mem \ {heap_end}
      BY <1>2, <2>2
    <2> HIDE DEF mem
    <2> QED BY <1>1, <2>1, <2>3, Neighbours, Sizes
  <1>4. Room(heap, p) = mem[p].next - (p + SIZEOF_STRUCT_MEM)
    BY DEF Room
  <1>5. mem[mem[p].next].used
    BY <1>1, <1>2, <1>3 DEF Plugged
  <1> HIDE DEF mem, lfree
  <1>6. PICK m1 :
           /\ whole = HeapOf(m1, lfree)
           /\ Chained(m1) /\ DOMAIN m1 = DOMAIN mem
           /\ \A o \in DOMAIN mem :
                 /\ m1[o].next = mem[o].next
                 /\ m1[o].used = IF o = p THEN TRUE ELSE mem[o].used
    <2>1. PICK m1 : Marked(HeapOf(mem, lfree), p, TRUE) = HeapOf(m1, lfree)
                    /\ IsMarked(m1, mem, p, TRUE)
      BY <1>1, <1>3, MarkChain
    <2> QED BY <1>1, <2>1 DEF IsMarked
  <1>7. PICK m2 :
           /\ (IF cut THEN Split(whole, p, size) ELSE whole) = HeapOf(m2, lfree)
           /\ Chained(m2) /\ Plugged(m2)
           /\ DOMAIN mem \subseteq DOMAIN m2
           /\ \A o \in DOMAIN m2 \ DOMAIN mem : ~m2[o].used
           /\ \A o \in DOMAIN mem :
                 /\ o # p => m2[o].next = mem[o].next
                 /\ m2[o].used = IF o = p THEN TRUE ELSE mem[o].used
           /\ p2 <= m2[p].next
    <2>1. CASE cut
      <3>1. p2 + SIZEOF_STRUCT_MEM < m1[p].next
        <4> DEFINE nx == m1[p].next
        <4>1. nx = mem[p].next
          BY <1>3, <1>6
        <4>2. Room(heap, p) = nx - (p + SIZEOF_STRUCT_MEM) /\ nx \in Nat
          BY <1>3, <1>4, <4>1
        <4> HIDE DEF nx
        <4>3. p2 + SIZEOF_STRUCT_MEM < nx
          BY <2>1, <1>3, <4>2, Sizes
        <4> QED BY <4>3 DEF nx
      <3>2. PICK m :
               /\ Split(HeapOf(m1, lfree), p, size) = HeapOf(m, lfree)
               /\ Chained(m) /\ DOMAIN m = DOMAIN m1 \cup {p2}
               /\ p2 \notin DOMAIN m1
               /\ m[p2].next = m1[p].next /\ ~m[p2].used
               /\ \A o \in DOMAIN m1 :
                     /\ m[o].next = IF o = p THEN p2 ELSE m1[o].next
                     /\ m[o].used = m1[o].used
        <4>1. PICK m : Split(HeapOf(m1, lfree), p, size) = HeapOf(m, lfree)
                       /\ IsSplit(m, m1, p, p2)
          BY <1>3, <1>6, <3>1, SplitChain
        <4> QED BY <4>1 DEF IsSplit
      <3> HIDE DEF p2, cut, whole
      <3>3. Plugged(m)
        <4> SUFFICES ASSUME NEW o \in DOMAIN m \ {heap_end}
                     PROVE  m[o].used \/ m[m[o].next].used
          BY DEF Plugged
        <4>1. CASE o = p2
          BY <4>1, <1>3, <1>5, <1>6, <3>2
        <4>2. CASE o = p
          BY <4>2, <1>3, <1>6, <3>2
        <4>3. CASE o # p2 /\ o # p
          <5>1. o \in DOMAIN mem \ {heap_end} /\ m[o].next = mem[o].next /\ m[o].used = mem[o].used
            BY <4>3, <1>6, <3>2
          <5>2. mem[o].next \in DOMAIN mem /\ (mem[o].used \/ mem[mem[o].next].used)
            BY <5>1, <1>1 DEF Plugged, Chained
          <5> QED BY <5>1, <5>2, <1>6, <3>2
        <4> QED BY <4>1, <4>2, <4>3
      <3>4. (IF cut THEN Split(whole, p, size) ELSE whole) = HeapOf(m, lfree)
        BY <2>1, <1>6, <3>2
      <3>5. m[p].next = p2 /\ p2 <= p2
        BY <1>3, <1>6, <3>2, Sizes DEF p2
      <3> QED BY <3>2, <3>3, <3>4, <3>5, <1>6
    <2>2. CASE ~cut
      <3>1. Plugged(m1)
        BY <1>1, <1>6 DEF Plugged, Chained
      <3>2. p2 <= m1[p].next
        <4> DEFINE nx == m1[p].next
        <4>1. nx = mem[p].next
          BY <1>3, <1>6
        <4>2. Room(heap, p) = nx - (p + SIZEOF_STRUCT_MEM) /\ nx \in Nat
          BY <1>3, <1>4, <4>1
        <4> HIDE DEF nx
        <4>3. p2 <= nx
          BY <1>2, <1>3, <4>2, Sizes
        <4> QED BY <4>3 DEF nx
      <3> HIDE DEF p2, cut, whole
      <3> QED BY <2>2, <1>6, <3>1, <3>2
    <2> QED BY <2>1, <2>2
  <1> DEFINE T == {q \in DOMAIN m2 : q > p /\ (~m2[q].used \/ q = heap_end)}
             l2 == IF p # lfree THEN lfree ELSE Min(T)
             g == IF cut THEN Split(whole, p, size) ELSE whole
  <1>8. h = HeapOf(m2, l2)
    <2>1. g = HeapOf(m2, lfree)
      BY <1>7
    <2>2. h = IF p # g.lfree THEN g
              ELSE [g EXCEPT !.lfree = Min({q \in DOMAIN g.mem :
                        q > p /\ (~g.mem[q].used \/ q = heap_end)})]
      BY Zenon DEF Taken
    <2> HIDE DEF g
    <2>3. g.mem = m2 /\ g.lfree = lfree
      BY <2>1 DEF HeapOf
    <2>4. h = IF p # lfree THEN g ELSE [g EXCEPT !.lfree = Min(T)]
      BY <2>2, <2>3, Zenon
    <2> HIDE DEF T
    <2> QED BY <2>1, <2>4 DEF HeapOf
  <1>9. LowFree(m2, l2)
    <2>1. CASE p # lfree
      BY <2>1, <1>1, <1>7 DEF LowFree
    <2>2. CASE p = lfree
      <3>1. heap_end \in T
        BY <1>2, <1>3, <1>7, Sizes DEF Chained
      <3>2. T \subseteq Nat /\ T # {}
        BY <3>1, <1>7 DEF Chained
      <3> HIDE DEF T
      <3>3. Min(T) \in T
        BY <3>2, LeastOfNat
      <3> QED BY <2>2, <3>3 DEF LowFree, T
    <2> QED BY <2>1, <2>2
  <1>10. InUse(m2) = InUse(mem) \cup {p}
    BY <1>3, <1>7 DEF InUse
  <1>11. p \notin InUse(mem)
    BY <1>2 DEF InUse, mem
  <1>12. \A o \in InUse(mem) : m2[o].next = mem[o].next
    BY <1>7, <1>11 DEF InUse
  <1> HIDE DEF l2
  <1>13. h.mem = m2 /\ h.lfree = l2
    BY <1>8 DEF HeapOf
  <1>14. HeapOK(h)
    BY <1>7, <1>8, <1>9, <1>13 DEF HeapOK
  <1> QED BY <1>3, <1>7, <1>10, <1>11, <1>12, <1>13, <1>14 DEF mem

\* rt_free gives the block at p back, and disturbs no other block in use.
LEMMA FreedExact ==
    ASSUME HeapOK(heap), NEW p \in InUse(heap.mem), NEW h, h = Freed(p)
    PROVE  /\ HeapOK(h)
           /\ InUse(h.mem) = InUse(heap.mem) \ {p}
           /\ \A o \in InUse(h.mem) : h.mem[o].next = heap.mem[o].next
  <1> DEFINE mem == heap.mem
             lfree == heap.lfree
             whole == Marked(heap, p, FALSE)
             l2 == Min({p, lfree})
  <1>1. Chained(mem) /\ Plugged(mem) /\ LowFree(mem, lfree) /\ heap = HeapOf(mem, lfree)
    BY DEF HeapOK
  <1>2. p \in DOMAIN mem \ {heap_end} /\ mem[p].used /\ p \in Nat /\ lfree \in Nat
    BY <1>1 DEF InUse, Chained, LowFree
  <1> HIDE DEF mem, lfree
  <1>3. PICK m :
           /\ whole = HeapOf(m, lfree)
           /\ Chained(m) /\ DOMAIN m = DOMAIN mem
           /\ \A o \in DOMAIN mem :
                 /\ m[o].next = mem[o].next
                 /\ m[o].used = IF o = p THEN FALSE ELSE mem[o].used
    <2>1. PICK m : Marked(HeapOf(mem, lfree), p, FALSE) = HeapOf(m, lfree)
                   /\ IsMarked(m, mem, p, FALSE)
      BY <1>1, <1>2, MarkChain
    <2> QED BY <1>1, <2>1 DEF IsMarked
  <1>4. l2 \in {p, lfree}
    BY <1>2, LeastOfNat
  <1> HIDE DEF l2
  <1>5. LowFree(m, l2)
    BY <1>1, <1>2, <1>3, <1>4 DEF LowFree
  <1>6. ~m[p].used /\ p \in DOMAIN m \ {heap_end}
    BY <1>2, <1>3
  <1>7. PluggedBut(m, p)
    BY <1>1, <1>3 DEF Plugged, PluggedBut, Chained
  <1>8. h = plug_holes(HeapOf(m, l2), p)
    <2>2. h = plug_holes([whole EXCEPT !.lfree = Min({p, whole.lfree})], p)
      BY Zenon DEF Freed
    <2> HIDE DEF whole
    <2>1. whole.lfree = lfree /\ whole = HeapOf(m, lfree)
      BY <1>3 DEF HeapOf
    <2>3. [whole EXCEPT !.lfree = l2] = HeapOf(m, l2)
      BY <2>1 DEF HeapOf
    <2> QED BY <2>1, <2>2, <2>3, Zenon DEF l2
  <1>9. /\ HeapOK(h) /\ InUse(h.mem) = InUse(m)
        /\ \A o \in InUse(m) : h.mem[o].next = m[o].next
    BY <1>3, <1>5, <1>6, <1>7, <1>8, PlugHoles
  <1>10. InUse(m) = InUse(mem) \ {p} /\ \A o \in InUse(m) : m[o].next = mem[o].next
    BY <1>2, <1>3 DEF InUse
  <1> QED BY <1>9, <1>10 DEF mem

\* rt_realloc cuts the block at p, and disturbs no other block in use.
LEMMA CutExact ==
    ASSUME HeapOK(heap), NEW p \in InUse(heap.mem), NEW size \in Nat, size > 0,
           size + SIZEOF_STRUCT_MEM + MIN_SIZE < Room(heap, p),
           NEW h, h = plug_holes(Split(heap, p, size), p + SIZEOF_STRUCT_MEM + size)
    PROVE  /\ HeapOK(h) /\ InUse(h.mem) = InUse(heap.mem)
           /\ \A o \in InUse(heap.mem) \ {p} : h.mem[o].next = heap.mem[o].next
           /\ h.mem[p].next = p + SIZEOF_STRUCT_MEM + size
  <1> DEFINE mem == heap.mem
             lfree == heap.lfree
             p2 == p + SIZEOF_STRUCT_MEM + size
  <1>1. Chained(mem) /\ Plugged(mem) /\ LowFree(mem, lfree) /\ heap = HeapOf(mem, lfree)
    BY DEF HeapOK
  <1>2. p \in DOMAIN mem \ {heap_end} /\ mem[p].used /\ p \in Nat
    BY <1>1 DEF InUse, Chained
  <1>3. Room(heap, p) = mem[p].next - (p + SIZEOF_STRUCT_MEM)
    BY DEF Room
  <1> HIDE DEF mem, lfree
  <1>4. mem[p].next \in Nat
    BY <1>1, <1>2, Neighbours
  <1>5. p2 + SIZEOF_STRUCT_MEM < mem[p].next
    BY <1>2, <1>3, <1>4, Sizes
  <1>6. PICK m :
           /\ Split(HeapOf(mem, lfree), p, size) = HeapOf(m, lfree)
           /\ Chained(m) /\ DOMAIN m = DOMAIN mem \cup {p2}
           /\ p2 \notin DOMAIN mem /\ p2 < heap_end
           /\ ~m[p2].used
           /\ \A o \in DOMAIN mem :
                 /\ m[o].next = IF o = p THEN p2 ELSE mem[o].next
                 /\ m[o].used = mem[o].used
    <2>1. PICK m : Split(HeapOf(mem, lfree), p, size) = HeapOf(m, lfree)
                   /\ IsSplit(m, mem, p, p2)
      BY <1>1, <1>2, <1>5, SplitChain
    <2> QED BY <2>1 DEF IsSplit
  <1>7. h = plug_holes(HeapOf(m, lfree), p2)
    BY <1>1, <1>6
  <1>8. p2 \in DOMAIN m \ {heap_end}
    BY <1>1, <1>6 DEF Chained
  <1> HIDE DEF p2
  <1>9. LowFree(m, lfree)
    BY <1>1, <1>6 DEF LowFree
  <1>10. PluggedBut(m, p2)
    <2> SUFFICES ASSUME NEW o \in DOMAIN m \ {heap_end}, o # p2, m[o].next # p2
                 PROVE  m[o].used \/ m[m[o].next].used
      BY DEF PluggedBut
    <2>1. o \in DOMAIN mem \ {heap_end} /\ o # p /\ m[o].next = mem[o].next
      BY <1>6
    <2>2. mem[o].next \in DOMAIN mem /\ (mem[o].used \/ mem[mem[o].next].used)
      BY <2>1, <1>1 DEF Plugged, Chained
    <2> QED BY <2>1, <2>2, <1>6
  <1>11. /\ HeapOK(h) /\ InUse(h.mem) = InUse(m)
         /\ \A o \in InUse(m) : h.mem[o].next = m[o].next
    BY <1>6, <1>7, <1>8, <1>9, <1>10, PlugHoles
  <1>12. InUse(m) = InUse(mem) /\ \A o \in InUse(mem) \ {p} : m[o].next = mem[o].next
    BY <1>6 DEF InUse
  <1>13. p \in InUse(m) /\ m[p].next = p2
    BY <1>2, <1>6 DEF InUse
  <1> QED BY <1>11, <1>12, <1>13 DEF mem, p2

-----------------------------------------------------------------------------
(* Who has which block.                                                    *)

\* Thread t gets the free block b.
LEMMA OwnedTaken ==
    ASSUME NEW mem, NEW held, Owned(mem, held), NEW t \in Thread,
           NEW b \in Chunk, b.ptr \notin InUse(mem),
           NEW mem2, InUse(mem2) = InUse(mem) \cup {b.ptr},
           \A o \in InUse(mem) : mem2[o].next = mem[o].next,
           b.ptr + SIZEOF_STRUCT_MEM + b.size <= mem2[b.ptr].next,
           NEW held2, held2 = [held EXCEPT ![t] = @ \cup {b}]
    PROVE  Owned(mem2, held2)
  <1>1. held \in [Thread -> SUBSET Chunk]
    BY DEF Owned
  <1>2. /\ held2 \in [Thread -> SUBSET Chunk]
        /\ \A u \in Thread : held2[u] = IF u = t THEN held[u] \cup {b} ELSE held[u]
    BY <1>1
  <1>3. \A u \in Thread : \A c \in held[u] : c.ptr \in InUse(mem) /\ c.ptr # b.ptr
    BY DEF Owned
  <1>4. \A u \in Thread : \A c \in held2[u] :
           c.ptr \in InUse(mem2) /\ c.ptr + SIZEOF_STRUCT_MEM + c.size <= mem2[c.ptr].next
    BY <1>2, <1>3 DEF Owned
  <1>5. \A p \in InUse(mem2) : \E u \in Thread : \E c \in held2[u] : c.ptr = p
    <2> SUFFICES ASSUME NEW p \in InUse(mem2) PROVE \E u \in Thread : \E c \in held2[u] : c.ptr = p
      OBVIOUS
    <2>1. CASE p = b.ptr
      BY <1>2, <2>1
    <2>2. CASE p \in InUse(mem)
      BY <1>2, <2>2 DEF Owned
    <2> QED BY <2>1, <2>2
  <1>6. \A u, v \in Thread : \A c \in held2[u], d \in held2[v] : c.ptr = d.ptr => u = v /\ c = d
    <2> SUFFICES ASSUME NEW u \in Thread, NEW v \in Thread,
                        NEW c \in held2[u], NEW d \in held2[v], c.ptr = d.ptr
                 PROVE  u = v /\ c = d
      OBVIOUS
    <2>1. CASE c \in held[u] /\ d \in held[v]
      BY <2>1 DEF Owned
    <2>2. CASE c \notin held[u] \/ d \notin held[v]
      BY <2>2, <1>2, <1>3
    <2> QED BY <2>1, <2>2
  <1> QED BY <1>2, <1>4, <1>5, <1>6 DEF Owned

\* Thread t gives its block b back.
LEMMA OwnedFreed ==
    ASSUME NEW mem, NEW held, Owned(mem, held), NEW t \in Thread, NEW b \in held[t],
           NEW mem2, InUse(mem2) = InUse(mem) \ {b.ptr},
           \A o \in InUse(mem2) : mem2[o].next = mem[o].next,
           NEW held2, held2 = [held EXCEPT ![t] = @ \ {b}]
    PROVE  Owned(mem2, held2)
  <1>1. held \in [Thread -> SUBSET Chunk]
    BY DEF Owned
  <1>2. /\ held2 \in [Thread -> SUBSET Chunk]
        /\ \A u \in Thread : held2[u] = IF u = t THEN held[u] \ {b} ELSE held[u]
    BY <1>1
  <1>3. \A u \in Thread : \A c \in held2[u] : c \in held[u] /\ c.ptr # b.ptr
    BY <1>2 DEF Owned
  <1>4. \A u \in Thread : \A c \in held2[u] :
           c.ptr \in InUse(mem2) /\ c.ptr + SIZEOF_STRUCT_MEM + c.size <= mem2[c.ptr].next
    BY <1>3 DEF Owned
  <1>5. \A p \in InUse(mem2) : \E u \in Thread : \E c \in held2[u] : c.ptr = p
    <2> SUFFICES ASSUME NEW p \in InUse(mem2) PROVE \E u \in Thread : \E c \in held2[u] : c.ptr = p
      OBVIOUS
    <2>1. PICK u \in Thread : \E c \in held[u] : c.ptr = p
      BY DEF Owned
    <2>2. PICK c \in held[u] : c.ptr = p
      BY <2>1
    <2>3. c # b
      BY <2>2
    <2> QED BY <1>2, <2>2, <2>3
  <1>6. \A u, v \in Thread : \A c \in held2[u], d \in held2[v] : c.ptr = d.ptr => u = v /\ c = d
    BY <1>3 DEF Owned
  <1> QED BY <1>2, <1>4, <1>5, <1>6 DEF Owned

\* Block b of thread t becomes block b2 at the same place.
LEMMA OwnedResized ==
    ASSUME NEW mem, NEW held, Owned(mem, held), NEW t \in Thread, NEW b \in held[t],
           NEW b2 \in Chunk, b2.ptr = b.ptr,
           NEW mem2, InUse(mem2) = InUse(mem),
           \A o \in InUse(mem) \ {b.ptr} : mem2[o].next = mem[o].next,
           b2.ptr + SIZEOF_STRUCT_MEM + b2.size <= mem2[b2.ptr].next,
           NEW held2, held2 = [held EXCEPT ![t] = (@ \ {b}) \cup {b2}]
    PROVE  Owned(mem2, held2)
  <1>1. held \in [Thread -> SUBSET Chunk]
    BY DEF Owned
  <1>2. /\ held2 \in [Thread -> SUBSET Chunk]
        /\ \A u \in Thread : held2[u] = IF u = t THEN (held[u] \ {b}) \cup {b2} ELSE held[u]
    BY <1>1
  <1>3. \A u \in Thread : \A c \in held2[u] :
           (u = t /\ c = b2) \/ (c \in held[u] /\ c.ptr # b.ptr)
    BY <1>2 DEF Owned
  <1>4. b.ptr \in InUse(mem) /\ b2 \in held2[t]
    BY <1>2 DEF Owned
  <1>5. \A u \in Thread : \A c \in held2[u] :
           c.ptr \in InUse(mem2) /\ c.ptr + SIZEOF_STRUCT_MEM + c.size <= mem2[c.ptr].next
    BY <1>3, <1>4 DEF Owned
  <1>6. \A p \in InUse(mem2) : \E u \in Thread : \E c \in held2[u] : c.ptr = p
    <2> SUFFICES ASSUME NEW p \in InUse(mem2) PROVE \E u \in Thread : \E c \in held2[u] : c.ptr = p
      OBVIOUS
    <2>1. CASE p = b.ptr
      BY <2>1, <1>4
    <2>2. CASE p # b.ptr
      <3>1. PICK u \in Thread : \E c \in held[u] : c.ptr = p
        BY DEF Owned
      <3>2. PICK c \in held[u] : c.ptr = p
        BY <3>1
      <3> QED BY <1>2, <2>2, <3>2
    <2> QED BY <2>1, <2>2
  <1>7. \A u, v \in Thread : \A c \in held2[u], d \in held2[v] : c.ptr = d.ptr => u = v /\ c = d
    BY <1>3 DEF Owned
  <1> QED BY <1>2, <1>5, <1>6, <1>7 DEF Owned

\* The size that rt_malloc looks for.
LEMMA LongerSize ==
    ASSUME NEW size \in Nat, size > 0
    PROVE  Longer(size) \in Nat /\ Longer(size) >= size /\ Longer(size) > 0
  <1> DEFINE T == {size, MIN_SIZE}
  <1>1. \E x \in T : \A y \in T : x >= y
    BY Sizes
  <1>2. Max(T) \in T /\ \A y \in T : Max(T) >= y
    BY <1>1 DEF Max
  <1> QED BY <1>2, Sizes DEF Longer

\* p is a new block of a size, in the heap h.
IsNew(p, size, h) ==
    /\ p \in Nat /\ p \notin InUse(heap.mem)
    /\ HeapOK(h) /\ InUse(h.mem) = InUse(heap.mem) \cup {p}
    /\ \A o \in InUse(heap.mem) : h.mem[o].next = heap.mem[o].next
    /\ p + SIZEOF_STRUCT_MEM + size <= h.mem[p].next

\* The search of rt_malloc fails or finds a new block.
LEMMA MallocExact ==
    ASSUME HeapOK(heap), NEW size \in 1 .. mem_size_aligned, NEW p, Malloc(size, p)
    PROVE  (p = NoMem /\ heap' = heap) \/ IsNew(p, size, heap')
  <1> DEFINE n == Longer(size)
  <1>1. size \in Nat /\ size > 0
    BY Sizes
  <1>2. n \in Nat /\ n >= size /\ n > 0
    BY <1>1, LongerSize
  <1>3. CASE Fits(n) = {}
    BY <1>3 DEF Malloc
  <1>4. CASE Fits(n) # {}
    <2>1. Fits(n) \subseteq Nat
      BY DEF Fits, HeapOK, Chained
    <2>2. Min(Fits(n)) \in Fits(n)
      BY <2>1, <1>4, LeastOfNat
    <2>3. p \in Fits(n) /\ heap' = Taken(p, n)
      BY <2>2, <1>4 DEF Malloc
    <2> HIDE DEF n
    <2>4. /\ HeapOK(heap')
          /\ p \notin InUse(heap.mem)
          /\ InUse(heap'.mem) = InUse(heap.mem) \cup {p}
          /\ \A o \in InUse(heap.mem) : heap'.mem[o].next = heap.mem[o].next
          /\ p + SIZEOF_STRUCT_MEM + n <= heap'.mem[p].next
          /\ p \in DOMAIN heap.mem \ {heap_end}
      BY <2>3, <1>2, TakenExact
    <2>5. p \in Nat /\ p \in DOMAIN heap'.mem \ {heap_end}
      BY <2>1, <2>3, <2>4 DEF InUse
    <2>6. heap'.mem[p].next \in Nat
      BY <2>4, <2>5 DEF HeapOK, Chained, Header
    <2>7. p + SIZEOF_STRUCT_MEM + size <= heap'.mem[p].next
      <3> DEFINE nx == heap'.mem[p].next
      <3>1. nx \in Nat /\ p + SIZEOF_STRUCT_MEM + n <= nx
        BY <2>4, <2>6
      <3> HIDE DEF nx
      <3>2. p + SIZEOF_STRUCT_MEM + size <= nx
        BY <3>1, <2>5, <1>1, <1>2, Sizes
      <3> QED BY <3>2 DEF nx
    <2> QED BY <2>4, <2>5, <2>7 DEF IsNew
  <1> QED BY <1>3, <1>4

-----------------------------------------------------------------------------
(* The steps of the heap keep the invariant.                               *)

\* What the invariant says of the calls of a thread.
LEMMA CallTypes ==
    ASSUME CallsOK, NEW t \in Thread
    PROVE  /\ rmem[t] = NoMem \/ (rmem[t] # NoMem /\ rmem[t] \in Chunk
                                  /\ rmem[t].ptr \in Nat /\ rmem[t].size \in Nat)
           /\ growing[t].step \in {"none", "malloc", "free"}
           /\ growing[t].step = "none" <=> growing[t] = NotGrowing
           /\ growing[t].step # "none" => growing[t].size \in Nat /\ rmem[t] # NoMem
           /\ growing[t].step = "free" =>
                 growing[t].ptr \in Nat /\ growing[t].ptr # rmem[t].ptr
  <1>1. rmem[t] \in Chunk \cup {NoMem}
    BY DEF CallsOK
  <1>2. growing[t] \in Growing
    BY DEF CallsOK
  <1>3. /\ growing[t].step # "none" => rmem[t] # NoMem
        /\ growing[t].step = "free" => growing[t].ptr # rmem[t].ptr
    BY DEF CallsOK
  <1>4. rmem[t] \in Chunk => rmem[t].ptr \in Nat /\ rmem[t].size \in Nat
    BY DEF Chunk
  <1>5. /\ growing[t].step \in {"none", "malloc", "free"}
        /\ growing[t].step = "none" <=> growing[t] = NotGrowing
        /\ growing[t].step # "none" => growing[t].size \in Nat
        /\ growing[t].step = "free" => growing[t].ptr \in Nat
    <2>1. CASE growing[t] = NotGrowing
      BY <2>1 DEF NotGrowing
    <2>2. CASE growing[t] \in [step : {"malloc"}, size : 1 .. mem_size_aligned]
      <3>1. growing[t].step = "malloc" /\ growing[t].size \in 1 .. mem_size_aligned
        BY <2>2
      <3>3. growing[t].size \in Nat
        BY <3>1, Sizes
      <3>2. growing[t] # NotGrowing
        BY <3>1 DEF NotGrowing
      <3> QED BY <3>1, <3>2, <3>3
    <2>3. CASE growing[t] \in [step : {"free"}, size : Nat, ptr : Nat]
      <3>1. growing[t].step = "free" /\ growing[t].size \in Nat /\ growing[t].ptr \in Nat
        BY <2>3
      <3>2. growing[t] # NotGrowing
        BY <3>1 DEF NotGrowing
      <3> QED BY <3>1, <3>2
    <2> QED BY <1>2, <2>1, <2>2, <2>3 DEF Growing
  <1> QED BY <1>1, <1>3, <1>4, <1>5

\* A block is never NoMem.
LEMMA BlockIsNew ==
    ASSUME NEW p \in Nat, NEW size \in Nat
    PROVE  /\ p # NoMem /\ HeapBlock(p, size) = [ptr |-> p, size |-> size]
           /\ HeapBlock(p, size) \in Chunk /\ HeapBlock(p, size) # NoMem
           /\ HeapBlock(p, size).ptr = p /\ HeapBlock(p, size).size = size
  <1>1. p # NoMem
    BY HeapAssumption
  <1>2. HeapBlock(p, size) = [ptr |-> p, size |-> size]
    BY <1>1 DEF HeapBlock
  <1>3. [ptr |-> p, size |-> size] \in [ptr : Nat, size : Nat]
    OBVIOUS
  <1>4. [ptr |-> p, size |-> size] # NoMem
    BY <1>3, HeapAssumption, Zenon
  <1> QED BY <1>1, <1>2, <1>3, <1>4 DEF Chunk

\* rt_malloc
LEMMA MallocStep == ASSUME HInv, NEW t \in Thread, NEW size, rt_malloc(t, size) PROVE HInv'
  <1>1. HeapOK(heap) /\ Owned(heap.mem, Held) /\ CallsOK
    BY DEF HInv
  <1>2. rmem[t] = NoMem /\ size \in 1 .. mem_size_aligned /\ growing' = growing
    BY DEF rt_malloc
  <1>3. PICK p : Malloc(size, p) /\ rmem' = [rmem EXCEPT ![t] = HeapBlock(p, size)]
    BY DEF rt_malloc
  <1>4. CASE p = NoMem /\ heap' = heap
    <2>1. rmem' = rmem
      BY <1>1, <1>2, <1>3, <1>4 DEF CallsOK, HeapBlock
    <2> QED BY <1>1, <1>2, <1>4, <2>1 DEF HInv, Held, HeldBlocks, CallsOK
  <1>5. CASE IsNew(p, size, heap')
    <2> DEFINE b == HeapBlock(p, size)
    <2>1. /\ p \in Nat /\ p \notin InUse(heap.mem)
          /\ HeapOK(heap') /\ InUse(heap'.mem) = InUse(heap.mem) \cup {p}
          /\ \A o \in InUse(heap.mem) : heap'.mem[o].next = heap.mem[o].next
          /\ p + SIZEOF_STRUCT_MEM + size <= heap'.mem[p].next
      BY <1>5 DEF IsNew
    <2>2. size \in Nat
      BY <1>2, Sizes
    <2>3. b \in Chunk /\ b # NoMem /\ b.ptr = p /\ b.size = size
      BY <2>1, <2>2, BlockIsNew
    <2> HIDE DEF b
    <2>4. growing[t].step = "none"
      BY <1>1, <1>2, CallTypes
    <2>5. \A u \in Thread : rmem'[u] = IF u = t THEN b ELSE rmem[u]
      BY <1>1, <1>3 DEF CallsOK, b
    <2>6. Held' = [Held EXCEPT ![t] = @ \cup {b}]
      <3>1. \A u \in Thread : HeldBlocks(u)' = IF u = t THEN HeldBlocks(u) \cup {b} ELSE HeldBlocks(u)
        BY <1>2, <2>3, <2>4, <2>5 DEF HeldBlocks
      <3> QED BY <3>1 DEF Held
    <2>7. Owned(heap'.mem, Held')
      BY <1>1, <2>1, <2>3, <2>6, OwnedTaken
    <2>8. CallsOK'
      <3>1. rmem' \in [Thread -> Chunk \cup {NoMem}]
        BY <1>1, <1>3, <2>3 DEF CallsOK, b
      <3> QED BY <1>1, <1>2, <2>3, <2>4, <2>5, <3>1 DEF CallsOK
    <2> QED BY <2>1, <2>7, <2>8 DEF HInv
  <1> QED BY <1>1, <1>2, <1>3, <1>4, <1>5, MallocExact

\* rt_free
LEMMA FreeStep == ASSUME HInv, NEW t \in Thread, rt_free(t) PROVE HInv'
  <1> DEFINE b == rmem[t]
  <1>1. HeapOK(heap) /\ Owned(heap.mem, Held) /\ CallsOK
    BY DEF HInv
  <1>2. b # NoMem /\ growing[t] = NotGrowing /\ growing' = growing
        /\ heap' = Freed(b.ptr) /\ rmem' = [rmem EXCEPT ![t] = NoMem]
    BY DEF rt_free
  <1>3. growing[t].step = "none"
    BY <1>2 DEF NotGrowing
  <1>4. b \in Held[t] /\ b.ptr \in InUse(heap.mem)
    <2>1. b \in Held[t]
      BY <1>2 DEF Held, HeldBlocks
    <2> QED BY <1>1, <2>1 DEF Owned
  <1>5. /\ HeapOK(heap') /\ InUse(heap'.mem) = InUse(heap.mem) \ {b.ptr}
        /\ \A o \in InUse(heap'.mem) : heap'.mem[o].next = heap.mem[o].next
    BY <1>1, <1>2, <1>4, FreedExact
  <1>6. \A u \in Thread : rmem'[u] = IF u = t THEN NoMem ELSE rmem[u]
    BY <1>1, <1>2 DEF CallsOK
  <1>7. Held' = [Held EXCEPT ![t] = @ \ {b}]
    <2>1. \A u \in Thread : HeldBlocks(u)' = IF u = t THEN HeldBlocks(u) \ {b} ELSE HeldBlocks(u)
      BY <1>2, <1>3, <1>6 DEF HeldBlocks
    <2> QED BY <2>1 DEF Held
  <1>8. Owned(heap'.mem, Held')
    <2> HIDE DEF b
    <2> QED BY <1>1, <1>4, <1>5, <1>7, OwnedFreed
  <1>9. CallsOK'
    <2>1. rmem' \in [Thread -> Chunk \cup {NoMem}]
      BY <1>1, <1>2 DEF CallsOK
    <2> QED BY <1>1, <1>2, <1>3, <1>6, <2>1 DEF CallsOK
  <1> QED BY <1>5, <1>8, <1>9 DEF HInv

\* The last section of rt_realloc.
LEMMA ReallocFreesStep == ASSUME HInv, NEW t \in Thread, ReallocFrees(t) PROVE HInv'
  <1> DEFINE b == rmem[t]
             c == HeapBlock(growing[t].ptr, growing[t].size)
  <1>1. HeapOK(heap) /\ Owned(heap.mem, Held) /\ CallsOK
    BY DEF HInv
  <1>2. growing[t].step = "free" /\ growing' = [growing EXCEPT ![t] = NotGrowing]
        /\ heap' = Freed(b.ptr) /\ rmem' = [rmem EXCEPT ![t] = c]
    BY DEF ReallocFrees
  <1>3. b # NoMem /\ growing[t].ptr \in Nat /\ growing[t].size \in Nat /\ growing[t].ptr # b.ptr
    BY <1>1, <1>2, CallTypes
  <1>4. b \in Held[t] /\ b.ptr \in InUse(heap.mem)
    <2>1. b \in Held[t]
      BY <1>3 DEF Held, HeldBlocks
    <2> QED BY <1>1, <2>1 DEF Owned
  <1>5. /\ HeapOK(heap') /\ InUse(heap'.mem) = InUse(heap.mem) \ {b.ptr}
        /\ \A o \in InUse(heap'.mem) : heap'.mem[o].next = heap.mem[o].next
    BY <1>1, <1>2, <1>4, FreedExact
  <1>6. c \in Chunk /\ c # NoMem /\ c.ptr = growing[t].ptr
        /\ c = [ptr |-> growing[t].ptr, size |-> growing[t].size]
    BY <1>3, BlockIsNew
  <1>7. c # b
    BY <1>3, <1>6
  <1>8. HeldBlocks(t) = {b, c}
    BY <1>2, <1>3, <1>6 DEF HeldBlocks
  <1> HIDE DEF c
  <1>9. \A u \in Thread : /\ rmem'[u] = IF u = t THEN c ELSE rmem[u]
                          /\ growing'[u] = IF u = t THEN NotGrowing ELSE growing[u]
    BY <1>1, <1>2 DEF CallsOK
  <1>10. NotGrowing.step = "none"
    BY DEF NotGrowing
  <1>11. Held' = [Held EXCEPT ![t] = @ \ {b}]
    <2>1. HeldBlocks(t)' = {c}
      BY <1>6, <1>9, <1>10 DEF HeldBlocks
    <2>2. \A u \in Thread : HeldBlocks(u)' = IF u = t THEN HeldBlocks(u) \ {b} ELSE HeldBlocks(u)
      <3> SUFFICES ASSUME NEW u \in Thread
                   PROVE  HeldBlocks(u)' = IF u = t THEN HeldBlocks(u) \ {b} ELSE HeldBlocks(u)
        OBVIOUS
      <3>1. CASE u = t
        BY <3>1, <2>1, <1>7, <1>8
      <3>2. CASE u # t
        BY <3>2, <1>9 DEF HeldBlocks
      <3> QED BY <3>1, <3>2
    <2> QED BY <2>2 DEF Held
  <1>12. Owned(heap'.mem, Held')
    <2> HIDE DEF b
    <2> QED BY <1>1, <1>4, <1>5, <1>11, OwnedFreed
  <1>13. CallsOK'
    <2>1. rmem' \in [Thread -> Chunk \cup {NoMem}]
      BY <1>1, <1>2, <1>6 DEF CallsOK
    <2>2. growing' \in [Thread -> Growing]
      BY <1>1, <1>2 DEF CallsOK, Growing
    <2> QED BY <1>1, <1>9, <1>10, <2>1, <2>2 DEF CallsOK
  <1> QED BY <1>5, <1>12, <1>13 DEF HInv

\* The second section of rt_realloc.
LEMMA ReallocMallocsStep == ASSUME HInv, NEW t \in Thread, ReallocMallocs(t) PROVE HInv'
  <1> DEFINE size == growing[t].size
             New(p) == [step |-> "free", size |-> size, ptr |-> p]
  <1>1. HeapOK(heap) /\ Owned(heap.mem, Held) /\ CallsOK
    BY DEF HInv
  <1>2. growing[t].step = "malloc" /\ rmem' = rmem
    BY DEF ReallocMallocs
  <1>3. PICK p : /\ Malloc(size, p)
                 /\ growing' = [growing EXCEPT ![t] = IF p = NoMem THEN NotGrowing ELSE New(p)]
    BY DEF ReallocMallocs
  <1>4. size \in Nat /\ rmem[t] # NoMem
    BY <1>1, <1>2, CallTypes
  <1>5. NotGrowing.step = "none" /\ NotGrowing \in Growing
    BY DEF NotGrowing, Growing
  <1>6. CASE p = NoMem /\ heap' = heap
    <2>1. \A u \in Thread : growing'[u] = IF u = t THEN NotGrowing ELSE growing[u]
      BY <1>1, <1>3, <1>6 DEF CallsOK
    <2>2. \A u \in Thread : HeldBlocks(u)' = HeldBlocks(u)
      BY <1>2, <1>5, <2>1 DEF HeldBlocks
    <2>3. Held' = Held
      BY <2>2 DEF Held
    <2>4. growing' \in [Thread -> Growing]
      BY <1>1, <1>3, <1>5, <1>6 DEF CallsOK
    <2>5. CallsOK'
      BY <1>1, <1>2, <1>5, <2>1, <2>4 DEF CallsOK
    <2> QED BY <1>1, <1>6, <2>3, <2>5 DEF HInv
  <1>7. CASE IsNew(p, size, heap')
    <2> DEFINE b == [ptr |-> p, size |-> size]
    <2>1. /\ p \in Nat /\ p \notin InUse(heap.mem)
          /\ HeapOK(heap') /\ InUse(heap'.mem) = InUse(heap.mem) \cup {p}
          /\ \A o \in InUse(heap.mem) : heap'.mem[o].next = heap.mem[o].next
          /\ p + SIZEOF_STRUCT_MEM + size <= heap'.mem[p].next
      BY <1>7 DEF IsNew
    <2>2. b \in Chunk /\ b.ptr = p /\ b.size = size /\ p # NoMem
      BY <1>4, <2>1, BlockIsNew DEF Chunk
    <2>3. New(p) \in Growing /\ New(p).step = "free" /\ New(p).ptr = p /\ New(p).size = size
      BY <1>4, <2>1 DEF Growing
    <2>4. growing' = [growing EXCEPT ![t] = New(p)]
      BY <1>3, <2>2
    <2> HIDE DEF New, size
    <2>5. \A u \in Thread : growing'[u] = IF u = t THEN New(p) ELSE growing[u]
      BY <1>1, <2>4 DEF CallsOK
    <2>6. Held' = [Held EXCEPT ![t] = @ \cup {b}]
      <3>1. HeldBlocks(t) = {rmem[t]}
        BY <1>2, <1>4 DEF HeldBlocks
      <3>2. HeldBlocks(t)' = {rmem[t]} \cup {b}
        BY <1>2, <1>4, <2>3, <2>5 DEF HeldBlocks
      <3>3. \A u \in Thread : HeldBlocks(u)' = IF u = t THEN HeldBlocks(u) \cup {b} ELSE HeldBlocks(u)
        <4> SUFFICES ASSUME NEW u \in Thread
                     PROVE  HeldBlocks(u)' = IF u = t THEN HeldBlocks(u) \cup {b} ELSE HeldBlocks(u)
          OBVIOUS
        <4>1. CASE u = t
          BY <3>1, <3>2, <4>1
        <4>2. CASE u # t
          BY <4>2, <1>2, <2>5 DEF HeldBlocks
        <4> QED BY <4>1, <4>2
      <3> QED BY <3>3 DEF Held
    <2>7. Owned(heap'.mem, Held')
      <3> HIDE DEF b
      <3> QED BY <1>1, <2>1, <2>2, <2>6, OwnedTaken
    <2>8. rmem[t].ptr # p
      <3>1. rmem[t] \in Held[t]
        BY <1>4 DEF Held, HeldBlocks
      <3> QED BY <1>1, <2>1, <3>1 DEF Owned
    <2>9. CallsOK'
      <3>1. growing' \in [Thread -> Growing]
        BY <1>1, <2>3, <2>4 DEF CallsOK
      <3> QED BY <1>1, <1>2, <1>4, <2>3, <2>5, <2>8, <3>1 DEF CallsOK
    <2> QED BY <2>1, <2>7, <2>9 DEF HInv
  <1>8. size \in 1 .. mem_size_aligned
    <2>1. growing[t] \in Growing
      BY <1>1 DEF CallsOK
    <2> QED BY <1>2, <2>1 DEF Growing, NotGrowing
  <1> QED BY <1>1, <1>3, <1>6, <1>7, <1>8, MallocExact

\* The first section of rt_realloc.
LEMMA ReallocStep == ASSUME HInv, NEW t \in Thread, NEW newsize, rt_realloc(t, newsize) PROVE HInv'
  <1> DEFINE b == rmem[t]
             p == b.ptr
             size == Room(heap, p)
             cut == newsize + SIZEOF_STRUCT_MEM + MIN_SIZE < size
  <1>1. HeapOK(heap) /\ Owned(heap.mem, Held) /\ CallsOK
    BY DEF HInv
  <1>2. /\ b # NoMem /\ growing[t] = NotGrowing /\ newsize \in 1 .. mem_size_aligned
        /\ heap' = IF cut THEN plug_holes(Split(heap, p, newsize), p + SIZEOF_STRUCT_MEM + newsize)
                   ELSE heap
        /\ IF cut \/ size = newsize
           THEN rmem' = [rmem EXCEPT ![t].size = newsize] /\ growing' = growing
           ELSE /\ growing' = [growing EXCEPT ![t] = [step |-> "malloc", size |-> newsize]]
                /\ rmem' = rmem
    BY DEF rt_realloc
  <1>3. growing[t].step = "none" /\ newsize \in Nat /\ newsize > 0
    BY <1>2, Sizes DEF NotGrowing
  <1>4. b \in Chunk /\ p \in Nat
    BY <1>1, <1>2, CallTypes
  <1>5. b \in Held[t] /\ p \in InUse(heap.mem)
    <2>1. b \in Held[t]
      BY <1>2 DEF Held, HeldBlocks
    <2> QED BY <1>1, <2>1 DEF Owned
  <1>6. heap.mem[p].next \in Nat /\ size = heap.mem[p].next - (p + SIZEOF_STRUCT_MEM)
    BY <1>1, <1>5 DEF HeapOK, Chained, Header, InUse, Room
  <1>7. CASE cut \/ size = newsize
    <2> DEFINE b2 == [b EXCEPT !.size = newsize]
    <2>1. b2 \in Chunk /\ b2.ptr = p /\ b2.size = newsize
      BY <1>3, <1>4 DEF Chunk
    <2>2. b2 # NoMem
      BY <2>1, HeapAssumption, Zenon DEF Chunk
    <2>3. /\ HeapOK(heap') /\ InUse(heap'.mem) = InUse(heap.mem)
          /\ \A o \in InUse(heap.mem) \ {p} : heap'.mem[o].next = heap.mem[o].next
          /\ p + SIZEOF_STRUCT_MEM + newsize <= heap'.mem[p].next
      <3>1. CASE cut
        <4>1. heap' = plug_holes(Split(heap, p, newsize), p + SIZEOF_STRUCT_MEM + newsize)
          BY <1>2, <3>1
        <4> HIDE DEF p
        <4>2. /\ HeapOK(heap') /\ InUse(heap'.mem) = InUse(heap.mem)
              /\ \A o \in InUse(heap.mem) \ {p} : heap'.mem[o].next = heap.mem[o].next
              /\ heap'.mem[p].next = p + SIZEOF_STRUCT_MEM + newsize
          BY <1>1, <1>3, <1>5, <3>1, <4>1, CutExact
        <4>3. p + SIZEOF_STRUCT_MEM + newsize <= p + SIZEOF_STRUCT_MEM + newsize
          BY <1>3, <1>4, Sizes
        <4> QED BY <4>2, <4>3
      <3>2. CASE ~cut
        <4>1. heap' = heap /\ size = newsize
          BY <1>2, <1>7, <3>2
        <4> DEFINE nx == heap.mem[p].next
        <4>2. nx \in Nat /\ newsize = nx - (p + SIZEOF_STRUCT_MEM)
          BY <1>6, <4>1
        <4> HIDE DEF nx, p
        <4>3. p + SIZEOF_STRUCT_MEM + newsize <= nx
          BY <1>3, <1>4, <4>2, Sizes
        <4> QED BY <1>1, <4>1, <4>3 DEF nx
      <3> QED BY <3>1, <3>2
    <2>4. growing' = growing /\ rmem' = [rmem EXCEPT ![t] = b2]
      BY <1>2, <1>7
    <2> HIDE DEF b2
    <2>5. \A u \in Thread : rmem'[u] = IF u = t THEN b2 ELSE rmem[u]
      BY <1>1, <2>4 DEF CallsOK
    <2>6. Held' = [Held EXCEPT ![t] = (@ \ {b}) \cup {b2}]
      <3>1. HeldBlocks(t) = {b} /\ HeldBlocks(t)' = {b2}
        BY <1>2, <1>3, <2>2, <2>4, <2>5 DEF HeldBlocks
      <3>2. \A u \in Thread : HeldBlocks(u)' = IF u = t THEN (HeldBlocks(u) \ {b}) \cup {b2}
                                               ELSE HeldBlocks(u)
        <4> SUFFICES ASSUME NEW u \in Thread
                     PROVE  HeldBlocks(u)' = IF u = t THEN (HeldBlocks(u) \ {b}) \cup {b2}
                                             ELSE HeldBlocks(u)
          OBVIOUS
        <4>1. CASE u = t
          BY <3>1, <4>1
        <4>2. CASE u # t
          BY <4>2, <2>4, <2>5 DEF HeldBlocks
        <4> QED BY <4>1, <4>2
      <3> QED BY <3>2 DEF Held
    <2>7. Owned(heap'.mem, Held')
      <3>1. p = b.ptr
        OBVIOUS
      <3> HIDE DEF b, p
      <3> QED BY <1>1, <1>5, <2>1, <2>3, <2>6, <3>1, OwnedResized
    <2>8. CallsOK'
      <3>1. rmem' \in [Thread -> Chunk \cup {NoMem}]
        BY <1>1, <2>1, <2>4 DEF CallsOK
      <3> QED BY <1>1, <1>3, <2>2, <2>4, <2>5, <3>1 DEF CallsOK
    <2> QED BY <2>3, <2>7, <2>8 DEF HInv
  <1>8. CASE ~(cut \/ size = newsize)
    <2> DEFINE g == [step |-> "malloc", size |-> newsize]
    <2>1. heap' = heap /\ rmem' = rmem /\ growing' = [growing EXCEPT ![t] = g]
      BY <1>2, <1>8
    <2>2. g \in Growing /\ g.step = "malloc" /\ g.size = newsize
      BY <1>2, <1>3 DEF Growing
    <2> HIDE DEF g
    <2>3. \A u \in Thread : growing'[u] = IF u = t THEN g ELSE growing[u]
      BY <1>1, <2>1 DEF CallsOK
    <2>4. \A u \in Thread : HeldBlocks(u)' = HeldBlocks(u)
      BY <1>3, <2>1, <2>2, <2>3 DEF HeldBlocks
    <2>5. Held' = Held
      BY <2>4 DEF Held
    <2>6. CallsOK'
      <3>1. growing' \in [Thread -> Growing]
        BY <1>1, <2>1, <2>2 DEF CallsOK
      <3> QED BY <1>1, <1>2, <2>1, <2>2, <2>3, <3>1 DEF CallsOK
    <2> QED BY <1>1, <2>1, <2>5, <2>6 DEF HInv
  <1> QED BY <1>7, <1>8

\* The heap is one free block at first.
LEMMA HeapInitExact == HeapInit => HInv
  <1> SUFFICES ASSUME HeapInit PROVE HInv
    OBVIOUS
  <1> DEFINE mem == heap.mem
  <1>1. /\ mem = [o \in {0, heap_end} |-> IF o = 0 THEN Mem(FALSE, heap_end, 0)
                                           ELSE Mem(TRUE, heap_end, heap_end)]
        /\ heap.lfree = 0 /\ heap = HeapOf(mem, 0)
    BY DEF HeapInit, HeapOf
  <1>2. heap_end \in Nat /\ heap_end > SIZEOF_STRUCT_MEM /\ heap_end # 0 /\ SIZEOF_STRUCT_MEM \in Nat
    BY Sizes
  <1>3. /\ DOMAIN mem = {0, heap_end}
        /\ mem[0] = [used |-> FALSE, next |-> heap_end, prev |-> 0]
        /\ mem[heap_end] = [used |-> TRUE, next |-> heap_end, prev |-> heap_end]
    BY <1>1, <1>2 DEF Mem
  <1>4. mem \in [DOMAIN mem -> Header]
    <2>1. mem[0] \in Header /\ mem[heap_end] \in Header
      <3> HIDE DEF mem
      <3> QED BY <1>2, <1>3 DEF Header
    <2>2. mem = [o \in DOMAIN mem |-> mem[o]]
      BY <1>1
    <2> HIDE DEF mem
    <2> QED BY <1>3, <2>1, <2>2
  <1> HIDE DEF mem
  <1>5. Chained(mem)
    BY <1>2, <1>3, <1>4 DEF Chained
  <1>6. Plugged(mem) /\ LowFree(mem, 0) /\ InUse(mem) = {}
    BY <1>2, <1>3 DEF Plugged, LowFree, InUse
  <1>7. HeapOK(heap)
    BY <1>1, <1>5, <1>6 DEF HeapOK, mem
  <1>8. NotGrowing.step = "none" /\ NotGrowing \in Growing
    BY DEF NotGrowing, Growing
  <1>9. CallsOK
    BY <1>8 DEF HeapInit, CallsOK
  <1>10. \A t \in Thread : HeldBlocks(t) = {}
    BY <1>8 DEF HeapInit, HeldBlocks
  <1>11. Held \in [Thread -> SUBSET Chunk] /\ \A t \in Thread : Held[t] = {}
    BY <1>10 DEF Held
  <1>12. Owned(mem, Held)
    BY <1>6, <1>11 DEF Owned
  <1> QED BY <1>7, <1>9, <1>12 DEF HInv, mem

\* The invariant is about the variables of the heap.
LEMMA HeapFrame == ASSUME HInv, UNCHANGED heapvars PROVE HInv'
  <1>1. heap' = heap /\ rmem' = rmem /\ growing' = growing
    BY DEF heapvars
  <1> QED BY <1>1 DEF HInv, Held, HeldBlocks, CallsOK

\* The other objects leave the heap alone.
LEMMA NotTheHeap ==
    NotMail \/ NotPool \/ NotEvent \/ NotWifi \/ NotMq \/ NotDq \/ NotCompletion \/ NotPipe
      => UNCHANGED heapvars
  BY DEF NotMail, NotPool, NotEvent, NotWifi, NotMq, NotDq, NotCompletion, NotPipe, Drivers

\* Every step keeps the invariant of the heap.
LEMMA HeapStepExact == ASSUME HInv, [Next]_vars PROVE HInv'
  <1>1. CASE UNCHANGED vars
    <2>1. UNCHANGED heapvars
      BY <1>1 DEF vars
    <2> QED BY <2>1, HeapFrame
  <1>2. ASSUME NEW t \in Thread, HeapStep(t) PROVE HInv'
    BY <1>2, ReallocMallocsStep, ReallocFreesStep DEF HeapStep
  <1>3. CASE HeapNext
    BY <1>3, MallocStep, FreeStep, ReallocStep DEF HeapNext
  <1>4. ASSUME NEW t \in Thread, Back(t) \/ Section(t) \/ Proceed(t) \/ Timeout(t) PROVE HInv'
    <2>1. CASE Back(t)
      BY <2>1, NotTheHeap, HeapFrame DEF Back
    <2>2. CASE Section(t)
      BY <2>2, <1>2, NotTheHeap, HeapFrame DEF Section
    <2>3. CASE Proceed(t)
      BY <2>3, NotTheHeap, HeapFrame DEF Proceed
    <2>4. CASE Timeout(t)
      <3>1. UNCHANGED heapvars
        BY <2>4 DEF Timeout
      <3> QED BY <3>1, HeapFrame
    <2> QED BY <1>4, <2>1, <2>2, <2>3, <2>4
  <1>5. CASE Next
    <2>1. ASSUME NotMail \/ NotPool \/ NotEvent \/ NotWifi \/ NotMq \/ NotDq \/ NotCompletion
                 \/ NotPipe
          PROVE  HInv'
      BY <2>1, NotTheHeap, HeapFrame
    <2>2. ASSUME NEW t \in Thread, Drive(t) PROVE HInv'
      BY <2>2, <2>1 DEF Drive
    <2> QED BY <1>3, <1>4, <1>5, <2>1, <2>2 DEF Next
  <1> QED BY <1>1, <1>5

\* A least element that is known.
LEMMA KnownMin ==
    ASSUME NEW S, S \subseteq Nat, NEW x \in S, \A y \in S : x <= y
    PROVE  Min(S) = x
  <1>1. Min(S) \in S /\ \A y \in S : Min(S) <= y
    BY LeastOfNat
  <1>2. Min(S) <= x /\ x <= Min(S) /\ Min(S) \in Nat /\ x \in Nat
    BY <1>1
  <1> QED BY <1>2

\* A greatest element that is known.
LEMMA KnownMax ==
    ASSUME NEW S, S \subseteq Nat, NEW x \in S, \A y \in S : x >= y
    PROVE  Max(S) = x
  <1>1. Max(S) \in S /\ \A y \in S : Max(S) >= y
    BY DEF Max
  <1>2. Max(S) >= x /\ x >= Max(S) /\ Max(S) \in Nat /\ x \in Nat
    BY <1>1
  <1> QED BY <1>2

\* The invariant is stronger than what the run checks.
LEMMA InvHeapExact == HInv => HeapExact
  <1> SUFFICES ASSUME HInv PROVE HeapExact
    OBVIOUS
  <1> DEFINE mem == heap.mem
             Blocks == DOMAIN mem \ {heap_end}
  <1>1. Chained(mem) /\ Plugged(mem) /\ LowFree(mem, heap.lfree) /\ Owned(mem, Held)
    BY DEF HInv, HeapOK
  <1>2. \A p \in Blocks : Room(heap, p) = mem[p].next - (p + SIZEOF_STRUCT_MEM)
    BY DEF Room
  <1>3. \A t \in Thread : Held[t] = HeldBlocks(t)
    BY DEF Held
  <1> HIDE DEF mem
  <1>4. DOMAIN mem \subseteq Nat /\ {0, heap_end} \subseteq DOMAIN mem
    BY <1>1 DEF Chained
  <1>5. ASSUME NEW p \in Blocks
        PROVE  /\ mem[p].next = Min({q \in DOMAIN mem : q > p})
               /\ Room(heap, p) >= 1
               /\ p # 0 => mem[p].prev = Max({q \in DOMAIN mem : q < p})
               /\ ~mem[p].used => mem[mem[p].next].used
    <2>1. /\ p \in Nat /\ mem[p].next \in DOMAIN mem /\ mem[p].next \in Nat
          /\ mem[p].next > p + SIZEOF_STRUCT_MEM
      BY <1>1, Neighbours
    <2>2. \A q \in DOMAIN mem : q <= p \/ q >= mem[p].next
      BY <1>1 DEF Chained
    <2>3. mem[p].next = Min({q \in DOMAIN mem : q > p})
      <3> DEFINE S == {q \in DOMAIN mem : q > p}
                 x == mem[p].next
      <3>1. S \subseteq Nat /\ x \in S /\ \A y \in S : x <= y
        BY <1>4, <2>1, <2>2, Sizes
      <3> HIDE DEF S, x
      <3>2. Min(S) = x
        BY <3>1, KnownMin
      <3> QED BY <3>2 DEF S, x
    <2>4. ASSUME p # 0 PROVE mem[p].prev = Max({q \in DOMAIN mem : q < p})
      <3> DEFINE S == {q \in DOMAIN mem : q < p}
                 x == mem[p].prev
      <3>1. x \in DOMAIN mem /\ x < p /\ \A q \in DOMAIN mem : q <= x \/ q >= p
        BY <1>1, <2>4 DEF Chained
      <3>2. S \subseteq Nat /\ x \in S /\ \A y \in S : x >= y
        BY <1>4, <2>1, <3>1
      <3> HIDE DEF S, x
      <3>3. Max(S) = x
        BY <3>2, KnownMax
      <3> QED BY <3>3 DEF S, x
    <2>5. Room(heap, p) >= 1
      BY <1>2, <2>1, Sizes
    <2> QED BY <1>1, <2>3, <2>4, <2>5 DEF Plugged
  <1>6. heap.lfree # heap_end => heap.lfree \in Blocks /\ ~mem[heap.lfree].used
    BY <1>1 DEF LowFree
  <1>7. ASSUME NEW p \in Blocks
        PROVE  mem[p].used <=>
                 \E t \in Thread : \E b \in HeldBlocks(t) : b.ptr = p /\ b.size <= Room(heap, p)
    <2>1. ASSUME mem[p].used
          PROVE  \E t \in Thread : \E b \in HeldBlocks(t) : b.ptr = p /\ b.size <= Room(heap, p)
      <3>1. p \in InUse(mem)
        BY <2>1 DEF InUse
      <3>2. PICK t \in Thread : \E b \in Held[t] : b.ptr = p
        BY <1>1, <3>1 DEF Owned
      <3>3. PICK b \in Held[t] : b.ptr = p
        BY <3>2
      <3>4. b \in Chunk /\ p + SIZEOF_STRUCT_MEM + b.size <= mem[p].next
        BY <1>1, <3>3 DEF Owned
      <3>5. b.size \in Nat /\ p \in Nat /\ mem[p].next \in Nat
        BY <1>1, <3>4, Neighbours DEF Chunk
      <3> DEFINE nx == mem[p].next
                 sz == b.size
      <3>6. sz \in Nat /\ nx \in Nat /\ p + SIZEOF_STRUCT_MEM + sz <= nx
            /\ Room(heap, p) = nx - (p + SIZEOF_STRUCT_MEM)
        BY <1>2, <3>4, <3>5
      <3> HIDE DEF nx, sz
      <3>7. sz <= Room(heap, p)
        BY <3>5, <3>6, Sizes
      <3> QED BY <1>3, <3>3, <3>7 DEF sz
    <2>2. ASSUME NEW t \in Thread, NEW b \in HeldBlocks(t), b.ptr = p PROVE mem[p].used
      <3>1. b.ptr \in InUse(mem)
        BY <1>1, <1>3, <2>2 DEF Owned
      <3> QED BY <2>2, <3>1 DEF InUse
    <2>3. mem[p].used \in BOOLEAN
      BY <1>1 DEF Chained, Header
    <2> QED BY <2>1, <2>2, <2>3
  <1>8. \A t, u \in Thread : t # u => \A b \in HeldBlocks(t), c \in HeldBlocks(u) : b.ptr # c.ptr
    BY <1>1, <1>3 DEF Owned
  <1> QED BY <1>4, <1>5, <1>6, <1>7, <1>8 DEF HeapExact, mem

\* Every reachable state satisfies the inductive invariant of the heap.
THEOREM HeapInvariance == Spec => []HInv
  <1>1. Init => HInv
    BY HeapInitExact DEF Init
  <1>2. HInv /\ [Next]_vars => HInv'
    BY HeapStepExact
  <1> QED BY <1>1, <1>2, PTL DEF Spec

\* rt_malloc, rt_free and the three sections of rt_realloc leave an exact heap to each
\* other, for any sizes, any number of threads and any calls: the blocks fill the heap
\* without overlapping, no two free ones touch, and each block in use is one thread's.
THEOREM HeapIsExact == Spec => []HeapExact
  BY HeapInvariance, InvHeapExact, PTL

\* The invariant of the heap gives its types.
LEMMA HeapTypes == HInv => HeapTypeOK
  <1> SUFFICES ASSUME HInv PROVE HeapTypeOK
    OBVIOUS
  <1>1. ASSUME NEW t \in Thread, rmem[t] # NoMem PROVE rmem[t].ptr \in DOMAIN heap.mem
    <2>1. rmem[t] \in HeldBlocks(t) /\ Held[t] = HeldBlocks(t)
      BY <1>1 DEF HeldBlocks, Held
    <2>2. rmem[t].ptr \in InUse(heap.mem)
      BY <2>1 DEF HInv, Owned
    <2> QED BY <2>2 DEF InUse
  <1>2. \A t \in Thread : growing[t].step \in {"none", "malloc", "free"}
    BY NoCall DEF HInv, CallsOK, Growing
  <1> QED BY <1>1, <1>2 DEF HeapTypeOK

\* The types of a pipe that is not in use.
LEMMA PipeIdleTypes == ASSUME PipeInit PROVE PipeTypeOK
  <1>1. Cardinality(Thread) \in Nat
    BY IpcAssumption, FS_CardinalityType
  <1>2. NoIo.op = "none" /\ NoIo.left = 0
    BY DEF NoIo
  <1>3. waiting_list \in [Queue -> Seq(Thread)]
    BY DEF PipeInit
  <1> QED BY <1>1, <1>2, <1>3 DEF PipeInit, PipeTypeOK

\* The types of the pipe, used or not.
LEMMA PipeTypes == ASSUME IpcInv PROVE PipeTypeOK
  <1>1. CASE object = "pipe"
    BY <1>1, PipeOKMeans DEF IpcInv, InUseOK
  <1>2. CASE object # "pipe"
    BY <1>2, PipeIdleTypes DEF IpcInv, Base, Elsewhere
  <1> QED BY <1>1, <1>2

\* Every variable has its type in every reachable state, whatever the threads call, if
\* no thread limits the time that it waits for a block of the pool (with a timeout
\* suspend_thread_count grows without bound) and no push begins once MaxPut pushes were
\* made, by which the indices of the data queue stay within their 16 bits.
THEOREM TypeCorrect == ASSUME Untimed PROVE Spec => []TypeOK
  <1>1. IpcInv /\ ExactPool /\ HInv => TypeOK
    <2> SUFFICES ASSUME IpcInv, ExactPool, HInv PROVE TypeOK
      OBVIOUS
    <2>1. /\ stat \in [Thread -> {"READY", "SUSPEND"}] /\ timer \subseteq Thread
          /\ error \in [Thread -> Error]
          /\ pc \in [Thread -> {"run", "schedule", "off", "check", "fill", "link", "copy",
                                "release", "done", "lock", "wake", "last wake", "wait"}]
      <3>1. Label = {"run", "schedule", "off", "check", "fill", "link", "copy",
                     "release", "done", "lock", "wake", "last wake", "wait"}
        BY DEF Label, MqLabel, PipeLabel
      <3>2. WaitOK
        BY EachObject
      <3> QED BY <3>1, <3>2 DEF WaitOK
    <2>2. /\ MailTypeOK /\ EventTypeOK /\ WifiTypeOK /\ MqTypeOK /\ DqTypeOK /\ CompletionTypeOK
      BY EachObject
    <2>3. PoolTypeOK /\ HeapTypeOK /\ PipeTypeOK
      BY ExactPoolMeans, HeapTypes, PipeTypes
    <2> QED BY <2>1, <2>2, <2>3 DEF TypeOK
  <1> QED BY <1>1, IpcInvariance, ExactPoolAlways, HeapInvariance, PTL

-----------------------------------------------------------------------------
(* The pipe, with one reader and one writer.                               *)

PipeUsed(r, w) == object = "pipe" => PipeInv(r, w)

\* The pipe with one reader and one writer.
LEMMA PipeUsedAlways == ASSUME NEW r, NEW w, Ends(r, w) PROVE Spec => []PipeUsed(r, w)
  <1>1. Init => PipeUsed(r, w)
    <2> SUFFICES ASSUME Init PROVE PipeInv(r, w)
      BY DEF PipeUsed
    <2>1. PipeInit /\ WaitInit
      BY DEF Init
    <2> QED BY <2>1, PipeInitInv
  <1>2. IpcInv /\ PipeUsed(r, w) /\ [Next]_vars => PipeUsed(r, w)'
    <2> SUFFICES ASSUME IpcInv, PipeUsed(r, w), [Next]_vars PROVE PipeUsed(r, w)'
      OBVIOUS
    <2>1. Base /\ WaitOK /\ object' = object /\ StepOf
      BY BaseStep DEF IpcInv, Base
    <2>2. ASSUME object = "pipe" PROVE PipeInv(r, w)'
      <3>1. PipeOK /\ PipeInv(r, w)
        BY <2>2 DEF IpcInv, InUseOK, PipeUsed
      <3>2. CASE UNCHANGED vars
        BY <3>1, <3>2, PipeStutters
      <3>3. ASSUME NEW t \in Thread, Proceed(t) \/ Timeout(t) PROVE PipeInv(r, w)'
        BY <2>1, <3>1, <3>3, PipeOthersInv
      <3>4. CASE AnyPipeStep
        BY <2>1, <3>1, <3>4, AnyPipeStepInv
      <3> QED BY <2>1, <2>2, <3>2, <3>3, <3>4 DEF StepOf
    <2> QED BY <2>1, <2>2 DEF PipeUsed
  <1> QED BY <1>1, <1>2, IpcInvariance, PTL DEF Spec

\* No object forgets a waiting thread, for any threads, calls, timeouts and resets,
\* with any sizes; of the pipe this is so if one thread reads and one writes, of the
\* data queue for the pushes before its indices wrap (MaxPut in DqAssumption).
THEOREM NoWakeupIsLost ==
    ASSUME NEW r, NEW w, Ends(r, w) PROVE Spec => []NoLostWakeup
  <1>1. IpcInv /\ PipeUsed(r, w) => NoLostWakeup
    <2> SUFFICES ASSUME IpcInv, PipeUsed(r, w) PROVE NoLostWakeup
      OBVIOUS
    <2>1. NoLostPipe
      <3>1. CASE object = "pipe"
        BY <3>1, EachObject, PipeInvMeans DEF IpcInv, InUseOK, PipeUsed
      <3>2. CASE object # "pipe"
        BY <3>2, PipeAtRest DEF IpcInv, Base, Elsewhere
      <3> QED BY <3>1, <3>2
    <2> QED BY <2>1, EachObject DEF NoLostWakeup
  <1> QED BY <1>1, IpcInvariance, PipeUsedAlways, PTL

-----------------------------------------------------------------------------
(* What is conserved.                                                      *)

RingUsed == object = "ring buffer" => RingInv
WifiUsed == object = "wifi" => WifiAll

\* The ring buffer with one forced byte at a time.
LEMMA RingUsedAlways == ASSUME OneByteForced PROVE Spec => []RingUsed
  <1>1. Init => RingUsed
    <2> SUFFICES ASSUME Init PROVE RingInv
      BY DEF RingUsed
    <2> QED BY PipeInitOK DEF Init, PipeOK
  <1>2. IpcInv /\ RingUsed /\ [Next]_vars => RingUsed'
    <2> SUFFICES ASSUME IpcInv, RingUsed, [Next]_vars PROVE RingUsed'
      OBVIOUS
    <2>1. Base /\ object' = object /\ StepOf
      BY BaseStep DEF IpcInv
    <2>2. ASSUME object = "ring buffer" PROVE RingInv'
      <3>1. RingInv
        BY <2>2 DEF RingUsed
      <3>2. ASSUME NEW t \in Thread, Proceed(t) \/ Timeout(t) PROVE UNCHANGED ringvars
        BY <3>2 DEF Proceed, Timeout, NotMail, Drivers
      <3> QED BY <2>1, <2>2, <3>1, <3>2, PipeStutters, RingStepInv, RingSame DEF StepOf
    <2> QED BY <2>1, <2>2 DEF RingUsed
  <1> QED BY <1>1, <1>2, IpcInvariance, PTL DEF Spec

\* The driver with room for all its blocks.
LEMMA WifiUsedAlways == ASSUME Lossless PROVE Spec => []WifiUsed
  <1>1. Init => WifiUsed
    <2> SUFFICES ASSUME Init PROVE WifiAll
      BY DEF WifiUsed
    <2>1. WaitOK /\ timer = {}
      BY BaseInit DEF Base, Init, WaitInit
    <2> QED BY <2>1, WifiInitInv DEF Init
  <1>2. IpcInv /\ WifiUsed /\ [Next]_vars => WifiUsed'
    <2> SUFFICES ASSUME IpcInv, WifiUsed, [Next]_vars PROVE WifiUsed'
      OBVIOUS
    <2>1. Base /\ WaitOK /\ object' = object /\ StepOf
      BY BaseStep DEF IpcInv, Base
    <2>2. ASSUME object = "wifi" PROVE WifiAll'
      <3>1. WifiInv /\ WifiAll /\ MailIdle
        BY <2>1, <2>2 DEF IpcInv, InUseOK, WifiUsed, Base, Elsewhere
      <3> QED BY <2>1, <2>2, <3>1, WifiStutters, WifiBackInv, WifiEventBackInv, WifiStepInv,
              WifiOthersInv DEF StepOf
    <2> QED BY <2>1, <2>2 DEF WifiUsed
  <1> QED BY <1>1, <1>2, IpcInvariance, PTL DEF Spec

\* Nothing is lost or doubled, for any threads, calls and sizes: if no thread limits the
\* time that it waits for a block, no more than one byte at a time is forced into the
\* ring buffer, and the slave takes every packet of the driver, whose mailbox has room
\* for all packets.
THEOREM NothingIsLost ==
    ASSUME Untimed, OneByteForced, Lossless PROVE Spec => []Conserved
  <1>1. IpcInv /\ ExactPool /\ RingUsed /\ WifiUsed => Conserved
    <2> SUFFICES ASSUME IpcInv, ExactPool, RingUsed, WifiUsed PROVE Conserved
      OBVIOUS
    <2>1. CountsExact /\ ChainsExact
      BY ExactPoolMeans, EachObject
    <2>2. RingInv
      <3>1. CASE object \notin {"ring buffer", "pipe"}
        <4>1. RingInit
          BY <3>1 DEF IpcInv, Base, Elsewhere
        <4> QED BY <4>1, RingInitInv
      <3> QED BY <3>1 DEF IpcInv, InUseOK, RingUsed, PipeOK
    <2>3. RingExact
      BY <2>2, RingInvMeans
    <2>4. object = "wifi" => BlocksConserved
      BY EachObject, WifiInvMeans DEF IpcInv, InUseOK, WifiUsed
    <2> QED BY <2>1, <2>3, <2>4 DEF Conserved
  <1> QED BY <1>1, IpcInvariance, ExactPoolAlways, RingUsedAlways, WifiUsedAlways, PTL

-----------------------------------------------------------------------------
(* The three queues implement the bounded queue of Channel.                *)

\* What stands for the variables of Channel.
ChMsg == Msg \cup Content \cup Data
ChSize == CASE object = "message queue" -> Cardinality(Slot)
            [] object = "data queue" -> QueueSize
            [] OTHER -> Size
ChQueue == CASE object = "message queue" -> MqQueue
             [] object = "data queue" -> DqQueue
             [] OTHER -> MailQueue
ChReceived == CASE object = "message queue" -> received
                [] object = "data queue" -> data_ptr
                [] OTHER -> value
ChWanting == InCall("recv") \cup InMq("recv") \cup InDq("pop")
ChOffering == InCall("send") \cup InDq("push")

\* A step of Channel, or none, from the queue q with the last message r and the threads
\* W and O that wait, to those with a 2.
ChStep(n, q, r, W, O, q2, r2, W2, O2) ==
    \/ q2 = q /\ r2 = r /\ W2 = W /\ O2 = O
    \/ \E t \in Thread :
          \/ q = << >> /\ W2 = W \cup {t} /\ q2 = q /\ r2 = r /\ O2 = O
          \/ Len(q) = n /\ O2 = O \cup {t} /\ q2 = q /\ r2 = r /\ W2 = W
          \/ W2 = W \ {t} /\ O2 = O \ {t} /\ q2 = q /\ r2 = r
          \/ q # << >> /\ q2 = Tail(q) /\ r2 = Head(q) /\ W2 = W \ {t} /\ O2 = O
    \/ /\ Len(q) < n /\ r2 = r /\ W2 = W
       /\ \E m \in ChMsg : \/ q2 = <<m>> \o q /\ O2 = O
                           \/ q2 = Append(q, m) /\ O2 = O
                           \/ q2 = Append(q, m) /\ \E t \in Thread : O2 = O \ {t}
    \/ q2 = << >> /\ r2 = r /\ W2 = W /\ O2 = O

\* What stands for the variables does not change.
LEMMA ChannelSame ==
    ASSUME ChSize' = ChSize, ChQueue' = ChQueue, ChReceived' = ChReceived, ChWanting' = ChWanting,
           ChOffering' = ChOffering
    PROVE  UNCHANGED TheChannel!channel
  BY DEF TheChannel!channel, ChSize, ChQueue, ChReceived, ChWanting, ChOffering

\* A step in terms of what stands for the variables is a step of Channel.
LEMMA ChannelStep ==
    ASSUME ChSize' = ChSize,
           ChStep(ChSize, ChQueue, ChReceived, ChWanting, ChOffering,
                  ChQueue', ChReceived', ChWanting', ChOffering')
    PROVE  [TheChannel!Next]_(TheChannel!channel)
  <1>1. CASE /\ ChQueue' = ChQueue /\ ChReceived' = ChReceived /\ ChWanting' = ChWanting
             /\ ChOffering' = ChOffering
    BY <1>1, ChannelSame
  <1>2. ASSUME NEW t \in Thread, ChQueue = << >>, ChWanting' = ChWanting \cup {t},
               ChQueue' = ChQueue, ChReceived' = ChReceived, ChOffering' = ChOffering
        PROVE  TheChannel!Next
    <2>1. TheChannel!Ask(t)
      BY <1>2 DEF TheChannel!Ask, ChQueue, ChReceived, ChWanting, ChOffering
    <2> QED BY <2>1 DEF TheChannel!Next, ChSize
  <1>3. ASSUME NEW t \in Thread, Len(ChQueue) = ChSize, ChOffering' = ChOffering \cup {t},
               ChQueue' = ChQueue, ChReceived' = ChReceived, ChWanting' = ChWanting
        PROVE  TheChannel!Next
    <2>1. TheChannel!Offer(t)
      BY <1>3 DEF TheChannel!Offer, ChSize, ChQueue, ChReceived, ChWanting, ChOffering
    <2> QED BY <2>1 DEF TheChannel!Next, ChSize
  <1>4. ASSUME NEW t \in Thread, ChWanting' = ChWanting \ {t}, ChOffering' = ChOffering \ {t},
               ChQueue' = ChQueue, ChReceived' = ChReceived
        PROVE  TheChannel!Next
    <2>1. TheChannel!GiveUp(t)
      BY <1>4 DEF TheChannel!GiveUp, ChQueue, ChReceived, ChWanting, ChOffering
    <2> QED BY <2>1 DEF TheChannel!Next, ChSize
  <1>5. ASSUME NEW t \in Thread, ChQueue # << >>, ChQueue' = Tail(ChQueue),
               ChReceived' = Head(ChQueue), ChWanting' = ChWanting \ {t}, ChOffering' = ChOffering
        PROVE  TheChannel!Next
    <2>1. TheChannel!Get(t)
      BY <1>5 DEF TheChannel!Get, ChQueue, ChReceived, ChWanting, ChOffering
    <2> QED BY <2>1 DEF TheChannel!Next, ChSize
  <1>6. ASSUME Len(ChQueue) < ChSize, ChReceived' = ChReceived, ChWanting' = ChWanting,
               NEW m \in ChMsg, ChQueue' = <<m>> \o ChQueue, ChOffering' = ChOffering
        PROVE  TheChannel!Next
    <2>1. TheChannel!PutFirst(m)
      BY <1>6 DEF TheChannel!PutFirst, ChSize, ChQueue, ChReceived, ChWanting, ChOffering
    <2> QED BY <2>1 DEF TheChannel!Next, ChSize, ChMsg
  <1>7. ASSUME Len(ChQueue) < ChSize, ChReceived' = ChReceived, ChWanting' = ChWanting,
               NEW m \in ChMsg, ChQueue' = Append(ChQueue, m), NEW S, ChOffering' = ChOffering \ S
        PROVE  TheChannel!Put(S, m)
    BY <1>7 DEF TheChannel!Put, ChSize, ChQueue, ChReceived, ChWanting, ChOffering
  <1>8. ASSUME Len(ChQueue) < ChSize, ChReceived' = ChReceived, ChWanting' = ChWanting,
               NEW m \in ChMsg, ChQueue' = Append(ChQueue, m),
               ChOffering' = ChOffering \/ \E t \in Thread : ChOffering' = ChOffering \ {t}
        PROVE  TheChannel!Next
    <2>1. CASE ChOffering' = ChOffering
      <3>1. ChOffering' = ChOffering \ {}
        BY <2>1
      <3>2. TheChannel!Put({}, m)
        BY <1>7, <1>8, <3>1
      <3> QED BY <3>2 DEF TheChannel!Next, ChSize, ChMsg
    <2>2. ASSUME NEW t \in Thread, ChOffering' = ChOffering \ {t} PROVE TheChannel!Next
      <3>2. TheChannel!Put({t}, m)
        BY <1>7, <1>8, <2>2
      <3> QED BY <3>2 DEF TheChannel!Next, ChSize, ChMsg
    <2> QED BY <1>8, <2>1, <2>2
  <1>9. CASE /\ ChQueue' = << >> /\ ChReceived' = ChReceived /\ ChWanting' = ChWanting
             /\ ChOffering' = ChOffering
    <2>1. TheChannel!Clear
      BY <1>9 DEF TheChannel!Clear, ChQueue, ChReceived, ChWanting, ChOffering
    <2> QED BY <2>1 DEF TheChannel!Next, ChSize
  <1> QED BY <1>1, <1>2, <1>3, <1>4, <1>5, <1>6, <1>8, <1>9, Zenon DEF ChStep

\* The mailbox as a channel.
ChMail == ChStep(Size, MailQueue, value, InCall("recv"), InCall("send"),
                 MailQueue', value', InCall("recv")', InCall("send")')

\* The queue of a mailbox has mb->entry messages.
LEMMA MailLen ==
    ASSUME MailRing
    PROVE  Len(MailQueue) = entry /\ entry \in Nat /\ (MailQueue = << >> <=> entry = 0)
  <1>1. entry \in Nat
    BY MailAssumption DEF MailRing
  <1> QED BY <1>1 DEF MailQueue

\* A round of sending puts the message, gives up or waits while there is no room.
LEMMA SendRoundPuts ==
    ASSUME WaitOK, MailInv, NEW t \in Thread, t \notin InCall("recv"), NEW m \in Msg, NEW time,
           SendRound(t, m, time)
    PROVE  ChMail
  <1> DEFINE R == InCall("recv")
             S == InCall("send")
  <1>0. MailRing /\ MailCalls /\ Len(MailQueue) = entry /\ t \notin R /\ m \in ChMsg
    BY MailLen DEF MailInv, ChMsg
  <1>1. ASSUME MailReturns(t) PROVE R' = R \ {t} /\ S' = S \ {t}
    BY <1>0, <1>1, MailReturned
  <1>2. CASE Deposit(m) /\ MailReturns(t)
    <2>1. entry < Size /\ MailQueue' = Append(MailQueue, m) /\ value' = value
      BY <1>0, <1>2, DepositRing DEF Deposit
    <2>2. R' = R /\ S' = S \ {t}
      BY <1>0, <1>1, <1>2
    <2> HIDE DEF R, S
    <2>3. /\ Len(MailQueue) < Size /\ value' = value /\ R' = R
          /\ MailQueue' = Append(MailQueue, m) /\ \E u \in Thread : S' = S \ {u}
      BY <1>0, <2>1, <2>2
    <2> QED BY <1>0, <2>3, Zenon DEF ChMail, ChStep, R, S
  <1>3. CASE MailReturns(t) /\ UNCHANGED <<ring, value>>
    <2>1. MailQueue' = MailQueue /\ value' = value
      BY <1>3, MailSame
    <2> QED BY <1>1, <1>3, <2>1, Zenon DEF ChMail, ChStep
  <1>4. CASE entry = Size /\ SenderWaits(t, m, time)
    <2>1. MailQueue' = MailQueue /\ value' = value
      BY <1>4, MailSame DEF SenderWaits
    <2>2. S' = S \cup {t} /\ R' = R
      BY <1>0, <1>4 DEF SenderWaits, InCall, MailCalls
    <2>3. Len(MailQueue) = Size
      BY <1>0, <1>4
    <2> QED BY <2>1, <2>2, <2>3, Zenon DEF ChMail, ChStep
  <1> QED BY <1>2, <1>3, <1>4 DEF SendRound

\* A round of receiving gets the oldest message, gives up or waits while there is none.
LEMMA RecvRoundGets ==
    ASSUME WaitOK, MailInv, NEW t \in Thread, t \notin InCall("send"), NEW time,
           RecvRound(t, time)
    PROVE  ChMail
  <1> DEFINE R == InCall("recv")
             S == InCall("send")
  <1>0. MailRing /\ MailCalls /\ t \notin S /\ (MailQueue = << >> <=> entry = 0)
    BY MailLen DEF MailInv
  <1>1. ASSUME MailReturns(t) PROVE R' = R \ {t} /\ S' = S \ {t}
    BY <1>0, <1>1, MailReturned
  <1>2. CASE Withdraw /\ MailReturns(t)
    <2>1. MailQueue # << >> /\ MailQueue' = Tail(MailQueue) /\ value' = Head(MailQueue)
      BY <1>0, <1>2, WithdrawRing
    <2>2. R' = R \ {t} /\ S' = S
      BY <1>0, <1>1, <1>2
    <2> QED BY <2>1, <2>2, Zenon DEF ChMail, ChStep
  <1>3. CASE MailReturns(t) /\ UNCHANGED <<ring, value>>
    <2>1. MailQueue' = MailQueue /\ value' = value
      BY <1>3, MailSame
    <2> QED BY <1>1, <1>3, <2>1, Zenon DEF ChMail, ChStep
  <1>4. CASE entry = 0 /\ ReceiverWaits(t, time)
    <2>1. MailQueue' = MailQueue /\ value' = value
      BY <1>4, MailSame DEF ReceiverWaits
    <2>2. R' = R \cup {t} /\ S' = S
      BY <1>0, <1>4 DEF ReceiverWaits, InCall, MailCalls
    <2>3. MailQueue = << >>
      BY <1>0, <1>4
    <2> QED BY <2>1, <2>2, <2>3, Zenon DEF ChMail, ChStep
  <1> QED BY <1>2, <1>3, <1>4 DEF RecvRound

\* Every step of the mailbox is one of the channel.
LEMMA MailImplements == ASSUME WaitOK, MailInv, MailStep PROVE ChMail
  <1>0. MailRing /\ MailCalls
    BY DEF MailInv
  <1>1. ASSUME NEW t \in Thread, pc[t] = "run" PROVE t \notin InCall("recv") /\ t \notin InCall("send")
    BY <1>1 DEF MailInv, MailWait, WaitList, Calling
  <1>2. ASSUME NEW t \in Thread, NEW c \in Call[t].mb_send, rt_mb_send_wait(t, c.msg, c.time)
        PROVE  ChMail
    <2>1. c.msg \in Msg
      <3>1. c \in [msg : Msg, time : Time]
        BY CallAssumption
      <3> QED BY <3>1
    <2>2. pc[t] = "run" /\ SendRound(t, c.msg, c.time)
      BY <1>2 DEF rt_mb_send_wait
    <2> QED BY <1>1, <2>1, <2>2, SendRoundPuts
  <1>3. ASSUME NEW t \in Thread, NEW time \in Call[t].mb_recv, rt_mb_recv(t, time)
        PROVE  ChMail
    <2>1. pc[t] = "run" /\ RecvRound(t, time)
      BY <1>3 DEF rt_mb_recv
    <2> QED BY <1>1, <2>1, RecvRoundGets
  <1>4. ASSUME NEW m \in IsrMsg, rt_mb_send(m) PROVE ChMail
    <2>1. m \in Msg /\ m \in ChMsg /\ Deposit(m) /\ mail' = mail
      BY <1>4, CallAssumption DEF rt_mb_send, ChMsg
    <2>2. Len(MailQueue) < Size /\ MailQueue' = Append(MailQueue, m) /\ value' = value
      BY <1>0, <2>1, DepositRing, MailLen DEF Deposit
    <2>3. InCall("recv")' = InCall("recv") /\ InCall("send")' = InCall("send")
      BY <2>1 DEF InCall
    <2> QED BY <2>1, <2>2, <2>3, Zenon DEF ChMail, ChStep
  <1>5. CASE rt_mb_control
    <2>1. entry' = 0 /\ mail' = mail /\ value' = value
      BY <1>5 DEF rt_mb_control
    <2>2. MailQueue' = << >>
      BY <2>1 DEF MailQueue
    <2>3. InCall("recv")' = InCall("recv") /\ InCall("send")' = InCall("send")
      BY <2>1 DEF InCall
    <2> QED BY <2>1, <2>2, <2>3, Zenon DEF ChMail, ChStep
  <1>6. ASSUME NEW t \in Thread, MailBack(t) PROVE ChMail
    <2>1. CASE MailReturns(t) /\ UNCHANGED <<ring, value>>
      <3>1. MailQueue' = MailQueue /\ value' = value
        BY <2>1, MailSame
      <3>2. InCall("recv")' = InCall("recv") \ {t} /\ InCall("send")' = InCall("send") \ {t}
        BY <1>0, <2>1, MailReturned
      <3> QED BY <3>1, <3>2, Zenon DEF ChMail, ChStep
    <2>2. ASSUME NEW time, mail[t].op = "send", SendRound(t, mail[t].msg, time) PROVE ChMail
      <3>1. mail[t].msg \in Msg /\ t \notin InCall("recv")
        BY <1>0, <2>2 DEF MailCalls, InCall
      <3> QED BY <2>2, <3>1, SendRoundPuts
    <2>3. ASSUME NEW time, mail[t].op = "recv", RecvRound(t, time) PROVE ChMail
      <3>1. t \notin InCall("send")
        BY <2>3 DEF InCall
      <3> QED BY <2>3, <3>1, RecvRoundGets
    <2> QED BY <1>6, <2>1, <2>2, <2>3 DEF MailBack
  <1> QED BY <1>2, <1>3, <1>4, <1>5, <1>6 DEF MailStep, MailNext

\* The mailbox of the driver, where nobody waits.
LEMMA WifiImplements ==
    ASSUME WaitOK, WifiInv, MailIdle, MailIdle', DriverStep PROVE ChMail
  <1>1. /\ InCall("recv") = {} /\ InCall("recv")' = {} /\ InCall("send") = {}
        /\ InCall("send")' = {}
    BY DEF MailIdle, InCall, NoMail
  <1>2. MailInv
    BY MailAtRest DEF WifiInv
  <1>3. CASE UNCHANGED mbvars
    <2>1. MailQueue' = MailQueue /\ value' = value
      BY <1>3, MailSame DEF mbvars
    <2> QED BY <1>1, <2>1, Zenon DEF ChMail, ChStep
  <1>4. ASSUME NEW t \in Thread, pc[t] = "run", TxSend(t) PROVE ChMail
    <2>1. SendRound(t, block_ptr[t], "none") /\ at[t] = "alloc"
      BY <1>4 DEF TxSend, rt_mb_send_wait
    <2>2. t \in Holding
      BY <1>4, <2>1 DEF WifiInv, WifiAt, Holding
    <2>3. block_ptr[t] \in Msg
      BY <2>2, WifiAssumption DEF WifiInv, WifiPlaces, Apart
    <2>4. t \notin InCall("recv")
      BY <1>1
    <2> QED BY <1>2, <2>1, <2>3, <2>4, SendRoundPuts
  <1>5. ASSUME NEW t \in Thread, TransferMail(t) PROVE ChMail
    <2>1. RecvRound(t, "none") /\ t \notin InCall("send")
      BY <1>1, <1>5 DEF TransferMail, rt_mb_recv
    <2> QED BY <1>2, <2>1, RecvRoundGets
  <1> QED BY <1>3, <1>4, <1>5 DEF DriverStep, rw009_wifi_tx, WifiStep, TxEvent, DataRecv,
          DataAgain, TransferEnds, spi_wifi_isr

\* The data queue as a channel.
ChData == ChStep(QueueSize, DqQueue, data_ptr, InDq("pop"), InDq("push"),
                 DqQueue', data_ptr', InDq("pop")', InDq("push")')

\* The queue of a data queue is empty or full as the code tests it.
LEMMA DqLen ==
    ASSUME DqRing
    PROVE  Len(DqQueue) = DqCount /\ (DqQueue = << >> <=> Empty) /\ (Full <=> DqCount = QueueSize)
  <1>1. DqCount \in 0 .. QueueSize /\ QueueSize \in Nat
    BY DqQueueRing
  <1>2. get_index \in Nat /\ put_index \in Nat
    BY DqAssumption DEF DqRing
  <1>3. Len(DqQueue) = DqCount
    BY <1>1 DEF DqQueue, DqCount
  <1>4. DqQueue = << >> <=> DqCount = 0
    BY <1>1 DEF DqQueue, DqCount
  <1> QED BY <1>2, <1>3, <1>4 DEF Empty, Full, DqCount

\* The data queue, as long as nobody pushes or pops.
LEMMA DqSame ==
    ASSUME UNCHANGED <<indices, data_ptr>> PROVE DqQueue' = DqQueue /\ data_ptr' = data_ptr
  BY DEF indices, DqQueue

\* A call that fails gives up.
LEMMA DqFailsGivesUp == ASSUME WaitOK, DqInv, NEW t \in Thread, DqFails(t) PROVE ChData
  <1>1. DqQueue' = DqQueue /\ data_ptr' = data_ptr
    BY DqSame DEF DqFails
  <1>2. InDq("pop")' = InDq("pop") \ {t} /\ InDq("push")' = InDq("push") \ {t}
    BY DqReturned DEF DqInv, DqFails
  <1> QED BY <1>1, <1>2, Zenon DEF ChData, ChStep

\* A round of pushing puts the item, gives up or waits while there is no room.
LEMMA PushRoundPuts ==
    ASSUME WaitOK, DqInv, NEW t \in Thread, t \notin InDq("pop"), NEW d \in Data, NEW time,
           PushRound(t, d, time)
    PROVE  ChData
  <1> DEFINE R == InDq("pop")
             S == InDq("push")
  <1>0. DqRing /\ DqCalls /\ t \notin R /\ d \in ChMsg
    BY DEF DqInv, ChMsg
  <1>1. CASE PushData(d) /\ DqReturns(t)
    <2>1. /\ Len(DqQueue) < QueueSize /\ DqQueue' = Append(DqQueue, d)
          /\ data_ptr' = data_ptr
      BY <1>0, <1>1, PushRing
    <2>2. R' = R /\ S' = S \ {t}
      BY <1>0, <1>1, DqReturned
    <2> QED BY <1>0, <2>1, <2>2, Zenon DEF ChData, ChStep
  <1>2. CASE DqFails(t)
    BY <1>2, DqFailsGivesUp
  <1>3. CASE /\ Full
             /\ dq' = [dq EXCEPT ![t] = [op |-> "push", data |-> d, time |-> time]]
             /\ UNCHANGED <<indices, data_ptr>>
    <2>1. DqQueue' = DqQueue /\ data_ptr' = data_ptr
      BY <1>3, DqSame
    <2>2. S' = S \cup {t} /\ R' = R
      BY <1>0, <1>3 DEF InDq, DqCalls
    <2>3. Len(DqQueue) = QueueSize
      BY <1>0, <1>3, DqLen
    <2> QED BY <2>1, <2>2, <2>3, Zenon DEF ChData, ChStep
  <1> QED BY <1>1, <1>2, <1>3 DEF PushRound

\* A round of popping gets the oldest item, gives up or waits while there is none.
LEMMA PopRoundGets ==
    ASSUME WaitOK, DqInv, NEW t \in Thread, t \notin InDq("push"), NEW time, PopRound(t, time)
    PROVE  ChData
  <1> DEFINE R == InDq("pop")
             S == InDq("push")
  <1>0. DqRing /\ DqCalls /\ t \notin S
    BY DEF DqInv
  <1>1. CASE PopData /\ DqReturns(t)
    <2>1. DqQueue # << >> /\ DqQueue' = Tail(DqQueue) /\ data_ptr' = Head(DqQueue)
      BY <1>0, <1>1, PopRing
    <2>2. R' = R \ {t} /\ S' = S
      BY <1>0, <1>1, DqReturned
    <2> QED BY <2>1, <2>2, Zenon DEF ChData, ChStep
  <1>2. CASE DqFails(t)
    BY <1>2, DqFailsGivesUp
  <1>3. CASE /\ Empty
             /\ dq' = [dq EXCEPT ![t] = [op |-> "pop", data |-> NoData, time |-> time]]
             /\ UNCHANGED <<indices, data_ptr>>
    <2>1. DqQueue' = DqQueue /\ data_ptr' = data_ptr
      BY <1>3, DqSame
    <2>2. R' = R \cup {t} /\ S' = S
      BY <1>0, <1>3 DEF InDq, DqCalls
    <2>3. DqQueue = << >>
      BY <1>0, <1>3, DqLen
    <2> QED BY <2>1, <2>2, <2>3, Zenon DEF ChData, ChStep
  <1> QED BY <1>1, <1>2, <1>3 DEF PopRound

\* Every step of the data queue is one of the channel.
LEMMA DataImplements == ASSUME WaitOK, DqInv, DqStep PROVE ChData
  <1>1. ASSUME NEW t \in Thread, NEW c \in Call[t].dq_push, rt_data_queue_push(t, c.data, c.time)
        PROVE  ChData
    <2>1. c \in [data : Data, time : Time]
      BY CallAssumption
    <2>2. c.data \in Data
      BY <2>1
    <2>3. pc[t] = "run" /\ PushRound(t, c.data, c.time)
      BY <1>1 DEF rt_data_queue_push
    <2>4. t \notin InDq("pop")
      BY <2>3, DqFacts
    <2> QED BY <2>2, <2>3, <2>4, PushRoundPuts
  <1>2. ASSUME NEW t \in Thread, NEW time \in Call[t].dq_pop, rt_data_queue_pop(t, time)
        PROVE  ChData
    <2>1. pc[t] = "run" /\ PopRound(t, time)
      BY <1>2 DEF rt_data_queue_pop
    <2>2. t \notin InDq("push")
      BY <2>1, DqFacts
    <2> QED BY <2>1, <2>2, PopRoundGets
  <1>3. ASSUME NEW t \in Thread, DqBack(t) PROVE ChData
    <2>1. CASE DqFails(t)
      BY <2>1, DqFailsGivesUp
    <2>2. CASE dq[t].op = "push" /\ PushRound(t, dq[t].data, dq[t].time)
      <3>1. t \notin InDq("pop") /\ dq[t].data \in Data
        BY <2>2 DEF InDq, DqInv, DqCalls
      <3> QED BY <2>2, <3>1, PushRoundPuts
    <2>3. CASE dq[t].op = "pop" /\ PopRound(t, dq[t].time)
      <3>1. t \notin InDq("push")
        BY <2>3 DEF InDq
      <3> QED BY <2>3, <3>1, PopRoundGets
    <2> QED BY <1>3, <2>1, <2>2, <2>3 DEF DqBack
  <1> QED BY <1>1, <1>2, <1>3 DEF DqStep, DqNext

\* What c says of the slots of a list, in their order.
Mapped(c, q) == [i \in 1 .. Len(q) |-> c[q[i]]]

\* As many as there are slots.
LEMMA MappedType ==
    ASSUME NEW V, NEW c \in [Slot -> V], NEW q \in Seq(Slot)
    PROVE  Mapped(c, q) \in Seq(V) /\ Len(Mapped(c, q)) = Len(q)
  BY DEF Mapped

\* A slot joins at the end.
LEMMA MappedAppend ==
    ASSUME NEW V, NEW c \in [Slot -> V], NEW q \in Seq(Slot), NEW s \in Slot
    PROVE  Mapped(c, Append(q, s)) = Append(Mapped(c, q), c[s])
  <1> DEFINE w == Append(q, s)
             z == Append(Mapped(c, q), c[s])
  <1>1. w \in Seq(Slot) /\ Len(w) = Len(q) + 1 /\ Len(q) \in Nat
    OBVIOUS
  <1>2. Mapped(c, q) \in Seq(V) /\ Len(Mapped(c, q)) = Len(q) /\ c[s] \in V
    BY MappedType
  <1>3. Mapped(c, w) \in Seq(V) /\ Len(Mapped(c, w)) = Len(w)
    BY <1>1, MappedType
  <1>4. z \in Seq(V) /\ Len(z) = Len(q) + 1
    BY <1>2
  <1>5. ASSUME NEW i \in 1 .. Len(q) + 1 PROVE Mapped(c, w)[i] = z[i]
    <2>1. Mapped(c, w)[i] = c[w[i]]
      BY <1>1, <1>5 DEF Mapped
    <2>2. CASE i = Len(q) + 1
      BY <1>1, <1>2, <2>1, <2>2
    <2>3. CASE i \in 1 .. Len(q)
      <3>1. w[i] = q[i] /\ z[i] = Mapped(c, q)[i]
        BY <1>1, <1>2, <2>3
      <3>2. Mapped(c, q)[i] = c[q[i]]
        BY <2>3 DEF Mapped
      <3> QED BY <2>1, <3>1, <3>2
    <2>4. i = Len(q) + 1 \/ i \in 1 .. Len(q)
      BY <1>1
    <2> QED BY <2>2, <2>3, <2>4
  <1> QED BY <1>1, <1>3, <1>4, <1>5, SeqEqual

\* A slot joins in front.
LEMMA MappedFirst ==
    ASSUME NEW V, NEW c \in [Slot -> V], NEW q \in Seq(Slot), NEW s \in Slot
    PROVE  Mapped(c, <<s>> \o q) = <<c[s]>> \o Mapped(c, q)
  <1> DEFINE w == <<s>> \o q
             z == <<c[s]>> \o Mapped(c, q)
  <1>1. /\ w \in Seq(Slot) /\ Len(w) = Len(q) + 1 /\ Len(q) \in Nat /\ w[1] = s
        /\ \A i \in 1 .. Len(q) : w[i + 1] = q[i]
    OBVIOUS
  <1>2. Mapped(c, q) \in Seq(V) /\ Len(Mapped(c, q)) = Len(q) /\ c[s] \in V
    BY MappedType
  <1>3. Mapped(c, w) \in Seq(V) /\ Len(Mapped(c, w)) = Len(w)
    BY <1>1, MappedType
  <1>4. /\ z \in Seq(V) /\ Len(z) = Len(q) + 1 /\ z[1] = c[s]
        /\ \A i \in 1 .. Len(q) : z[i + 1] = Mapped(c, q)[i]
    BY <1>2
  <1>5. ASSUME NEW i \in 1 .. Len(q) + 1 PROVE Mapped(c, w)[i] = z[i]
    <2>1. Mapped(c, w)[i] = c[w[i]]
      BY <1>1, <1>5 DEF Mapped
    <2>2. CASE i = 1
      BY <1>1, <1>4, <2>1, <2>2
    <2>3. CASE i # 1
      <3>1. PICK j \in 1 .. Len(q) : i = j + 1
        <4>1. i - 1 \in 1 .. Len(q) /\ i = (i - 1) + 1
          BY <1>1, <2>3
        <4> QED BY <4>1
      <3>2. Mapped(c, q)[j] = c[q[j]]
        BY DEF Mapped
      <3> HIDE DEF w, z
      <3> QED BY <1>1, <1>4, <2>1, <3>1, <3>2
    <2> QED BY <2>2, <2>3
  <1> HIDE DEF w, z
  <1>6. Mapped(c, w) = z
    BY <1>1, <1>3, <1>4, <1>5, SeqEqual
  <1> QED BY <1>6 DEF w, z

\* The first slot leaves.
LEMMA MappedTail ==
    ASSUME NEW V, NEW c \in [Slot -> V], NEW q \in Seq(Slot), q # << >>
    PROVE  /\ Mapped(c, q) # << >> /\ Head(Mapped(c, q)) = c[Head(q)]
           /\ Mapped(c, Tail(q)) = Tail(Mapped(c, q))
  <1> DEFINE w == Tail(q)
             M == Mapped(c, q)
  <1>1. w \in Seq(Slot) /\ Len(q) \in Nat \ {0} /\ Len(w) = Len(q) - 1 /\ Head(q) = q[1]
        /\ \A i \in 1 .. Len(q) - 1 : w[i] = q[i + 1]
    OBVIOUS
  <1>2. M \in Seq(V) /\ Len(M) = Len(q) /\ \A i \in 1 .. Len(q) : M[i] = c[q[i]]
    BY MappedType DEF Mapped
  <1>3. /\ Mapped(c, w) \in Seq(V) /\ Len(Mapped(c, w)) = Len(w)
        /\ \A i \in 1 .. Len(w) : Mapped(c, w)[i] = c[w[i]]
    BY <1>1, MappedType DEF Mapped
  <1> HIDE DEF M
  <1>4. M # << >> /\ Head(M) = M[1] /\ Tail(M) \in Seq(V) /\ Len(Tail(M)) = Len(q) - 1
        /\ \A i \in 1 .. Len(q) - 1 : Tail(M)[i] = M[i + 1]
    BY <1>1, <1>2
  <1>5. Head(M) = c[Head(q)]
    BY <1>1, <1>2, <1>4
  <1> HIDE DEF w
  <1>6. ASSUME NEW i \in 1 .. Len(q) - 1 PROVE Mapped(c, w)[i] = Tail(M)[i]
    <2>1. i + 1 \in 1 .. Len(q) /\ i \in 1 .. Len(w)
      BY <1>1
    <2> QED BY <1>1, <1>2, <1>3, <1>4, <2>1
  <1>7. Mapped(c, w) = Tail(M)
    BY <1>1, <1>3, <1>4, <1>6, SeqEqual
  <1> QED BY <1>4, <1>5, <1>7 DEF M, w

\* The message queue as a channel, in which no sender waits.
ChMq == ChStep(Cardinality(Slot), MqQueue, received, InMq("recv"), {},
               MqQueue', received', InMq("recv")', {})

\* What is sent is a message.
MqSends == \A t \in Thread : mq[t].op \in {"send", "urgent"} => mq[t].msg \in Content

\* The messages are what is in the linked slots.
QueueMapped == \A f, q : MqData(f, q) => MqQueue = Mapped(content, q)

\* Chain finds the linked slots.
LEMMA MqQueueIs == QueueMapped
  <1> SUFFICES ASSUME NEW f, NEW q, MqData(f, q) PROVE MqQueue = Mapped(content, q)
    BY DEF QueueMapped
  <1>1. Chain(msg_queue_head) = q
    BY ChainIs DEF MqData, MqLists
  <1> QED BY <1>1 DEF MqQueue, Mapped

\* A thread that is not receiving, before or after, leaves the receivers alone.
LEMMA MqWanting ==
    ASSUME mq \in [Thread -> MqRecord], NEW t \in Thread, NEW r, mq' = [mq EXCEPT ![t] = r]
    PROVE  InMq("recv")' = IF r.op = "recv" THEN InMq("recv") \cup {t} ELSE InMq("recv") \ {t}
  BY DEF InMq

\* The sections of a sender and of a receiver outside of a round.
LEMMA MqSectionImplements ==
    ASSUME WaitOK, MqInv, MqSends, NEW t \in Thread, MqSection(t)
    PROVE  ChMq /\ MqSends'
  <1> DEFINE W == InMq("recv")
  <1>0. PICK f, q : MqData(f, q)
    BY DEF MqInv
  <1>1. /\ mq \in [Thread -> MqRecord] /\ W \subseteq Thread
        /\ pc[t] \in {"fill", "link", "copy", "release"} => t \notin W
    BY MqFacts
  <1>2. MqQueue = Mapped(content, q) /\ q \in Seq(Slot)
        /\ content \in [Slot -> Content \cup {NoContent}]
    BY <1>0, MqQueueIs, MqDataFacts DEF MqData, MqTypes, QueueMapped
  <1>3. QueueMapped'
    BY MqQueueIs, PTL
  <1>4. NoMq.op = "none"
    BY NoCall
  <1>5. CASE MqSendFills(t)
    <2>1. MqData(f, q)' /\ \A i \in 1 .. Len(q) : content'[q[i]] = content[q[i]]
      BY <1>0, <1>5, FillsData
    <2>2. MqQueue' = Mapped(content', q)
      BY <1>3, <2>1 DEF QueueMapped
    <2>3. Mapped(content', q) = Mapped(content, q)
      BY <2>1 DEF Mapped
    <2>4. mq' = mq /\ received' = received
      BY <1>5 DEF MqSendFills
    <2>5. W' = W /\ MqSends'
      BY <2>4 DEF InMq, MqSends
    <2> QED BY <1>2, <2>2, <2>3, <2>4, <2>5, Zenon DEF ChMq, ChStep
  <1>6. CASE MqSendLinks(t)
    <2> DEFINE s == mq[t].slot
    <2>1. /\ s \in Slot /\ content[s] = mq[t].msg /\ content' = content
          /\ \E q2 : /\ MqData(f, q2)'
                     /\ \/ mq[t].op = "send" /\ q2 = Append(q, s)
                        \/ mq[t].op = "urgent" /\ q2 = <<s>> \o q
      BY <1>0, <1>6, LinksData
    <2>2. PICK q2 : /\ MqData(f, q2)'
                    /\ \/ mq[t].op = "send" /\ q2 = Append(q, s)
                       \/ mq[t].op = "urgent" /\ q2 = <<s>> \o q
      BY <2>1
    <2>3. MqQueue' = Mapped(content, q2)
      <3>1. MqQueue' = Mapped(content', q2)
        BY <1>3, <2>2 DEF QueueMapped
      <3> QED BY <2>1, <3>1
    <2>4. content[s] \in ChMsg
      <3>1. mq[t].msg \in Content
        BY <2>2 DEF MqSends
      <3> QED BY <2>1, <3>1 DEF ChMsg
    <2>5. Len(MqQueue) < Cardinality(Slot)
      <3>1. s \notin ToSet(q)
        BY <1>0, <1>1 DEF MqData, MqLists, Hands
      <3>2. ToSet(q) # Slot /\ IsInjective(q) /\ q \in Seq(Slot)
        BY <1>0, <2>1, <3>1, MqDataFacts
      <3>3. Len(q) < Cardinality(Slot)
        BY <3>2, CountedList, MqAssumption
      <3> QED BY <1>2, <3>3, MappedType
    <2>6. received' = received /\ mq' = [mq EXCEPT ![t] = NoMq] /\ pc[t] = "link"
      BY <1>6 DEF MqSendLinks
    <2>7. W' = W
      <3>1. W' = W \ {t}
        BY <1>1, <1>4, <2>6, MqWanting
      <3> QED BY <1>1, <2>6, <3>1
    <2>8. MqSends'
      BY <1>1, <1>4, <2>6 DEF MqSends
    <2>9. CASE q2 = Append(q, s)
      <3>1. MqQueue' = Append(MqQueue, content[s])
        BY <1>2, <2>1, <2>3, <2>9, MappedAppend
      <3> HIDE DEF W, s
      <3> QED BY <2>4, <2>5, <2>6, <2>7, <2>8, <3>1, Zenon DEF ChMq, ChStep, W
    <2>10. CASE q2 = <<s>> \o q
      <3>1. MqQueue' = <<content[s]>> \o MqQueue
        BY <1>2, <2>1, <2>3, <2>10, MappedFirst
      <3> HIDE DEF W, s
      <3> QED BY <2>4, <2>5, <2>6, <2>7, <2>8, <3>1, Zenon DEF ChMq, ChStep, W
    <2> QED BY <2>2, <2>9, <2>10
  <1>7. CASE MqCopies(t)
    <2>1. UNCHANGED mqvars
      BY <1>7 DEF MqCopies
    <2>2. MqQueue' = MqQueue /\ W' = W /\ received' = received /\ MqSends'
      <3>1. MqQueue' = MqQueue
        BY <2>1 DEF MqQueue, Chain, mqvars, lists
      <3> QED BY <2>1, <3>1 DEF InMq, MqSends, mqvars
    <2> QED BY <2>2, Zenon DEF ChMq, ChStep
  <1>8. CASE MqReleases(t)
    <2>1. PICK f2 : MqData(f2, q)'
      BY <1>0, <1>8, ReleasesData
    <2>2. content' = content /\ received' = received /\ mq' = [mq EXCEPT ![t] = NoMq]
          /\ pc[t] = "release"
      BY <1>8 DEF MqReleases
    <2>3. MqQueue' = Mapped(content', q)
      BY <1>3, <2>1 DEF QueueMapped
    <2>4. W' = W \ {t}
      BY <1>1, <1>4, <2>2, MqWanting
    <2>5. W' = W /\ MqQueue' = MqQueue
      BY <1>1, <1>2, <2>2, <2>3, <2>4
    <2>6. MqSends'
      BY <1>1, <1>4, <2>2 DEF MqSends
    <2> QED BY <2>2, <2>5, <2>6, Zenon DEF ChMq, ChStep
  <1> QED BY <1>5, <1>6, <1>7, <1>8 DEF MqSection

\* A round of receiving gets the first message, gives up or waits while there is none.
LEMMA MqRecvRoundGets ==
    ASSUME WaitOK, MqInv, MqSends, NEW t \in Thread, pc[t] = "run" \/ mq[t].op = "recv",
           NEW time \in {"none", "ticks", "forever"}, MqRecvRound(t, time)
    PROVE  ChMq /\ MqSends'
  <1> DEFINE W == InMq("recv")
  <1>0. PICK f, q : MqData(f, q)
    BY DEF MqInv
  <1>1. mq \in [Thread -> MqRecord]
    BY MqFacts
  <1>2. /\ MqQueue = Mapped(content, q) /\ q \in Seq(Slot)
        /\ content \in [Slot -> Content \cup {NoContent}]
    BY <1>0, MqQueueIs, MqDataFacts DEF MqData, MqTypes, QueueMapped
  <1>3. QueueMapped'
    BY MqQueueIs, PTL
  <1>4. NoMq.op = "none"
    BY NoCall
  <1>5. CASE MqUnlinks(t)
    <2>1. /\ MqData(f, Tail(q))' /\ q # << >> /\ received' = content[Head(q)]
          /\ content' = content
      BY <1>0, <1>5, UnlinksData
    <2>2. MqQueue' = Mapped(content', Tail(q))
      BY <1>3, <2>1 DEF QueueMapped
    <2>3. MqQueue # << >> /\ received' = Head(MqQueue) /\ MqQueue' = Tail(MqQueue)
      BY <1>2, <2>1, <2>2, MappedTail
    <2>4. PICK r : r.op = "copy" /\ mq' = [mq EXCEPT ![t] = r]
      BY <1>5 DEF MqUnlinks
    <2>5. W' = W \ {t} /\ MqSends'
      BY <1>1, <2>4, MqWanting DEF MqSends
    <2> QED BY <2>3, <2>5, Zenon DEF ChMq, ChStep
  <1>6. CASE MqRecvFails(t)
    <2>1. MqData(f, q)'
      BY <1>0, <1>6, FailsData
    <2>2. content' = content /\ received' = received /\ mq' = [mq EXCEPT ![t] = NoMq]
      BY <1>6 DEF MqRecvFails
    <2>3. MqQueue' = Mapped(content', q)
      BY <1>3, <2>1 DEF QueueMapped
    <2>4. W' = W \ {t} /\ MqSends' /\ {} = {} \ {t}
      BY <1>1, <1>4, <2>2, MqWanting DEF MqSends
    <2>5. MqQueue' = MqQueue
      BY <1>2, <2>2, <2>3
    <2> QED BY <2>2, <2>4, <2>5, Zenon DEF ChMq, ChStep
  <1>7. CASE mq_entry = 0 /\ MqWaits(t, time)
    <2>1. MqData(f, q)'
      BY <1>0, <1>7, WaitsData
    <2>2. content' = content /\ received' = received
      BY <1>7 DEF MqWaits
    <2>3. MqQueue' = Mapped(content', q)
      BY <1>3, <2>1 DEF QueueMapped
    <2>4. MqQueue = << >>
      <3>1. Len(q) = 0
        BY <1>0, <1>7 DEF MqData, MqLists
      <3> QED BY <1>2, <3>1 DEF Mapped
    <2>5. PICK r : r.op = "recv" /\ mq' = [mq EXCEPT ![t] = r]
      BY <1>7 DEF MqWaits
    <2>6. W' = W \cup {t} /\ MqSends'
      BY <1>1, <2>5, MqWanting DEF MqSends
    <2>7. MqQueue' = MqQueue
      BY <1>2, <2>2, <2>3
    <2> QED BY <2>2, <2>4, <2>6, <2>7, Zenon DEF ChMq, ChStep
  <1> QED BY <1>5, <1>6, <1>7 DEF MqRecvRound

\* Every step of the message queue is one of the channel.
LEMMA MqImplements == ASSUME WaitOK, MqInv, MqSends, MqStep PROVE ChMq /\ MqSends'
  <1> DEFINE W == InMq("recv")
  <1>0. PICK f, q : MqData(f, q)
    BY DEF MqInv
  <1>1. /\ mq \in [Thread -> MqRecord]
        /\ \A t \in Thread : pc[t] = "run" => t \notin W
    BY MqFacts
  <1>2. MqQueue = Mapped(content, q)
    BY <1>0, MqQueueIs DEF QueueMapped
  <1>3. QueueMapped'
    BY MqQueueIs, PTL
  <1>4. ASSUME NEW t \in Thread, NEW c \in Call[t].mq_send, MqSendTakes(t, c.op, c.msg)
        PROVE  ChMq /\ MqSends'
    <2>1. c.op \in {"send", "urgent"} /\ c.msg \in Content
      <3>1. c \in [op : {"send", "urgent"}, msg : Content]
        BY CallAssumption
      <3> QED BY <3>1
    <2>2. MqData(Tail(f), q)'
      BY <1>0, <1>4, <2>1, TakesData
    <2>3. content' = content /\ received' = received /\ pc[t] = "run"
      BY <1>4 DEF MqSendTakes
    <2>4. MqQueue' = Mapped(content', q)
      BY <1>3, <2>2 DEF QueueMapped
    <2>5. PICK r : r.op = c.op /\ r.msg = c.msg /\ mq' = [mq EXCEPT ![t] = r]
      BY <1>4 DEF MqSendTakes
    <2>6. W' = W \ {t}
      BY <1>1, <2>1, <2>5, MqWanting
    <2>7. MqSends'
      BY <1>1, <2>1, <2>5 DEF MqSends
    <2>8. W' = W /\ MqQueue' = MqQueue
      BY <1>1, <1>2, <2>3, <2>4, <2>6
    <2> QED BY <2>3, <2>7, <2>8, Zenon DEF ChMq, ChStep
  <1>5. ASSUME NEW t \in Thread, NEW time \in Call[t].mq_recv, rt_mq_recv(t, time)
        PROVE  ChMq /\ MqSends'
    <2>1. time \in {"none", "ticks", "forever"}
      BY CallAssumption, IpcAssumption
    <2>2. pc[t] = "run" /\ MqRecvRound(t, time)
      BY <1>5 DEF rt_mq_recv
    <2> QED BY <2>1, <2>2, MqRecvRoundGets
  <1>6. CASE rt_mq_control
    <2>1. MqData(Stacked(q, f), << >>)'
      BY <1>0, <1>6, ResetData
    <2>2. MqQueue' = Mapped(content', << >>)
      BY <1>3, <2>1 DEF QueueMapped
    <2>3. MqQueue' = << >>
      BY <2>2 DEF Mapped
    <2>4. received' = received /\ mq' = mq
      BY <1>6 DEF rt_mq_control
    <2>5. W' = W /\ MqSends'
      BY <2>4 DEF InMq, MqSends
    <2> QED BY <2>3, <2>4, <2>5, Zenon DEF ChMq, ChStep
  <1>7. ASSUME NEW t \in Thread, MqBack(t) PROVE ChMq /\ MqSends'
    <2>1. mq[t].op = "recv"
      BY <1>7 DEF MqBack
    <2>2. CASE MqRecvFails(t)
      <3>1. MqData(f, q)'
        BY <1>0, <2>1, <2>2, FailsData
      <3>2. content' = content /\ received' = received /\ mq' = [mq EXCEPT ![t] = NoMq]
        BY <2>2 DEF MqRecvFails
      <3>3. MqQueue' = Mapped(content', q)
        BY <1>3, <3>1 DEF QueueMapped
      <3>4. W' = W \ {t} /\ MqSends' /\ {} = {} \ {t}
        BY <1>1, <3>2, NoCall, MqWanting DEF MqSends
      <3>5. MqQueue' = MqQueue
        BY <1>2, <3>2, <3>3
      <3> QED BY <3>2, <3>4, <3>5, Zenon DEF ChMq, ChStep
    <2>3. ASSUME NEW time \in IF mq[t].time = "ticks" THEN {"none", "ticks"} ELSE {mq[t].time},
                 MqRecvRound(t, time)
          PROVE  ChMq /\ MqSends'
      <3>1. time \in {"none", "ticks", "forever"}
        BY <1>1, <2>3 DEF MqRecord
      <3> QED BY <2>1, <2>3, <3>1, MqRecvRoundGets
    <2> QED BY <1>7, <2>2, <2>3 DEF MqBack
  <1> QED BY <1>4, <1>5, <1>6, <1>7, MqSectionImplements DEF MqStep, MqNext

\* One value stands for "no message" in the three queues.
OneNothing == NoContent = NoMsg /\ NoData = NoMsg

\* What is seen of the channel is the object in use.
MailView == object \notin {"message queue", "data queue"} =>
    /\ ChSize = Size /\ ChQueue = MailQueue /\ ChReceived = value
    /\ ChWanting = InCall("recv") /\ ChOffering = InCall("send")
MqView == object = "message queue" =>
    /\ ChSize = Cardinality(Slot) /\ ChQueue = MqQueue /\ ChReceived = received
    /\ ChWanting = InMq("recv") /\ ChOffering = {}
DqView == object = "data queue" =>
    /\ ChSize = QueueSize /\ ChQueue = DqQueue /\ ChReceived = data_ptr
    /\ ChWanting = InDq("pop") /\ ChOffering = InDq("push")
View == MailView /\ MqView /\ DqView

\* The objects that are not in use have nobody waiting.
LEMMA Views == Base => View
  <1> SUFFICES ASSUME Base PROVE View
    OBVIOUS
  <1>1. object # "mailbox" => InCall("recv") = {} /\ InCall("send") = {}
    BY NoCall DEF Base, Elsewhere, MailIdle, InCall
  <1>2. object # "message queue" => InMq("recv") = {}
    BY NoCall DEF Base, Elsewhere, MqInit, InMq
  <1>3. object # "data queue" => InDq("pop") = {} /\ InDq("push") = {}
    BY NoCall DEF Base, Elsewhere, DqInit, InDq
  <1>4. MailView
    BY <1>2, <1>3 DEF MailView, ChSize, ChQueue, ChReceived, ChWanting, ChOffering
  <1>5. MqView
    BY <1>1, <1>3 DEF MqView, ChSize, ChQueue, ChReceived, ChWanting, ChOffering
  <1>6. DqView
    BY <1>1, <1>2 DEF DqView, ChSize, ChQueue, ChReceived, ChWanting, ChOffering
  <1> QED BY <1>4, <1>5, <1>6 DEF View

\* A thread that goes on or times out leaves the queues alone.
Quiet == UNCHANGED <<ring, mail, value, lists, content, mq, received, indices, dq, data_ptr>>

\* These are the steps of threads outside of the objects.
LEMMA QuietSteps ==
    ASSUME UNCHANGED vars \/ \E t \in Thread : Proceed(t) \/ Timeout(t) PROVE Quiet
  <1>1. CASE UNCHANGED vars
    BY <1>1 DEF vars, mbvars, mqvars, dqvars, Quiet
  <1>2. ASSUME NEW t \in Thread, Proceed(t) PROVE Quiet
    BY <1>2 DEF Proceed, NotMail, Drivers, mbvars, mqvars, dqvars, Quiet
  <1>3. ASSUME NEW t \in Thread, Timeout(t) PROVE Quiet
    BY <1>3 DEF Timeout, MailUnlink, MqUnlink, DqUnlink, Quiet
  <1> QED BY <1>1, <1>2, <1>3

\* They leave the channel alone.
LEMMA QuietChannel == ASSUME Quiet PROVE ChMail /\ ChMq /\ ChData /\ (MqSends => MqSends')
  <1>1. MailQueue' = MailQueue /\ value' = value /\ DqQueue' = DqQueue /\ data_ptr' = data_ptr
    BY MailSame, DqSame DEF Quiet
  <1>2. MqQueue' = MqQueue /\ received' = received
    BY DEF MqQueue, Chain, lists, Quiet
  <1>3. /\ InCall("recv")' = InCall("recv") /\ InCall("send")' = InCall("send")
        /\ InMq("recv")' = InMq("recv") /\ (MqSends => MqSends')
        /\ InDq("pop")' = InDq("pop") /\ InDq("push")' = InDq("push")
    BY DEF InCall, InMq, InDq, MqSends, Quiet
  <1> QED BY <1>1, <1>2, <1>3, Zenon DEF ChMail, ChMq, ChData, ChStep

\* Whatever is sent was given to rt_mq_send or rt_mq_urgent.
LEMMA MqSendsStep == ASSUME IpcInv, MqSends, [Next]_vars PROVE MqSends'
  <1>0. WaitOK /\ Base' /\ object' = object /\ StepOf
    BY BaseStep DEF IpcInv, Base
  <1>1. CASE object = "message queue"
    <2>1. MqInv
      BY <1>1 DEF IpcInv, InUseOK
    <2> QED BY <1>0, <1>1, <2>1, MqImplements, QuietSteps, QuietChannel DEF StepOf
  <1>2. CASE object # "message queue"
    <2>1. mq' = [t \in Thread |-> NoMq]
      BY <1>0, <1>2 DEF Base, Elsewhere, MqInit
    <2> QED BY <2>1, NoCall DEF MqSends
  <1> QED BY <1>1, <1>2

\* Each step of the object in use is a step of the channel, or none.
LEMMA StepImplements ==
    ASSUME IpcInv, MqSends, [Next]_vars PROVE [TheChannel!Next]_(TheChannel!channel)
  <1>0. Base /\ WaitOK /\ Base' /\ object' = object /\ StepOf
    BY BaseStep DEF IpcInv, Base
  <1>1. View /\ View'
    <2>1. View
      BY <1>0, Views
    <2>2. (Base => View)'
      BY Views, PTL
    <2> QED BY <1>0, <2>1, <2>2
  <1>2. CASE object = "message queue"
    <2>1. MqInv
      BY <1>2 DEF IpcInv, InUseOK
    <2>2. ChMq
      BY <1>0, <1>2, <2>1, MqImplements, QuietSteps, QuietChannel DEF StepOf
    <2>3. MqView /\ MqView'
      BY <1>1 DEF View
    <2>4. /\ ChSize = Cardinality(Slot) /\ ChQueue = MqQueue /\ ChReceived = received
          /\ ChWanting = InMq("recv") /\ ChOffering = {}
      BY <1>2, <2>3 DEF MqView
    <2>5. /\ ChSize' = Cardinality(Slot) /\ ChQueue' = MqQueue' /\ ChReceived' = received'
          /\ ChWanting' = InMq("recv")' /\ ChOffering' = {}
      BY <1>0, <1>2, <2>3 DEF MqView
    <2>6. ChStep(ChSize, ChQueue, ChReceived, ChWanting, ChOffering,
                 ChQueue', ChReceived', ChWanting', ChOffering')
      BY <2>2, <2>4, <2>5 DEF ChMq
    <2> QED BY <2>4, <2>5, <2>6, ChannelStep
  <1>3. CASE object = "data queue"
    <2>1. DqInv
      BY <1>3 DEF IpcInv, InUseOK
    <2>2. ChData
      BY <1>0, <1>3, <2>1, DataImplements, QuietSteps, QuietChannel DEF StepOf
    <2>3. DqView /\ DqView'
      BY <1>1 DEF View
    <2>4. /\ ChSize = QueueSize /\ ChQueue = DqQueue /\ ChReceived = data_ptr
          /\ ChWanting = InDq("pop") /\ ChOffering = InDq("push")
      BY <1>3, <2>3 DEF DqView
    <2>5. /\ ChSize' = QueueSize /\ ChQueue' = DqQueue' /\ ChReceived' = data_ptr'
          /\ ChWanting' = InDq("pop")' /\ ChOffering' = InDq("push")'
      BY <1>0, <1>3, <2>3 DEF DqView
    <2>6. ChStep(ChSize, ChQueue, ChReceived, ChWanting, ChOffering,
                 ChQueue', ChReceived', ChWanting', ChOffering')
      BY <2>2, <2>4, <2>5 DEF ChData
    <2> QED BY <2>4, <2>5, <2>6, ChannelStep
  <1>4. CASE object \notin {"message queue", "data queue"}
    <2>1. ASSUME object = "mailbox" PROVE ChMail
      <3>1. MailInv
        BY <2>1 DEF IpcInv, InUseOK
      <3> QED BY <1>0, <2>1, <3>1, MailImplements, QuietSteps, QuietChannel DEF StepOf
    <2>2. ASSUME object = "wifi" PROVE ChMail
      <3>1. WifiInv /\ MailIdle /\ MailIdle'
        BY <1>0, <2>2 DEF IpcInv, InUseOK, Base, Elsewhere
      <3>2. CASE UNCHANGED mbvars
        <4>1. MailQueue' = MailQueue /\ value' = value
          BY <3>2, MailSame DEF mbvars
        <4>2. InCall("recv")' = InCall("recv") /\ InCall("send")' = InCall("send")
          BY <3>2 DEF InCall, mbvars
        <4> QED BY <4>1, <4>2, Zenon DEF ChMail, ChStep
      <3>3. CASE DriverStep
        BY <1>0, <3>1, <3>3, WifiImplements
      <3>4. NotPool \/ NotEvent => UNCHANGED mbvars
        BY DEF NotPool, NotEvent
      <3> QED BY <1>0, <2>2, <3>2, <3>3, <3>4, QuietSteps, QuietChannel DEF StepOf
    <2>3. ASSUME object \notin {"mailbox", "wifi"} PROVE ChMail
      <3>1. MailInit /\ MailInit'
        BY <1>0, <1>4, <2>3 DEF Base, Elsewhere
      <3>2. UNCHANGED <<ring, mail, value>>
        BY <3>1 DEF MailInit, ring
      <3>3. MailQueue' = MailQueue /\ value' = value
        BY <3>2, MailSame
      <3>4. InCall("recv")' = InCall("recv") /\ InCall("send")' = InCall("send")
        BY <3>2 DEF InCall
      <3> QED BY <3>3, <3>4, Zenon DEF ChMail, ChStep
    <2>4. ChMail
      BY <2>1, <2>2, <2>3
    <2>5. MailView /\ MailView'
      BY <1>1 DEF View
    <2>6. /\ ChSize = Size /\ ChQueue = MailQueue /\ ChReceived = value
          /\ ChWanting = InCall("recv") /\ ChOffering = InCall("send")
      BY <1>4, <2>5 DEF MailView
    <2>7. /\ ChSize' = Size /\ ChQueue' = MailQueue' /\ ChReceived' = value'
          /\ ChWanting' = InCall("recv")' /\ ChOffering' = InCall("send")'
      BY <1>0, <1>4, <2>5 DEF MailView
    <2>8. ChStep(ChSize, ChQueue, ChReceived, ChWanting, ChOffering,
                 ChQueue', ChReceived', ChWanting', ChOffering')
      BY <2>4, <2>6, <2>7 DEF ChMail
    <2> QED BY <2>6, <2>7, <2>8, ChannelStep
  <1> QED BY <1>2, <1>3, <1>4

\* The initial states are initial states of the channel.
LEMMA InitImplements == ASSUME OneNothing, Init PROVE TheChannel!Init /\ MqSends
  <1>1. Base /\ IpcInv /\ View
    BY InUseInit, Views DEF IpcInv
  <1>2. WaitOK /\ \A t \in Thread : pc[t] \notin MqLabel
    BY <1>1 DEF Base, Init, WaitInit, MqLabel
  <1>3. /\ InCall("recv") = {} /\ InCall("send") = {} /\ InMq("recv") = {} /\ InDq("pop") = {}
        /\ InDq("push") = {} /\ MqSends
    BY NoCall DEF Init, MailInit, MqInit, DqInit, InCall, InMq, InDq, MqSends
  <1>4. MqQueue = << >>
    <2>1. PICK f : MqData(f, << >>)
      BY <1>2, MqInitData DEF Init
    <2>2. MqQueue = Mapped(content, << >>)
      BY <2>1, MqQueueIs DEF QueueMapped
    <2> QED BY <2>2 DEF Mapped
  <1>5. MailQueue = << >> /\ DqQueue = << >>
    BY DEF Init, MailInit, DqInit, MailQueue, DqQueue
  <1>6. value = NoMsg /\ received = NoMsg /\ data_ptr = NoMsg
    BY DEF Init, MailInit, MqInit, DqInit, OneNothing
  <1>7. Size \in Nat /\ Cardinality(Slot) \in Nat /\ QueueSize \in Nat
    BY MailAssumption, MqAssumption, DqAssumption, FS_CardinalityType
  <1>8. ChSize \in Nat
    BY <1>7 DEF ChSize
  <1>9. ChQueue = << >>
    BY <1>4, <1>5 DEF ChQueue
  <1>10. ChReceived = NoMsg
    BY <1>6 DEF ChReceived
  <1>11. ChWanting = {} /\ ChOffering = {}
    BY <1>3 DEF ChWanting, ChOffering
  <1> QED BY <1>3, <1>8, <1>9, <1>10, <1>11 DEF TheChannel!Init, ChSize, ChQueue, ChReceived,
          ChWanting, ChOffering

\* The mailbox, also in the driver, the message queue with its sections outside of the
\* lock and the data queue are bounded queues, for any number of threads, sizes, calls,
\* timeouts and resets: a message is delivered once and in order, an urgent one first,
\* and a thread begins to wait for a message only if there is none and with one only if
\* there is no room.  Of the data queue this is so for the pushes before its 16-bit
\* indices wrap (MaxPut in DqAssumption).
THEOREM QueuesAreChannels == ASSUME OneNothing PROVE Spec => Implements
  <1> DEFINE CInv == IpcInv /\ MqSends
  <1>1. Init => CInv /\ TheChannel!Init
    BY InUseInit, InitImplements
  <1>2. CInv /\ [Next]_vars => CInv' /\ [TheChannel!Next]_(TheChannel!channel)
    BY InUseStep, MqSendsStep, StepImplements
  <1> HIDE DEF CInv
  <1> QED BY <1>1, <1>2, PTL DEF Spec, Implements, TheChannel!Spec

=============================================================================
