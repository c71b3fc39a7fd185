----------------------------- MODULE RingBuffer ------------------------------
(***************************************************************************)
(* The ring buffer of components/drivers/src/ringbuffer.c: two indices and *)
(* two mirror bits that tell full from empty.  It has no lock: its user    *)
(* has one.                                                                *)
(***************************************************************************)
EXTENDS Integers, SequencesExt

CONSTANTS
    BufferSize,   \* rb->buffer_size
    Bytes         \* number of values of a byte here; more than fit into a buffer

ASSUME RingAssumption == BufferSize \in Nat \ {0} /\ Bytes \in Nat /\ Bytes > BufferSize

VARIABLES
    rb,        \* the ring buffer
    stream,    \* history: the bytes that were put and neither taken nor discarded
    last       \* history: the last byte that was put; the next one is its successor

ringvars == <<rb, stream, last>>

Place == 0 .. BufferSize - 1

-----------------------------------------------------------------------------
(* The functions of ringbuffer.c: what they leave of r.                    *)

EmptyRing(buffer) ==
    [buffer |-> buffer, read_index |-> 0, read_mirror |-> FALSE,
     write_index |-> 0, write_mirror |-> FALSE]

rt_ringbuffer_status(r) ==
    IF r.read_index # r.write_index THEN "HALFFULL"
    ELSE IF r.read_mirror = r.write_mirror THEN "EMPTY" ELSE "FULL"

rt_ringbuffer_data_len(r) ==
    CASE rt_ringbuffer_status(r) = "EMPTY" -> 0
      [] rt_ringbuffer_status(r) = "FULL" -> BufferSize
      [] OTHER -> IF r.write_index > r.read_index
                  THEN r.write_index - r.read_index
                  ELSE BufferSize - (r.read_index - r.write_index)

rt_ringbuffer_space_len(r) == BufferSize - rt_ringbuffer_data_len(r)

\* Whether a step of n from this index goes into the other side of the mirror.
Flips(index, n) == BufferSize - index <= n

\* The bytes s, no more than the buffer has, are copied behind the write index.
Written(r, s) ==
    [r EXCEPT !.buffer = [i \in Place |->
                            LET k == (i - r.write_index) % BufferSize
                            IN  IF k < Len(s) THEN s[k + 1] ELSE @[i]],
              !.write_index = IF Flips(@, Len(s)) THEN Len(s) - (BufferSize - @)
                                                  ELSE @ + Len(s),
              !.write_mirror = IF Flips(r.write_index, Len(s)) THEN ~@ ELSE @]

\* What there is room for is put, the rest is dropped.
Accepted(r, s) == SubSeq(s, 1, Min({Len(s), rt_ringbuffer_space_len(r)}))
rt_ringbuffer_put(r, s) == Written(r, Accepted(r, s))

\* The last bytes of s are put, and the reader goes where the writer is if there
\* was no room for them.
Newest(s) == SubSeq(s, Max({1, Len(s) - BufferSize + 1}), Len(s))
rt_ringbuffer_put_force(r, s) ==
    LET new == Newest(s)
        w == Written(r, new)
    IN  IF Len(new) > rt_ringbuffer_space_len(r)
        THEN [w EXCEPT !.read_index = w.write_index,
                       !.read_mirror = IF Flips(r.write_index, Len(new)) THEN ~@ ELSE @]
        ELSE w

rt_ringbuffer_putchar(r, ch) ==
    IF rt_ringbuffer_space_len(r) = 0 THEN r ELSE Written(r, <<ch>>)

rt_ringbuffer_putchar_force(r, ch) ==
    LET w == Written(r, <<ch>>)
    IN  IF rt_ringbuffer_status(r) = "FULL"
        THEN [w EXCEPT !.read_index = w.write_index,
                       !.read_mirror = IF r.write_index = BufferSize - 1 THEN ~@ ELSE @]
        ELSE w

\* At most n bytes are taken; rt_ringbuffer_getchar takes one.
Got(r, n) == Min({n, rt_ringbuffer_data_len(r)})
rt_ringbuffer_get(r, n) == LET m == Got(r, n) IN
    [r EXCEPT !.read_index = IF Flips(@, m) THEN m - (BufferSize - @) ELSE @ + m,
              !.read_mirror = IF Flips(r.read_index, m) THEN ~@ ELSE @]

-----------------------------------------------------------------------------
(* The steps of a user.                                                    *)

\* The next n bytes.
Fresh(n) == [i \in 1 .. n |-> (last + i) % Bytes]

RingPut(s) ==
    /\ rb' = rt_ringbuffer_put(rb, s)
    /\ stream' = stream \o Accepted(rb, s)
    /\ last' = (last + Len(Accepted(rb, s))) % Bytes

RingGet(n) ==
    /\ rb' = rt_ringbuffer_get(rb, n)
    /\ stream' = SubSeq(stream, Got(rb, n) + 1, Len(stream))
    /\ UNCHANGED last

\* rt_ringbuffer_create, and rt_ringbuffer_init; what the memory has in it is not
\* looked at before it is written.
NewRing == EmptyRing([i \in Place |-> 0])
RingCreate == rb' = NewRing /\ stream' = << >> /\ last' = 0

\* rt_ringbuffer_reset
RingReset ==
    /\ rb' = EmptyRing(rb.buffer)
    /\ stream' = << >> /\ last' = 0

RingPutForce(s) ==
    /\ rb' = rt_ringbuffer_put_force(rb, s)
    /\ stream' = Newest(stream \o s)
    /\ last' = (last + Len(s)) % Bytes

RingPutchar(force) == LET ch == Fresh(1)[1] IN
    /\ rb' = IF force THEN rt_ringbuffer_putchar_force(rb, ch)
                      ELSE rt_ringbuffer_putchar(rb, ch)
    /\ IF force \/ rt_ringbuffer_space_len(rb) > 0
       THEN stream' = Newest(Append(stream, ch)) /\ last' = ch
       ELSE UNCHANGED <<stream, last>>

RingInit ==
    /\ rb = NewRing
    /\ stream = << >> /\ last = 0

-----------------------------------------------------------------------------

\* The ring buffer has exactly the bytes that were put, in order, less the ones
\* that were taken or, when room is forced, are the oldest: the indices and the
\* mirror bits are right over every wrap, also when a put ends at the last place.
RingExact == stream =
    [k \in 1 .. rt_ringbuffer_data_len(rb) |-> rb.buffer[(rb.read_index + k - 1) % BufferSize]]

=============================================================================
