-------------------------------- MODULE Heap ---------------------------------
(***************************************************************************)
(* The system heap (src/rt-thread/src/mem.c): blocks with a header each,   *)
(* chained by offsets, first fit from the lowest free block, and           *)
(* rt_realloc, which gives the heap up between its steps.  Every section   *)
(* runs under heap_sem and waits for nothing inside, so it is one step.    *)
(* Sizes and offsets are counted in units of RT_ALIGN_SIZE.                *)
(***************************************************************************)
EXTENDS IpcWait

CONSTANTS
    SIZEOF_STRUCT_MEM,  \* the size of a header
    MIN_SIZE,           \* the least size of a block that rt_malloc makes
    mem_size_aligned,   \* the size of the heap
    NoMem               \* no block

ASSUME HeapAssumption ==
    /\ {SIZEOF_STRUCT_MEM, MIN_SIZE} \subseteq Nat \ {0}
    /\ mem_size_aligned \in Nat /\ mem_size_aligned >= MIN_SIZE
    /\ NoMem \notin Nat /\ NoMem \notin [ptr : Nat, size : Nat]

VARIABLES
    heap,       \* the headers that are in the chain, by their offsets, and lfree
    rmem,       \* per thread: its block and the size that it asked for
    growing     \* per thread: where it is in rt_realloc

heapvars == <<heap, rmem, growing>>

heap_end == mem_size_aligned + SIZEOF_STRUCT_MEM

Mem(used, next, prev) == [used |-> used, next |-> next, prev |-> prev]

NotGrowing == [step |-> "none"]

HeapInit ==
    /\ heap = [mem |-> [o \in {0, heap_end} |-> IF o = 0 THEN Mem(FALSE, heap_end, 0)
                                                ELSE Mem(TRUE, heap_end, heap_end)],
               lfree |-> 0]
    /\ rmem = [t \in Thread |-> NoMem]
    /\ growing = [t \in Thread |-> NotGrowing]

-----------------------------------------------------------------------------
(* The chain.                                                              *)

\* What the block at p has room for.
Room(h, p) == h.mem[p].next - (p + SIZEOF_STRUCT_MEM)

\* The block at p cut after size: the rest becomes a free block.  The last header's
\* prev is not maintained here, and nothing reads it.
Split(h, p, size) ==
    LET p2 == p + SIZEOF_STRUCT_MEM + size
        next == h.mem[p].next
    IN  [h EXCEPT !.mem = [o \in DOMAIN h.mem \cup {p2} |->
            CASE o = p2 -> Mem(FALSE, next, p)
              [] o = p -> [h.mem[o] EXCEPT !.next = p2]
              [] o = next /\ next # heap_end -> [h.mem[o] EXCEPT !.prev = p2]
              [] OTHER -> h.mem[o]]]

\* A merge that does not tell the block behind.
MergeKeepsPrev(mem, p, n) ==
    [o \in DOMAIN mem \ {n} |-> IF o = p THEN [mem[o] EXCEPT !.next = mem[n].next] ELSE mem[o]]

\* The headers with the block at n, the next of p, made a part of the block at p.
Merge(mem, p, n) ==
    LET next == mem[n].next
    IN  [o \in DOMAIN mem \ {n} |->
            CASE o = p -> [mem[o] EXCEPT !.next = next]
              [] o = next -> [mem[o] EXCEPT !.prev = p]
              [] OTHER -> mem[o]]

Merged(h, p, n) ==
    [mem |-> Merge(h.mem, p, n), lfree |-> IF h.lfree = n THEN p ELSE h.lfree]

PlugForward(h, p) ==
    LET n == h.mem[p].next
    IN  IF n # heap_end /\ ~h.mem[n].used THEN Merged(h, p, n) ELSE h

PlugBackward(h, p) ==
    LET q == h.mem[p].prev
    IN  IF q # p /\ ~h.mem[q].used THEN Merged(h, q, p) ELSE h

plug_holes(h, p) == PlugBackward(PlugForward(h, p), p)

-----------------------------------------------------------------------------
(* The sections under heap_sem.                                            *)

Longer(size) == Max({size, MIN_SIZE})

\* The blocks that the search from lfree may take.  The bound is the code's: a
\* block that just fits at the very end of the heap is not taken.
Fits(size) == {p \in DOMAIN heap.mem :
    /\ p >= heap.lfree
    /\ p < mem_size_aligned - size
    /\ ~heap.mem[p].used
    /\ Room(heap, p) >= size}

Marked(h, p, used) == [h EXCEPT !.mem[p].used = used]

\* The block at p taken for size: cut if the rest can hold a block, and if it was
\* the lowest free one the next free block is looked for, up to the end.
Taken(p, size) ==
    LET whole == Marked(heap, p, TRUE)
        h == IF Room(heap, p) >= size + SIZEOF_STRUCT_MEM + MIN_SIZE
             THEN Split(whole, p, size)
             ELSE whole
    IN  IF p # h.lfree THEN h
        ELSE [h EXCEPT !.lfree = Min({q \in DOMAIN h.mem :
                  q > p /\ (~h.mem[q].used \/ q = heap_end)})]

Freed(p) ==
    plug_holes([Marked(heap, p, FALSE) EXCEPT !.lfree = Min({p, @})], p)

\* The block found for size, and the heap without it; NoMem if there is none.
Malloc(size, p) ==
    IF Fits(Longer(size)) = {} THEN p = NoMem /\ UNCHANGED heap
    ELSE p = Min(Fits(Longer(size))) /\ heap' = Taken(p, Longer(size))

-----------------------------------------------------------------------------
(* The calls.  A thread frees what it has before it asks for another block. *)

HeapBlock(p, size) == IF p = NoMem THEN NoMem ELSE [ptr |-> p, size |-> size]
Pointer == DOMAIN heap.mem \cup {NoMem}

rt_malloc(t, size) ==
    /\ rmem[t] = NoMem
    /\ size \in 1..mem_size_aligned
    /\ \E p \in Pointer :
          /\ Malloc(size, p)
          /\ rmem' = [rmem EXCEPT ![t] = HeapBlock(p, size)]
    /\ UNCHANGED <<growing, waitvars>>

rt_free(t) ==
    /\ rmem[t] # NoMem /\ growing[t] = NotGrowing
    /\ heap' = Freed(rmem[t].ptr)
    /\ rmem' = [rmem EXCEPT ![t] = NoMem]
    /\ UNCHANGED <<growing, waitvars>>

\* The first section: the size is right, the block is cut, or a new one is needed.
rt_realloc(t, newsize) ==
    /\ rmem[t] # NoMem /\ growing[t] = NotGrowing
    /\ newsize \in 1..mem_size_aligned
    /\ LET p == rmem[t].ptr
           size == Room(heap, p)
           cut == newsize + SIZEOF_STRUCT_MEM + MIN_SIZE < size
       IN  /\ heap' = IF cut
                      THEN plug_holes(Split(heap, p, newsize), p + SIZEOF_STRUCT_MEM + newsize)
                      ELSE heap
           /\ IF cut \/ size = newsize
              THEN /\ rmem' = [rmem EXCEPT ![t].size = newsize]
                   /\ UNCHANGED growing
              ELSE /\ growing' = [growing EXCEPT ![t] = [step |-> "malloc", size |-> newsize]]
                   /\ UNCHANGED rmem
    /\ UNCHANGED waitvars

\* If there is no memory the old block stays.
ReallocMallocs(t) ==
    /\ growing[t].step = "malloc"
    /\ \E p \in Pointer :
          /\ Malloc(growing[t].size, p)
          /\ growing' = [growing EXCEPT ![t] =
                IF p = NoMem THEN NotGrowing ELSE [step |-> "free", size |-> @.size, ptr |-> p]]
    /\ UNCHANGED <<rmem, waitvars>>

\* The contents are copied and the old block is freed.
ReallocFrees(t) ==
    /\ growing[t].step = "free"
    /\ heap' = Freed(rmem[t].ptr)
    /\ rmem' = [rmem EXCEPT ![t] = HeapBlock(growing[t].ptr, growing[t].size)]
    /\ growing' = [growing EXCEPT ![t] = NotGrowing]
    /\ UNCHANGED waitvars

HeapStep(t) == ReallocMallocs(t) \/ ReallocFrees(t)

-----------------------------------------------------------------------------

HeapTypeOK ==
    /\ \A t \in Thread : rmem[t] # NoMem => rmem[t].ptr \in DOMAIN heap.mem
    /\ \A t \in Thread : growing[t].step \in {"none", "malloc", "free"}

\* The blocks that threads have, with their sizes.
HeldBlocks(t) ==
    (IF rmem[t] = NoMem THEN {} ELSE {rmem[t]})
      \cup (IF growing[t].step = "free" THEN {[ptr |-> growing[t].ptr, size |-> growing[t].size]}
            ELSE {})

\* The blocks lie one behind the other from the start of the heap to its end, next
\* and prev agree, no two free ones touch, lfree is a free block, and each block in
\* use belongs to one thread and is as large as that thread asked for: rt_malloc,
\* rt_free and the three sections of rt_realloc leave this to each other.
HeapExact ==
    LET mem == heap.mem
        Blocks == DOMAIN mem \ {heap_end}
    IN  /\ {0, heap_end} \subseteq DOMAIN mem
        /\ \A p \in Blocks :
              /\ mem[p].next = Min({q \in DOMAIN mem : q > p})
              /\ Room(heap, p) >= 1
              /\ p # 0 => mem[p].prev = Max({q \in DOMAIN mem : q < p})
              /\ ~mem[p].used => mem[mem[p].next].used
        /\ heap.lfree # heap_end => heap.lfree \in Blocks /\ ~mem[heap.lfree].used
        /\ \A p \in Blocks : mem[p].used <=>
              \E t \in Thread : \E b \in HeldBlocks(t) : b.ptr = p /\ b.size <= Room(heap, p)
        /\ \A t, u \in Thread : t # u =>
              \A b \in HeldBlocks(t), c \in HeldBlocks(u) : b.ptr # c.ptr

=============================================================================
