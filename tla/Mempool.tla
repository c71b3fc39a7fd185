------------------------------ MODULE Mempool --------------------------------
(***************************************************************************)
(* The memory pool of src/mempool.c: a list of free blocks and a list of   *)
(* the threads that wait for one, with a count of its own.                 *)
(***************************************************************************)
EXTENDS IpcWait

CONSTANTS Block, NoBlock

ASSUME PoolAssumption == IsFiniteSet(Block) /\ NoBlock \notin Block

VARIABLES
    block_list,             \* the free blocks
    block_free_count,
    suspend_alloc_thread,   \* mp->suspend_thread
    suspend_thread_count,
    alloc,                  \* per thread: the waiting time of its rt_mp_alloc
    block_ptr,              \* per thread: the block that rt_mp_alloc last returned
    wild_alloc              \* the list head was taken for a thread

mpvars == <<block_list, block_free_count, suspend_alloc_thread, suspend_thread_count,
            alloc, block_ptr, wild_alloc>>

-----------------------------------------------------------------------------
AllocReturns(t) ==
    /\ Return(t)
    /\ alloc' = [alloc EXCEPT ![t] = "idle"]

TakeBlock(t) ==
    /\ block_free_count > 0
    /\ block_free_count' = block_free_count - 1
    /\ block_ptr' = [block_ptr EXCEPT ![t] = Head(block_list)]
    /\ block_list' = Tail(block_list)
    /\ UNCHANGED <<stat, timer, suspend_alloc_thread, suspend_thread_count>>

\* The thread goes to the front of the list, whatever its priority.
AllocWaits(t, time) ==
    /\ Suspend(t, time)
    /\ Fail({t}, "EOK")
    /\ suspend_alloc_thread' = <<t>> \o suspend_alloc_thread
    /\ suspend_thread_count' = suspend_thread_count + 1
    /\ alloc' = [alloc EXCEPT ![t] = time]
    /\ UNCHANGED <<block_list, block_free_count, block_ptr>>

\* One round of rt_mp_alloc under the lock; without a block and without time it
\* returns RT_NULL.
AllocRound(t, time) ==
    \/ TakeBlock(t) /\ AllocReturns(t)
    \/ /\ block_free_count = 0 /\ time = "none"
       /\ AllocReturns(t)
       /\ UNCHANGED <<stat, timer, block_list, block_free_count, block_ptr,
                      suspend_alloc_thread, suspend_thread_count>>
    \/ block_free_count = 0 /\ time # "none" /\ AllocWaits(t, time)

rt_mp_alloc(t, time) ==
    /\ pc[t] = "run"
    /\ AllocRound(t, time)
    /\ UNCHANGED <<sig, delivering, wild_alloc>>

\* A thread is back from rt_schedule, with an error or to look again.
AllocBack(t) ==
    /\ pc[t] = "check" /\ alloc[t] # "idle"
    /\ \/ /\ error[t] # "EOK"
          /\ AllocReturns(t)
          /\ UNCHANGED <<stat, timer, block_list, block_free_count, block_ptr,
                         suspend_alloc_thread, suspend_thread_count>>
       \/ /\ error[t] = "EOK"
          /\ \E time \in IF alloc[t] = "ticks" THEN {"none", "ticks"} ELSE {alloc[t]} :
                AllocRound(t, time)
    /\ UNCHANGED <<sig, delivering, wild_alloc>>

\* rt_mp_free trusts the count: if it is not zero the first thread of the list
\* is resumed, and on an empty list that is the head itself.
rt_mp_free(b) ==
    /\ block_free_count' = block_free_count + 1
    /\ block_list' = <<b>> \o block_list
    /\ IF suspend_thread_count > 0
       THEN /\ suspend_thread_count' = suspend_thread_count - 1
            /\ IF suspend_alloc_thread # << >>
               THEN /\ Resume({Head(suspend_alloc_thread)})
                    /\ Fail({Head(suspend_alloc_thread)}, "EOK")
                    /\ suspend_alloc_thread' = Tail(suspend_alloc_thread)
                    /\ UNCHANGED wild_alloc
               ELSE /\ wild_alloc' = TRUE
                    /\ UNCHANGED <<stat, timer, error, suspend_alloc_thread>>
       ELSE UNCHANGED <<stat, timer, error, suspend_alloc_thread, suspend_thread_count,
                        wild_alloc>>
    /\ UNCHANGED <<pc, sig, delivering, alloc, block_ptr>>

\* rt_thread_resume takes a thread off the list, and leaves the count alone.
AllocUnlink(t) ==
    /\ suspend_alloc_thread' = RemoveFirst(suspend_alloc_thread, t)
    /\ UNCHANGED <<block_list, block_free_count, suspend_thread_count, alloc, block_ptr,
                   wild_alloc>>

\* rt_mp_init
PoolInit ==
    /\ block_list = SetToSeq(Block)
    /\ block_free_count = Cardinality(Block)
    /\ suspend_alloc_thread = << >> /\ suspend_thread_count = 0
    /\ alloc = [t \in Thread |-> "idle"]
    /\ block_ptr = [t \in Thread |-> NoBlock]
    /\ wild_alloc = FALSE

-----------------------------------------------------------------------------
(* Properties.                                                             *)

\* Type invariant.
PoolTypeOK ==
    /\ block_list \in Seq(Block)
    /\ block_free_count \in 0 .. Cardinality(Block)
    /\ suspend_alloc_thread \in Seq(Thread)
    /\ suspend_thread_count \in 0 .. Cardinality(Thread)
    /\ alloc \in [Thread -> {"idle", "none", "ticks", "forever"}]
    /\ block_ptr \in [Thread -> Block \cup {NoBlock}]
    /\ wild_alloc \in BOOLEAN

\* The two counts that the code decides by agree with the two lists, so that
\* rt_mp_free resumes a thread and never the head of the list.
CountsExact ==
    /\ block_free_count = Len(block_list)
    /\ suspend_thread_count = Len(suspend_alloc_thread)
    /\ ~wild_alloc

\* The threads in rt_mp_alloc that were resumed to look again.
WokenForBlock == {t \in Thread : alloc[t] # "idle" /\ stat[t] = "READY" /\ error[t] = "EOK"}

\* No wake-up is lost: while a thread waits, every free block has a thread on
\* its way that was resumed for it, even if others allocate in between.
NoLostBlock == suspend_alloc_thread # << >> =>
    block_free_count <= Cardinality(WokenForBlock)

=============================================================================
