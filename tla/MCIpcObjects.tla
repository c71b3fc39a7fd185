---------------------------- MODULE MCIpcObjects -----------------------------
(* Instances of IpcObjects with three threads.                             *)
EXTENDS IpcObjects

CONSTANTS t1, t2, t3

TwoLevels == [t \in Thread |-> IF t = t3 THEN 1 ELSE 0]

\* t1 waits with messages or blocks for ever, t2 does some of everything with a
\* limited time, t3 receives.
MCCall == [t \in Thread |->
    CASE t = t1 ->
          [mb_send |-> [msg : {1}, time : {"forever"}], mb_recv |-> {},
           mp_alloc |-> {"forever"},
           event_recv |-> [want : {{1, 2}}, option : {{"AND", "CLEAR"}}, time : {"forever"}],
           mq_send |-> [op : {"send"}, msg : {1}], mq_recv |-> {},
           dq_push |-> [data : {1}, time : {"forever"}], dq_pop |-> {},
           completion_wait |-> {"ticks", "forever"}, completion_done |-> FALSE,
           malloc |-> {1}, realloc |-> {4},
           ring_put |-> 1 .. 4, ring_force |-> {1}, ring_get |-> 1 .. 4,
           pipe_open |-> {{"write"}}, pipe_count |-> {3, 6}]
      [] t = t2 ->
          [mb_send |-> [msg : {2}, time : {"ticks"}], mb_recv |-> {"forever"},
           mp_alloc |-> {"none", "forever"},
           event_recv |-> [want : {{1, 2}}, option : {{"OR", "CLEAR"}, {"OR"}}, time : {"ticks"}],
           mq_send |-> [op : {"urgent"}, msg : {2}], mq_recv |-> {"forever"},
           dq_push |-> [data : {2}, time : {"ticks"}], dq_pop |-> {"forever"},
           completion_wait |-> {"none"}, completion_done |-> TRUE,
           malloc |-> {5}, realloc |-> {1, 6},
           ring_put |-> {}, ring_force |-> {}, ring_get |-> {},
           pipe_open |-> {{"read"}}, pipe_count |-> {3}]
      [] t = t3 ->
          [mb_send |-> {}, mb_recv |-> {"none", "ticks"},
           mp_alloc |-> {"none", "forever"},
           event_recv |-> [want : {{1}}, option : {{"AND", "CLEAR"}}, time : {"none", "forever"}],
           mq_send |-> {}, mq_recv |-> {"none", "ticks"},
           dq_push |-> {}, dq_pop |-> {"none", "ticks"},
           completion_wait |-> {}, completion_done |-> TRUE,
           malloc |-> {3}, realloc |-> {},
           ring_put |-> {}, ring_force |-> {}, ring_get |-> {},
           pipe_open |-> {}, pipe_count |-> {}]]

\* Thread t2 limits the time that it waits for a block.
TimedAlloc == [MCCall EXCEPT ![t2].mp_alloc = {"ticks"}]

\* Several bytes at once are forced into the ring buffer.
ForcedPuts == [MCCall EXCEPT ![t1].ring_force = 1 .. 4]

=============================================================================
