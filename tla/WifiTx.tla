-------------------------------- MODULE WifiTx -------------------------------
(***************************************************************************)
(* The transmit path of components/drivers/spi/spi_wifi_rw009.c, which     *)
(* puts a memory pool, a mailbox and an event together: a packet goes from *)
(* the pool through the mailbox to the data thread, which the event wakes  *)
(* up, and its block back to the pool.  The slave on the SPI bus is        *)
(* external.                                                               *)
(***************************************************************************)
EXTENDS Mailbox, Mempool, Event

CONSTANTS
    TxThread,      \* threads that call rw009_wifi_tx
    DataThread,    \* the thread of spi_wifi_data_thread_entry
    SRDY           \* whether the answers of the slave have RESP_FLAG_SRDY

\* A message of the driver is a packet buffer, its event is bit 1.
ASSUME WifiAssumption ==
    /\ Block \subseteq Msg
    /\ 1 \in EventBit /\ {"AND", "CLEAR"} \in EventOption
    /\ TxThread \subseteq Thread /\ DataThread \in Thread \ TxThread
    /\ SRDY \subseteq BOOLEAN

VARIABLES
    at,            \* per thread: where it is in the driver
    data_packet    \* the packet in spi_wifi_transfer

wifivars == <<at, data_packet>>

Goes(t, place) == at' = [at EXCEPT ![t] = place]

-----------------------------------------------------------------------------
(* rw009_wifi_tx.                                                          *)

rw009_wifi_tx(t) ==
    /\ t \in TxThread /\ at[t] = "idle"
    /\ rt_mp_alloc(t, "forever")
    /\ Goes(t, "alloc")
    /\ UNCHANGED <<mbvars, evvars, data_packet>>

\* The result of rt_mb_send, which does not wait, is not looked at, and the
\* sender has no use for its pointer any more.
TxSend(t) ==
    /\ at[t] = "alloc"
    /\ rt_mb_send_wait(t, block_ptr[t], "none")
    /\ block_ptr' = [block_ptr EXCEPT ![t] = NoBlock]
    /\ Goes(t, "sent")
    /\ UNCHANGED <<block_list, block_free_count, suspend_alloc_thread,
                   suspend_thread_count, alloc, wild_alloc, evvars, data_packet>>

TxEventIfWaiting(t) ==
    /\ at[t] = "sent"
    /\ IF DataThread \in receiving THEN rt_event_send({1}) ELSE UNCHANGED <<waitvars, evvars>>
    /\ Goes(t, "idle")
    /\ UNCHANGED <<mbvars, mpvars, data_packet>>

TxEvent(t) ==
    /\ at[t] = "sent"
    /\ rt_event_send({1})
    /\ Goes(t, "idle")
    /\ UNCHANGED <<mbvars, mpvars, data_packet>>

-----------------------------------------------------------------------------
(* spi_wifi_data_thread_entry and spi_wifi_transfer.                       *)

DataRecv(t) ==
    /\ t = DataThread /\ at[t] = "idle"
    /\ rt_event_recv(t, {1}, {"AND", "CLEAR"}, "forever")
    /\ Goes(t, "transfer")
    /\ UNCHANGED <<mbvars, mpvars, data_packet>>

TransferMail(t) ==
    /\ at[t] = "transfer"
    /\ rt_mb_recv(t, "none")
    /\ data_packet' = IF entry > 0 THEN value' ELSE NoMsg
    /\ Goes(t, "exchange")
    /\ UNCHANGED <<mpvars, evvars>>

\* The exchange with the slave, which may have a packet for us (s2m).  The block
\* is freed if the slave was ready for it; the result is an error if nothing
\* went either way.
TransferEnds(t, srdy, s2m) ==
    /\ at[t] = "exchange"
    /\ IF data_packet # NoMsg /\ srdy THEN rt_mp_free(data_packet)
                                      ELSE UNCHANGED <<waitvars, mpvars>>
    /\ data_packet' = NoMsg
    /\ Goes(t, IF data_packet = NoMsg /\ ~s2m THEN "idle" ELSE "again")
    /\ UNCHANGED <<mbvars, evvars>>

\* After a transfer the thread sends the event to itself, to look for more.
DataAgain(t) ==
    /\ at[t] = "again"
    /\ rt_event_send({1})
    /\ Goes(t, "idle")
    /\ UNCHANGED <<mbvars, mpvars, data_packet>>

spi_wifi_isr ==
    /\ rt_event_send({1})
    /\ UNCHANGED <<mbvars, mpvars, wifivars>>

\* The driver goes on: everything but a new call of rw009_wifi_tx.
WifiStep(t) ==
    /\ pc[t] = "run"
    /\ \/ TxSend(t) \/ TxEvent(t)
       \/ DataRecv(t) \/ TransferMail(t) \/ DataAgain(t)
       \/ \E srdy \in SRDY, s2m \in BOOLEAN : TransferEnds(t, srdy, s2m)

\* rt_hw_wifi_init
WifiInit ==
    /\ at = [t \in Thread |-> "idle"]
    /\ data_packet = NoMsg

-----------------------------------------------------------------------------
(* Properties.                                                             *)

\* Type invariant.
WifiTypeOK ==
    /\ at \in [Thread -> {"idle", "alloc", "sent", "transfer", "exchange", "again"}]
    /\ data_packet \in Msg \cup {NoMsg}

\* The threads between rt_mp_alloc and rt_mb_send.
Holding == {t \in TxThread : at[t] = "alloc" /\ pc[t] = "run"}

\* Every block is in the pool, with a sender, in the mailbox or in the transfer:
\* rt_mb_send finds room whenever rt_mp_alloc found a block.
BlocksConserved ==
    LET moving == IF data_packet = NoMsg THEN {} ELSE {data_packet} IN
    /\ ToSet(block_list) \cup {block_ptr[t] : t \in Holding} \cup ToSet(MailQueue)
          \cup moving = Block
    /\ Len(block_list) + Cardinality(Holding) + entry + Cardinality(moving)
          = Cardinality(Block)

=============================================================================
