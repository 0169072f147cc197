-------------------------------- MODULE BleTx --------------------------------
(***************************************************************************)
(* The transmitting side of the BLE link: BLE_TCP_Task, its timer, the     *)
(* GATT write callback and the connection reset (ble_tcp.c), the           *)
(* fragmentation of datagrams (get_next_chunk, callback_from_bridge in     *)
(* ble_eth.c) and the calls of the Java side (bt_drv.c).  Five threads     *)
(* meet here: BLE_TCP_Task, the timer thread, the GATT callback thread,    *)
(* the main thread and the router task.                                    *)
(*                                                                         *)
(* Datagrams are numbered in the order in which the router forwards them.  *)
(* A datagram is some number of chunks; payloads are left out.             *)
(***************************************************************************)
EXTENDS BleChunk, Functions

CONSTANTS Size,       \* Size[d]: chunks of the d-th datagram routed to BLE
          QLen,       \* BLE_NETIF_QLEN
          MaxConn,    \* bound: connections in one behaviour
          Reorder,    \* the build may reorder two plain stores (ARM does)
          Flaky       \* writeCharacteristic may refuse although no write of
                      \* this program is in flight (another GATT operation is)

ASSUME BleTxAssumption ==
  /\ Size \in Seq(Nat \ {0}) /\ QLen \in Nat
  /\ MaxConn \in Nat
  /\ Reorder \in BOOLEAN /\ Flaky \in BOOLEAN

Dgram   == DOMAIN Size
NoDgram == 0

VARIABLES
  routed,            \* datagrams the router has forwarded so far
  q_output, callback_pending,       \* BLE's output queue in the router
  cbk_blk, cbk_stores,              \* the router in callback_from_bridge
  current_tx_block, tx_ptr, cbk_pending, tx_rst,   \* ble_eth.c
  snd_blk, tx_index_blk, ble_tx_busy,              \* ble_tcp.c
  ack_differs,       \* ack_sent_value # rx_nack_blk
  ack_notify_request,
  woken,             \* some bit BLE_TCP_Task acts on is pending for it
  task_pc, tx_lock,  \* BLE_TCP_Task, and whether it holds tcp_tx_sem
  timer, tmr_pc,     \* the one-shot timer, and its thread in tcp_tmr
  status, main_pc,   \* ble_connection_status is 2; the main thread
  link, conns,       \* the radio link (external); connections so far
  wr, cb_pc          \* the GATT write in flight; onCharacteristicWrite

routerVars == <<routed, q_output, callback_pending, cbk_blk, cbk_stores>>
ethVars    == <<current_tx_block, tx_ptr, cbk_pending, tx_rst>>
tcpVars    == <<snd_blk, tx_index_blk, ble_tx_busy>>
ackVars    == <<ack_differs, ack_notify_request>>
taskVars   == <<task_pc, tx_lock>>
tmrVars    == <<timer, tmr_pc>>
connVars   == <<status, main_pc, link, conns>>
gattVars   == <<wr, cb_pc>>
vars == <<routerVars, ethVars, tcpVars, ackVars, woken, taskVars, tmrVars,
          connVars, gattVars>>

\* Chunk i of datagram d with its two flag bits and its sequence number.
Chunk ==
  UNION {[d : {d}, i : 1 .. Size[d], first : BOOLEAN, last : BOOLEAN,
          seq : Seqs] : d \in Dgram}
NoChunk == [d |-> NoDgram]
\* A write that only carries the acknowledgement byte.
AckOnly == [d |-> Len(Size) + 1]

TypeOK ==
  /\ routed \in 0 .. Len(Size)
  /\ q_output \in Seq(Dgram) /\ Len(q_output) <= QLen
  /\ callback_pending \in BOOLEAN
  /\ cbk_blk \in Dgram \cup {NoDgram}
  /\ cbk_stores \subseteq {"block", "pending", "notify"}
  /\ current_tx_block \in Dgram \cup {NoDgram}
  /\ tx_ptr \in Nat
  /\ current_tx_block # NoDgram => tx_ptr < Size[current_tx_block]
  /\ cbk_pending \in BOOLEAN /\ tx_rst \in BOOLEAN
  /\ snd_blk \in Chunk \cup {NoChunk}
  /\ tx_index_blk \in Seqs
  /\ ble_tx_busy \in BOOLEAN
  /\ ack_differs \in BOOLEAN /\ ack_notify_request \in BOOLEAN
  /\ woken \in BOOLEAN
  /\ task_pc \in {"wait", "check", "lock", "send", "write"}
  /\ tx_lock \in BOOLEAN
  /\ timer \in BOOLEAN /\ tmr_pc \in {"idle", "notify"}
  /\ status \in BOOLEAN /\ main_pc \in {"idle", "reset"}
  /\ link \in BOOLEAN /\ conns \in 0 .. MaxConn
  /\ wr \in Chunk \cup {NoChunk, AckOnly}
  /\ cb_pc \in {"idle", "clear", "notify"}

\* ble_tcp_init has armed the timer; there is no connection yet.
Init ==
  /\ routed = 0
  /\ q_output = <<>> /\ callback_pending = FALSE
  /\ cbk_blk = NoDgram /\ cbk_stores = {}
  /\ current_tx_block = NoDgram /\ tx_ptr = 0
  /\ cbk_pending = FALSE /\ tx_rst = FALSE
  /\ snd_blk = NoChunk /\ tx_index_blk = 0 /\ ble_tx_busy = FALSE
  /\ ack_differs = FALSE /\ ack_notify_request = FALSE
  /\ woken = FALSE
  /\ task_pc = "wait" /\ tx_lock = FALSE
  /\ timer = TRUE /\ tmr_pc = "idle"
  /\ status = FALSE /\ main_pc = "idle"
  /\ link = FALSE /\ conns = 0
  /\ wr = NoChunk /\ cb_pc = "idle"

-----------------------------------------------------------------------------
(***************************************************************************)
(* The router task                                                         *)
(***************************************************************************)
\* Mutant: callback_pending is not cleared.
RouterDeliverAgain ==
  /\ routed < Len(Size) /\ cbk_stores = {}
  /\ routed' = routed + 1
  /\ IF callback_pending
     THEN /\ cbk_blk' = routed + 1
          /\ cbk_stores' = {"block", "pending", "notify"}
          /\ UNCHANGED q_output
     ELSE /\ q_output' = IF Len(q_output) >= QLen THEN q_output
                         ELSE Append(q_output, routed + 1)
          /\ UNCHANGED <<cbk_blk, cbk_stores>>
  /\ UNCHANGED <<callback_pending, ethVars, tcpVars, ackVars, woken, taskVars,
                 tmrVars, connVars, gattVars>>

\* eth_add_packet_to_output_queue: hand the datagram over, drop it, or queue it.
RouterDeliver ==
  /\ routed < Len(Size) /\ cbk_stores = {}
  /\ routed' = routed + 1
  /\ IF callback_pending
     THEN /\ callback_pending' = FALSE
          /\ cbk_blk' = routed + 1
          /\ cbk_stores' = {"block", "pending", "notify"}
          /\ UNCHANGED q_output
     ELSE /\ q_output' = IF Len(q_output) >= QLen THEN q_output
                         ELSE Append(q_output, routed + 1)
          /\ UNCHANGED <<callback_pending, cbk_blk, cbk_stores>>
  /\ UNCHANGED <<ethVars, tcpVars, ackVars, woken, taskVars, tmrVars,
                 connVars, gattVars>>

\* callback_from_bridge stores current_tx_block, then cbk_pending, then
\* notifies.  The stores are plain: if the build reorders them, the other
\* thread can see the second before the first.
CallbackBlock ==
  /\ "block" \in cbk_stores
  /\ current_tx_block' = cbk_blk
  /\ cbk_blk' = NoDgram
  /\ cbk_stores' = cbk_stores \ {"block"}
  /\ UNCHANGED <<routed, q_output, callback_pending, tx_ptr, cbk_pending,
                 tx_rst, tcpVars, ackVars, woken, taskVars, tmrVars, connVars,
                 gattVars>>

CallbackPending ==
  /\ "pending" \in cbk_stores
  /\ Reorder \/ "block" \notin cbk_stores
  /\ cbk_pending' = FALSE
  /\ cbk_stores' = cbk_stores \ {"pending"}
  /\ UNCHANGED <<routed, q_output, callback_pending, cbk_blk,
                 current_tx_block, tx_ptr, tx_rst, tcpVars, ackVars, woken,
                 taskVars, tmrVars, connVars, gattVars>>

CallbackNotify ==
  /\ cbk_stores = {"notify"}
  /\ woken' = TRUE
  /\ cbk_stores' = {}
  /\ UNCHANGED <<routed, q_output, callback_pending, cbk_blk, ethVars,
                 tcpVars, ackVars, taskVars, tmrVars, connVars, gattVars>>

-----------------------------------------------------------------------------
(***************************************************************************)
(* BLE_TCP_Task                                                            *)
(***************************************************************************)
TaskWait ==
  /\ task_pc = "wait" /\ woken
  /\ woken' = FALSE
  /\ task_pc' = "check"
  /\ UNCHANGED <<routerVars, ethVars, tcpVars, ackVars, tx_lock, tmrVars,
                 connVars, gattVars>>

\* ble_tx_busy is tested before the lock is taken; a busy link drops the bits.
TaskCheck ==
  /\ task_pc = "check"
  /\ task_pc' = IF ble_tx_busy THEN "wait" ELSE "lock"
  /\ UNCHANGED <<routerVars, ethVars, tcpVars, ackVars, woken, tx_lock, tmrVars,
                 connVars, gattVars>>

\* Mutants: the end of the block is noticed one chunk late; the block is kept
\* after its last chunk.
NextChunkLate(b, ptr) ==
  /\ snd_blk' = [d |-> b, i |-> ptr + 1, first |-> ptr = 0,
                 last |-> ptr = Size[b], seq |-> 0]
  /\ IF ptr = Size[b]
     THEN current_tx_block' = NoDgram /\ tx_ptr' = 0
     ELSE current_tx_block' = b /\ tx_ptr' = ptr + 1

NextChunkKeeps(b, ptr) ==
  /\ snd_blk' = [d |-> b, i |-> ptr + 1, first |-> ptr = 0,
                 last |-> ptr + 1 = Size[b], seq |-> 0]
  /\ current_tx_block' = b
  /\ tx_ptr' = IF ptr + 1 = Size[b] THEN 0 ELSE ptr + 1

\* get_next_chunk returns the next chunk of block b, of which ptr chunks are
\* already out; its sequence bits are filled in when it is sent.  After the
\* last chunk the block is released.
NextChunk(b, ptr) ==
  /\ snd_blk' = [d |-> b, i |-> ptr + 1, first |-> ptr = 0,
                 last |-> ptr + 1 = Size[b], seq |-> 0]
  /\ IF ptr + 1 = Size[b]
     THEN current_tx_block' = NoDgram /\ tx_ptr' = 0
     ELSE current_tx_block' = b /\ tx_ptr' = ptr + 1

\* get_next_chunk: a reset restarts the current block; a block is taken from
\* the router, or a callback is asked for.
GetNextChunk ==
  LET ptr == IF tx_rst THEN 0 ELSE tx_ptr IN
  /\ tx_rst' = FALSE
  /\ \/ /\ cbk_pending
        /\ tx_ptr' = ptr
        /\ UNCHANGED <<current_tx_block, cbk_pending, snd_blk, q_output,
                       callback_pending>>
     \/ /\ ~cbk_pending /\ current_tx_block # NoDgram
        /\ NextChunk(current_tx_block, ptr)
        /\ UNCHANGED <<cbk_pending, q_output, callback_pending>>
     \/ /\ ~cbk_pending /\ current_tx_block = NoDgram /\ q_output # <<>>
        /\ NextChunk(Head(q_output), ptr)
        /\ q_output' = Tail(q_output)
        /\ UNCHANGED <<cbk_pending, callback_pending>>
     \/ /\ ~cbk_pending /\ current_tx_block = NoDgram /\ q_output = <<>>
        /\ cbk_pending' = TRUE
        /\ callback_pending' = TRUE
        /\ tx_ptr' = ptr
        /\ UNCHANGED <<current_tx_block, snd_blk, q_output>>

\* Under TX_LOCK: a chunk that was not sent is kept, else the next one is
\* fetched; with neither a chunk nor an acknowledgement due the task is done.
TaskLock ==
  /\ task_pc = "lock" /\ ~tx_lock
  /\ IF snd_blk # NoChunk
     THEN UNCHANGED <<ethVars, snd_blk, q_output, callback_pending>>
     ELSE GetNextChunk
  /\ IF \/ snd_blk' # NoChunk
        \/ ack_notify_request /\ ack_differs
     THEN task_pc' = "send" /\ tx_lock' = TRUE
     ELSE task_pc' = "wait" /\ UNCHANGED tx_lock
  /\ UNCHANGED <<routed, cbk_blk, cbk_stores, tx_index_blk, ble_tx_busy,
                 ackVars, woken, tmrVars, connVars, gattVars>>

\* The first half of ble_gatt_trysend: results -3, -1, or on to bt_send.
TaskSend ==
  /\ task_pc = "send"
  /\ IF ~status \/ ble_tx_busy
     THEN /\ task_pc' = "wait" /\ tx_lock' = FALSE
          /\ UNCHANGED ble_tx_busy
     ELSE /\ ble_tx_busy' = TRUE
          /\ task_pc' = "write"
          /\ UNCHANGED tx_lock
  /\ UNCHANGED <<routerVars, ethVars, snd_blk, tx_index_blk, ackVars, woken,
                 tmrVars, connVars, gattVars>>

\* bt_send succeeds: the chunk leaves with its sequence number, the timer is
\* armed again and the index advances, for an acknowledgement alone as well.
TaskWriteOk ==
  /\ task_pc = "write" /\ link /\ wr = NoChunk
  /\ wr' = IF snd_blk = NoChunk THEN AckOnly
           ELSE [snd_blk EXCEPT !.seq = tx_index_blk]
  /\ snd_blk' = NoChunk
  /\ ack_differs' = FALSE
  /\ ack_notify_request' = FALSE
  /\ timer' = TRUE
  /\ tx_index_blk' = NextSeq(tx_index_blk)
  /\ task_pc' = "wait" /\ tx_lock' = FALSE
  /\ UNCHANGED <<routerVars, ethVars, ble_tx_busy, woken, tmr_pc,
                 connVars, cb_pc>>

\* bt_send fails (-2): there is no link, a write is in flight, or the GATT
\* layer is busy with something else.  The chunk stays in snd_blk.
TaskWriteFail ==
  /\ task_pc = "write"
  /\ ~link \/ wr # NoChunk \/ Flaky
  /\ ble_tx_busy' = FALSE
  /\ task_pc' = "wait" /\ tx_lock' = FALSE
  /\ UNCHANGED <<routerVars, ethVars, snd_blk, tx_index_blk, ackVars, woken,
                 tmrVars, connVars, gattVars>>

BLE_TCP_Task ==
  \/ TaskWait \/ TaskCheck \/ TaskLock \/ TaskSend \/ TaskWriteOk
  \/ TaskWriteFail

-----------------------------------------------------------------------------
(***************************************************************************)
(* The other threads                                                       *)
(***************************************************************************)
\* tcp_tmr: the one-shot timer expires.
TimerFire ==
  /\ timer /\ tmr_pc = "idle" /\ ~tx_lock
  /\ timer' = FALSE
  /\ ack_notify_request' = TRUE
  /\ tmr_pc' = "notify"
  /\ UNCHANGED <<routerVars, ethVars, tcpVars, ack_differs, woken,
                 taskVars, connVars, gattVars>>

TimerNotify ==
  /\ tmr_pc = "notify"
  /\ woken' = TRUE
  /\ tmr_pc' = "idle"
  /\ UNCHANGED <<routerVars, ethVars, tcpVars, ackVars, taskVars, timer,
                 connVars, gattVars>>

\* onCharacteristicWrite calls ble_tx_complete: first the flag, then the bit.
\* The GATT layer (external) accepts the next write as soon as this one is done.
WriteDone ==
  /\ wr # NoChunk /\ cb_pc = "idle"
  /\ wr' = NoChunk
  /\ cb_pc' = "clear"
  /\ UNCHANGED <<routerVars, ethVars, tcpVars, ackVars, woken, taskVars, tmrVars,
                 connVars>>

CompleteClear ==
  /\ cb_pc = "clear"
  /\ ble_tx_busy' = FALSE
  /\ cb_pc' = "notify"
  /\ UNCHANGED <<routerVars, ethVars, snd_blk, tx_index_blk, ackVars, woken,
                 taskVars, tmrVars, connVars, wr>>

CompleteNotify ==
  /\ cb_pc = "notify"
  /\ woken' = TRUE
  /\ cb_pc' = "idle"
  /\ UNCHANGED <<routerVars, ethVars, tcpVars, ackVars, taskVars, tmrVars,
                 connVars, wr>>

\* process_gatt_data on the main thread, the part under TX_LOCK: the peer's
\* acknowledgement.  The broadcast that carries it is delivered before the one
\* that ends the connection, perhaps when the link is already gone.
RxAck ==
  /\ status /\ main_pc = "idle" /\ ~tx_lock
  /\ ack_differs' \in BOOLEAN
  /\ woken' = TRUE
  /\ UNCHANGED <<routerVars, ethVars, tcpVars, ack_notify_request,
                 taskVars, tmrVars, connVars, gattVars>>

\* The link (external) comes up, or is lost with the write in flight.
LinkUp ==
  /\ ~link /\ ~status /\ conns < MaxConn
  /\ link' = TRUE
  /\ conns' = conns + 1
  /\ UNCHANGED <<routerVars, ethVars, tcpVars, ackVars, woken, taskVars, tmrVars,
                 status, main_pc, gattVars>>

LinkDown ==
  /\ link
  /\ link' = FALSE
  /\ wr' = NoChunk
  /\ UNCHANGED <<routerVars, ethVars, tcpVars, ackVars, woken, taskVars, tmrVars,
                 status, main_pc, conns, cb_pc>>

\* eth_ble_stack_control(2): the status is set before the reset is done.
StatusUp ==
  /\ link /\ ~status
  /\ status' = TRUE
  /\ main_pc' = "reset"
  /\ UNCHANGED <<routerVars, ethVars, tcpVars, ackVars, woken, taskVars, tmrVars,
                 link, conns, gattVars>>

\* Mutants: ble_tx_busy survives the reset; the current block is not restarted.
gatt_conn_reset_busy ==
  /\ main_pc = "reset" /\ ~tx_lock
  /\ ack_differs' \in BOOLEAN
  /\ tx_index_blk' = 0
  /\ snd_blk' = NoChunk
  /\ tx_rst' = TRUE
  /\ woken' = TRUE
  /\ main_pc' = "idle"
  /\ UNCHANGED <<routerVars, current_tx_block, tx_ptr, cbk_pending, ble_tx_busy,
                 ack_notify_request, taskVars, tmrVars, status, link, conns,
                 gattVars>>

gatt_conn_reset_norst ==
  /\ main_pc = "reset" /\ ~tx_lock
  /\ ble_tx_busy' = FALSE
  /\ ack_differs' \in BOOLEAN
  /\ tx_index_blk' = 0
  /\ snd_blk' = NoChunk
  /\ woken' = TRUE
  /\ main_pc' = "idle"
  /\ UNCHANGED <<routerVars, ethVars, ack_notify_request, taskVars, tmrVars,
                 status, link, conns, gattVars>>

\* gatt_conn_reset, under TX_LOCK (and RX_LOCK), its notification included.
gatt_conn_reset ==
  /\ main_pc = "reset" /\ ~tx_lock
  /\ ble_tx_busy' = FALSE
  /\ ack_differs' \in BOOLEAN   \* rx_nack_blk becomes 1
  /\ tx_index_blk' = 0
  /\ snd_blk' = NoChunk
  /\ tx_rst' = TRUE
  /\ woken' = TRUE
  /\ main_pc' = "idle"
  /\ UNCHANGED <<routerVars, current_tx_block, tx_ptr, cbk_pending,
                 ack_notify_request, taskVars, tmrVars, status,
                 link, conns, gattVars>>

\* eth_ble_stack_control(3).
StatusDown ==
  /\ ~link /\ status /\ main_pc = "idle"
  /\ status' = FALSE
  /\ UNCHANGED <<routerVars, ethVars, tcpVars, ackVars, woken, taskVars, tmrVars,
                 main_pc, link, conns, gattVars>>

Callback   == CallbackBlock \/ CallbackPending \/ CallbackNotify
Timer      == TimerFire \/ TimerNotify
GattCb     == CompleteClear \/ CompleteNotify
MainThread == StatusUp \/ gatt_conn_reset \/ StatusDown

\* All steps except the end of a write, which BlePath ties to the receiver.
TxStep ==
  \/ RouterDeliver \/ Callback \/ BLE_TCP_Task \/ Timer \/ GattCb
  \/ MainThread \/ LinkDown \/ RxAck

Next == TxStep \/ WriteDone \/ LinkUp

Spec == Init /\ [][Next]_vars

\* All threads of the process keep running, and the GATT layer reports the end
\* of a write.  A write that is attempted again and again succeeds some day.
\* Nothing is assumed of the peer, the link or the router's input.
FairSpec ==
  /\ Spec
  /\ WF_vars(BLE_TCP_Task) /\ SF_vars(TaskWriteOk)
  /\ WF_vars(Callback) /\ WF_vars(Timer) /\ WF_vars(GattCb)
  /\ WF_vars(MainThread) /\ WF_vars(WriteDone)

-----------------------------------------------------------------------------
\* The callback never overwrites a datagram that is still being sent: its pbuf
\* would be lost to the pool for ever.
BlockKept == "block" \in cbk_stores => current_tx_block = NoDgram

\* d has been accepted for transmission and is not out completely.
Accepted(d) ==
  d \in Range(q_output) \cup {cbk_blk, current_tx_block, snd_blk.d}

\* A datagram accepted for transmission leaves while the link stays up,
\* whatever the interleaving of completions, resets and notifications.
DatagramsLeave ==
  \A d \in Dgram : (Accepted(d) /\ link) ~> (~Accepted(d) \/ ~link)
=============================================================================
