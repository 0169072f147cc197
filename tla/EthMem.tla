------------------------------- MODULE EthMem -------------------------------
(***************************************************************************)
(* The memory and queue manager of the Ethernet bridge (eth_mem.c) with    *)
(* the routing decision of eth_router.c and the calls its two drivers make *)
(* on it: the BLE driver (ble_eth.c) and the lwIP driver                   *)
(* (lwip/eth_router_if_lwip.c).                                            *)
(*                                                                         *)
(* A packet buffer (ETH_PBUF) travels: the free chain, the receiving side  *)
(* of a driver, the input queue, the router task, an output queue, the     *)
(* transmitting side of the other driver, the queue of free requests, and  *)
(* the free chain again.  An action is one section under eth_mem_sem, or   *)
(* one access to shared state outside it.  Task notifications are the      *)
(* atomic ones TNotify implements.                                         *)
(*                                                                         *)
(* Abstractions: free_chain and the queue-entry pool are LIFO lists in the *)
(* code; which free element is taken is left open here.  A queue entry is  *)
(* identified with the pbuf it carries.  Statistics are left out.  No      *)
(* driver of this program passes a NOMEM_CALLBACK and nobody calls         *)
(* eth_mem_clone, so the waiting list nopbuf_q stays empty.  q_update_cbk  *)
(* (ble_callback_qlen) sends BLE_TCP_Task a bit it ignores and is left out.*)
(* The DNS proxy, which borrows pbufs from the same pool, is not part of   *)
(* this module.                                                            *)
(***************************************************************************)
EXTENDS Naturals, Sequences, Functions

CONSTANTS Pbuf,      \* the packet buffers (ETH_PBUFS_CNT of them)
          NoPbuf,    \* the NULL pointer
          QEntries,  \* size of the queue-entry pool (ETH_MEM_BUFS_CNT)
          QLen,      \* q_output_len_max (BLE_NETIF_QLEN, LWIP_NETIF_QLEN)
          MaxRef     \* bound on the references lwIP takes on one pbuf

ASSUME EthMemAssumption ==
  /\ NoPbuf \notin Pbuf
  /\ QEntries \in Nat \ {0}
  /\ QLen \in Nat \ {0}
  /\ MaxRef \in Nat \ {0}

VARIABLES
  free_chain,        \* set of free pbufs
  ref,               \* pbuf.ref
  if_idx,            \* pbuf.if_idx, the interface a pbuf was received on
  free_pbuf_q,       \* queue of requests to free a pbuf
  q_input,           \* packets waiting for the router
  q_output,          \* q_output[n]: packets waiting for driver n
  q_output_len,      \* the counter the code keeps beside q_output
  callback_pending,  \* driver n found its queue empty and awaits a callback
  used,              \* queue entries in use
  if_up,             \* interface n is up
  notify,            \* notification bits pending for EthQueueTask
  task_pc, task_res, task_blk,  \* EthQueueTask: position, bits taken, packet
  rx_pc, rx_buf,     \* receiving side of driver n and the pbuf it fills
  tx_pc, tx_buf,     \* transmitting side of driver n and the pbuf it sends
  held,              \* pbufs inside the lwIP stack
  core_pc,           \* the thread that frees pbufs inside lwIP
  fault              \* what stopped the process, if anything did

memVars  == <<free_chain, ref, if_idx, free_pbuf_q>>
qVars    == <<q_input, q_output, q_output_len, callback_pending, used, if_up>>
taskVars == <<task_pc, task_res, task_blk>>
rxVars   == <<rx_pc, rx_buf>>
txVars   == <<tx_pc, tx_buf>>
lwipVars == <<held, core_pc>>
vars == <<memVars, qVars, notify, taskVars, rxVars, txVars, lwipVars, fault>>

\* BLE_NETIF_ID and LWIP_NETIF_ID; "none" is index 0, "not initialised".
Netif == {"BLE", "LWIP"}
Free   == "NEW_FREE_P_REQUEST"
Router == "ROUTER_Q_UPDATE"

TaskPc == {"wait", "free", "pop", "route", "cbk_entry", "cbk_call",
           "drop_free", "drop_notify", "drop_entry", "free2"}
RxPc   == {"idle", "hold", "enqueue", "lost", "notify_router", "notify_free"}
TxPc   == {"idle", "entry", "wait", "hold", "notify_free"}

TypeOK ==
  /\ free_chain \subseteq Pbuf
  /\ ref \in [Pbuf -> Nat]
  /\ if_idx \in [Pbuf -> Netif \cup {"none"}]
  /\ free_pbuf_q \in Seq(Pbuf)
  /\ q_input \in Seq(Pbuf)
  /\ q_output \in [Netif -> Seq(Pbuf)]
  /\ q_output_len \in [Netif -> Nat]
  /\ callback_pending \in [Netif -> BOOLEAN]
  /\ used \in Nat
  /\ if_up \in [Netif -> BOOLEAN]
  /\ notify \subseteq {Free, Router}
  /\ task_pc \in TaskPc
  /\ task_res \subseteq {Free, Router}
  /\ task_blk \in Pbuf \cup {NoPbuf}
  /\ rx_pc \in [Netif -> RxPc]
  /\ rx_buf \in [Netif -> Pbuf \cup {NoPbuf}]
  /\ tx_pc \in [Netif -> TxPc]
  /\ tx_buf \in [Netif -> Pbuf \cup {NoPbuf}]
  /\ held \subseteq Pbuf
  /\ core_pc \in {"idle", "notify_free"}
  /\ fault \in {"none", "null_deref", "em_assert"}

-----------------------------------------------------------------------------
(***************************************************************************)
(* Init is the state inside JNI_OnLoad after eth_lwip_if_init has called   *)
(* eth_get_packet and set q_output_len_max, and before it sets if_up:      *)
(* BLE is up, lwIP is not, and the lwIP driver already waits for a packet. *)
(***************************************************************************)
Init ==
  /\ free_chain = Pbuf
  /\ ref = [p \in Pbuf |-> 0]
  /\ if_idx = [p \in Pbuf |-> "none"]
  /\ free_pbuf_q = <<>>
  /\ q_input = <<>>
  /\ q_output = [n \in Netif |-> <<>>]
  /\ q_output_len = [n \in Netif |-> 0]
  /\ callback_pending = [n \in Netif |-> n = "LWIP"]
  /\ used = 0
  /\ if_up = [n \in Netif |-> n = "BLE"]
  /\ notify = {}
  /\ task_pc = "wait"
  /\ task_res = {}
  /\ task_blk = NoPbuf
  /\ rx_pc = [n \in Netif |-> "idle"]
  /\ rx_buf = [n \in Netif |-> NoPbuf]
  /\ tx_pc = [n \in Netif |-> IF n = "LWIP" THEN "wait" ELSE "idle"]
  /\ tx_buf = [n \in Netif |-> NoPbuf]
  /\ held = {}
  /\ core_pc = "idle"
  /\ fault = "none"

Running == fault = "none"

\* EM_ASSERT(x) spins forever, mostly with eth_mem_sem held: nothing moves.
EmAssert(cond) == fault' = IF cond THEN "none" ELSE "em_assert"

\* The section of eth_pbuf_free_request under the lock.  The notification
\* that follows it is a step of its own, taken only if the pbuf was queued.
FreeRequest(p) ==
  /\ EmAssert(ref[p] # 0)
  /\ IF ref[p] > 1
     THEN /\ ref' = [ref EXCEPT ![p] = @ - 1]
          /\ UNCHANGED free_pbuf_q
     ELSE /\ free_pbuf_q' = Append(free_pbuf_q, p)
          /\ UNCHANGED ref

AfterFreeRequest(p, done, notifying) == IF ref[p] > 1 THEN done ELSE notifying

\* The end of eth_lwip_if_init: the lwIP interface goes up, once.
LwipIfUp ==
  /\ Running /\ ~if_up["LWIP"]
  /\ if_up' = [if_up EXCEPT !["LWIP"] = TRUE]
  /\ UNCHANGED <<memVars, q_input, q_output, q_output_len, callback_pending,
                 used, notify, taskVars, rxVars, txVars, lwipVars, fault>>

-----------------------------------------------------------------------------
(***************************************************************************)
(* The receiving side of a driver: process_dgram_asm on the main thread,   *)
(* lwip_output_to_bridge on a thread that holds the lwIP core.  Java calls *)
(* the library only after JNI_OnLoad, so BLE receives nothing before the   *)
(* lwIP interface is up; lwIP announces itself before that.                *)
(***************************************************************************)
\* eth_pbuf_alloc(ctrl, NULL).  With the pool exhausted p is NULL and
\* "p->pbuf.if_idx=0" dereferences it.
RxAlloc(n) ==
  /\ Running /\ rx_pc[n] = "idle"
  /\ n = "BLE" => if_up["LWIP"]
  /\ IF free_chain = {}
     THEN /\ fault' = "null_deref"
          /\ UNCHANGED <<free_chain, ref, if_idx, rxVars>>
     ELSE \E p \in free_chain :
            /\ free_chain' = free_chain \ {p}
            /\ ref' = [ref EXCEPT ![p] = 1]
            /\ if_idx' = [if_idx EXCEPT ![p] = "none"]
            /\ rx_buf' = [rx_buf EXCEPT ![n] = p]
            /\ rx_pc' = [rx_pc EXCEPT ![n] = "hold"]
            /\ UNCHANGED fault
  /\ UNCHANGED <<free_pbuf_q, qVars, notify, taskVars, txVars, lwipVars>>

\* The driver gives up a partly filled pbuf (sequence error, oversize, too
\* short, connection reset), or a pbuf for which no queue entry was left.
RxFree(n) ==
  /\ Running /\ rx_pc[n] \in {"hold", "lost"}
  /\ FreeRequest(rx_buf[n])
  /\ rx_pc' = [rx_pc EXCEPT ![n] =
                 AfterFreeRequest(rx_buf[n], "idle", "notify_free")]
  /\ rx_buf' = [rx_buf EXCEPT ![n] = NoPbuf]
  /\ UNCHANGED <<free_chain, if_idx, qVars, notify, taskVars, txVars, lwipVars>>

\* eth_add_packet_to_router_queue, first half: a queue entry is allocated.
\* Both drivers only submit datagrams of at least 14 bytes.
RxSubmit(n) ==
  /\ Running /\ rx_pc[n] = "hold"
  /\ EmAssert(ref[rx_buf[n]] # 0)
  /\ if_idx' = [if_idx EXCEPT ![rx_buf[n]] = n]
  /\ IF used < QEntries
     THEN /\ used' = used + 1
          /\ rx_pc' = [rx_pc EXCEPT ![n] = "enqueue"]
     ELSE /\ rx_pc' = [rx_pc EXCEPT ![n] = "lost"]
          /\ UNCHANGED used
  /\ UNCHANGED <<free_chain, ref, free_pbuf_q, q_input, q_output, q_output_len,
                 callback_pending, if_up, notify, taskVars, rx_buf, txVars,
                 lwipVars>>

\* eth_add_packet_to_router_queue, second half: the entry joins q_input.
RxEnqueue(n) ==
  /\ Running /\ rx_pc[n] = "enqueue"
  /\ q_input' = Append(q_input, rx_buf[n])
  /\ rx_buf' = [rx_buf EXCEPT ![n] = NoPbuf]
  /\ rx_pc' = [rx_pc EXCEPT ![n] = "notify_router"]
  /\ UNCHANGED <<memVars, q_output, q_output_len, callback_pending, used, if_up,
                 notify, taskVars, txVars, lwipVars, fault>>

\* TNotifyAdd after the lock was released.
RxNotify(n) ==
  /\ Running
  /\ \/ /\ rx_pc[n] = "notify_router"
        /\ notify' = notify \cup {Router}
     \/ /\ rx_pc[n] = "notify_free"
        /\ notify' = notify \cup {Free}
  /\ rx_pc' = [rx_pc EXCEPT ![n] = "idle"]
  /\ UNCHANGED <<memVars, qVars, taskVars, rx_buf, txVars, lwipVars, fault>>

-----------------------------------------------------------------------------
(***************************************************************************)
(* The transmitting side of a driver: get_next_chunk on BLE_TCP_Task,      *)
(* to_lwip_QueueTask.                                                      *)
(***************************************************************************)
\* eth_get_packet: take the head of the output queue, or ask for a callback.
TxGetPacket(n) ==
  /\ Running /\ tx_pc[n] = "idle"
  /\ IF q_output[n] # <<>>
     THEN /\ EmAssert(q_output_len[n] # 0)
          /\ tx_buf' = [tx_buf EXCEPT ![n] = Head(q_output[n])]
          /\ q_output' = [q_output EXCEPT ![n] = Tail(@)]
          /\ q_output_len' = [q_output_len EXCEPT ![n] = @ - 1]
          /\ tx_pc' = [tx_pc EXCEPT ![n] = "entry"]
          /\ UNCHANGED callback_pending
     ELSE /\ callback_pending' = [callback_pending EXCEPT ![n] = TRUE]
          /\ tx_pc' = [tx_pc EXCEPT ![n] = "wait"]
          /\ UNCHANGED <<q_output, q_output_len, tx_buf, fault>>
  /\ UNCHANGED <<memVars, q_input, used, if_up, notify, taskVars, rxVars,
                 lwipVars>>

\* Mutant: the caller of eth_get_packet frees the entry once more.
TxEntryFreeTwice(n) ==
  /\ Running /\ tx_pc[n] = "entry"
  /\ EmAssert(used # 0)
  /\ used' = used - 2
  /\ tx_pc' = [tx_pc EXCEPT ![n] = "hold"]
  /\ UNCHANGED <<memVars, q_input, q_output, q_output_len, callback_pending,
                 if_up, notify, taskVars, rxVars, tx_buf, lwipVars>>

\* eth_queue_entry_free at the end of a successful eth_get_packet.
TxEntryFree(n) ==
  /\ Running /\ tx_pc[n] = "entry"
  /\ EmAssert(used # 0)
  /\ used' = used - 1
  /\ tx_pc' = [tx_pc EXCEPT ![n] = "hold"]
  /\ UNCHANGED <<memVars, q_input, q_output, q_output_len, callback_pending,
                 if_up, notify, taskVars, rxVars, tx_buf, lwipVars>>

\* Mutant: current_tx_block keeps pointing to the pbuf.
BleTxFreeKeeps ==
  /\ Running /\ tx_pc["BLE"] = "hold"
  /\ FreeRequest(tx_buf["BLE"])
  /\ tx_pc' = [tx_pc EXCEPT !["BLE"] =
                 AfterFreeRequest(tx_buf["BLE"], "idle", "notify_free")]
  /\ UNCHANGED <<free_chain, if_idx, qVars, notify, taskVars, rxVars, tx_buf,
                 lwipVars>>

\* BLE: the last chunk of the datagram was copied out, the pbuf is released.
BleTxFree ==
  /\ Running /\ tx_pc["BLE"] = "hold"
  /\ FreeRequest(tx_buf["BLE"])
  /\ tx_pc' = [tx_pc EXCEPT !["BLE"] =
                 AfterFreeRequest(tx_buf["BLE"], "idle", "notify_free")]
  /\ tx_buf' = [tx_buf EXCEPT !["BLE"] = NoPbuf]
  /\ UNCHANGED <<free_chain, if_idx, qVars, notify, taskVars, rxVars, lwipVars>>

\* Mutant: the wrong bit.
BleTxNotifyRouter ==
  /\ Running /\ tx_pc["BLE"] = "notify_free"
  /\ notify' = notify \cup {Router}
  /\ tx_pc' = [tx_pc EXCEPT !["BLE"] = "idle"]
  /\ UNCHANGED <<memVars, qVars, taskVars, rxVars, tx_buf, lwipVars, fault>>

\* TNotifyAdd after the lock was released.
BleTxNotify ==
  /\ Running /\ tx_pc["BLE"] = "notify_free"
  /\ notify' = notify \cup {Free}
  /\ tx_pc' = [tx_pc EXCEPT !["BLE"] = "idle"]
  /\ UNCHANGED <<memVars, qVars, taskVars, rxVars, tx_buf, lwipVars, fault>>

\* Mutant: the driver waits for a callback without calling eth_get_packet.
LwipInputWaits ==
  /\ Running /\ tx_pc["LWIP"] = "hold"
  /\ EmAssert(ref[tx_buf["LWIP"]] # 0)
  /\ held' = held \cup {tx_buf["LWIP"]}
  /\ tx_buf' = [tx_buf EXCEPT !["LWIP"] = NoPbuf]
  /\ tx_pc' = [tx_pc EXCEPT !["LWIP"] = "wait"]
  /\ UNCHANGED <<memVars, qVars, notify, taskVars, rxVars, core_pc>>

\* lwIP: netif->input is ethernet_input, which always returns ERR_OK, so the
\* stack owns the pbuf from here on and the driver asks for the next one.
LwipInput ==
  /\ Running /\ tx_pc["LWIP"] = "hold"
  /\ EmAssert(ref[tx_buf["LWIP"]] # 0)
  /\ held' = held \cup {tx_buf["LWIP"]}
  /\ tx_buf' = [tx_buf EXCEPT !["LWIP"] = NoPbuf]
  /\ tx_pc' = [tx_pc EXCEPT !["LWIP"] = "idle"]
  /\ UNCHANGED <<memVars, qVars, notify, taskVars, rxVars, core_pc>>

\* Inside lwIP (external): pbuf_ref, and pbuf_free of a shared pbuf.
LwipPbufRef(p) ==
  /\ Running /\ p \in held
  /\ ref[p] < MaxRef
  /\ ref' = [ref EXCEPT ![p] = @ + 1]
  /\ UNCHANGED <<free_chain, if_idx, free_pbuf_q, qVars, notify, taskVars,
                 rxVars, txVars, lwipVars, fault>>

LwipPbufUnref(p) ==
  /\ Running /\ p \in held
  /\ ref[p] > 1
  /\ ref' = [ref EXCEPT ![p] = @ - 1]
  /\ UNCHANGED <<free_chain, if_idx, free_pbuf_q, qVars, notify, taskVars,
                 rxVars, txVars, lwipVars, fault>>

\* Mutant: the reference count stays 0.
LwipPbufFreeNoRef(p) ==
  /\ Running /\ p \in held /\ core_pc = "idle"
  /\ ref[p] = 1
  /\ ref' = [ref EXCEPT ![p] = 0]
  /\ free_pbuf_q' = Append(free_pbuf_q, p)
  /\ held' = held \ {p}
  /\ core_pc' = "notify_free"
  /\ UNCHANGED <<free_chain, if_idx, qVars, notify, taskVars, rxVars, txVars,
                 fault>>

\* pbuf_free drops the last reference: ref becomes 0, and
\* eth_custom_pbuf_free_request restores 1 and queues the pbuf.
LwipPbufFree(p) ==
  /\ Running /\ p \in held /\ core_pc = "idle"
  /\ ref[p] = 1
  /\ free_pbuf_q' = Append(free_pbuf_q, p)
  /\ held' = held \ {p}
  /\ core_pc' = "notify_free"
  /\ UNCHANGED <<free_chain, ref, if_idx, qVars, notify, taskVars, rxVars,
                 txVars, fault>>

LwipNotify ==
  /\ Running /\ core_pc = "notify_free"
  /\ notify' = notify \cup {Free}
  /\ core_pc' = "idle"
  /\ UNCHANGED <<memVars, qVars, taskVars, rxVars, txVars, held, fault>>

-----------------------------------------------------------------------------
(***************************************************************************)
(* EthQueueTask                                                            *)
(***************************************************************************)
\* TNotifyWait takes all pending bits.
TaskWait ==
  /\ Running /\ task_pc = "wait" /\ notify # {}
  /\ task_res' = notify
  /\ notify' = {}
  /\ task_pc' = IF Free \in notify THEN "free" ELSE "pop"
  /\ UNCHANGED <<memVars, qVars, task_blk, rxVars, txVars, lwipVars, fault>>

\* One turn of the loop in free_blk: the head of the free queue goes back to
\* the free chain.  Its if_idx, which eth_pbuf_alloc overwrites before anyone
\* reads it again, is forgotten here already.
FreeBlk ==
  /\ Running /\ task_pc \in {"free", "free2"}
  /\ free_pbuf_q # <<>>
  /\ LET p == Head(free_pbuf_q) IN
       /\ EmAssert(ref[p] = 1)
       /\ free_pbuf_q' = Tail(free_pbuf_q)
       /\ free_chain' = free_chain \cup {p}
       /\ ref' = [ref EXCEPT ![p] = 0]
       /\ if_idx' = [if_idx EXCEPT ![p] = "none"]
  /\ UNCHANGED <<qVars, notify, taskVars, rxVars, txVars, lwipVars>>

\* Mutant: "else if" between the two bits, the router bit is forgotten.
FreeBlkDoneElse ==
  /\ Running /\ task_pc \in {"free", "free2"}
  /\ free_pbuf_q = <<>>
  /\ task_pc' = IF task_pc = "free2" THEN "pop" ELSE "wait"
  /\ UNCHANGED <<memVars, qVars, notify, task_res, task_blk, rxVars, txVars,
                 lwipVars, fault>>

\* free_blk found the queue empty and returns to EthQueueTask, which looks at
\* the bits it took for the last time (task_res is dead and cleared).
FreeBlkDone ==
  /\ Running /\ task_pc \in {"free", "free2"}
  /\ free_pbuf_q = <<>>
  /\ task_pc' = IF task_pc = "free2" \/ Router \in task_res
                THEN "pop" ELSE "wait"
  /\ task_res' = {}
  /\ UNCHANGED <<memVars, qVars, notify, task_blk, rxVars, txVars,
                 lwipVars, fault>>

\* Mutant: the newest packet is taken instead of the oldest.
TaskPopNewest ==
  /\ Running /\ task_pc = "pop"
  /\ IF q_input = <<>>
     THEN /\ task_pc' = "wait"
          /\ UNCHANGED <<q_input, task_blk>>
     ELSE /\ task_blk' = q_input[Len(q_input)]
          /\ q_input' = SubSeq(q_input, 1, Len(q_input) - 1)
          /\ task_pc' = "route"
  /\ UNCHANGED <<memVars, q_output, q_output_len, callback_pending, used, if_up,
                 notify, task_res, rxVars, txVars, lwipVars, fault>>

\* The head of q_input is taken for routing; an empty queue ends the loop.
TaskPop ==
  /\ Running /\ task_pc = "pop"
  /\ IF q_input = <<>>
     THEN /\ task_pc' = "wait"
          /\ UNCHANGED <<q_input, task_blk>>
     ELSE /\ task_blk' = Head(q_input)
          /\ q_input' = Tail(q_input)
          /\ task_pc' = "route"
  /\ UNCHANGED <<memVars, q_output, q_output_len, callback_pending, used, if_up,
                 notify, task_res, rxVars, txVars, lwipVars, fault>>

\* The destination eth_route_block chooses.
Dst(n) == IF n = "BLE" THEN "LWIP" ELSE "BLE"

\* Mutant: the queue is tried before the waiting driver.
AddToOutputQueueFirst(n) ==
  IF q_output_len[n] >= QLen
  THEN /\ task_pc' = "drop_free"
       /\ UNCHANGED <<q_output, q_output_len, callback_pending, task_blk, fault>>
  ELSE /\ q_output' = [q_output EXCEPT ![n] = Append(@, task_blk)]
       /\ q_output_len' = [q_output_len EXCEPT ![n] = @ + 1]
       /\ task_blk' = NoPbuf
       /\ task_pc' = "free2"
       /\ UNCHANGED <<callback_pending, fault>>

\* eth_add_packet_to_output_queue up to the end of its locked section: hand
\* over to a waiting driver, drop on a full queue, or append.
AddToOutputQueue(n) ==
  IF callback_pending[n]
  THEN /\ EmAssert(q_output[n] = <<>>)
       /\ callback_pending' = [callback_pending EXCEPT ![n] = FALSE]
       /\ task_pc' = "cbk_entry"
       /\ UNCHANGED <<q_output, q_output_len, task_blk>>
  ELSE IF q_output_len[n] >= QLen
  THEN /\ task_pc' = "drop_free"
       /\ UNCHANGED <<q_output, q_output_len, callback_pending, task_blk, fault>>
  ELSE /\ q_output' = [q_output EXCEPT ![n] = Append(@, task_blk)]
       /\ q_output_len' = [q_output_len EXCEPT ![n] = @ + 1]
       /\ task_blk' = NoPbuf
       /\ task_pc' = "free2"
       /\ UNCHANGED <<callback_pending, fault>>

\* eth_route_block: a packet of an interface that is down is dropped, any
\* other goes to the other interface.
TaskRoute ==
  /\ Running /\ task_pc = "route"
  /\ LET src == if_idx[task_blk] IN
       IF src = "none" \/ ref[task_blk] = 0
       THEN /\ fault' = "em_assert"
            /\ UNCHANGED <<q_output, q_output_len, callback_pending, task_pc,
                           task_blk>>
       ELSE IF ~if_up[src]
       THEN /\ task_pc' = "drop_free"
            /\ UNCHANGED <<q_output, q_output_len, callback_pending, task_blk,
                           fault>>
       ELSE AddToOutputQueue(Dst(src))
  /\ UNCHANGED <<memVars, q_input, used, if_up, notify, task_res, rxVars, txVars,
                 lwipVars>>

\* The packet is dropped: eth_pbuf_free_request, its notification, then
\* eth_queue_entry_free.
TaskDropFree ==
  /\ Running /\ task_pc = "drop_free"
  /\ FreeRequest(task_blk)
  /\ task_pc' = AfterFreeRequest(task_blk, "drop_entry", "drop_notify")
  /\ task_blk' = NoPbuf
  /\ UNCHANGED <<free_chain, if_idx, qVars, notify, task_res, rxVars, txVars,
                 lwipVars>>

TaskDropNotify ==
  /\ Running /\ task_pc = "drop_notify"
  /\ notify' = notify \cup {Free}
  /\ task_pc' = "drop_entry"
  /\ UNCHANGED <<memVars, qVars, task_res, task_blk, rxVars, txVars, lwipVars,
                 fault>>

\* Mutant: a dropped packet keeps its entry.
TaskEntryFreeLeaks ==
  /\ Running /\ task_pc \in {"drop_entry", "cbk_entry"}
  /\ EmAssert(used # 0)
  /\ used' = IF task_pc = "drop_entry" THEN used ELSE used - 1
  /\ task_pc' = IF task_pc = "drop_entry" THEN "free2" ELSE "cbk_call"
  /\ UNCHANGED <<memVars, q_input, q_output, q_output_len, callback_pending,
                 if_up, notify, task_res, task_blk, rxVars, txVars, lwipVars>>

\* eth_queue_entry_free, on the dropping path and before a callback.
TaskEntryFree ==
  /\ Running /\ task_pc \in {"drop_entry", "cbk_entry"}
  /\ EmAssert(used # 0)
  /\ used' = used - 1
  /\ task_pc' = IF task_pc = "drop_entry" THEN "free2" ELSE "cbk_call"
  /\ UNCHANGED <<memVars, q_input, q_output, q_output_len, callback_pending,
                 if_up, notify, task_res, task_blk, rxVars, txVars, lwipVars>>

\* enetif->callback_fn: the waiting driver receives the packet.
TaskCallback ==
  /\ Running /\ task_pc = "cbk_call"
  /\ LET n == Dst(if_idx[task_blk]) IN
       /\ tx_buf' = [tx_buf EXCEPT ![n] = task_blk]
       /\ tx_pc' = [tx_pc EXCEPT ![n] = "hold"]
  /\ task_blk' = NoPbuf
  /\ task_pc' = "free2"
  /\ UNCHANGED <<memVars, qVars, notify, task_res, rxVars, lwipVars, fault>>

EthQueueTask ==
  \/ TaskWait \/ FreeBlk \/ FreeBlkDone \/ TaskPop \/ TaskRoute
  \/ TaskDropFree \/ TaskDropNotify \/ TaskEntryFree \/ TaskCallback

\* A process that crashed or hangs in EM_ASSERT does nothing any more.
Stopped == ~Running /\ UNCHANGED vars

Driver(n) ==
  \/ RxAlloc(n) \/ RxFree(n) \/ RxSubmit(n) \/ RxEnqueue(n) \/ RxNotify(n)
  \/ TxGetPacket(n) \/ TxEntryFree(n)

Lwip ==
  \/ LwipIfUp \/ LwipInput \/ LwipNotify
  \/ \E p \in Pbuf : LwipPbufRef(p) \/ LwipPbufUnref(p) \/ LwipPbufFree(p)

Next ==
  \/ EthQueueTask
  \/ \E n \in Netif : Driver(n)
  \/ BleTxFree \/ BleTxNotify
  \/ Lwip
  \/ Stopped

Spec == Init /\ [][Next]_vars

\* The threads keep running: EthQueueTask, and every thread that is between
\* the unlock and its TNotifyAdd.  Nothing is assumed of the drivers.
Fairness ==
  /\ WF_vars(EthQueueTask)
  /\ WF_vars(BleTxNotify) /\ WF_vars(LwipNotify)
  /\ \A n \in Netif : WF_vars(RxNotify(n))

FairSpec == Spec /\ Fairness

-----------------------------------------------------------------------------
(***************************************************************************)
(* Properties                                                              *)
(***************************************************************************)
\* The places of the program a pbuf can be in, and whether it is there.
Places == {"free_chain", "free_pbuf_q", "q_input", "router", "out_ble",
           "out_lwip", "rx_ble", "rx_lwip", "tx_ble", "tx_lwip", "lwip"}

At(p, c) ==
  \/ c = "free_chain"  /\ p \in free_chain
  \/ c = "free_pbuf_q" /\ p \in Range(free_pbuf_q)
  \/ c = "q_input"     /\ p \in Range(q_input)
  \/ c = "router"      /\ p = task_blk
  \/ c = "out_ble"     /\ p \in Range(q_output["BLE"])
  \/ c = "out_lwip"    /\ p \in Range(q_output["LWIP"])
  \/ c = "rx_ble"      /\ p = rx_buf["BLE"]
  \/ c = "rx_lwip"     /\ p = rx_buf["LWIP"]
  \/ c = "tx_ble"      /\ p = tx_buf["BLE"]
  \/ c = "tx_lwip"     /\ p = tx_buf["LWIP"]
  \/ c = "lwip"        /\ p \in held

\* p is in exactly one of the places.
OnePlace(p) ==
  \E a \in Places : At(p, a) /\ \A b \in Places : At(p, b) => b = a

\* Every pbuf has exactly one owner at any time, and no queue holds it twice:
\* none leaks, none is freed or queued twice, none is used by two threads.
\* (eth_mem.h: a driver sends the packet, then frees the buffer.)
Ownership ==
  /\ \A p \in Pbuf : OnePlace(p)
  /\ IsInjective(free_pbuf_q) /\ IsInjective(q_input)
  /\ \A n \in Netif : IsInjective(q_output[n])

\* No EM_ASSERT of eth_mem.c or eth_router.c ever fires: references are
\* counted right (1, 3, 8, 11, 20), the length counter agrees with the queue
\* (7), a driver that awaits a callback has an empty queue (9), and a packet
\* that reaches the router carries its interface (22).
NoEmAssert == fault # "em_assert"

\* 1 if the condition holds, for counting.
One(cond) == IF cond THEN 1 ELSE 0

\* The queue entries in use: in the queues, in the router, and in the calls
\* eth_add_packet_to_router_queue and eth_get_packet in progress.
QueuedEntries ==
  Len(q_input) + Len(q_output["BLE"]) + Len(q_output["LWIP"])
RouterEntries ==
  One(task_pc \in {"route", "cbk_entry", "drop_free", "drop_notify",
                   "drop_entry"})
RxEntries == One(rx_pc["BLE"] = "enqueue") + One(rx_pc["LWIP"] = "enqueue")
TxEntries == One(tx_pc["BLE"] = "entry") + One(tx_pc["LWIP"] = "entry")

\* Queue entries are neither leaked nor freed twice.
EntriesConserved ==
  used = QueuedEntries + RouterEntries + RxEntries + TxEntries

\* A thread is between queueing a free request and its TNotifyAdd.
FreeNotifyDue ==
  \/ \E n \in Netif : rx_pc[n] = "notify_free"
  \/ tx_pc["BLE"] = "notify_free" \/ core_pc = "notify_free"

RouterNotifyDue == \E n \in Netif : rx_pc[n] = "notify_router"

\* No wakeup is lost although the bits are set after the lock is released and
\* are taken by an exchange before the queues are read: work that is queued
\* while the task sleeps always has a notification pending or about to be
\* sent, and work the task has left behind in this turn is seen again.
NoLostWakeup ==
  /\ task_pc \in {"wait", "pop"} /\ free_pbuf_q # <<>> =>
       \/ Free \in notify \/ FreeNotifyDue
       \/ task_pc = "pop" /\ q_input # <<>>
  /\ task_pc = "wait" /\ q_input # <<>> => Router \in notify \/ RouterNotifyDue

\* A driver waits for a callback exactly as long as one is owed to it: the
\* flag is set, or the router is on its way to call it.  A driver that waits
\* with neither would never transmit again.
CallbackOwed ==
  \A n \in Netif :
    tx_pc[n] = "wait" <=>
      \/ callback_pending[n]
      \/ task_pc \in {"cbk_entry", "cbk_call"} /\ Dst(if_idx[task_blk]) = n

\* A callback never overtakes a queued packet, whatever the interleaving of
\* eth_get_packet and the router: while a driver awaits one, nothing is queued.
PendingMeansEmpty == \A n \in Netif : callback_pending[n] => q_output[n] = <<>>

-----------------------------------------------------------------------------
(***************************************************************************)
(* The inductive invariant: what the safety properties above rest on.      *)
(***************************************************************************)
\* A thread holds a pbuf exactly at the positions where the code does.
SlotInv ==
  /\ task_blk # NoPbuf <=>
       task_pc \in {"route", "cbk_entry", "cbk_call", "drop_free"}
  /\ \A n \in Netif :
       /\ rx_buf[n] # NoPbuf <=> rx_pc[n] \in {"hold", "enqueue", "lost"}
       /\ tx_buf[n] # NoPbuf <=> tx_pc[n] \in {"entry", "hold"}

\* A pbuf has no reference in the free chain, one outside it, and possibly
\* more inside lwIP.
RefInv ==
  \A p \in Pbuf : IF p \in held THEN ref[p] >= 1
                                 ELSE ref[p] = One(p \notin free_chain)

\* A packet in q_input or in the router knows its interface.
IfIdxInv ==
  /\ \A n \in Netif : rx_pc[n] = "enqueue" => if_idx[rx_buf[n]] = n
  /\ \A i \in DOMAIN q_input : if_idx[q_input[i]] \in Netif
  /\ task_blk # NoPbuf => if_idx[task_blk] \in Netif

\* The counter kept beside an output queue is its length.
LenInv == \A n \in Netif : q_output_len[n] = Len(q_output[n])

\* The router clears callback_pending before it calls the driver.
CallbackOnce ==
  task_pc \in {"cbk_entry", "cbk_call"} =>
    ~callback_pending[Dst(if_idx[task_blk])]

IInv ==
  /\ TypeOK /\ NoEmAssert
  /\ Ownership /\ SlotInv /\ RefInv /\ IfIdxInv
  /\ LenInv /\ EntriesConserved
  /\ PendingMeansEmpty /\ CallbackOwed /\ CallbackOnce

\* What NoLostWakeup rests on: a turn of the task for free requests only is
\* followed by another one if input is queued meanwhile.
WakeInv ==
  /\ NoLostWakeup
  /\ task_pc = "free" /\ Router \notin task_res /\ q_input # <<>> =>
       Router \in notify \/ RouterNotifyDue

-----------------------------------------------------------------------------
\* Every pbuf whose release was requested becomes allocatable again, unless
\* the process stops.
FreedReturns ==
  \A p \in Pbuf :
    p \in Range(free_pbuf_q) ~> (p \in free_chain \/ ~Running)
=============================================================================
