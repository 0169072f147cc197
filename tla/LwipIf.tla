-------------------------------- MODULE LwipIf --------------------------------
(***************************************************************************)
(* The transmitting side of the lwIP driver (lwip/eth_router_if_lwip.c) at *)
(* the grain of its shared variable block_to_send, which the router's      *)
(* callback writes and to_lwip_QueueTask reads and clears, both without a  *)
(* lock.  EthMem sees this driver only through the packets it takes and    *)
(* passes on; here the router is reduced to what it does to this driver.   *)
(***************************************************************************)
EXTENDS Naturals, Sequences, Functions

CONSTANTS Pbuf,    \* packet buffers
          NoPbuf,  \* NULL
          QLen     \* LWIP_NETIF_QLEN

ASSUME LwipIfAssumption == NoPbuf \notin Pbuf /\ QLen \in Nat

VARIABLES
  block_to_send,     \* the shared variable
  bits,              \* notification bits pending in TTskHandle
  q_output,          \* the driver's output queue in the router
  callback_pending,
  cbk_pc, cbk_blk,   \* the router thread inside lwip_callback_from_bridge
  task_pc, res,      \* to_lwip_QueueTask: position, bits taken
  held,              \* pbufs inside the lwIP stack
  fault

vars == <<block_to_send, bits, q_output, callback_pending, cbk_pc, cbk_blk,
          task_pc, res, held, fault>>

Block == 1   \* bit 1: a packet was handed over
Timer == 2   \* bit 2: time for sys_check_timeouts

TypeOK ==
  /\ block_to_send \in Pbuf \cup {NoPbuf}
  /\ bits \subseteq {Block, Timer}
  /\ q_output \in Seq(Pbuf) /\ Len(q_output) <= QLen
  /\ callback_pending \in BOOLEAN
  /\ cbk_pc \in {"idle", "store", "notify"}
  /\ cbk_blk \in Pbuf \cup {NoPbuf}
  /\ task_pc \in {"wait", "timeouts", "input", "clear", "get", "test"}
  /\ res \subseteq {Block, Timer}
  /\ held \subseteq Pbuf
  /\ fault \in {"none", "null_deref"}

\* eth_lwip_if_init has called eth_get_packet; the task waits.
Init ==
  /\ block_to_send = NoPbuf
  /\ bits = {}
  /\ q_output = <<>>
  /\ callback_pending = TRUE
  /\ cbk_pc = "idle" /\ cbk_blk = NoPbuf
  /\ task_pc = "wait" /\ res = {}
  /\ held = {}
  /\ fault = "none"

Running == fault = "none"

-----------------------------------------------------------------------------
\* Mutant: the queue length is not checked.
RouterDeliverUnbounded(p) ==
  /\ Running /\ cbk_pc = "idle"
  /\ p \notin held \cup Range(q_output)
  /\ p = block_to_send => task_pc = "clear"
  /\ IF callback_pending
     THEN /\ callback_pending' = FALSE
          /\ cbk_pc' = "store" /\ cbk_blk' = p
          /\ UNCHANGED q_output
     ELSE /\ q_output' = Append(q_output, p)
          /\ UNCHANGED <<callback_pending, cbk_pc, cbk_blk>>
  /\ UNCHANGED <<block_to_send, bits, task_pc, res, held, fault>>

\* eth_add_packet_to_output_queue for this driver, with a pbuf that is
\* elsewhere in the program: hand it over, queue it, or drop it (no change).
\* Once lwIP has freed it, the pbuf block_to_send still points to may be back.
RouterDeliver(p) ==
  /\ Running /\ cbk_pc = "idle"
  /\ p \notin held \cup Range(q_output)
  /\ p = block_to_send => task_pc = "clear"
  /\ IF callback_pending
     THEN /\ callback_pending' = FALSE
          /\ cbk_pc' = "store" /\ cbk_blk' = p
          /\ UNCHANGED q_output
     ELSE /\ Len(q_output) < QLen
          /\ q_output' = Append(q_output, p)
          /\ UNCHANGED <<callback_pending, cbk_pc, cbk_blk>>
  /\ UNCHANGED <<block_to_send, bits, task_pc, res, held, fault>>

\* lwip_callback_from_bridge: store the packet, then notify the task.
CallbackStore ==
  /\ Running /\ cbk_pc = "store"
  /\ block_to_send' = cbk_blk
  /\ cbk_blk' = NoPbuf
  /\ cbk_pc' = "notify"
  /\ UNCHANGED <<bits, q_output, callback_pending, task_pc, res, held, fault>>

CallbackNotify ==
  /\ Running /\ cbk_pc = "notify"
  /\ bits' = bits \cup {Block}
  /\ cbk_pc' = "idle"
  /\ UNCHANGED <<block_to_send, q_output, callback_pending, cbk_blk, task_pc,
                 res, held, fault>>

\* to_lwip_TmrTask, every 100 ms.
TmrNotify ==
  /\ Running /\ Timer \notin bits
  /\ bits' = bits \cup {Timer}
  /\ UNCHANGED <<block_to_send, q_output, callback_pending, cbk_pc, cbk_blk,
                 task_pc, res, held, fault>>

\* lwIP (external) releases a packet it has consumed.
LwipPbufFree(p) ==
  /\ Running /\ p \in held
  /\ held' = held \ {p}
  /\ UNCHANGED <<block_to_send, bits, q_output, callback_pending, cbk_pc,
                 cbk_blk, task_pc, res, fault>>

-----------------------------------------------------------------------------
(***************************************************************************)
(* to_lwip_QueueTask                                                       *)
(***************************************************************************)
TaskWait ==
  /\ Running /\ task_pc = "wait" /\ bits # {}
  /\ res' = bits
  /\ bits' = {}
  /\ task_pc' = IF Timer \in bits THEN "timeouts" ELSE "input"
  /\ UNCHANGED <<block_to_send, q_output, callback_pending, cbk_pc, cbk_blk,
                 held, fault>>

\* sys_check_timeouts (external) does not touch this driver's state.
TaskTimeouts ==
  /\ Running /\ task_pc = "timeouts"
  /\ task_pc' = IF Block \in res THEN "input" ELSE "wait"
  /\ UNCHANGED <<block_to_send, bits, q_output, callback_pending, cbk_pc,
                 cbk_blk, res, held, fault>>

\* The task reads block_to_send->pbuf.ref and passes the packet to
\* netif->input, which always takes it over.
TaskInput ==
  /\ Running /\ task_pc = "input"
  /\ IF block_to_send = NoPbuf
     THEN /\ fault' = "null_deref"
          /\ UNCHANGED <<held, task_pc>>
     ELSE /\ held' = held \cup {block_to_send}
          /\ task_pc' = "clear"
          /\ UNCHANGED fault
  /\ UNCHANGED <<block_to_send, bits, q_output, callback_pending, cbk_pc,
                 cbk_blk, res>>

\* Mutant: block_to_send is not cleared before eth_get_packet.
TaskClearNot ==
  /\ Running /\ task_pc = "clear"
  /\ task_pc' = "get"
  /\ UNCHANGED <<block_to_send, bits, q_output, callback_pending, cbk_pc,
                 cbk_blk, res, held, fault>>

TaskClear ==
  /\ Running /\ task_pc = "clear"
  /\ block_to_send' = NoPbuf
  /\ task_pc' = "get"
  /\ UNCHANGED <<bits, q_output, callback_pending, cbk_pc, cbk_blk, res, held,
                 fault>>

\* Mutant: the newest packet is taken first.
TaskGetPacketNewest ==
  /\ Running /\ task_pc = "get"
  /\ IF q_output # <<>>
     THEN /\ block_to_send' = q_output[Len(q_output)]
          /\ q_output' = SubSeq(q_output, 1, Len(q_output) - 1)
          /\ UNCHANGED callback_pending
     ELSE /\ callback_pending' = TRUE
          /\ UNCHANGED <<block_to_send, q_output>>
  /\ task_pc' = "test"
  /\ UNCHANGED <<bits, cbk_pc, cbk_blk, res, held, fault>>

\* eth_get_packet; a packet it returns is stored in block_to_send.
TaskGetPacket ==
  /\ Running /\ task_pc = "get"
  /\ IF q_output # <<>>
     THEN /\ block_to_send' = Head(q_output)
          /\ q_output' = Tail(q_output)
          /\ UNCHANGED callback_pending
     ELSE /\ callback_pending' = TRUE
          /\ UNCHANGED <<block_to_send, q_output>>
  /\ task_pc' = "test"
  /\ UNCHANGED <<bits, cbk_pc, cbk_blk, res, held, fault>>

\* Mutant: no loop, one packet per wakeup.
TaskTestOnce ==
  /\ Running /\ task_pc = "test"
  /\ task_pc' = "wait"
  /\ UNCHANGED <<block_to_send, bits, q_output, callback_pending, cbk_pc,
                 cbk_blk, res, held, fault>>

\* while (block_to_send): the variable is read again, and may meanwhile have
\* been written by the callback eth_get_packet asked for.
TaskTest ==
  /\ Running /\ task_pc = "test"
  /\ task_pc' = IF block_to_send # NoPbuf THEN "input" ELSE "wait"
  /\ UNCHANGED <<block_to_send, bits, q_output, callback_pending, cbk_pc,
                 cbk_blk, res, held, fault>>

to_lwip_QueueTask ==
  \/ TaskWait \/ TaskTimeouts \/ TaskInput \/ TaskClear \/ TaskGetPacket
  \/ TaskTest

Callback == CallbackStore \/ CallbackNotify

Stopped == ~Running /\ UNCHANGED vars

Next ==
  \/ \E p \in Pbuf : RouterDeliver(p) \/ LwipPbufFree(p)
  \/ Callback
  \/ TmrNotify
  \/ to_lwip_QueueTask
  \/ Stopped

Spec == Init /\ [][Next]_vars

\* The driver's task and the router inside the callback keep running.
FairSpec == Spec /\ WF_vars(to_lwip_QueueTask) /\ WF_vars(Callback)

-----------------------------------------------------------------------------
\* The callback never overwrites a packet the task has not finished with, so
\* no pbuf is lost in block_to_send: the task clears the variable before
\* eth_get_packet allows the next callback, not after.
NoOverwrite == cbk_pc = "store" => block_to_send = NoPbuf

\* The task never sleeps for ever: it sleeps only when it has asked for a
\* callback, when one is under way, or when a packet is in block_to_send whose
\* notification is still to come.
NoStrandedBlock ==
  task_pc = "wait" =>
    IF block_to_send # NoPbuf
    THEN Block \in bits \/ cbk_pc = "notify"
    ELSE callback_pending \/ cbk_pc = "store"

\* A callback is allowed or about to store.
Armed == callback_pending \/ cbk_pc = "store"

\* The inductive invariant both rest on.  Whether a callback may
\* come at all decides which positions the task can be in.
LwipIfInv ==
  /\ TypeOK
  /\ ~(callback_pending /\ cbk_pc = "store")
  /\ cbk_pc = "store" => cbk_blk # NoPbuf
  /\ Armed => block_to_send = NoPbuf /\ task_pc \notin {"clear", "get"}
  /\ task_pc = "get" => block_to_send = NoPbuf
  /\ task_pc \in {"wait", "timeouts", "test"} => Armed \/ block_to_send # NoPbuf
  /\ task_pc = "wait" /\ block_to_send # NoPbuf =>
       Block \in bits \/ cbk_pc = "notify"
  /\ task_pc = "timeouts" /\ block_to_send # NoPbuf =>
       Block \in bits \cup res \/ cbk_pc = "notify"

\* Every packet the router accepts for lwIP reaches the stack, unless the
\* process stops.
HandedOver ==
  \A p \in Pbuf :
    p \in Range(q_output) \cup {cbk_blk} ~> (p \in held \/ ~Running)

\* The task has a packet whenever it is told that there is one: the callback is
\* called once after eth_get_packet returned NULL, and the driver then waits.
NoNullBlock == fault # "null_deref"
=============================================================================
