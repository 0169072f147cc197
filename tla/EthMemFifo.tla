----------------------------- MODULE EthMemFifo -----------------------------
(***************************************************************************)
(* The refinement from the bridge to the channel it promises.  A packet of *)
(* interface n is on its way from the moment it is in q_input until the    *)
(* driver of the other interface has it, through eth_get_packet or through *)
(* a callback; the router may drop it on the way.                          *)
(***************************************************************************)
EXTENDS EthMem

\* The packets of queue q that came from n, in their order; idx is if_idx.
FromIf(idx, n, q) ==
  LET f[i \in 0 .. Len(q)] ==
        IF i = 0 THEN <<>>
        ELSE IF idx[q[i]] = n THEN Append(f[i - 1], q[i]) ELSE f[i - 1]
  IN f[Len(q)]

\* The packet in eth_route_block, if it came from n.
Routing(n) ==
  IF task_pc = "route" /\ if_idx[task_blk] = n THEN <<task_blk>> ELSE <<>>

OnTheWay(n) ==
  q_output[Dst(n)] \o Routing(n) \o FromIf(if_idx, n, q_input)

\* A packet promised to a waiting driver counts as received before
\* callback_fn is called: nothing can take it back.
Received(n) ==
  IF task_pc \in {"cbk_entry", "cbk_call"} /\ if_idx[task_blk] = n
  THEN task_blk ELSE tx_buf[Dst(n)]

Channel ==
  INSTANCE LossyFifo WITH
    Source <- Netif, Packet <- Pbuf, NoPacket <- NoPbuf,
    chan <- [n \in Netif |-> OnTheWay(n)],
    rcvd <- [n \in Netif |-> Received(n)]

\* Router, queues, drops and callbacks together implement the lossy channel:
\* packets of one interface reach the other driver in the order in which the
\* first driver submitted them, each at most once, even when a callback
\* bypasses the queue.
ImplementsLossyFifo == Channel!Spec
=============================================================================
