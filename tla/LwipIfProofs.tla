---------------------------- MODULE LwipIfProofs ----------------------------
(***************************************************************************)
(* The lwIP driver never loses a packet in block_to_send and never sleeps  *)
(* on one, for every number of pbufs and queue length.                     *)
(***************************************************************************)
EXTENDS LwipIf, SequenceTheorems, TLAPS

\* Every step of the driver's task, of the router's callback and of the timer
\* preserves the inductive invariant.
LEMMA LwipIfNext ==
  ASSUME LwipIfInv, [Next]_vars
  PROVE  LwipIfInv'
<1> USE LwipIfAssumption DEF LwipIfInv, TypeOK, Armed, Block, Timer
<1>1. ASSUME NEW p \in Pbuf, RouterDeliver(p) PROVE LwipIfInv'
  <2>1. /\ Append(q_output, p) \in Seq(Pbuf)
        /\ Len(Append(q_output, p)) = Len(q_output) + 1
        /\ Len(q_output) \in Nat
    BY AppendProperties, LenProperties
  <2>2. CASE callback_pending
    <3>1. /\ callback_pending' = FALSE /\ cbk_pc' = "store" /\ cbk_blk' = p
          /\ UNCHANGED <<q_output, block_to_send, bits, task_pc, res, held, fault>>
      BY <1>1, <2>2 DEF RouterDeliver
    <3> QED BY <2>2, <3>1
  <2>3. CASE ~callback_pending
    <3>1. /\ q_output' = Append(q_output, p) /\ Len(q_output) < QLen
          /\ UNCHANGED <<callback_pending, cbk_pc, cbk_blk, block_to_send, bits,
                         task_pc, res, held, fault>>
      BY <1>1, <2>3 DEF RouterDeliver
    <3>2. q_output' \in Seq(Pbuf) /\ Len(q_output') <= QLen
      BY <2>1, <3>1
    <3> QED BY <3>1, <3>2
  <2> QED BY <2>2, <2>3
<1>2. ASSUME NEW p \in Pbuf, LwipPbufFree(p) PROVE LwipIfInv'
  BY <1>2 DEF LwipPbufFree
<1>3. CASE CallbackStore
  BY <1>3 DEF CallbackStore
<1>4. CASE CallbackNotify
  BY <1>4 DEF CallbackNotify
<1>5. CASE TmrNotify
  BY <1>5 DEF TmrNotify
<1>6. CASE TaskWait
  BY <1>6 DEF TaskWait
<1>7. CASE TaskTimeouts
  BY <1>7 DEF TaskTimeouts
<1>8. CASE TaskInput
  BY <1>8 DEF TaskInput
<1>9. CASE TaskClear
  BY <1>9 DEF TaskClear
<1>10. CASE TaskGetPacket
  <2>1. CASE q_output # <<>>
    <3>1. /\ Head(q_output) \in Pbuf /\ Tail(q_output) \in Seq(Pbuf)
          /\ Len(Tail(q_output)) = Len(q_output) - 1
          /\ Len(q_output) \in Nat
      BY <2>1, HeadTailProperties, LenProperties
    <3> QED BY <1>10, <2>1, <3>1 DEF TaskGetPacket
  <2>2. CASE q_output = <<>>
    <3>1. /\ task_pc = "get" /\ task_pc' = "test" /\ callback_pending' = TRUE
          /\ UNCHANGED <<q_output, block_to_send, bits, cbk_pc, cbk_blk, res,
                         held, fault>>
      BY <1>10, <2>2 DEF TaskGetPacket
    <3> QED BY <3>1
  <2> QED BY <2>1, <2>2
<1>11. CASE TaskTest
  BY <1>11 DEF TaskTest
<1>12. CASE UNCHANGED vars
  BY <1>12 DEF vars
<1> QED BY <1>1, <1>2, <1>3, <1>4, <1>5, <1>6, <1>7, <1>8, <1>9, <1>10, <1>11,
        <1>12 DEF Next, Callback, to_lwip_QueueTask, Stopped

\* The inductive invariant holds in every reachable state.
THEOREM LwipIfInvariance == Spec => []LwipIfInv
<1>1. Init => LwipIfInv
  BY LwipIfAssumption, EmptySeq DEF Init, LwipIfInv, TypeOK, Armed
<1> QED BY <1>1, LwipIfNext, PTL DEF Spec

\* The driver's variables stay within their types, whatever the router queues.
THEOREM TypeCorrect == Spec => []TypeOK
<1>1. LwipIfInv => TypeOK
  BY DEF LwipIfInv
<1> QED BY <1>1, LwipIfInvariance, PTL

\* lwip_callback_from_bridge never overwrites a packet to_lwip_QueueTask still
\* holds in block_to_send.
THEOREM BlockNotOverwritten == Spec => []NoOverwrite
<1>1. LwipIfInv => NoOverwrite
  BY DEF LwipIfInv, NoOverwrite, Armed
<1> QED BY <1>1, LwipIfInvariance, PTL

\* to_lwip_QueueTask never sleeps on a packet without a notification on the
\* way, and never sleeps without a packet or a callback to come.
THEOREM BlockNotStranded == Spec => []NoStrandedBlock
<1>1. LwipIfInv => NoStrandedBlock
  BY DEF LwipIfInv, NoStrandedBlock, Armed
<1> QED BY <1>1, LwipIfInvariance, PTL
=============================================================================
