------------------------------ MODULE BleProofs ------------------------------
(***************************************************************************)
(* Proofs about the BLE link, for any datagrams, queue length, sequence    *)
(* numbers, buffer size and number of connections and faults: first about  *)
(* its transmitting side alone, then about both ends together.             *)
(***************************************************************************)
EXTENDS BlePath, SequenceTheorems, TLAPS

\* The types in parts, with what they rest on: between two datagrams no
\* chunk is counted.
RouterTypes ==
  /\ routed \in 0 .. Len(Size)
  /\ q_output \in Seq(Dgram) /\ Len(q_output) <= QLen
  /\ cbk_blk \in Dgram \cup {NoDgram}
  /\ cbk_stores \subseteq {"block", "pending", "notify"}
EthTypes ==
  /\ current_tx_block \in Dgram \cup {NoDgram}
  /\ tx_ptr \in Nat
  /\ current_tx_block # NoDgram => tx_ptr < Size[current_tx_block]
  /\ current_tx_block = NoDgram => tx_ptr = 0
ChunkTypes ==
  /\ snd_blk \in Chunk \cup {NoChunk}
  /\ tx_index_blk \in Seqs
  /\ wr \in Chunk \cup {NoChunk, AckOnly}
HandTypes ==
  /\ callback_pending \in BOOLEAN
  /\ cbk_pending \in BOOLEAN /\ tx_rst \in BOOLEAN
TaskTypes ==
  /\ ble_tx_busy \in BOOLEAN /\ tx_lock \in BOOLEAN
  /\ task_pc \in {"wait", "check", "lock", "send", "write"}
WakeTypes ==
  /\ ack_differs \in BOOLEAN /\ ack_notify_request \in BOOLEAN
  /\ woken \in BOOLEAN /\ timer \in BOOLEAN
ThreadTypes ==
  /\ tmr_pc \in {"idle", "notify"}
  /\ status \in BOOLEAN /\ main_pc \in {"idle", "reset"}
  /\ link \in BOOLEAN
  /\ cb_pc \in {"idle", "clear", "notify"}
FlagTypes == HandTypes /\ TaskTypes /\ WakeTypes /\ ThreadTypes
TypeInv ==
  /\ RouterTypes /\ EthTypes /\ ChunkTypes /\ FlagTypes
  /\ conns \in 0 .. MaxConn

\* What BlockKept rests on: from the moment a callback is asked for until the
\* router clears cbk_pending, BLE_TCP_Task leaves current_tx_block alone.
CallbackInv ==
  /\ callback_pending =>
       /\ current_tx_block = NoDgram /\ cbk_pending
       /\ cbk_stores \cap {"block", "pending"} = {}
  /\ "pending" \in cbk_stores => cbk_pending
  /\ "block" \in cbk_stores =>
       "pending" \in cbk_stores /\ current_tx_block = NoDgram

-----------------------------------------------------------------------------
(***************************************************************************)
(* Chunks                                                                  *)
(***************************************************************************)
LEMMA SizeLemma ==
  /\ Len(Size) \in Nat /\ Dgram = 1 .. Len(Size)
  /\ \A d \in Dgram : Size[d] \in Nat \ {0}
BY BleTxAssumption, LenProperties DEF Dgram

\* Chunks are the records get_next_chunk fills in.
LEMMA ChunkLemma ==
  ASSUME NEW d \in Dgram, NEW i \in 1 .. Size[d], NEW f \in BOOLEAN,
         NEW l \in BOOLEAN, NEW s \in Seqs
  PROVE  /\ [d |-> d, i |-> i, first |-> f, last |-> l, seq |-> s] \in Chunk
         /\ [d |-> d, i |-> i, first |-> f, last |-> l, seq |-> s] # NoChunk
<1>1. [d |-> d, i |-> i, first |-> f, last |-> l, seq |-> s]
        \in [d : {d}, i : 1 .. Size[d], first : BOOLEAN, last : BOOLEAN,
             seq : Seqs]
  OBVIOUS
<1>2. d # NoDgram
  BY SizeLemma DEF NoDgram
<1> QED BY <1>1, <1>2 DEF Chunk, NoChunk

\* Filling in the sequence number gives a chunk again.
LEMMA SeqLemma ==
  ASSUME NEW c \in Chunk, NEW s \in Seqs
  PROVE  [c EXCEPT !.seq = s] \in Chunk
<1>1. PICK d \in Dgram :
        c \in [d : {d}, i : 1 .. Size[d], first : BOOLEAN, last : BOOLEAN,
               seq : Seqs]
  BY DEF Chunk
<1>2. [c EXCEPT !.seq = s] \in
        [d : {d}, i : 1 .. Size[d], first : BOOLEAN, last : BOOLEAN,
         seq : Seqs]
  BY <1>1
<1> QED BY <1>2 DEF Chunk

LEMMA SeqsLemma == 0 \in Seqs /\ \A s \in Seqs : NextSeq(s) \in Seqs
BY SeqModAssumption DEF Seqs, NextSeq

\* The next chunk of a block of which fewer than all chunks are out.
LEMMA NextChunkLemma ==
  ASSUME NEW b \in Dgram, NEW ptr \in Nat, ptr < Size[b], NextChunk(b, ptr)
  PROVE  /\ snd_blk' \in Chunk
         /\ current_tx_block' \in Dgram \cup {NoDgram}
         /\ tx_ptr' \in Nat
         /\ current_tx_block' # NoDgram => tx_ptr' < Size[current_tx_block']
         /\ current_tx_block' = NoDgram => tx_ptr' = 0
<1>1. Size[b] \in Nat \ {0} /\ b # NoDgram
  BY SizeLemma DEF NoDgram
<1>2. snd_blk' \in Chunk
  <2>1. ptr + 1 \in 1 .. Size[b] /\ (ptr = 0) \in BOOLEAN
        /\ (ptr + 1 = Size[b]) \in BOOLEAN
    BY <1>1
  <2> QED BY <2>1, ChunkLemma, SeqsLemma DEF NextChunk
<1> QED BY <1>1, <1>2 DEF NextChunk

-----------------------------------------------------------------------------
(***************************************************************************)
(* Types                                                                   *)
(***************************************************************************)
LEMMA TypeInit == Init => TypeInv
<1>1. Len(Size) \in Nat /\ Dgram = 1 .. Len(Size) /\ QLen \in Nat
      /\ MaxConn \in Nat
  BY SizeLemma, BleTxAssumption
<1> SUFFICES ASSUME Init PROVE TypeInv
  OBVIOUS
<1>2. RouterTypes
  BY <1>1 DEF Init, RouterTypes, NoDgram
<1>3. EthTypes
  BY <1>1 DEF Init, EthTypes, NoDgram
<1>4. ChunkTypes
  BY SeqsLemma DEF Init, ChunkTypes
<1>5. FlagTypes
  BY DEF Init, FlagTypes, HandTypes, TaskTypes, WakeTypes, ThreadTypes
<1>6. conns \in 0 .. MaxConn
  BY <1>1 DEF Init
<1> QED BY <1>2, <1>3, <1>4, <1>5, <1>6 DEF TypeInv

LEMMA GetNextChunkLemma ==
  ASSUME RouterTypes, EthTypes, ChunkTypes, GetNextChunk
  PROVE  /\ q_output' \in Seq(Dgram) /\ Len(q_output') <= QLen
         /\ EthTypes'
         /\ snd_blk' \in Chunk \cup {NoChunk}
<1> DEFINE ptr == IF tx_rst THEN 0 ELSE tx_ptr
<1>1. /\ ptr \in Nat
      /\ current_tx_block = NoDgram => ptr = 0
      /\ current_tx_block # NoDgram =>
           current_tx_block \in Dgram /\ ptr < Size[current_tx_block]
  BY SizeLemma DEF EthTypes
<1> HIDE DEF ptr
<1>2. CASE /\ cbk_pending
           /\ tx_ptr' = ptr
           /\ UNCHANGED <<current_tx_block, cbk_pending, snd_blk, q_output,
                          callback_pending>>
  BY <1>1, <1>2 DEF RouterTypes, EthTypes, ChunkTypes
<1>3. CASE /\ ~cbk_pending /\ current_tx_block # NoDgram
           /\ NextChunk(current_tx_block, ptr)
           /\ UNCHANGED <<cbk_pending, q_output, callback_pending>>
  BY <1>1, <1>3, NextChunkLemma DEF RouterTypes, EthTypes
<1>4. CASE /\ ~cbk_pending /\ current_tx_block = NoDgram /\ q_output # <<>>
           /\ NextChunk(Head(q_output), ptr)
           /\ q_output' = Tail(q_output)
           /\ UNCHANGED <<cbk_pending, callback_pending>>
  <2>1. /\ Head(q_output) \in Dgram /\ Tail(q_output) \in Seq(Dgram)
        /\ Len(Tail(q_output)) <= QLen
    BY <1>4, HeadTailProperties, LenProperties, BleTxAssumption DEF RouterTypes
  <2>2. ptr < Size[Head(q_output)]
    BY <1>1, <1>4, <2>1, SizeLemma
  <2>3. /\ snd_blk' \in Chunk
        /\ current_tx_block' \in Dgram \cup {NoDgram}
        /\ tx_ptr' \in Nat
        /\ current_tx_block' # NoDgram => tx_ptr' < Size[current_tx_block']
        /\ current_tx_block' = NoDgram => tx_ptr' = 0
    BY <1>1, <1>4, <2>1, <2>2, NextChunkLemma
  <2> QED BY <1>4, <2>1, <2>3 DEF RouterTypes, EthTypes
<1>5. CASE /\ ~cbk_pending /\ current_tx_block = NoDgram /\ q_output = <<>>
           /\ cbk_pending' = TRUE
           /\ callback_pending' = TRUE
           /\ tx_ptr' = ptr
           /\ UNCHANGED <<current_tx_block, snd_blk, q_output>>
  BY <1>1, <1>5 DEF RouterTypes, EthTypes, ChunkTypes
<1> QED BY <1>2, <1>3, <1>4, <1>5 DEF GetNextChunk, ptr

\* The router's queue: at most QLen datagrams, taken from the head.
LEMMA RouterTypesNext ==
  ASSUME TypeInv, [Next]_vars
  PROVE  RouterTypes'
<1>1. RouterTypes /\ EthTypes /\ ChunkTypes
  BY DEF TypeInv
<1>2. CASE RouterDeliver
  <2>1. routed + 1 \in Dgram /\ routed + 1 \in 0 .. Len(Size) /\ QLen \in Nat
    BY <1>1, <1>2, SizeLemma, BleTxAssumption DEF RouterTypes, RouterDeliver
  <2>2. /\ Append(q_output, routed + 1) \in Seq(Dgram)
        /\ Len(Append(q_output, routed + 1)) = Len(q_output) + 1
        /\ Len(q_output) \in Nat
    BY <1>1, <2>1, AppendProperties, LenProperties DEF RouterTypes
  <2>3. cbk_blk' \in Dgram \cup {NoDgram}
        /\ cbk_stores' \subseteq {"block", "pending", "notify"}
    BY <1>1, <1>2, <2>1 DEF RouterDeliver, RouterTypes
  <2>4. routed' \in 0 .. Len(Size)
    BY <1>2, <2>1 DEF RouterDeliver
  <2>5. q_output' \in Seq(Dgram) /\ Len(q_output') <= QLen
    BY <1>1, <1>2, <2>1, <2>2 DEF RouterDeliver, RouterTypes
  <2> QED BY <2>3, <2>4, <2>5 DEF RouterTypes
<1>3. CASE CallbackBlock \/ CallbackPending \/ CallbackNotify
  BY <1>1, <1>3
  DEF CallbackBlock, CallbackPending, CallbackNotify, RouterTypes
<1>4. CASE TaskLock
  BY <1>1, <1>4, GetNextChunkLemma DEF TaskLock, RouterTypes
<1>5. CASE UNCHANGED routerVars
  BY <1>1, <1>5 DEF routerVars, RouterTypes
<1>6. UNCHANGED routerVars \/ TaskLock \/ RouterDeliver \/ Callback
  BY DEF Next, TxStep, BLE_TCP_Task, TaskWait, TaskCheck, TaskSend, TaskWriteOk,
         TaskWriteFail, Timer, TimerFire, TimerNotify, GattCb, CompleteClear,
         CompleteNotify, MainThread, StatusUp, gatt_conn_reset, StatusDown,
         LinkDown, RxAck, WriteDone, LinkUp, vars
<1> QED BY <1>2, <1>3, <1>4, <1>5, <1>6 DEF Callback

\* The block and the position in it: a position within the block.
LEMMA EthTypesNext ==
  ASSUME TypeInv, CallbackInv, [Next]_vars
  PROVE  EthTypes'
<1>1. RouterTypes /\ EthTypes /\ ChunkTypes
  BY DEF TypeInv
<1>2. CASE CallbackBlock
  <2>1. tx_ptr = 0
    BY <1>1, <1>2 DEF CallbackBlock, CallbackInv, EthTypes
  <2>2. /\ current_tx_block' \in Dgram \cup {NoDgram}
        /\ tx_ptr' = 0
    BY <1>1, <1>2, <2>1 DEF CallbackBlock, RouterTypes
  <2>3. current_tx_block' # NoDgram => 0 < Size[current_tx_block']
    BY <2>2, SizeLemma
  <2> QED BY <2>2, <2>3 DEF EthTypes
<1>3. CASE UNCHANGED <<current_tx_block, tx_ptr>>
  BY <1>1, <1>3 DEF EthTypes
<1>4. CASE TaskLock
  BY <1>1, <1>3, <1>4, GetNextChunkLemma DEF TaskLock, ethVars
<1>5. UNCHANGED <<current_tx_block, tx_ptr>> \/ TaskLock \/ CallbackBlock
  BY DEF Next, TxStep, RouterDeliver, Callback, CallbackPending, CallbackNotify,
         BLE_TCP_Task, TaskWait, TaskCheck, TaskSend, TaskWriteOk,
         TaskWriteFail, Timer, TimerFire, TimerNotify, GattCb, CompleteClear,
         CompleteNotify, MainThread, StatusUp, gatt_conn_reset, StatusDown,
         LinkDown, RxAck, WriteDone, LinkUp, ethVars, vars
<1> QED BY <1>2, <1>3, <1>4, <1>5

\* The chunk that waits, the one that is written, and the index.
LEMMA ChunkTypesNext ==
  ASSUME TypeInv, [Next]_vars
  PROVE  ChunkTypes'
<1>1. RouterTypes /\ EthTypes /\ ChunkTypes
  BY DEF TypeInv
<1>2. CASE TaskLock
  BY <1>1, <1>2, GetNextChunkLemma DEF TaskLock, gattVars, ChunkTypes
<1>3. CASE TaskWriteOk
  <2>1. wr' \in Chunk \cup {NoChunk, AckOnly}
    BY <1>1, <1>3, SeqLemma DEF TaskWriteOk, ChunkTypes
  <2>2. tx_index_blk' \in Seqs
    BY <1>1, <1>3, SeqsLemma DEF TaskWriteOk, ChunkTypes
  <2> QED BY <1>3, <2>1, <2>2 DEF TaskWriteOk, ChunkTypes
<1>4. CASE gatt_conn_reset
  BY <1>1, <1>4, SeqsLemma DEF gatt_conn_reset, gattVars, ChunkTypes
<1>5. CASE WriteDone \/ LinkDown
  BY <1>1, <1>5 DEF WriteDone, LinkDown, tcpVars, ChunkTypes
<1>6. CASE UNCHANGED <<snd_blk, tx_index_blk, wr>>
  BY <1>1, <1>6 DEF ChunkTypes
<1>7. \/ UNCHANGED <<snd_blk, tx_index_blk, wr>> \/ TaskLock \/ TaskWriteOk
      \/ gatt_conn_reset \/ WriteDone \/ LinkDown
  BY DEF Next, TxStep, RouterDeliver, Callback, CallbackBlock, CallbackPending,
         CallbackNotify, BLE_TCP_Task, TaskWait, TaskCheck, TaskSend,
         TaskWriteFail, Timer, TimerFire, TimerNotify, GattCb, CompleteClear,
         CompleteNotify, MainThread, StatusUp, StatusDown, RxAck, LinkUp,
         tcpVars, gattVars, vars
<1> QED BY <1>2, <1>3, <1>4, <1>5, <1>6, <1>7

\* Flags and positions of the threads.
LEMMA HandTypesNext ==
  ASSUME HandTypes, [Next]_vars
  PROVE  HandTypes'
<1>1. CASE RouterDeliver
  BY <1>1 DEF RouterDeliver, ethVars, HandTypes
<1>2. CASE CallbackPending
  BY <1>2 DEF CallbackPending, HandTypes
<1>3. CASE TaskLock
  BY <1>3 DEF TaskLock, GetNextChunk, ethVars, HandTypes
<1>4. CASE gatt_conn_reset
  BY <1>4 DEF gatt_conn_reset, routerVars, HandTypes
<1>5. CASE UNCHANGED <<callback_pending, cbk_pending, tx_rst>>
  BY <1>5 DEF HandTypes
<1>6. UNCHANGED <<callback_pending, cbk_pending, tx_rst>> \/ RouterDeliver \/
      CallbackPending \/ TaskLock \/ gatt_conn_reset
  BY DEF Next, TxStep, Callback, BLE_TCP_Task, Timer, GattCb, MainThread,
         CallbackBlock, CallbackNotify, TaskWait, TaskCheck, TaskSend,
         TaskWriteOk, TaskWriteFail, TimerFire, TimerNotify, CompleteClear,
         CompleteNotify, StatusUp, StatusDown, LinkDown, RxAck, WriteDone,
         LinkUp, routerVars, ethVars, tcpVars, ackVars, taskVars, tmrVars,
         connVars, gattVars, vars
<1> QED BY <1>1, <1>2, <1>3, <1>4, <1>5, <1>6

LEMMA TaskTypesNext ==
  ASSUME TaskTypes, [Next]_vars
  PROVE  TaskTypes'
<1>1. CASE TaskWait
  BY <1>1 DEF TaskWait, tcpVars, TaskTypes
<1>2. CASE TaskCheck
  BY <1>2 DEF TaskCheck, tcpVars, TaskTypes
<1>3. CASE TaskLock
  BY <1>3 DEF TaskLock, TaskTypes
<1>4. CASE TaskSend
  BY <1>4 DEF TaskSend, TaskTypes
<1>5. CASE TaskWriteOk
  BY <1>5 DEF TaskWriteOk, TaskTypes
<1>6. CASE TaskWriteFail
  BY <1>6 DEF TaskWriteFail, TaskTypes
<1>7. CASE CompleteClear
  BY <1>7 DEF CompleteClear, taskVars, TaskTypes
<1>8. CASE gatt_conn_reset
  BY <1>8 DEF gatt_conn_reset, taskVars, TaskTypes
<1>9. CASE UNCHANGED <<ble_tx_busy, tx_lock, task_pc>>
  BY <1>9 DEF TaskTypes
<1>10. UNCHANGED <<ble_tx_busy, tx_lock, task_pc>> \/ TaskWait \/ TaskCheck \/
      TaskLock \/ TaskSend \/ TaskWriteOk \/ TaskWriteFail \/ CompleteClear \/
      gatt_conn_reset
  BY DEF Next, TxStep, Callback, BLE_TCP_Task, Timer, GattCb, MainThread,
         RouterDeliver, CallbackBlock, CallbackPending, CallbackNotify,
         TimerFire, TimerNotify, CompleteNotify, StatusUp, StatusDown,
         LinkDown, RxAck, WriteDone, LinkUp, routerVars, ethVars, tcpVars,
         ackVars, taskVars, tmrVars, connVars, gattVars, vars
<1> QED BY <1>1, <1>2, <1>3, <1>4, <1>5, <1>6, <1>7, <1>8, <1>9, <1>10

LEMMA WakeTypesNext ==
  ASSUME WakeTypes, [Next]_vars
  PROVE  WakeTypes'
<1>1. CASE CallbackNotify
  BY <1>1 DEF CallbackNotify, ackVars, tmrVars, WakeTypes
<1>2. CASE TaskWait
  BY <1>2 DEF TaskWait, ackVars, tmrVars, WakeTypes
<1>3. CASE TaskWriteOk
  BY <1>3 DEF TaskWriteOk, WakeTypes
<1>4. CASE TimerFire
  BY <1>4 DEF TimerFire, WakeTypes
<1>5. CASE TimerNotify
  BY <1>5 DEF TimerNotify, ackVars, WakeTypes
<1>6. CASE CompleteNotify
  BY <1>6 DEF CompleteNotify, ackVars, tmrVars, WakeTypes
<1>7. CASE RxAck
  BY <1>7 DEF RxAck, tmrVars, WakeTypes
<1>8. CASE gatt_conn_reset
  BY <1>8 DEF gatt_conn_reset, tmrVars, WakeTypes
<1>9. CASE UNCHANGED <<ack_differs, ack_notify_request, woken, timer>>
  BY <1>9 DEF WakeTypes
<1>10. UNCHANGED <<ack_differs, ack_notify_request, woken, timer>> \/
      CallbackNotify \/ TaskWait \/ TaskWriteOk \/ TimerFire \/ TimerNotify \/
      CompleteNotify \/ RxAck \/ gatt_conn_reset
  BY DEF Next, TxStep, Callback, BLE_TCP_Task, Timer, GattCb, MainThread,
         RouterDeliver, CallbackBlock, CallbackPending, TaskCheck, TaskLock,
         TaskSend, TaskWriteFail, CompleteClear, StatusUp, StatusDown,
         LinkDown, WriteDone, LinkUp, routerVars, ethVars, tcpVars, ackVars,
         taskVars, tmrVars, connVars, gattVars, vars
<1> QED BY <1>1, <1>2, <1>3, <1>4, <1>5, <1>6, <1>7, <1>8, <1>9, <1>10

LEMMA ThreadTypesNext ==
  ASSUME ThreadTypes, [Next]_vars
  PROVE  ThreadTypes'
<1>1. CASE TimerFire
  BY <1>1 DEF TimerFire, connVars, gattVars, ThreadTypes
<1>2. CASE TimerNotify
  BY <1>2 DEF TimerNotify, connVars, gattVars, ThreadTypes
<1>3. CASE WriteDone
  BY <1>3 DEF WriteDone, tmrVars, connVars, ThreadTypes
<1>4. CASE CompleteClear
  BY <1>4 DEF CompleteClear, tmrVars, connVars, ThreadTypes
<1>5. CASE CompleteNotify
  BY <1>5 DEF CompleteNotify, tmrVars, connVars, ThreadTypes
<1>6. CASE LinkUp
  BY <1>6 DEF LinkUp, tmrVars, gattVars, ThreadTypes
<1>7. CASE LinkDown
  BY <1>7 DEF LinkDown, tmrVars, ThreadTypes
<1>8. CASE StatusUp
  BY <1>8 DEF StatusUp, tmrVars, gattVars, ThreadTypes
<1>9. CASE gatt_conn_reset
  BY <1>9 DEF gatt_conn_reset, tmrVars, gattVars, ThreadTypes
<1>10. CASE StatusDown
  BY <1>10 DEF StatusDown, tmrVars, gattVars, ThreadTypes
<1>11. CASE UNCHANGED <<tmr_pc, status, main_pc, link, cb_pc>>
  BY <1>11 DEF ThreadTypes
<1>12. UNCHANGED <<tmr_pc, status, main_pc, link, cb_pc>> \/ TimerFire \/
      TimerNotify \/ WriteDone \/ CompleteClear \/ CompleteNotify \/ LinkUp \/
      LinkDown \/ StatusUp \/ gatt_conn_reset \/ StatusDown
  BY DEF Next, TxStep, Callback, BLE_TCP_Task, Timer, GattCb, MainThread,
         RouterDeliver, CallbackBlock, CallbackPending, CallbackNotify,
         TaskWait, TaskCheck, TaskLock, TaskSend, TaskWriteOk, TaskWriteFail,
         RxAck, routerVars, ethVars, tcpVars, ackVars, taskVars, tmrVars,
         connVars, gattVars, vars
<1> QED BY <1>1, <1>2, <1>3, <1>4, <1>5, <1>6, <1>7, <1>8, <1>9, <1>10, <1>11, <1>12

\* The number of connections.
LEMMA ConnsNext ==
  ASSUME TypeInv, [Next]_vars
  PROVE  conns' \in 0 .. MaxConn
<1>1. CASE LinkUp
  BY <1>1, BleTxAssumption DEF LinkUp, TypeInv
<1>2. CASE conns' = conns
  BY <1>2 DEF TypeInv
<1>3. conns' = conns \/ LinkUp
  BY DEF Next, TxStep, RouterDeliver, Callback, CallbackBlock, CallbackPending,
         CallbackNotify, BLE_TCP_Task, TaskWait, TaskCheck, TaskLock, TaskSend,
         TaskWriteOk, TaskWriteFail, Timer, TimerFire, TimerNotify, GattCb,
         CompleteClear, CompleteNotify, MainThread, StatusUp, gatt_conn_reset,
         StatusDown, LinkDown, RxAck, WriteDone, connVars, vars
<1> QED BY <1>1, <1>2, <1>3

-----------------------------------------------------------------------------
(***************************************************************************)
(* The block                                                               *)
(***************************************************************************)
\* With the stores of callback_from_bridge in their order, each step of the
\* router and of BLE_TCP_Task keeps to the hand-over.
LEMMA CallbackNext ==
  ASSUME CallbackInv, ~Reorder, [Next]_vars
  PROVE  CallbackInv'
<1> USE DEF routerVars, ethVars, tcpVars, ackVars, taskVars, tmrVars, connVars,
            gattVars, CallbackInv
<1>1. CASE RouterDeliver
  BY <1>1 DEF RouterDeliver
<1>2. CASE CallbackBlock
  BY <1>2 DEF CallbackBlock
<1>3. CASE CallbackPending
  BY <1>3 DEF CallbackPending
<1>4. CASE CallbackNotify
  BY <1>4 DEF CallbackNotify
<1>5. CASE TaskLock
  BY <1>5 DEF TaskLock, GetNextChunk, NextChunk
<1>6. CASE TaskWait \/ TaskCheck \/ TaskSend \/ TaskWriteOk \/ TaskWriteFail
  BY <1>6 DEF TaskWait, TaskCheck, TaskSend, TaskWriteOk, TaskWriteFail
<1>7. CASE TimerFire \/ TimerNotify \/ WriteDone \/ CompleteClear
           \/ CompleteNotify \/ RxAck
  BY <1>7 DEF TimerFire, TimerNotify, WriteDone, CompleteClear,
              CompleteNotify, RxAck
<1>8. CASE LinkUp \/ LinkDown \/ StatusUp \/ gatt_conn_reset \/ StatusDown
  BY <1>8 DEF LinkUp, LinkDown, StatusUp, gatt_conn_reset, StatusDown
<1>9. CASE UNCHANGED vars
  BY <1>9 DEF vars
<1> QED BY <1>1, <1>2, <1>3, <1>4, <1>5, <1>6, <1>7, <1>8, <1>9
        DEF Next, TxStep, Callback, BLE_TCP_Task, Timer, GattCb, MainThread

-----------------------------------------------------------------------------
(***************************************************************************)
(* Theorems                                                                *)
(***************************************************************************)
\* With the stores in their order, the invariants hold in every reachable
\* state.
LEMMA Invariance == ~Reorder => (Spec => [](TypeInv /\ CallbackInv))
<1> SUFFICES ASSUME ~Reorder PROVE Spec => [](TypeInv /\ CallbackInv)
  OBVIOUS
<1>1. Init => TypeInv /\ CallbackInv
  BY TypeInit DEF Init, CallbackInv
<1>2. TypeInv /\ CallbackInv /\ [Next]_vars => (TypeInv /\ CallbackInv)'
  BY RouterTypesNext, EthTypesNext, ChunkTypesNext, HandTypesNext,
     TaskTypesNext, WakeTypesNext, ThreadTypesNext, ConnsNext, CallbackNext
  DEF TypeInv, FlagTypes
<1> QED BY <1>1, <1>2, PTL DEF Spec

\* Chunks, positions and queue stay within their types: get_next_chunk never
\* cuts past the end of a datagram, whatever resets come between.
THEOREM TypeCorrect == ~Reorder => (Spec => []TypeOK)
<1> SUFFICES ASSUME ~Reorder PROVE Spec => []TypeOK
  OBVIOUS
<1>1. TypeInv => TypeOK
  BY DEF TypeInv, RouterTypes, EthTypes, ChunkTypes, FlagTypes, HandTypes,
         TaskTypes, WakeTypes, ThreadTypes, TypeOK
<1> QED BY <1>1, Invariance, PTL

\* In a build that keeps the order of the two stores, callback_from_bridge
\* never overwrites a datagram of which chunks are still to be sent.
THEOREM BlockNeverOverwritten == ~Reorder => (Spec => []BlockKept)
<1> SUFFICES ASSUME ~Reorder PROVE Spec => []BlockKept
  OBVIOUS
<1>1. CallbackInv => BlockKept
  BY DEF CallbackInv, BlockKept
<1> QED BY <1>1, Invariance, PTL

-----------------------------------------------------------------------------
(***************************************************************************)
(* The two ends together: chunks and steps                                 *)
(***************************************************************************)
LEMMA ChunkFields ==
  \A c \in Chunk :
    /\ c.d \in Dgram /\ c.i \in Nat \ {0} /\ c.i <= Size[c.d]
    /\ c.first \in BOOLEAN /\ c.last \in BOOLEAN /\ c.seq \in Seqs
    /\ c # NoChunk /\ c # AckOnly
<1> SUFFICES ASSUME NEW d \in Dgram,
                    NEW c \in [d : {d}, i : 1 .. Size[d], first : BOOLEAN,
                               last : BOOLEAN, seq : Seqs]
             PROVE  /\ c.d \in Dgram /\ c.i \in Nat \ {0} /\ c.i <= Size[c.d]
                    /\ c.first \in BOOLEAN /\ c.last \in BOOLEAN /\ c.seq \in Seqs
                    /\ c # NoChunk /\ c # AckOnly
  BY DEF Chunk
<1>1. d \in 1 .. Len(Size) /\ Len(Size) \in Nat /\ Size[d] \in Nat \ {0}
  BY SizeLemma
<1>2. c.d = d /\ c.i \in 1 .. Size[d]
  OBVIOUS
<1>3. NoChunk.d = 0 /\ AckOnly.d = Len(Size) + 1
  BY DEF NoChunk, AckOnly, NoDgram
<1> QED BY <1>1, <1>2, <1>3

\* No number follows itself.
LEMMA NextSeqLemma == \A s \in Seqs : NextSeq(s) \in Seqs /\ NextSeq(s) # s
BY SeqModAssumption DEF Seqs, NextSeq

\* The chunk get_next_chunk has cut, and what is left to cut.
Cut(b, k) ==
  /\ snd_blk'.d = b /\ snd_blk'.i = k + 1
  /\ snd_blk'.first = (k = 0) /\ snd_blk'.last = (k + 1 = Size[b])
  /\ snd_blk' # NoChunk
  /\ IF k + 1 = Size[b] THEN current_tx_block' = NoDgram /\ tx_ptr' = 0
                        ELSE current_tx_block' = b /\ tx_ptr' = k + 1

LEMMA CutLemma ==
  ASSUME NEW b \in Dgram, NEW k \in Nat, k < Size[b], NextChunk(b, k)
  PROVE  Cut(b, k)
<1>1. snd_blk' \in Chunk
  BY NextChunkLemma
<1>2. snd_blk' # NoChunk
  BY <1>1, ChunkFields
<1> QED BY <1>2 DEF NextChunk, Cut

\* What TaskLock does to the chunk that waits and to the block: nothing, or it
\* cuts the next chunk of the current block, or the first of a block from the
\* queue, or asks for a callback.
LEMMA TaskLockCases ==
  ASSUME TypeInv, SenderInv, TaskLock
  PROVE  \/ /\ snd_blk # NoChunk
            /\ UNCHANGED <<snd_blk, current_tx_block, tx_ptr, tx_rst,
                           cbk_pending, q_output, callback_pending>>
         \/ /\ snd_blk = NoChunk /\ tx_rst' = FALSE
            /\ \/ /\ cbk_pending /\ tx_ptr = 0 /\ tx_ptr' = 0
                  /\ UNCHANGED <<current_tx_block, cbk_pending, snd_blk,
                                 q_output, callback_pending>>
               \/ /\ current_tx_block \in Dgram /\ ~cbk_pending
                  /\ \E k \in Nat :
                       /\ k = (IF tx_rst THEN 0 ELSE tx_ptr)
                       /\ k < Size[current_tx_block]
                       /\ Cut(current_tx_block, k)
                  /\ UNCHANGED <<cbk_pending, q_output, callback_pending>>
               \/ /\ current_tx_block = NoDgram /\ tx_ptr = 0 /\ ~cbk_pending
                  /\ q_output # <<>> /\ q_output[1] \in Dgram
                  /\ Cut(q_output[1], 0) /\ q_output' = Tail(q_output)
                  /\ UNCHANGED <<cbk_pending, callback_pending>>
               \/ /\ current_tx_block = NoDgram /\ tx_ptr = 0
                  /\ q_output = <<>> /\ cbk_pending' /\ callback_pending'
                  /\ tx_ptr' = 0
                  /\ UNCHANGED <<current_tx_block, snd_blk, q_output>>
<1>1. /\ RouterTypes /\ EthTypes /\ ChunkTypes
      /\ tx_rst \in BOOLEAN /\ cbk_pending \in BOOLEAN
  BY DEF TypeInv, FlagTypes, HandTypes
<1>2. CASE snd_blk # NoChunk
  BY <1>2 DEF TaskLock, ethVars
<1>3. CASE snd_blk = NoChunk
  <2> DEFINE ptr == IF tx_rst THEN 0 ELSE tx_ptr
  <2>1. GetNextChunk
    BY <1>3 DEF TaskLock
  <2>2. /\ ptr \in Nat /\ (tx_ptr = 0 => ptr = 0)
        /\ current_tx_block = NoDgram => tx_ptr = 0
        /\ current_tx_block # NoDgram =>
             current_tx_block \in Dgram /\ ptr < Size[current_tx_block]
    BY <1>1, SizeLemma DEF EthTypes
  <2>3. tx_rst' = FALSE
    BY <2>1 DEF GetNextChunk
  <2> HIDE DEF ptr
  <2>4. CASE /\ cbk_pending
             /\ tx_ptr' = ptr
             /\ UNCHANGED <<current_tx_block, cbk_pending, snd_blk, q_output,
                            callback_pending>>
    BY <1>3, <2>2, <2>3, <2>4 DEF SenderInv
  <2>5. CASE /\ ~cbk_pending /\ current_tx_block # NoDgram
             /\ NextChunk(current_tx_block, ptr)
             /\ UNCHANGED <<cbk_pending, q_output, callback_pending>>
    BY <1>3, <2>2, <2>3, <2>5, CutLemma DEF ptr
  <2>6. CASE /\ ~cbk_pending /\ current_tx_block = NoDgram /\ q_output # <<>>
             /\ NextChunk(Head(q_output), ptr)
             /\ q_output' = Tail(q_output)
             /\ UNCHANGED <<cbk_pending, callback_pending>>
    <3>1. Head(q_output) \in Dgram /\ Head(q_output) = q_output[1]
      BY <1>1, <2>6, HeadTailProperties DEF RouterTypes
    <3>2. Cut(q_output[1], 0)
      BY <2>2, <2>6, <3>1, SizeLemma, CutLemma
    <3> QED BY <1>3, <2>2, <2>3, <2>6, <3>1, <3>2
  <2>7. CASE /\ ~cbk_pending /\ current_tx_block = NoDgram /\ q_output = <<>>
             /\ cbk_pending' = TRUE
             /\ callback_pending' = TRUE
             /\ tx_ptr' = ptr
             /\ UNCHANGED <<current_tx_block, snd_blk, q_output>>
    BY <1>3, <2>2, <2>3, <2>7
  <2> QED BY <2>1, <2>4, <2>5, <2>6, <2>7 DEF GetNextChunk, ptr
<1> QED BY <1>2, <1>3

\* The chunk that leaves is the one that waited, with its number.
LEMMA WriteFields ==
  ASSUME TypeInv, TaskWriteOk
  PROVE  IF snd_blk = NoChunk THEN wr' = AckOnly /\ ~InFlight'
         ELSE /\ InFlight' /\ wr' \in Chunk
              /\ wr'.d = snd_blk.d /\ wr'.i = snd_blk.i
              /\ wr'.first = snd_blk.first /\ wr'.last = snd_blk.last
              /\ wr'.seq = tx_index_blk
<1>1. CASE snd_blk = NoChunk
  BY <1>1 DEF TaskWriteOk, InFlight
<1>2. CASE snd_blk # NoChunk
  <2>1. snd_blk \in Chunk /\ tx_index_blk \in Seqs
    BY <1>2 DEF TypeInv, ChunkTypes
  <2>2. wr' = [snd_blk EXCEPT !.seq = tx_index_blk]
    BY <1>2 DEF TaskWriteOk
  <2>3. wr' \in Chunk
    BY <2>1, <2>2, SeqLemma
  <2>4. InFlight'
    BY <2>3, ChunkFields DEF InFlight
  <2>5. PICK d \in Dgram :
          snd_blk \in [d : {d}, i : 1 .. Size[d], first : BOOLEAN,
                       last : BOOLEAN, seq : Seqs]
    BY <2>1 DEF Chunk
  <2>6. /\ wr'.d = snd_blk.d /\ wr'.i = snd_blk.i
        /\ wr'.first = snd_blk.first /\ wr'.last = snd_blk.last
        /\ wr'.seq = tx_index_blk
    BY <2>2, <2>5
  <2> QED BY <1>2, <2>3, <2>4, <2>6
<1> QED BY <1>1, <1>2

\* Every step of the path is a step of the sender, or one that leaves it alone.
LEMMA PathStep == [PathNext]_allVars => [Next]_vars
BY DEF PathNext, Send, Arrive, ArriveAgain, Lose, Connect, Next, allVars

\* What the sender has in hand.
LEMMA SenderNext ==
  ASSUME TypeInv, CallbackInv, SenderInv, [Next]_vars
  PROVE  SenderInv'
<1> USE DEF routerVars, ethVars, tcpVars, taskVars, connVars, gattVars
<1>0. /\ tx_rst \in BOOLEAN /\ cbk_pending \in BOOLEAN
      /\ current_tx_block = NoDgram => tx_ptr = 0
  BY DEF TypeInv, FlagTypes, HandTypes, EthTypes
<1>1. CASE TaskLock
  <2>1. /\ ~tx_lock /\ UNCHANGED <<wr, link>>
        /\ tx_lock' <=> task_pc' \in {"send", "write"}
        /\ tx_lock' => snd_blk' # NoChunk \/ snd_blk = NoChunk
        /\ snd_blk' # NoChunk => tx_lock'
    BY <1>1 DEF TaskLock, SenderInv
  <2>2. CASE /\ snd_blk # NoChunk
             /\ UNCHANGED <<snd_blk, current_tx_block, tx_ptr, tx_rst,
                            cbk_pending, q_output, callback_pending>>
    BY <2>1, <2>2 DEF SenderInv, InFlight, Marked
  <2>3. CASE /\ snd_blk = NoChunk /\ tx_rst' = FALSE
             /\ cbk_pending /\ tx_ptr = 0 /\ tx_ptr' = 0
             /\ UNCHANGED <<current_tx_block, cbk_pending, snd_blk,
                            q_output, callback_pending>>
    BY <2>1, <2>3 DEF SenderInv, InFlight, Marked
  <2>4. ASSUME NEW b \in Dgram, NEW k \in Nat, Cut(b, k), snd_blk = NoChunk,
               tx_rst' = FALSE, ~cbk_pending'
        PROVE  SenderInv'
    <3>1. Marked(snd_blk')
      BY <2>4 DEF Marked, Cut
    <3>2. IF snd_blk'.last THEN tx_ptr' = 0
          ELSE current_tx_block' = snd_blk'.d /\ tx_ptr' = snd_blk'.i
      BY <2>4 DEF Cut
    <3> QED BY <2>1, <2>4, <3>1, <3>2 DEF SenderInv, InFlight, Marked, Cut
  <2>5. CASE /\ snd_blk = NoChunk /\ tx_rst' = FALSE /\ tx_ptr' = 0
             /\ UNCHANGED <<current_tx_block, snd_blk, q_output>>
    BY <2>1, <2>5 DEF SenderInv, InFlight, Marked
  <2>6. CASE /\ snd_blk = NoChunk /\ tx_rst' = FALSE
             /\ \/ /\ current_tx_block \in Dgram /\ ~cbk_pending
                   /\ \E k \in Nat :
                        /\ k = (IF tx_rst THEN 0 ELSE tx_ptr)
                        /\ k < Size[current_tx_block]
                        /\ Cut(current_tx_block, k)
                   /\ UNCHANGED <<cbk_pending, q_output, callback_pending>>
                \/ /\ current_tx_block = NoDgram /\ tx_ptr = 0 /\ ~cbk_pending
                   /\ q_output # <<>> /\ q_output[1] \in Dgram
                   /\ Cut(q_output[1], 0) /\ q_output' = Tail(q_output)
                   /\ UNCHANGED <<cbk_pending, callback_pending>>
    <3>1. ~cbk_pending'
      BY <1>0, <2>6
    <3>2. \E b \in Dgram, k \in Nat : Cut(b, k)
      BY <2>6
    <3> QED BY <2>4, <2>6, <3>1, <3>2
  <2> QED BY <1>1, <2>2, <2>3, <2>5, <2>6, TaskLockCases
<1>2. CASE TaskWriteOk
  BY <1>2, WriteFields DEF TaskWriteOk, SenderInv, InFlight, Marked
<1>3. CASE TaskWait \/ TaskCheck \/ TaskSend \/ TaskWriteFail
  BY <1>3 DEF TaskWait, TaskCheck, TaskSend, TaskWriteFail, SenderInv,
              InFlight, Marked
<1>4. CASE RouterDeliver \/ CallbackPending \/ CallbackNotify
  BY <1>0, <1>4 DEF RouterDeliver, CallbackPending, CallbackNotify, SenderInv,
              InFlight, Marked
<1>5. CASE CallbackBlock
  <2>1. current_tx_block = NoDgram /\ tx_ptr = 0
    BY <1>0, <1>5 DEF CallbackBlock, CallbackInv
  <2>2. snd_blk # NoChunk => snd_blk.last
    <3> SUFFICES ASSUME snd_blk # NoChunk, ~snd_blk.last PROVE FALSE
      OBVIOUS
    <3>1. snd_blk.i = 0 /\ snd_blk \in Chunk
      BY <2>1 DEF SenderInv, TypeInv, ChunkTypes
    <3> QED BY <3>1, ChunkFields
  <2> QED BY <1>5, <2>1, <2>2 DEF CallbackBlock, SenderInv, InFlight, Marked
<1>6. CASE gatt_conn_reset
  BY <1>6 DEF gatt_conn_reset, SenderInv, InFlight, Marked
<1>7. CASE WriteDone \/ LinkDown \/ LinkUp
  BY <1>7 DEF WriteDone, LinkDown, LinkUp, SenderInv, InFlight, Marked
<1>8. CASE TimerFire \/ TimerNotify \/ CompleteClear \/ CompleteNotify
           \/ RxAck \/ StatusUp \/ StatusDown
  BY <1>8 DEF TimerFire, TimerNotify, CompleteClear, CompleteNotify, RxAck,
              StatusUp, StatusDown, SenderInv, InFlight, Marked
<1>9. CASE UNCHANGED vars
  BY <1>9 DEF vars, SenderInv, InFlight, Marked
<1> QED BY <1>1, <1>2, <1>3, <1>4, <1>5, <1>6, <1>7, <1>8, <1>9
        DEF Next, TxStep, Callback, BLE_TCP_Task, Timer, GattCb, MainThread

\* Apart from a write and a reset, no step changes what will be written next.
LEMMA NextKept ==
  ASSUME TypeInv, CallbackInv, SenderInv, [Next]_vars,
         ~TaskWriteOk, ~gatt_conn_reset
  PROVE  /\ FirstNext => FirstNext'
         /\ tx_index_blk' = tx_index_blk
         /\ \A d \in Dgram, i \in Nat \ {0}, s \in Seqs :
              ChunkNext(d, i, s) => ChunkNext(d, i, s)'
<1> USE DEF routerVars, ethVars, tcpVars, taskVars, connVars, gattVars
<1>0. /\ tx_rst \in BOOLEAN
      /\ current_tx_block = NoDgram => tx_ptr = 0
  BY DEF TypeInv, FlagTypes, HandTypes, EthTypes
<1>1. CASE TaskLock
  <2>1. tx_index_blk' = tx_index_blk
    BY <1>1 DEF TaskLock
  <2>2. CASE UNCHANGED <<snd_blk, current_tx_block, tx_ptr, tx_rst>>
    BY <2>1, <2>2 DEF FirstNext, ChunkNext
  <2>3. CASE snd_blk = NoChunk /\ tx_ptr = 0 /\ tx_ptr' = 0 /\ snd_blk' = NoChunk
    BY <2>1, <2>3 DEF FirstNext, ChunkNext
  <2>4. ASSUME NEW k \in Nat, k = (IF tx_rst THEN 0 ELSE tx_ptr),
               Cut(current_tx_block, k), snd_blk = NoChunk
        PROVE  /\ FirstNext => FirstNext'
               /\ \A d \in Dgram, i \in Nat \ {0}, s \in Seqs :
                    ChunkNext(d, i, s) => ChunkNext(d, i, s)'
    BY <1>0, <2>1, <2>4 DEF FirstNext, ChunkNext, Cut
  <2>5. CASE snd_blk = NoChunk /\ tx_ptr = 0 /\ Cut(q_output[1], 0)
    BY <2>1, <2>5 DEF FirstNext, ChunkNext, Cut
  <2>6. CASE snd_blk = NoChunk /\ tx_ptr' = 0 /\ snd_blk' = snd_blk
             /\ tx_ptr = 0
    BY <2>3, <2>6
  <2> QED BY <1>1, <2>1, <2>2, <2>4, <2>5, <2>6, TaskLockCases
<1>2. CASE CallbackBlock
  BY <1>0, <1>2 DEF CallbackBlock, CallbackInv, FirstNext, ChunkNext
<1>3. CASE UNCHANGED <<snd_blk, current_tx_block, tx_ptr, tx_rst, tx_index_blk>>
  BY <1>3 DEF FirstNext, ChunkNext
<1>4. \/ UNCHANGED <<snd_blk, current_tx_block, tx_ptr, tx_rst, tx_index_blk>>
      \/ TaskLock \/ CallbackBlock
  BY DEF Next, TxStep, Callback, BLE_TCP_Task, Timer, GattCb, MainThread,
         RouterDeliver, CallbackPending, CallbackNotify, TaskWait, TaskCheck,
         TaskSend, TaskWriteFail, TimerFire, TimerNotify, WriteDone,
         CompleteClear, CompleteNotify, RxAck, LinkUp, LinkDown, StatusUp,
         StatusDown, vars
<1> QED BY <1>1, <1>2, <1>3, <1>4

\* After a write comes the next chunk of the same datagram, or the first of
\* one; after an acknowledgement sent alone, the first of one.
LEMMA WriteNext ==
  ASSUME TypeInv, SenderInv, TaskWriteOk
  PROVE  /\ ~InFlight
         /\ snd_blk = NoChunk \/ snd_blk.last => FirstNext'
         /\ snd_blk = NoChunk => FirstNext /\ tx_ptr = 0
         /\ snd_blk # NoChunk =>
              FirstNext' \/ ChunkNext(wr.d, wr.i, NextSeq(wr.seq))'
         /\ snd_blk # NoChunk /\ ~snd_blk.last =>
              ChunkNext(wr.d, wr.i, NextSeq(wr.seq))'
<1> USE DEF ethVars
<1>1. /\ task_pc = "write" /\ snd_blk' = NoChunk
      /\ UNCHANGED <<current_tx_block, tx_ptr, tx_rst>>
      /\ tx_index_blk' = NextSeq(tx_index_blk) /\ ~InFlight
  BY DEF TaskWriteOk, InFlight
<1>2. CASE snd_blk = NoChunk
  BY <1>1, <1>2 DEF SenderInv, FirstNext
<1>3. CASE snd_blk # NoChunk /\ snd_blk.last
  BY <1>1, <1>3 DEF SenderInv, FirstNext
<1>4. CASE snd_blk # NoChunk /\ ~snd_blk.last
  BY <1>1, <1>4, WriteFields DEF SenderInv, ChunkNext
<1> QED BY <1>1, <1>2, <1>3, <1>4

LEMMA ResetNext == gatt_conn_reset => FirstNext'
BY DEF gatt_conn_reset, FirstNext

\* Only a write puts a chunk in flight; only its end or a lost link removes it.
LEMMA FlightKept ==
  ASSUME [Next]_vars, ~TaskWriteOk
  PROVE  wr' = wr \/ wr' = NoChunk
BY DEF Next, TxStep, Callback, BLE_TCP_Task, Timer, GattCb, MainThread,
       RouterDeliver, CallbackBlock, CallbackPending, CallbackNotify, TaskWait,
       TaskCheck, TaskLock, TaskSend, TaskWriteFail, TimerFire, TimerNotify,
       WriteDone, CompleteClear, CompleteNotify, RxAck, LinkUp, LinkDown,
       StatusUp, gatt_conn_reset, StatusDown, gattVars, vars

\* Without a use of the old index there was none before.
LEMMA EarlyKept ==
  ASSUME early \in BOOLEAN, losses \in Nat, [PathNext]_allVars
  PROVE  /\ early' \in BOOLEAN
         /\ early => early'
         /\ losses' \in Nat
         /\ Detectable' => Detectable
<1>1. CASE Send
  BY <1>1 DEF Send, Detectable
<1>2. CASE Lose
  BY <1>2 DEF Lose, Detectable
<1>3. CASE UNCHANGED <<early, losses>>
  BY <1>3 DEF Detectable
<1> QED BY <1>1, <1>2, <1>3
        DEF PathNext, Arrive, ArriveAgain, Connect, allVars, pathVars

-----------------------------------------------------------------------------
(***************************************************************************)
(* The two ends together: the sequence numbers                             *)
(***************************************************************************)
LEMMA FlightChunk ==
  ASSUME TypeInv, InFlight
  PROVE  /\ wr \in Chunk /\ wr.d \in Dgram /\ wr.i \in Nat \ {0}
         /\ wr.i <= Size[wr.d] /\ wr.seq \in Seqs /\ NextSeq(wr.seq) \in Seqs
         /\ wr.first \in BOOLEAN /\ wr.last \in BOOLEAN
BY ChunkFields, SeqsLemma DEF TypeInv, ChunkTypes, InFlight

\* The chunk behind the one in flight.
LEMMA FollowNext ==
  ASSUME TypeInv, CallbackInv, SenderInv, EarlyInv, FollowInv,
         early \in BOOLEAN, losses \in Nat, [PathNext]_allVars
  PROVE  FollowInv'
<1>1. [Next]_vars /\ (early => early')
  BY PathStep, EarlyKept
<1> SUFFICES ASSUME InFlight'
             PROVE  LET next == ChunkNext(wr.d, wr.i, NextSeq(wr.seq)) IN
                    /\ FirstNext' \/ next'
                    /\ ~early' /\ ~wr'.last => next'
  BY DEF FollowInv
<1>2. CASE TaskWriteOk
  BY <1>2, WriteNext, WriteFields
<1>3. CASE ~TaskWriteOk
  <2>1. InFlight /\ wr' = wr
    BY <1>1, <1>3, FlightKept DEF InFlight
  <2>2. /\ wr.d \in Dgram /\ wr.i \in Nat \ {0} /\ NextSeq(wr.seq) \in Seqs
    BY <2>1, FlightChunk
  <2>3. CASE gatt_conn_reset
    <3>1. early'
      BY <1>1, <2>1, <2>3 DEF gatt_conn_reset, EarlyInv, SenderInv, InFlight
    <3> QED BY <2>3, <3>1, ResetNext
  <2>4. CASE ~gatt_conn_reset
    <3>0. PICK d \in Dgram, i \in Nat \ {0}, s \in Seqs :
            d = wr.d /\ i = wr.i /\ s = NextSeq(wr.seq)
      BY <2>2
    <3>1. FirstNext \/ ChunkNext(d, i, s)
      BY <2>1, <3>0 DEF FollowInv
    <3>2. ~early /\ ~wr.last => ChunkNext(d, i, s)
      BY <2>1, <3>0 DEF FollowInv
    <3>3. ChunkNext(d, i, s) => ChunkNext(wr.d, wr.i, NextSeq(wr.seq))'
      <4>1. ChunkNext(d, i, s) => ChunkNext(d, i, s)'
        BY <1>1, <1>3, <2>4, NextKept
      <4>2. wr.d = d /\ wr.i = i /\ NextSeq(wr.seq) = s /\ wr' = wr
        BY <2>1, <3>0
      <4> QED BY <4>1, <4>2
    <3>4. FirstNext => FirstNext'
      BY <1>1, <1>3, <2>4, NextKept
    <3> QED BY <1>1, <2>1, <3>1, <3>2, <3>3, <3>4
  <2> QED BY <2>3, <2>4
<1> QED BY <1>2, <1>3

\* Nothing arrives before the reset, unless the sender was early.
LEMMA EarlyNext ==
  ASSUME TypeInv, SenderInv, EarlyInv, early \in BOOLEAN, losses \in Nat,
         [PathNext]_allVars
  PROVE  EarlyInv'
<1> USE DEF connVars, gattVars, ethVars
<1>1. CASE Send
  <2> SUFFICES ASSUME link', ~early', ~status' \/ main_pc' = "reset" \/ tx_rst'
               PROVE  eth_rst_req_rx' /\ ~InFlight' /\ echo' = NoChunk
    BY DEF EarlyInv
  <2>1. ~early /\ UNCHANGED <<eth_rst_req_rx, echo>>
    BY <1>1, EarlyKept DEF Send, PathNext, asmVars
  <2>2. link
    BY <1>1 DEF Send, TxStep, Callback, BLE_TCP_Task, Timer, GattCb,
         MainThread, RouterDeliver, CallbackBlock, CallbackPending,
         CallbackNotify, TaskWait, TaskCheck, TaskLock, TaskSend, TaskWriteOk,
         TaskWriteFail, TimerFire, TimerNotify, CompleteClear, CompleteNotify,
         RxAck, LinkDown, StatusUp, gatt_conn_reset, StatusDown
  <2>3. CASE TaskWriteOk
    <3>1. UNCHANGED <<status, main_pc, tx_rst>> /\ wr = NoChunk
      BY <2>3 DEF TaskWriteOk
    <3>2. CASE snd_blk = NoChunk
      <4>1. ~InFlight'
        BY <2>3, <3>2, WriteFields
      <4> QED BY <2>1, <2>2, <3>1, <4>1 DEF EarlyInv
    <3>3. CASE snd_blk # NoChunk
      <4>1. wr' \notin {wr, NoChunk, AckOnly}
        BY <2>3, <3>1, <3>3, WriteFields DEF InFlight
      <4>2. status /\ main_pc # "reset"
        BY <1>1, <4>1 DEF Send
      <4>3. ~tx_rst
        BY <3>3 DEF SenderInv
      <4> QED BY <3>1, <4>2, <4>3
    <3> QED BY <3>2, <3>3
  <2>4. CASE ~TaskWriteOk
    <3>1. InFlight' => InFlight
      BY <1>1, <2>4, FlightKept DEF Send, Next, InFlight
    <3>2. ~status \/ main_pc = "reset" \/ tx_rst
      <4>1. tx_rst' => tx_rst \/ gatt_conn_reset
        <5>1. TaskLock => (tx_rst' => tx_rst)
          BY DEF TaskLock, GetNextChunk
        <5> QED BY <1>1, <5>1 DEF Send, TxStep, Callback, BLE_TCP_Task, Timer,
              GattCb, MainThread, RouterDeliver, CallbackBlock,
              CallbackPending, CallbackNotify, TaskWait, TaskCheck, TaskSend,
              TaskWriteOk, TaskWriteFail, TimerFire, TimerNotify,
              CompleteClear, CompleteNotify, RxAck, LinkDown, StatusUp,
              StatusDown
      <4>2. gatt_conn_reset => main_pc = "reset"
        BY DEF gatt_conn_reset
      <4>3. ~status' => ~status
        BY <1>1, <2>2 DEF Send, TxStep, Callback, BLE_TCP_Task, Timer,
              GattCb, MainThread, RouterDeliver, CallbackBlock,
              CallbackPending, CallbackNotify, TaskWait, TaskCheck, TaskLock,
              TaskSend, TaskWriteOk, TaskWriteFail, TimerFire, TimerNotify,
              CompleteClear, CompleteNotify, RxAck, LinkDown, StatusUp,
              gatt_conn_reset, StatusDown
      <4>4. main_pc' = "reset" => main_pc = "reset" \/ ~status
        BY <1>1 DEF Send, TxStep, Callback, BLE_TCP_Task, Timer,
              GattCb, MainThread, RouterDeliver, CallbackBlock,
              CallbackPending, CallbackNotify, TaskWait, TaskCheck, TaskLock,
              TaskSend, TaskWriteOk, TaskWriteFail, TimerFire, TimerNotify,
              CompleteClear, CompleteNotify, RxAck, LinkDown, StatusUp,
              gatt_conn_reset, StatusDown
      <4> QED BY <4>1, <4>2, <4>3, <4>4
    <3> QED BY <2>1, <2>2, <3>1, <3>2 DEF EarlyInv
  <2> QED BY <2>3, <2>4
<1>2. CASE Arrive
  <2>1. UNCHANGED <<link, status, main_pc, tx_rst, early>> /\ ~InFlight'
        /\ wr # NoChunk /\ echo = NoChunk
    BY <1>2 DEF Arrive, WriteDone, InFlight
  <2>2. CASE wr = AckOnly
    <3>1. UNCHANGED <<eth_rst_req_rx, echo>>
      BY <1>2, <2>2 DEF Arrive, asmVars
    <3> QED BY <2>1, <3>1 DEF EarlyInv
  <2>3. CASE wr # AckOnly
    BY <2>1, <2>3 DEF EarlyInv, InFlight
  <2> QED BY <2>2, <2>3
<1>3. CASE ArriveAgain
  BY <1>3 DEF ArriveAgain, EarlyInv, vars
<1>4. CASE Lose
  BY <1>4 DEF Lose, WriteDone, EarlyInv, InFlight, asmVars
<1>5. CASE Connect
  BY <1>5 DEF Connect, LinkUp, GattEthResetRx, SenderInv, EarlyInv, InFlight,
              pathVars
<1>6. CASE UNCHANGED allVars
  BY <1>6 DEF allVars, vars, asmVars, pathVars, EarlyInv, InFlight
<1> QED BY <1>1, <1>2, <1>3, <1>4, <1>5, <1>6 DEF PathNext

\* What arrives: an accepted chunk continues or begins a datagram.
Accepts(c) ==
  /\ c.first \/ (rx_pbuf /\ ~eth_rst_req_rx /\ NextSeq(rx_prev_seq) = c.seq)
  /\ LET new == Append(IF c.first THEN <<>> ELSE rx_data, <<c.d, c.i>>) IN
     /\ Len(new) <= BufSize
     /\ IF c.last
        THEN rx_pbuf' = FALSE /\ rx_data' = <<>> /\ dgrams' = Append(dgrams, new)
        ELSE rx_pbuf' = TRUE /\ rx_data' = new /\ dgrams' = dgrams

Rejects(c) == rx_pbuf' = FALSE /\ rx_data' = <<>> /\ dgrams' = dgrams

LEMMA AsmCases ==
  ASSUME NEW c \in Chunk, process_dgram_asm(c)
  PROVE  /\ eth_rst_req_rx' = FALSE
         /\ \/ Accepts(c) /\ rx_prev_seq' = c.seq
            \/ Rejects(c) /\ ~c.first
<1>1. /\ c.first \in BOOLEAN
  BY ChunkFields
<1> QED BY <1>1, BleAsmAssumption DEF process_dgram_asm, NoRxPbuf, Accepts, Rejects

\* The first n chunks of datagram d.
Begin(d, n) == [i \in 1 .. n |-> <<d, i>>]

LEMMA AppendIs ==
  ASSUME NEW S, NEW s \in Seq(S), NEW e \in S, NEW t \in Seq(S),
         Len(t) = Len(s) + 1, \A i \in 1 .. Len(s) : t[i] = s[i],
         t[Len(s) + 1] = e
  PROVE  Append(s, e) = t
<1>1. /\ Append(s, e) \in Seq(S) /\ Len(Append(s, e)) = Len(s) + 1
      /\ \A i \in 1 .. Len(s) : Append(s, e)[i] = s[i]
      /\ Append(s, e)[Len(s) + 1] = e
      /\ Len(s) \in Nat
  BY AppendProperties, LenProperties
<1>2. \A i \in 1 .. Len(t) : Append(s, e)[i] = t[i]
  BY <1>1
<1> QED BY <1>1, <1>2, SeqEqual

LEMMA BeginLemma ==
  ASSUME NEW d \in Dgram, NEW n \in Nat
  PROVE  /\ Begin(d, n) \in Seq(Nat \X Nat) /\ Len(Begin(d, n)) = n
         /\ Append(Begin(d, n), <<d, n + 1>>) = Begin(d, n + 1)
         /\ Append(<<>>, <<d, 1>>) = Begin(d, 1)
<1>1. d \in Nat
  BY SizeLemma
<1>2. \A k \in Nat : Begin(d, k) \in Seq(Nat \X Nat) /\ Len(Begin(d, k)) = k
                     /\ \A i \in 1 .. k : Begin(d, k)[i] = <<d, i>>
  BY <1>1 DEF Begin
<1>3. /\ <<d, n + 1>> \in Nat \X Nat /\ <<d, 1>> \in Nat \X Nat
      /\ <<>> \in Seq(Nat \X Nat) /\ Len(<<>>) = 0
  BY <1>1, EmptySeq
<1>4. Append(Begin(d, n), <<d, n + 1>>) = Begin(d, n + 1)
  <2>1. PICK e \in Nat \X Nat, s, t \in Seq(Nat \X Nat) :
          e = <<d, n + 1>> /\ s = Begin(d, n) /\ t = Begin(d, n + 1)
    BY <1>2, <1>3
  <2>2. /\ Len(s) = n /\ Len(t) = n + 1 /\ t[n + 1] = e
        /\ \A i \in 1 .. n : t[i] = s[i]
    <3>1. Len(s) = n /\ Len(t) = n + 1
      BY <1>2, <2>1
    <3>2. t[n + 1] = e
      BY <2>1 DEF Begin
    <3>3. \A i \in 1 .. n : t[i] = s[i]
      BY <2>1 DEF Begin
    <3> QED BY <3>1, <3>2, <3>3
  <2>3. Append(s, e) = t
    BY <2>2, AppendIs
  <2> QED BY <2>1, <2>3
<1>5. Append(<<>>, <<d, 1>>) = Begin(d, 1)
  <2>1. PICK e \in Nat \X Nat, s, t \in Seq(Nat \X Nat) :
          e = <<d, 1>> /\ s = <<>> /\ t = Begin(d, 1)
    BY <1>2, <1>3
  <2>2. Len(s) = 0 /\ Len(t) = 1 /\ t[1] = e
    <3>1. Len(s) = 0 /\ Len(t) = 1
      BY <1>2, <1>3, <2>1
    <3>2. t[1] = e
      BY <2>1 DEF Begin
    <3> QED BY <3>1, <3>2
  <2>3. Append(s, e) = t
    BY <2>2, AppendIs
  <2> QED BY <2>1, <2>3
<1> QED BY <1>2, <1>4, <1>5

\* What the receiver has of a datagram.
LEMMA PartLemma ==
  ASSUME TypeInv, AsmTypeOK, PartInv, Detectable, rx_pbuf
  PROVE  \E d \in Dgram, i \in Nat \ {0} :
           /\ rx_data = Begin(d, i) /\ Len(rx_data) = i
           /\ rx_data[Len(rx_data)][1] = d /\ rx_data[Len(rx_data)][2] = i
<1>1. PICK d \in Dgram : rx_data = Begin(d, Len(rx_data))
  BY DEF PartInv, Begin
<1>2. Len(rx_data) \in Nat \ {0}
  BY EmptySeq DEF AsmTypeOK, PartInv
<1>3. rx_data[Len(rx_data)] = <<d, Len(rx_data)>>
  BY <1>1, <1>2 DEF Begin
<1> QED BY <1>1, <1>2, <1>3

\* An accepted chunk is the next one of its datagram.
LEMMA ArrivalExtends ==
  ASSUME TypeInv, SenderInv, AsmTypeOK, PartInv, SyncInv, Detectable,
         losses \in Nat, early \in BOOLEAN, InFlight, Accepts(wr)
  PROVE  Append(IF wr.first THEN <<>> ELSE rx_data, <<wr.d, wr.i>>)
           = Begin(wr.d, wr.i)
<1>1. /\ wr.d \in Dgram /\ wr.i \in Nat \ {0} /\ wr.seq \in Seqs
      /\ wr.first \in BOOLEAN
  BY FlightChunk
<1>2. CASE wr.first
  BY <1>1, <1>2, BeginLemma DEF SenderInv, Marked
<1>3. CASE ~wr.first
  <2>1. /\ rx_pbuf /\ ~eth_rst_req_rx /\ NextSeq(rx_prev_seq) = wr.seq
        /\ link
    BY <1>3 DEF Accepts, SenderInv, InFlight
  <2>2. PICK d \in Dgram, i \in Nat \ {0} :
          /\ rx_data = Begin(d, i) /\ Len(rx_data) = i
          /\ rx_data[Len(rx_data)][1] = d /\ rx_data[Len(rx_data)][2] = i
    BY <2>1, PartLemma
  <2>3. Continues(d, i, wr.seq) \/ Skipped(wr.seq)
    BY <2>1, <2>2 DEF SyncInv, Detectable
  <2>4. losses = 0 => Continues(d, i, wr.seq)
    BY <2>1, <2>2 DEF SyncInv
  <2>5. wr.seq # NextSeq(wr.seq)
    BY <1>1, NextSeqLemma
  <2>6. wr.d = d /\ wr.i = i + 1
    BY <1>3, <2>3, <2>5 DEF Continues, Skipped
  <2> QED BY <1>3, <2>2, <2>6, BeginLemma
<1> QED BY <1>1, <1>2, <1>3

\* A repeated chunk changes nothing, is dropped, or is a datagram in itself.
LEMMA RepeatCases ==
  ASSUME AsmTypeOK, EchoInv, echo # NoChunk, process_dgram_asm(echo)
  PROVE  /\ UNCHANGED eth_rst_req_rx
         /\ \/ UNCHANGED <<rx_pbuf, rx_data, rx_prev_seq, dgrams>>
            \/ Rejects(echo)
            \/ /\ rx_pbuf' = FALSE /\ rx_data' = <<>>
               /\ echo.first /\ echo.last
               /\ dgrams' = Append(dgrams, Append(<<>>, <<echo.d, echo.i>>))
<1>1. echo \in Chunk /\ echo.seq \in Seqs
      /\ echo.first \in BOOLEAN /\ echo.last \in BOOLEAN
  BY ChunkFields DEF EchoInv
<1>2. /\ eth_rst_req_rx' = FALSE /\ eth_rst_req_rx = FALSE
      /\ \/ Accepts(echo) /\ rx_prev_seq' = echo.seq
         \/ Rejects(echo) /\ ~echo.first
  BY <1>1, AsmCases DEF EchoInv, AsmTypeOK
<1>3. CASE Accepts(echo) /\ rx_prev_seq' = echo.seq
  <2>1. echo.first
    BY <1>1, <1>3, NextSeqLemma DEF Accepts, EchoInv
  <2>2. CASE ~echo.last
    <3>1. rx_pbuf /\ rx_data = <<<<echo.d, echo.i>>>> /\ rx_prev_seq = echo.seq
      BY <2>1, <2>2 DEF EchoInv
    <3>2. rx_pbuf' = TRUE /\ rx_data' = Append(<<>>, <<echo.d, echo.i>>)
          /\ dgrams' = dgrams
      BY <1>3, <2>1, <2>2 DEF Accepts
    <3>3. Append(<<>>, <<echo.d, echo.i>>) = <<<<echo.d, echo.i>>>>
      OBVIOUS
    <3> QED BY <1>2, <1>3, <3>1, <3>2, <3>3 DEF AsmTypeOK
  <2>3. CASE echo.last
    BY <1>2, <1>3, <2>1, <2>3 DEF Accepts
  <2> QED BY <2>2, <2>3
<1> QED BY <1>2, <1>3

\* The end of a write, at the receiver.
LEMMA ArriveCases ==
  ASSUME TypeInv, Arrive
  PROVE  /\ wr' = NoChunk /\ ~InFlight' /\ wr # NoChunk /\ echo = NoChunk
         /\ UNCHANGED <<losses, early, link, status, main_pc>>
         /\ \/ ~InFlight /\ UNCHANGED <<asmVars, dups, echo>>
            \/ /\ InFlight /\ wr \in Chunk /\ process_dgram_asm(wr)
               /\ \/ UNCHANGED <<dups, echo>>
                  \/ dups' = dups + 1 /\ echo' = wr
<1>1. /\ wr' = NoChunk /\ ~InFlight' /\ wr # NoChunk /\ echo = NoChunk
      /\ UNCHANGED <<losses, early, link, status, main_pc>>
  BY DEF Arrive, WriteDone, InFlight, connVars
<1>2. CASE wr = AckOnly
  BY <1>1, <1>2 DEF Arrive, InFlight
<1>3. CASE wr # AckOnly
  BY <1>1, <1>3, FlightChunk DEF Arrive, InFlight
<1> QED BY <1>1, <1>2, <1>3

LEMMA AsmTypesStep ==
  ASSUME AsmTypeOK, NEW c \in Chunk, process_dgram_asm(c)
  PROVE  AsmTypeOK'
<1>1. /\ c.d \in Nat /\ c.i \in Nat /\ c.seq \in Seqs /\ c.last \in BOOLEAN
  BY ChunkFields, SizeLemma
<1>2. rx_prev_seq' \in Seqs /\ eth_rst_req_rx' = FALSE
  BY <1>1, SeqsLemma DEF process_dgram_asm, AsmTypeOK
<1>3. CASE Rejects(c)
  <2>1. rx_pbuf' = FALSE /\ rx_data' = <<>> /\ dgrams' = dgrams
    BY <1>3 DEF Rejects
  <2>2. rx_data' \in Seq(Nat \X Nat) /\ Len(rx_data') <= BufSize
    BY <2>1, EmptySeq, BleAsmAssumption
  <2> QED BY <1>2, <2>1, <2>2 DEF AsmTypeOK
<1>4. CASE Accepts(c)
  <2>1. PICK data, new \in Seq(Nat \X Nat) :
          /\ data = (IF c.first THEN <<>> ELSE rx_data)
          /\ new = Append(data, <<c.d, c.i>>)
    <3>1. (IF c.first THEN <<>> ELSE rx_data) \in Seq(Nat \X Nat)
      BY EmptySeq DEF AsmTypeOK
    <3>2. <<c.d, c.i>> \in Nat \X Nat
      BY <1>1
    <3> QED BY <3>1, <3>2, AppendProperties
  <2>2. Len(new) <= BufSize
    BY <1>4, <2>1 DEF Accepts
  <2>3. CASE c.last
    <3>1. rx_pbuf' = FALSE /\ rx_data' = <<>> /\ dgrams' = Append(dgrams, new)
      BY <1>4, <2>1, <2>3 DEF Accepts
    <3>2. dgrams' \in Seq(Seq(Nat \X Nat))
      BY <3>1, AppendProperties DEF AsmTypeOK
    <3>3. rx_data' \in Seq(Nat \X Nat) /\ Len(rx_data') <= BufSize
      BY <3>1, EmptySeq, BleAsmAssumption
    <3> QED BY <1>2, <3>1, <3>2, <3>3 DEF AsmTypeOK
  <2>4. CASE ~c.last
    <3>1. rx_pbuf' = TRUE /\ rx_data' = new /\ dgrams' = dgrams
      BY <1>4, <2>1, <2>4 DEF Accepts
    <3> QED BY <1>2, <2>2, <3>1 DEF AsmTypeOK
  <2> QED BY <2>3, <2>4
<1> QED BY <1>3, <1>4, AsmCases

LEMMA AsmTypesNext ==
  ASSUME TypeInv, AsmTypeOK, EchoInv, [PathNext]_allVars
  PROVE  AsmTypeOK' /\ (dups \in Nat => dups' \in Nat)
<1>1. CASE Arrive
  BY <1>1, ArriveCases, AsmTypesStep DEF AsmTypeOK, asmVars
<1>2. CASE ArriveAgain
  BY <1>2, AsmTypesStep DEF ArriveAgain, EchoInv
<1>3. CASE Connect
  BY <1>3 DEF Connect, GattEthResetRx, AsmTypeOK, pathVars
<1>4. CASE UNCHANGED <<asmVars, dups>>
  BY <1>4 DEF AsmTypeOK, asmVars
<1> QED BY <1>1, <1>2, <1>3, <1>4 DEF PathNext, Send, Lose, allVars, pathVars

LEMMA EchoNext ==
  ASSUME TypeInv, SenderInv, AsmTypeOK, EchoInv, dups \in Nat,
         [PathNext]_allVars
  PROVE  EchoInv'
<1>1. CASE Arrive
  <2>1. CASE echo' = NoChunk
    BY <2>1 DEF EchoInv
  <2>2. CASE echo' # NoChunk
    <3>1. /\ InFlight /\ wr \in Chunk /\ process_dgram_asm(wr)
          /\ dups' = dups + 1 /\ echo' = wr
      BY <1>1, <2>2, ArriveCases
    <3>2. /\ eth_rst_req_rx' = FALSE
          /\ \/ Accepts(wr) /\ rx_prev_seq' = wr.seq
             \/ Rejects(wr) /\ ~wr.first
      BY <3>1, AsmCases DEF AsmTypeOK
    <3>3. wr.first /\ ~wr.last => rx_pbuf' /\ rx_data' = <<<<wr.d, wr.i>>>>
      <4>1. Append(<<>>, <<wr.d, wr.i>>) = <<<<wr.d, wr.i>>>>
        OBVIOUS
      <4> QED BY <3>2, <4>1 DEF Accepts
    <3> QED BY <3>1, <3>2, <3>3 DEF EchoInv, SenderInv, Marked, Rejects
  <2> QED BY <2>1, <2>2
<1>2. CASE ArriveAgain
  BY <1>2 DEF ArriveAgain, EchoInv
<1>3. CASE Connect
  BY <1>3 DEF Connect, EchoInv, pathVars
<1>4. CASE UNCHANGED <<asmVars, dups, echo>>
  BY <1>4 DEF EchoInv, asmVars, Marked
<1> QED BY <1>1, <1>2, <1>3, <1>4 DEF PathNext, Send, Lose, allVars, pathVars

LEMMA AppendElements ==
  ASSUME NEW S, NEW s \in Seq(S), NEW e \in S
  PROVE  /\ Append(s, e) \in Seq(S) /\ Append(s, e) # <<>>
         /\ Len(s) \in Nat /\ Len(Append(s, e)) = Len(s) + 1
         /\ Append(s, e)[Len(s) + 1] = e
         /\ \A k \in 1 .. Len(s) : Append(s, e)[k] = s[k]
         /\ \A k \in DOMAIN Append(s, e) :
              \/ k \in DOMAIN s /\ Append(s, e)[k] = s[k]
              \/ Append(s, e)[k] = e
<1>1. /\ Append(s, e) \in Seq(S) /\ Append(s, e) # <<>>
      /\ Len(Append(s, e)) = Len(s) + 1
      /\ \A k \in 1 .. Len(s) : Append(s, e)[k] = s[k]
      /\ Append(s, e)[Len(s) + 1] = e
  BY AppendProperties
<1>2. Len(s) \in Nat /\ DOMAIN s = 1 .. Len(s)
      /\ DOMAIN Append(s, e) = 1 .. Len(s) + 1
  BY <1>1, LenProperties
<1> QED BY <1>1, <1>2

LEMMA AppendFirst ==
  ASSUME NEW S, NEW s \in Seq(S), NEW e \in S
  PROVE  /\ Append(s, e) \in Seq(S) /\ Append(s, e) # <<>>
         /\ Append(s, e)[1] = IF s = <<>> THEN e ELSE s[1]
<1>1. CASE s = <<>>
  BY <1>1, AppendElements, EmptySeq
<1>2. CASE s # <<>>
  <2>1. 1 \in 1 .. Len(s)
    BY <1>2, EmptySeq
  <2> QED BY <1>2, <2>1, AppendElements
<1> QED BY <1>1, <1>2

\* The data of an accepted chunk, behind what it continues.
NewData(c) == Append(IF c.first THEN <<>> ELSE rx_data, <<c.d, c.i>>)

LEMMA NewDataType ==
  ASSUME AsmTypeOK, NEW c \in Chunk
  PROVE  /\ NewData(c) \in Seq(Nat \X Nat) /\ NewData(c) # <<>>
         /\ NewData(c)[1] = IF c.first \/ rx_data = <<>>
                            THEN <<c.d, c.i>> ELSE rx_data[1]
<1>1. <<c.d, c.i>> \in Nat \X Nat
  BY ChunkFields, SizeLemma
<1>2. PICK e \in Nat \X Nat : e = <<c.d, c.i>>
  BY <1>1
<1>3. rx_data \in Seq(Nat \X Nat) /\ <<>> \in Seq(Nat \X Nat)
      /\ Len(<<>>) = 0
  BY EmptySeq DEF AsmTypeOK
<1>4. /\ Append(<<>>, e) \in Seq(Nat \X Nat) /\ Append(<<>>, e) # <<>>
      /\ Append(<<>>, e)[1] = e
  BY <1>3, AppendFirst
<1>5. /\ Append(rx_data, e) \in Seq(Nat \X Nat) /\ Append(rx_data, e) # <<>>
      /\ Append(rx_data, e)[1] = IF rx_data = <<>> THEN e ELSE rx_data[1]
  BY <1>3, AppendFirst
<1> QED BY <1>2, <1>4, <1>5 DEF NewData

\* A partial datagram is the beginning of one that was sent.
LEMMA PartNext ==
  ASSUME TypeInv, SenderInv, AsmTypeOK, EchoInv, PartInv, SyncInv,
         losses \in Nat, early \in BOOLEAN, [PathNext]_allVars
  PROVE  PartInv'
<1>0. Detectable' => Detectable
  BY EarlyKept
<1>1. CASE Arrive
  <2>1. CASE ~InFlight
    BY <1>0, <1>1, <2>1, ArriveCases DEF PartInv, asmVars
  <2>2. CASE InFlight
    <3>1. wr \in Chunk /\ process_dgram_asm(wr)
      BY <1>1, <2>2, ArriveCases
    <3>2. CASE Rejects(wr)
      BY <3>2 DEF Rejects, PartInv
    <3>3. CASE Accepts(wr)
      <4>1. NewData(wr) \in Seq(Nat \X Nat) /\ NewData(wr) # <<>>
        BY <3>1, NewDataType
      <4>2. CASE wr.last
        <5>1. rx_pbuf' = FALSE /\ dgrams' = Append(dgrams, NewData(wr))
          BY <3>3, <4>2 DEF Accepts, NewData
        <5>2. \A k \in DOMAIN dgrams' :
                \/ k \in DOMAIN dgrams /\ dgrams'[k] = dgrams[k]
                \/ dgrams'[k] = NewData(wr)
          BY <4>1, <5>1, AppendElements DEF AsmTypeOK
        <5> QED BY <4>1, <5>1, <5>2 DEF PartInv
      <4>3. CASE ~wr.last
        <5>1. rx_data' = NewData(wr) /\ dgrams' = dgrams
          BY <3>3, <4>3 DEF Accepts, NewData
        <5>2. Detectable' =>
                /\ wr.d \in Dgram /\ wr.i \in Nat
                /\ rx_data' = Begin(wr.d, wr.i)
          BY <1>0, <2>2, <3>3, <5>1, ArrivalExtends, FlightChunk DEF NewData
        <5>3. Detectable' =>
                \E d \in Dgram : rx_data' = [i \in 1 .. Len(rx_data') |-> <<d, i>>]
          BY <5>2, BeginLemma DEF Begin
        <5> QED BY <4>1, <5>1, <5>3 DEF PartInv
      <4> QED BY <4>2, <4>3
    <3> QED BY <3>1, <3>2, <3>3, AsmCases DEF AsmTypeOK
  <2> QED BY <2>1, <2>2
<1>2. CASE ArriveAgain
  <2>1. echo # NoChunk /\ process_dgram_asm(echo) /\ echo \in Chunk
    BY <1>2 DEF ArriveAgain, EchoInv
  <2>2. CASE UNCHANGED <<rx_pbuf, rx_data, rx_prev_seq, dgrams>>
    BY <1>0, <2>2 DEF PartInv
  <2>3. CASE Rejects(echo)
    BY <2>3 DEF Rejects, PartInv
  <2>4. CASE /\ rx_pbuf' = FALSE /\ rx_data' = <<>>
             /\ echo.first /\ echo.last
             /\ dgrams' = Append(dgrams, Append(<<>>, <<echo.d, echo.i>>))
    <3>1. NewData(echo) = Append(<<>>, <<echo.d, echo.i>>)
      BY <2>4 DEF NewData
    <3>2. NewData(echo) \in Seq(Nat \X Nat) /\ NewData(echo) # <<>>
      BY <2>1, NewDataType
    <3>3. \A k \in DOMAIN dgrams' :
            \/ k \in DOMAIN dgrams /\ dgrams'[k] = dgrams[k]
            \/ dgrams'[k] = NewData(echo)
      BY <2>4, <3>1, <3>2, AppendElements DEF AsmTypeOK
    <3> QED BY <2>4, <3>2, <3>3 DEF PartInv
  <2> QED BY <2>1, <2>2, <2>3, <2>4, RepeatCases
<1>3. CASE UNCHANGED <<rx_pbuf, rx_data, dgrams>>
  BY <1>0, <1>3 DEF PartInv
<1> QED BY <1>1, <1>2, <1>3
        DEF PathNext, Send, Lose, Connect, GattEthResetRx, allVars, asmVars

\* A datagram that is completed is one that was sent.
LEMMA WholeNext ==
  ASSUME TypeInv, SenderInv, AsmTypeOK, EchoInv, PartInv, SyncInv,
         losses \in Nat, early \in BOOLEAN, DgramsWhole, [PathNext]_allVars
  PROVE  DgramsWhole'
<1> SUFFICES ASSUME Detectable'
             PROVE  \A k \in DOMAIN dgrams' :
                      \E d \in Dgram : dgrams'[k] = Begin(d, Size[d])
  BY DEF DgramsWhole, Begin
<1>0. /\ Detectable
      /\ \A k \in DOMAIN dgrams : \E d \in Dgram : dgrams[k] = Begin(d, Size[d])
  BY EarlyKept DEF DgramsWhole, Begin
<1>1. ASSUME NEW c \in Chunk, NewData(c) = Begin(c.d, Size[c.d]),
             dgrams' = Append(dgrams, NewData(c))
      PROVE  \A k \in DOMAIN dgrams' :
               \E d \in Dgram : dgrams'[k] = Begin(d, Size[d])
  <2>1. NewData(c) \in Seq(Nat \X Nat) /\ c.d \in Dgram
    BY NewDataType, ChunkFields
  <2>2. \A k \in DOMAIN dgrams' :
          \/ k \in DOMAIN dgrams /\ dgrams'[k] = dgrams[k]
          \/ dgrams'[k] = NewData(c)
    BY <1>1, <2>1, AppendElements DEF AsmTypeOK
  <2> QED BY <1>0, <1>1, <2>1, <2>2
<1>2. CASE dgrams' = dgrams
  BY <1>0, <1>2
<1>3. CASE Arrive /\ dgrams' # dgrams
  <2>1. InFlight /\ wr \in Chunk /\ process_dgram_asm(wr)
    BY <1>3, ArriveCases DEF asmVars
  <2>2. Accepts(wr) /\ wr.last
    BY <1>3, <2>1, AsmCases DEF Accepts, Rejects, AsmTypeOK
  <2>3. dgrams' = Append(dgrams, NewData(wr))
    BY <2>2 DEF Accepts, NewData
  <2>4. NewData(wr) = Begin(wr.d, wr.i)
    BY <1>0, <2>1, <2>2, ArrivalExtends DEF NewData
  <2>5. wr.i = Size[wr.d]
    BY <2>1, <2>2 DEF SenderInv, Marked
  <2> QED BY <1>1, <2>1, <2>3, <2>4, <2>5
<1>4. CASE ArriveAgain /\ dgrams' # dgrams
  <2>1. echo # NoChunk /\ process_dgram_asm(echo) /\ echo \in Chunk
        /\ Marked(echo)
    BY <1>4 DEF ArriveAgain, EchoInv
  <2>2. /\ echo.first /\ echo.last
        /\ dgrams' = Append(dgrams, Append(<<>>, <<echo.d, echo.i>>))
    BY <1>4, <2>1, RepeatCases DEF Rejects
  <2>3. echo.i = 1 /\ Size[echo.d] = 1 /\ echo.d \in Dgram
    BY <2>1, <2>2, ChunkFields DEF Marked
  <2>4. NewData(echo) = Begin(echo.d, Size[echo.d])
    BY <2>2, <2>3, BeginLemma DEF NewData
  <2>5. dgrams' = Append(dgrams, NewData(echo))
    BY <2>2 DEF NewData
  <2> QED BY <1>1, <2>1, <2>4, <2>5
<1>5. dgrams' = dgrams \/ Arrive \/ ArriveAgain
  BY DEF PathNext, Send, Lose, Connect, GattEthResetRx, allVars, asmVars
<1> QED BY <1>2, <1>3, <1>4, <1>5

\* A step of the sender keeps to what the receiver expects next; after a
\* reset, the first chunk of a datagram comes.
LEMMA SendSync ==
  ASSUME TypeInv, CallbackInv, SenderInv, TxStep \/ UNCHANGED vars, link',
         NEW d \in Dgram, NEW i \in Nat \ {0}, NEW s \in Seqs
  PROVE  /\ link
         /\ Continues(d, i, s) => Continues(d, i, s)'
         /\ ~gatt_conn_reset =>
              /\ Exactly(d, i, s) => Exactly(d, i, s)'
              /\ Skipped(s) => Skipped(s)'
<1> USE DEF connVars, gattVars
<1>1. link /\ (~TaskWriteOk => wr' = wr)
  BY DEF TxStep, Callback, BLE_TCP_Task, Timer, GattCb, MainThread,
       RouterDeliver, CallbackBlock, CallbackPending, CallbackNotify, TaskWait,
       TaskCheck, TaskLock, TaskSend, TaskWriteOk, TaskWriteFail, TimerFire,
       TimerNotify, CompleteClear, CompleteNotify, RxAck, LinkDown,
       StatusUp, gatt_conn_reset, StatusDown, vars
<1>2. [Next]_vars
  BY DEF Next
<1>3. CASE TaskWriteOk
  <2>1. CASE snd_blk = NoChunk
    <3>1. ~InFlight /\ ~InFlight' /\ FirstNext' /\ tx_ptr = 0
      BY <1>3, <2>1, WriteNext, WriteFields
    <3>2. ~Exactly(d, i, s)
      BY <2>1, <3>1 DEF Exactly, ChunkNext
    <3> QED BY <1>1, <3>1, <3>2 DEF Continues, Skipped
  <2>2. CASE snd_blk # NoChunk
    <3>1. /\ ~InFlight /\ InFlight'
          /\ wr'.d = snd_blk.d /\ wr'.i = snd_blk.i
          /\ wr'.first = snd_blk.first /\ wr'.seq = tx_index_blk
      BY <1>3, <2>2, WriteNext, WriteFields
    <3>2. FirstNext => wr'.first
      BY <2>2, <3>1 DEF FirstNext
    <3>3. ChunkNext(d, i, s) => wr'.d = d /\ wr'.i = i + 1 /\ wr'.seq = s
      BY <2>2, <3>1 DEF ChunkNext
    <3> QED BY <1>1, <3>1, <3>2, <3>3 DEF Exactly, Continues, Skipped
  <2> QED BY <2>1, <2>2
<1>4. CASE gatt_conn_reset
  <2>1. FirstNext' /\ wr' = wr
    BY <1>4, ResetNext DEF gatt_conn_reset
  <2> QED BY <1>1, <1>4, <2>1 DEF Continues, InFlight
<1>5. CASE ~TaskWriteOk /\ ~gatt_conn_reset
  <2>1. /\ FirstNext => FirstNext'
        /\ tx_index_blk' = tx_index_blk
        /\ ChunkNext(d, i, s) => ChunkNext(d, i, s)'
    BY <1>2, <1>5, NextKept
  <2> QED BY <1>1, <1>5, <2>1 DEF Exactly, Continues, Skipped, InFlight
<1> QED BY <1>3, <1>4, <1>5

\* The receiver has got chunk i of datagram d, and expects number s next.
At(d, i, s) ==
  /\ rx_data[Len(rx_data)][1] = d /\ rx_data[Len(rx_data)][2] = i
  /\ NextSeq(rx_prev_seq) = s

Sync(d, i, s) ==
  /\ losses = 0 /\ ~early => Exactly(d, i, s)
  /\ losses = 0 => Continues(d, i, s)
  /\ losses = 1 /\ ~early => Continues(d, i, s) \/ Skipped(s)

LEMMA AtLemma ==
  ASSUME TypeInv, AsmTypeOK, PartInv, Detectable, rx_pbuf
  PROVE  \E d \in Dgram, i \in Nat \ {0}, s \in Seqs : At(d, i, s)
<1>1. NextSeq(rx_prev_seq) \in Seqs
  BY SeqsLemma DEF AsmTypeOK
<1> QED BY <1>1, PartLemma DEF At

\* When the end of a write changes nothing at the receiver, a chunk was lost
\* or no chunk was in flight.
LEMMA DoneSync ==
  ASSUME TypeInv, WriteDone, FollowInv,
         NEW d \in Dgram, NEW i \in Nat \ {0}, NEW s \in Seqs
  PROVE  /\ ~InFlight' /\ link' = link
         /\ ~InFlight =>
              /\ Exactly(d, i, s) => Exactly(d, i, s)'
              /\ Continues(d, i, s) => Continues(d, i, s)'
              /\ Skipped(s) => Skipped(s)'
         /\ InFlight /\ Exactly(d, i, s) =>
              Continues(d, i, s)' \/ Skipped(s)'
         /\ InFlight /\ d = wr.d /\ i = wr.i /\ s = NextSeq(wr.seq) =>
              /\ Continues(d, i, s)'
              /\ ~early /\ ~wr.last => Exactly(d, i, s)'
<1>1. /\ ~InFlight' /\ link' = link
      /\ UNCHANGED <<snd_blk, tx_index_blk, tx_ptr, tx_rst, current_tx_block>>
  BY DEF WriteDone, InFlight, connVars, ethVars, tcpVars
<1>2. /\ FirstNext' <=> FirstNext
      /\ ChunkNext(d, i, s)' <=> ChunkNext(d, i, s)
      /\ tx_index_blk' = tx_index_blk
  BY <1>1 DEF FirstNext, ChunkNext
<1>3. CASE ~InFlight
  BY <1>1, <1>2, <1>3 DEF Exactly, Continues, Skipped
<1>4. CASE InFlight
  <2>1. FirstNext \/ ChunkNext(wr.d, wr.i, NextSeq(wr.seq))
    BY <1>4 DEF FollowInv
  <2>2. ~early /\ ~wr.last => ChunkNext(wr.d, wr.i, NextSeq(wr.seq))
    BY <1>4 DEF FollowInv
  <2>3. Exactly(d, i, s) => Continues(d, i, s)' \/ Skipped(s)'
    BY <1>1, <1>2, <1>4, <2>1 DEF Exactly, Continues, Skipped, ChunkNext
  <2>4. d = wr.d /\ i = wr.i /\ s = NextSeq(wr.seq) =>
          /\ Continues(d, i, s)'
          /\ ~early /\ ~wr.last => Exactly(d, i, s)'
    BY <1>1, <1>2, <1>4, <2>1, <2>2 DEF Exactly, Continues
  <2> QED BY <1>1, <1>4, <2>3, <2>4
<1> QED BY <1>1, <1>3, <1>4

\* What comes next is known to the receiver.
LEMMA SyncNext ==
  ASSUME TypeInv, CallbackInv, SenderInv, AsmTypeOK, EchoInv, EarlyInv,
         FollowInv, PartInv, PartInv', AsmTypeOK', TypeInv', SyncInv,
         losses \in Nat, early \in BOOLEAN, [PathNext]_allVars
  PROVE  SyncInv'
<1>0. /\ early' \in BOOLEAN /\ (early => early') /\ losses' \in Nat
      /\ Detectable' => Detectable
  BY EarlyKept
<1> SUFFICES ASSUME rx_pbuf', ~eth_rst_req_rx', link', Detectable',
                    NEW d \in Dgram, NEW i \in Nat \ {0}, NEW s \in Seqs,
                    At(d, i, s)'
             PROVE  Sync(d, i, s)'
  <2> SUFFICES ASSUME rx_pbuf', ~eth_rst_req_rx', link', Detectable'
               PROVE  LET d == rx_data[Len(rx_data)][1]
                          i == rx_data[Len(rx_data)][2]
                          s == NextSeq(rx_prev_seq)
                      IN Sync(d, i, s)'
    <3>1. CASE ~Detectable'
      BY <1>0, <3>1 DEF SyncInv, Detectable
    <3>2. CASE Detectable'
      BY <3>2 DEF SyncInv, Sync
    <3> QED BY <3>1, <3>2
  <2>1. \E d \in Dgram, i \in Nat \ {0}, s \in Seqs : At(d, i, s)'
    <3>1. (\E d \in Dgram, i \in Nat \ {0}, s \in Seqs : At(d, i, s))'
      BY AtLemma, PTL
    <3> QED BY <3>1
  <2> QED BY <2>1 DEF At, Sync
<1>1. rx_pbuf /\ ~eth_rst_req_rx /\ link /\ At(d, i, s) => Sync(d, i, s)
  BY DEF SyncInv, Sync, At
<1>2. CASE Send \/ UNCHANGED allVars
  <2>1. /\ TxStep \/ UNCHANGED vars
        /\ UNCHANGED <<rx_pbuf, rx_data, rx_prev_seq, eth_rst_req_rx, losses>>
    BY <1>2 DEF Send, allVars, asmVars, pathVars
  <2>2. rx_pbuf /\ ~eth_rst_req_rx /\ link /\ At(d, i, s)
    BY <2>1, SendSync DEF At
  <2>3. ~early => ~gatt_conn_reset
    BY <2>2 DEF EarlyInv, gatt_conn_reset
  <2>4. /\ Continues(d, i, s) => Continues(d, i, s)'
        /\ ~early => /\ Exactly(d, i, s) => Exactly(d, i, s)'
                     /\ Skipped(s) => Skipped(s)'
    BY <2>1, <2>3, SendSync
  <2> QED BY <1>0, <1>1, <2>1, <2>2, <2>4 DEF Sync
<1>3. CASE Arrive
  <2>1. UNCHANGED <<losses, early>> /\ WriteDone
    BY <1>3, ArriveCases DEF Arrive
  <2>2. CASE ~InFlight
    <3>1. UNCHANGED <<rx_pbuf, rx_data, rx_prev_seq, eth_rst_req_rx, link>>
      BY <1>3, <2>2, ArriveCases DEF asmVars
    <3>2. rx_pbuf /\ ~eth_rst_req_rx /\ link /\ At(d, i, s)
      BY <3>1 DEF At
    <3> QED BY <1>1, <2>1, <2>2, <3>2, DoneSync DEF Sync
  <2>3. CASE InFlight
    <3>1. Accepts(wr) /\ rx_prev_seq' = wr.seq /\ wr \in Chunk
      BY <1>3, <2>3, ArriveCases, AsmCases DEF Rejects, AsmTypeOK
    <3>2. ~wr.last /\ rx_data' = NewData(wr)
      BY <3>1 DEF Accepts, NewData
    <3>3. rx_data' = Begin(wr.d, wr.i) /\ wr.d \in Dgram /\ wr.i \in Nat \ {0}
      BY <1>0, <2>3, <3>1, <3>2, ArrivalExtends, FlightChunk DEF NewData
    <3>4. rx_data'[Len(rx_data')] = <<wr.d, wr.i>>
      BY <3>3, BeginLemma DEF Begin
    <3>5. d = wr.d /\ i = wr.i /\ s = NextSeq(wr.seq)
      BY <3>1, <3>4 DEF At
    <3>6. Continues(d, i, s)' /\ (~early => Exactly(d, i, s)')
      BY <2>1, <2>3, <3>2, <3>5, DoneSync
    <3> QED BY <2>1, <3>6 DEF Sync
  <2> QED BY <2>2, <2>3
<1>4. CASE ArriveAgain
  <2>1. UNCHANGED <<rx_pbuf, rx_data, rx_prev_seq, eth_rst_req_rx>>
    BY <1>4, RepeatCases DEF ArriveAgain, Rejects
  <2>2. UNCHANGED <<vars, losses, early>>
    BY <1>4 DEF ArriveAgain
  <2>3. rx_pbuf /\ ~eth_rst_req_rx /\ link /\ At(d, i, s)
    BY <2>1, <2>2 DEF At, vars, connVars
  <2>4. Sync(d, i, s)
    BY <1>1, <2>3
  <2>5. UNCHANGED <<wr, snd_blk, tx_index_blk, tx_ptr, tx_rst,
                    current_tx_block, losses, early>>
    BY <2>2 DEF vars, gattVars, tcpVars, ethVars
  <2> QED BY <2>4, <2>5 DEF Sync, Exactly, Continues, Skipped, InFlight,
                            FirstNext, ChunkNext
<1>5. CASE Lose
  <2>1. /\ WriteDone /\ losses' = losses + 1
        /\ UNCHANGED <<rx_pbuf, rx_data, rx_prev_seq, eth_rst_req_rx, early>>
    BY <1>5 DEF Lose, asmVars
  <2>2. rx_pbuf /\ ~eth_rst_req_rx /\ link /\ At(d, i, s)
    BY <2>1, DoneSync DEF At
  <2>3. losses = 0 /\ ~early
    BY <2>1 DEF Detectable
  <2>4. Exactly(d, i, s)
    BY <1>1, <2>2, <2>3 DEF Sync
  <2>5. Continues(d, i, s)' \/ Skipped(s)'
    BY <2>1, <2>4, DoneSync DEF Exactly, Continues
  <2> QED BY <2>1, <2>3, <2>5 DEF Sync
<1>6. CASE Connect
  BY <1>6 DEF Connect, GattEthResetRx
<1> QED BY <1>2, <1>3, <1>4, <1>5, <1>6 DEF PathNext

-----------------------------------------------------------------------------
(***************************************************************************)
(* The two ends together: the order                                        *)
(***************************************************************************)
LEMMA TailLemma ==
  ASSUME NEW S, NEW q \in Seq(S), q # <<>>
  PROVE  /\ DOMAIN q = 1 .. Len(q) /\ DOMAIN Tail(q) = 1 .. Len(q) - 1
         /\ Len(q) \in Nat \ {0}
         /\ \A i \in DOMAIN Tail(q) : i + 1 \in DOMAIN q /\ Tail(q)[i] = q[i + 1]
<1>1. Tail(q) \in Seq(S) /\ Len(Tail(q)) = Len(q) - 1
      /\ \A i \in 1 .. Len(Tail(q)) : Tail(q)[i] = q[i + 1]
  BY HeadTailProperties
<1>2. /\ DOMAIN q = 1 .. Len(q) /\ DOMAIN Tail(q) = 1 .. Len(q) - 1
      /\ Len(q) \in Nat \ {0}
  BY <1>1, LenProperties, EmptySeq
<1> QED BY <1>1, <1>2

\* All bounds are lower bounds.
LEMMA FromLess ==
  ASSUME TypeInv, NEW a \in Nat, NEW b \in Nat, a <= b
  PROVE  /\ RouterFrom(b) => RouterFrom(a)
         /\ BlockFrom(b) => BlockFrom(a)
         /\ WaitingFrom(b) => WaitingFrom(a)
         /\ ComingFrom(b) => ComingFrom(a)
<1>1. /\ \A i \in DOMAIN q_output : q_output[i] \in Nat
      /\ cbk_blk \in Nat /\ routed \in Nat /\ current_tx_block \in Nat
      /\ snd_blk # NoChunk => snd_blk.d \in Nat
      /\ InFlight => wr.d \in Nat
  BY SizeLemma, ChunkFields, FlightChunk, SMTT(30)
  DEF TypeInv, RouterTypes, EthTypes, ChunkTypes, NoDgram
<1> QED BY <1>1 DEF RouterFrom, BlockFrom, WaitingFrom, ComingFrom

\* What the queue and the router hold only becomes later.
LEMMA RouterFromKept ==
  ASSUME TypeInv, CallbackInv, SenderInv, SendOrder, [Next]_vars, NEW b \in Nat
  PROVE  /\ RouterFrom(b) => RouterFrom(b)'
         /\ BlockFrom(b) => BlockFrom(b)'
<1> USE DEF routerVars, ethVars
<1>0. /\ q_output \in Seq(Dgram) /\ routed \in Nat /\ cbk_blk \in Nat
      /\ DOMAIN q_output = 1 .. Len(q_output) /\ Len(q_output) \in Nat
      /\ Dgram \subseteq Nat /\ NoDgram \notin Dgram
  BY SizeLemma, LenProperties DEF TypeInv, RouterTypes, NoDgram
<1>1. CASE RouterDeliver
  <2>1. current_tx_block' = current_tx_block /\ routed' = routed + 1
        /\ routed + 1 \in Dgram
    BY <1>0, <1>1, SizeLemma DEF RouterDeliver
  <2>2. RouterFrom(b) => RouterFrom(b)'
    <3> SUFFICES ASSUME RouterFrom(b) PROVE RouterFrom(b)'
      OBVIOUS
    <3>1. b <= routed'  + 1 /\ (cbk_blk' # NoDgram => b <= cbk_blk')
      BY <1>0, <1>1, <2>1 DEF RouterDeliver, RouterFrom
    <3>2. CASE q_output' = q_output
      BY <3>1, <3>2 DEF RouterFrom
    <3>3. CASE q_output' = Append(q_output, routed + 1)
      <4>1. \A i \in DOMAIN q_output' :
              \/ i \in DOMAIN q_output /\ q_output'[i] = q_output[i]
              \/ q_output'[i] = routed + 1
        BY <1>0, <2>1, <3>3, AppendElements
      <4> QED BY <3>1, <4>1 DEF RouterFrom
    <3> QED BY <1>1, <3>2, <3>3 DEF RouterDeliver
  <2> QED BY <2>1, <2>2 DEF BlockFrom
<1>2. CASE CallbackBlock
  BY <1>0, <1>2 DEF CallbackBlock, RouterFrom, BlockFrom, SendOrder
<1>3. CASE TaskLock
  <2>1. UNCHANGED <<routed, cbk_blk>>
    BY <1>3 DEF TaskLock
  <2>2. CASE q_output' = q_output
    <3>1. current_tx_block' \in {current_tx_block, NoDgram}
      <4>1. q_output # <<>> => Tail(q_output) # q_output
        <5> SUFFICES ASSUME q_output # <<>>, Tail(q_output) = q_output
                     PROVE  FALSE
          OBVIOUS
        <5>1. Len(Tail(q_output)) = Len(q_output) - 1
          BY <1>0, HeadTailProperties
        <5> QED BY <1>0, <5>1
      <4> QED BY <1>3, <2>2, <4>1, TaskLockCases DEF Cut
    <3> QED BY <2>1, <2>2, <3>1 DEF RouterFrom, BlockFrom
  <2>3. CASE q_output' # q_output
    <3>1. /\ q_output # <<>> /\ Cut(q_output[1], 0) /\ q_output' = Tail(q_output)
      BY <1>3, <2>3, TaskLockCases
    <3>2. /\ 1 \in DOMAIN q_output
          /\ \A i \in DOMAIN q_output' :
               i + 1 \in DOMAIN q_output /\ q_output'[i] = q_output[i + 1]
      BY <1>0, <3>1, TailLemma
    <3> QED BY <2>1, <3>1, <3>2 DEF RouterFrom, BlockFrom, Cut
  <2> QED BY <2>2, <2>3
<1>4. CASE UNCHANGED <<routed, q_output, cbk_blk, current_tx_block>>
  BY <1>4 DEF RouterFrom, BlockFrom
<1>5. \/ UNCHANGED <<routed, q_output, cbk_blk, current_tx_block>>
      \/ RouterDeliver \/ CallbackBlock \/ TaskLock
  BY DEF Next, TxStep, Callback, BLE_TCP_Task, Timer, GattCb, MainThread,
       CallbackPending, CallbackNotify, TaskWait, TaskCheck, TaskSend,
       TaskWriteOk, TaskWriteFail, TimerFire, TimerNotify, WriteDone,
       CompleteClear, CompleteNotify, RxAck, LinkUp, LinkDown, StatusUp,
       gatt_conn_reset, StatusDown, vars
<1> QED BY <1>1, <1>2, <1>3, <1>4, <1>5

\* So does what waits and what is in flight.
LEMMA ComingFromKept ==
  ASSUME TypeInv, CallbackInv, SenderInv, SendOrder, [Next]_vars, NEW b \in Nat
  PROVE  /\ WaitingFrom(b) => WaitingFrom(b)'
         /\ ComingFrom(b) => ComingFrom(b)'
<1>1. BlockFrom(b) => BlockFrom(b)'
  BY RouterFromKept
<1>2. WaitingFrom(b) => WaitingFrom(b)'
  <2> SUFFICES ASSUME WaitingFrom(b), snd_blk' # NoChunk PROVE b <= snd_blk'.d
    BY <1>1 DEF WaitingFrom
  <2>1. CASE snd_blk' = snd_blk
    BY <2>1 DEF WaitingFrom
  <2>2. CASE snd_blk' # snd_blk
    <3>1. TaskLock
      BY <2>2 DEF Next, TxStep, Callback, BLE_TCP_Task, Timer, GattCb,
       MainThread, RouterDeliver, CallbackBlock, CallbackPending,
       CallbackNotify, TaskWait, TaskCheck, TaskSend, TaskWriteOk,
       TaskWriteFail, TimerFire, TimerNotify, WriteDone, CompleteClear,
       CompleteNotify, RxAck, LinkUp, LinkDown, StatusUp, gatt_conn_reset,
       StatusDown, vars, tcpVars
    <3>2. \/ current_tx_block \in Dgram /\ snd_blk'.d = current_tx_block
          \/ /\ q_output # <<>> /\ snd_blk'.d = q_output[1]
      BY <2>2, <3>1, TaskLockCases DEF Cut
    <3>3. q_output # <<>> => 1 \in DOMAIN q_output
      BY TailLemma DEF TypeInv, RouterTypes
    <3>4. NoDgram \notin Dgram
      BY SizeLemma DEF NoDgram
    <3> QED BY <3>2, <3>3, <3>4 DEF WaitingFrom, BlockFrom, RouterFrom
  <2> QED BY <2>1, <2>2
<1>3. ComingFrom(b) => ComingFrom(b)'
  <2> SUFFICES ASSUME ComingFrom(b), InFlight' PROVE b <= wr'.d
    BY <1>2 DEF ComingFrom
  <2>1. CASE TaskWriteOk
    BY <2>1, WriteFields DEF ComingFrom, WaitingFrom
  <2>2. CASE ~TaskWriteOk
    BY <2>2, FlightKept DEF ComingFrom, InFlight
  <2> QED BY <2>1, <2>2
<1> QED BY <1>2, <1>3

LEMMA BehindLemma ==
  \A c \in Chunk : c.d \in Nat /\ Behind(c) \in Nat /\ c.d <= Behind(c)
BY ChunkFields, SizeLemma DEF Behind

\* The router's queue and the datagram it hands over, in order.
QueueOrder ==
  /\ callback_pending => q_output = <<>>
  /\ cbk_blk # NoDgram <=> "block" \in cbk_stores
  /\ \A i, j \in DOMAIN q_output : i < j => q_output[i] < q_output[j]
  /\ \A i \in DOMAIN q_output :
       q_output[i] <= routed /\ (cbk_blk # NoDgram => cbk_blk < q_output[i])
  /\ cbk_blk <= routed

LEMMA QueueOrderNext ==
  ASSUME TypeInv, CallbackInv, SenderInv, QueueOrder, [Next]_vars
  PROVE  QueueOrder'
<1> USE DEF routerVars, ethVars
<1>0. /\ q_output \in Seq(Dgram) /\ routed \in Nat /\ cbk_blk \in Nat
      /\ DOMAIN q_output = 1 .. Len(q_output) /\ Len(q_output) \in Nat
      /\ Dgram \subseteq Nat /\ NoDgram \notin Dgram
      /\ \A i \in DOMAIN q_output : q_output[i] \in Nat
  BY SizeLemma, LenProperties DEF TypeInv, RouterTypes, NoDgram
<1>1. CASE RouterDeliver
  <2>1. routed' = routed + 1 /\ routed + 1 \in Dgram /\ routed + 1 # NoDgram
    BY <1>0, <1>1, SizeLemma DEF RouterDeliver
  <2>2. CASE callback_pending
    <3>1. q_output' = <<>> /\ callback_pending' = FALSE /\ cbk_blk' = routed + 1
          /\ "block" \in cbk_stores'
      BY <1>1, <2>2 DEF RouterDeliver, QueueOrder
    <3>2. DOMAIN q_output' = {}
      BY <3>1
    <3> QED BY <1>0, <2>1, <3>1, <3>2 DEF QueueOrder
  <2>3. CASE ~callback_pending
    <3>1. /\ UNCHANGED <<callback_pending, cbk_blk, cbk_stores>>
          /\ cbk_stores = {} /\ cbk_blk = NoDgram
      BY <1>1, <2>3 DEF RouterDeliver, QueueOrder
    <3>2. CASE q_output' = q_output
      BY <1>0, <2>1, <2>3, <3>1, <3>2 DEF QueueOrder
    <3>3. CASE q_output' = Append(q_output, routed + 1)
      <4>1. /\ DOMAIN q_output' = 1 .. Len(q_output) + 1
            /\ q_output'[Len(q_output) + 1] = routed + 1
            /\ \A i \in 1 .. Len(q_output) : q_output'[i] = q_output[i]
        BY <1>0, <2>1, <3>3, AppendElements, LenProperties
      <4>2. \A i, j \in DOMAIN q_output' :
              i < j => q_output'[i] < q_output'[j]
        BY <1>0, <4>1 DEF QueueOrder
      <4>3. \A i \in DOMAIN q_output' : q_output'[i] <= routed'
        BY <1>0, <2>1, <4>1 DEF QueueOrder
      <4> QED BY <1>0, <2>1, <2>3, <3>1, <4>2, <4>3 DEF QueueOrder
    <3> QED BY <1>1, <2>3, <3>2, <3>3 DEF RouterDeliver
  <2> QED BY <2>2, <2>3
<1>2. CASE CallbackBlock
  BY <1>0, <1>2 DEF CallbackBlock, QueueOrder, NoDgram
<1>3. CASE CallbackPending \/ CallbackNotify
  BY <1>3 DEF CallbackPending, CallbackNotify, QueueOrder
<1>4. CASE TaskLock
  <2>1. UNCHANGED <<routed, cbk_blk, cbk_stores>>
    BY <1>4 DEF TaskLock
  <2>2. CASE q_output' = q_output /\ callback_pending' = callback_pending
    BY <2>1, <2>2 DEF QueueOrder
  <2>3. CASE q_output' = q_output /\ q_output = <<>>
    BY <2>1, <2>3 DEF QueueOrder
  <2>4. CASE /\ q_output # <<>> /\ q_output' = Tail(q_output)
             /\ callback_pending' = callback_pending
    <3>1. /\ Len(q_output) # 0
          /\ DOMAIN q_output' = 1 .. Len(q_output) - 1
          /\ \A i \in DOMAIN q_output' :
               i + 1 \in DOMAIN q_output /\ q_output'[i] = q_output[i + 1]
      BY <1>0, <2>4, TailLemma
    <3>2. ~callback_pending'
      BY <2>4 DEF QueueOrder, TypeInv, FlagTypes, HandTypes
    <3>3. \A i, j \in DOMAIN q_output' : i < j => q_output'[i] < q_output'[j]
      BY <1>0, <3>1 DEF QueueOrder
    <3>4. \A i \in DOMAIN q_output' :
            /\ q_output'[i] <= routed
            /\ cbk_blk # NoDgram => cbk_blk < q_output'[i]
      BY <3>1 DEF QueueOrder
    <3> QED BY <2>1, <3>2, <3>3, <3>4 DEF QueueOrder
  <2> QED BY <1>4, <2>2, <2>3, <2>4, TaskLockCases
<1>5. CASE UNCHANGED routerVars
  BY <1>5 DEF QueueOrder
<1>6. UNCHANGED routerVars \/ TaskLock \/ RouterDeliver \/ Callback
  BY DEF Next, TxStep, BLE_TCP_Task, TaskWait, TaskCheck, TaskSend, TaskWriteOk,
         TaskWriteFail, Timer, TimerFire, TimerNotify, GattCb, CompleteClear,
         CompleteNotify, MainThread, StatusUp, gatt_conn_reset, StatusDown,
         LinkDown, RxAck, WriteDone, LinkUp, vars
<1> QED BY <1>1, <1>2, <1>3, <1>4, <1>5, <1>6 DEF Callback

\* What is cut from the queue or the block leaves later datagrams behind.
LEMMA CutOrder ==
  ASSUME TypeInv, CallbackInv, SenderInv, SendOrder, [Next]_vars, TaskLock,
         NEW b \in Dgram, NEW k \in Nat, k < Size[b], Cut(b, k),
         RouterFrom(b + 1)'
  PROVE  /\ current_tx_block' # NoDgram => RouterFrom(current_tx_block + 1)'
         /\ BlockFrom(Behind(snd_blk))'
<1>1. b \in Nat /\ b # NoDgram /\ Size[b] \in Nat
  BY SizeLemma DEF NoDgram
<1>2. TypeInv'
  BY RouterTypesNext, EthTypesNext, ChunkTypesNext, HandTypesNext,
     TaskTypesNext, WakeTypesNext, ThreadTypesNext, ConnsNext
  DEF TypeInv, FlagTypes
<1>3. RouterFrom(b)'
  <2>1. /\ \A i \in DOMAIN q_output' : q_output'[i] \in Nat
        /\ cbk_blk' \in Nat /\ routed' \in Nat
    BY <1>2, SizeLemma, LenProperties, SMTT(30) DEF TypeInv, RouterTypes, NoDgram
  <2>2. /\ \A i \in DOMAIN q_output' : b + 1 <= q_output'[i]
        /\ cbk_blk' # NoDgram => b + 1 <= cbk_blk'
        /\ b + 1 <= routed' + 1
    BY DEF RouterFrom
  <2>3. \A i \in DOMAIN q_output' : b <= q_output'[i]
    BY <1>1, <2>1, <2>2
  <2>4. cbk_blk' # NoDgram => b <= cbk_blk'
    BY <1>1, <2>1, <2>2
  <2>5. b <= routed' + 1
    <3>1. PICK r \in Nat, c \in Nat : r = routed' /\ c = b
      BY <1>1, <2>1
    <3>2. c + 1 <= r + 1
      BY <2>2, <3>1
    <3>3. c <= r + 1
      BY <3>2
    <3> QED BY <3>1, <3>3
  <2> QED BY <2>3, <2>4, <2>5 DEF RouterFrom
<1>4. CASE k + 1 = Size[b]
  <2>1. current_tx_block' = NoDgram /\ Behind(snd_blk)' = b + 1
    BY <1>4 DEF Cut, Behind
  <2> QED BY <2>1 DEF BlockFrom, RouterFrom
<1>5. CASE k + 1 # Size[b]
  <2>1. current_tx_block' = b /\ Behind(snd_blk)' = b
    BY <1>5 DEF Cut, Behind
  <2> QED BY <1>1, <1>3, <2>1 DEF BlockFrom, RouterFrom
<1> QED BY <1>4, <1>5

\* The sender keeps the router's order.
LEMMA SendOrderNext ==
  ASSUME TypeInv, CallbackInv, SenderInv, SendOrder, [Next]_vars
  PROVE  SendOrder'
<1> USE DEF routerVars, ethVars
<1>0. /\ q_output \in Seq(Dgram) /\ routed \in Nat /\ cbk_blk \in Nat
      /\ DOMAIN q_output = 1 .. Len(q_output) /\ Len(q_output) \in Nat
      /\ Dgram \subseteq Nat /\ NoDgram \notin Dgram
      /\ \A i \in DOMAIN q_output : q_output[i] \in Nat
      /\ current_tx_block # NoDgram => current_tx_block + 1 \in Nat
      /\ snd_blk # NoChunk => Behind(snd_blk) \in Nat
      /\ InFlight => Behind(wr) \in Nat
  BY SizeLemma, LenProperties, BehindLemma
  DEF TypeInv, RouterTypes, EthTypes, ChunkTypes, InFlight, NoDgram
<1>1. QueueOrder'
  BY QueueOrderNext DEF QueueOrder, SendOrder
<1>2. /\ current_tx_block' # NoDgram => RouterFrom(current_tx_block + 1)'
      /\ snd_blk' # NoChunk => BlockFrom(Behind(snd_blk))'
  <2>1. current_tx_block' = current_tx_block /\ current_tx_block' # NoDgram
          => RouterFrom(current_tx_block + 1)'
    <3> SUFFICES ASSUME current_tx_block' = current_tx_block,
                        current_tx_block' # NoDgram
                 PROVE  RouterFrom(current_tx_block + 1)'
      OBVIOUS
    <3>1. PICK b \in Nat : b = current_tx_block + 1
      BY <1>0
    <3>2. RouterFrom(b)'
      BY <3>1, RouterFromKept DEF SendOrder
    <3> QED BY <3>1, <3>2
  <2>2. snd_blk' = snd_blk /\ snd_blk' # NoChunk => BlockFrom(Behind(snd_blk))'
    <3> SUFFICES ASSUME snd_blk' = snd_blk, snd_blk' # NoChunk
                 PROVE  BlockFrom(Behind(snd_blk))'
      OBVIOUS
    <3>1. PICK b \in Nat : b = Behind(snd_blk)
      BY <1>0
    <3>2. BlockFrom(b)'
      BY <3>1, RouterFromKept DEF SendOrder
    <3>3. Behind(snd_blk') = b
      BY <3>1
    <3> QED BY <3>2, <3>3
  <2>3. CASE TaskLock
    <3>0. UNCHANGED <<routed, cbk_blk>>
      BY <2>3 DEF TaskLock
    <3>1. CASE UNCHANGED <<snd_blk, current_tx_block>>
      BY <2>1, <2>2, <3>1
    <3>2. ASSUME current_tx_block \in Dgram,
                 NEW k \in Nat, k < Size[current_tx_block],
                 Cut(current_tx_block, k)
          PROVE  /\ current_tx_block' # NoDgram =>
                      RouterFrom(current_tx_block + 1)'
                 /\ BlockFrom(Behind(snd_blk))'
      <4>1. PICK b \in Dgram : b = current_tx_block
        BY <3>2
      <4>2. RouterFrom(b + 1)
        BY <1>0, <4>1 DEF SendOrder
      <4>3. b + 1 \in Nat
        BY <1>0
      <4>4. RouterFrom(b + 1)'
        BY <4>2, <4>3, RouterFromKept
      <4> QED BY <2>3, <3>2, <4>1, <4>4, CutOrder
    <3>3. ASSUME current_tx_block = NoDgram, ~cbk_pending, q_output # <<>>,
                 q_output[1] \in Dgram, Cut(q_output[1], 0),
                 q_output' = Tail(q_output)
          PROVE  /\ current_tx_block' # NoDgram =>
                      RouterFrom(current_tx_block + 1)'
                 /\ BlockFrom(Behind(snd_blk))'
      <4>1. PICK b \in Dgram : b = q_output[1]
        BY <3>3
      <4>2. cbk_blk = NoDgram
        BY <3>3 DEF SendOrder, CallbackInv
      <4>3. 1 \in DOMAIN q_output /\ b \in Nat /\ b <= routed
        BY <1>0, <3>3, <4>1, TailLemma DEF SendOrder
      <4>4. \A i \in DOMAIN q_output' : b + 1 <= q_output'[i]
        <5> SUFFICES ASSUME NEW i \in DOMAIN q_output'
                     PROVE  b + 1 <= q_output'[i]
          OBVIOUS
        <5>1. /\ i \in 1 .. Len(q_output) - 1 /\ i + 1 \in DOMAIN q_output
              /\ q_output'[i] = q_output[i + 1]
          BY <1>0, <3>3, TailLemma
        <5>2. b < q_output[i + 1]
          BY <4>1, <4>3, <5>1 DEF SendOrder
        <5>3. q_output[i + 1] \in Nat
          BY <1>0, <5>1
        <5> QED BY <4>3, <5>1, <5>2, <5>3
      <4>5. b + 1 <= routed + 1
        BY <1>0, <4>3
      <4>6. RouterFrom(b + 1)'
        BY <3>0, <4>2, <4>4, <4>5 DEF RouterFrom
      <4>7. 0 < Size[b]
        BY SizeLemma
      <4> QED BY <2>3, <3>3, <4>1, <4>6, <4>7, CutOrder
    <3> QED BY <2>3, <3>1, <3>2, <3>3, TaskLockCases
  <2>4. CASE CallbackBlock
    <3>1. /\ current_tx_block' = cbk_blk /\ cbk_blk' = NoDgram
          /\ UNCHANGED <<routed, q_output, snd_blk>>
          /\ cbk_blk \in Nat /\ cbk_blk # NoDgram /\ cbk_blk <= routed
      BY <1>0, <2>4 DEF CallbackBlock, tcpVars, SendOrder
    <3>2. \A i \in DOMAIN q_output : cbk_blk + 1 <= q_output[i]
      BY <1>0, <3>1 DEF SendOrder
    <3>3. cbk_blk + 1 <= routed + 1
      BY <1>0, <3>1
    <3>4. RouterFrom(current_tx_block + 1)'
      BY <3>1, <3>2, <3>3 DEF RouterFrom
    <3> QED BY <2>2, <3>1, <3>4
  <2>5. CASE current_tx_block' = current_tx_block
             /\ snd_blk' \in {snd_blk, NoChunk}
    BY <2>1, <2>2, <2>5
  <2>6. \/ current_tx_block' = current_tx_block
             /\ snd_blk' \in {snd_blk, NoChunk}
        \/ TaskLock \/ CallbackBlock
    BY DEF Next, TxStep, Callback, BLE_TCP_Task, Timer, GattCb, MainThread,
       RouterDeliver, CallbackPending, CallbackNotify, TaskWait, TaskCheck,
       TaskSend, TaskWriteOk, TaskWriteFail, TimerFire, TimerNotify, WriteDone,
       CompleteClear, CompleteNotify, RxAck, LinkUp, LinkDown, StatusUp,
       gatt_conn_reset, StatusDown, vars, tcpVars
  <2> QED BY <2>3, <2>4, <2>5, <2>6
<1>3. InFlight' => WaitingFrom(Behind(wr))'
  <2> SUFFICES ASSUME InFlight' PROVE WaitingFrom(Behind(wr))'
    OBVIOUS
  <2>1. CASE TaskWriteOk
    <3>1. /\ snd_blk # NoChunk /\ snd_blk' = NoChunk
          /\ wr'.d = snd_blk.d /\ wr'.last = snd_blk.last
      BY <2>1, WriteFields DEF TaskWriteOk
    <3>2. PICK b \in Nat : b = Behind(snd_blk)
      BY <1>0, <3>1
    <3>3. BlockFrom(b)'
      BY <3>1, <3>2, RouterFromKept DEF SendOrder
    <3>4. Behind(wr') = b
      BY <3>1, <3>2 DEF Behind
    <3> QED BY <3>1, <3>3, <3>4 DEF WaitingFrom
  <2>2. CASE ~TaskWriteOk
    <3>1. InFlight /\ wr' = wr
      BY <2>2, FlightKept DEF InFlight
    <3>2. PICK b \in Nat : b = Behind(wr)
      BY <1>0, <3>1
    <3>3. WaitingFrom(b)'
      BY <3>1, <3>2, ComingFromKept DEF SendOrder
    <3>4. Behind(wr') = b
      BY <3>1, <3>2
    <3> QED BY <3>3, <3>4
  <2> QED BY <2>1, <2>2
<1> QED BY <1>1, <1>2, <1>3 DEF SendOrder, QueueOrder

\* The numbers of the datagram being put together and of the last one done.
Part == rx_data[1][1]
Done == dgrams[Len(dgrams)][1][1]

EchoOrder == echo # NoChunk => ComingFrom(Behind(echo))
PartOrder ==
  rx_pbuf => ComingFrom(Part) /\ (echo # NoChunk => Part <= echo.d)
DoneOrder ==
  dgrams # <<>> =>
    /\ ComingFrom(Done)
    /\ rx_pbuf => Done <= Part
    /\ echo # NoChunk => Done <= echo.d
    /\ dups = 0 => ComingFrom(Done + 1) /\ (rx_pbuf => Done < Part)

LEMMA ReceiveParts == ReceiveOrder <=> EchoOrder /\ PartOrder /\ DoneOrder
BY DEF ReceiveOrder, EchoOrder, PartOrder, DoneOrder, Part, Done

LEMMA NumberTypes ==
  ASSUME AsmTypeOK, PartInv
  PROVE  /\ rx_pbuf => rx_data # <<>> /\ Part \in Nat
         /\ dgrams # <<>> => Done \in Nat /\ Len(dgrams) \in DOMAIN dgrams
         /\ \A k \in DOMAIN dgrams : dgrams[k][1][1] \in Nat
<1>1. \A s \in Seq(Nat \X Nat) : s # <<>> => s[1][1] \in Nat
  <2> SUFFICES ASSUME NEW s \in Seq(Nat \X Nat), s # <<>> PROVE s[1][1] \in Nat
    OBVIOUS
  <2>1. 1 \in 1 .. Len(s)
    BY EmptySeq
  <2>2. s[1] \in Nat \X Nat
    BY <2>1, ElementOfSeq
  <2> QED BY <2>2
<1>2. /\ rx_data \in Seq(Nat \X Nat)
      /\ dgrams \in Seq(Seq(Nat \X Nat))
      /\ \A k \in DOMAIN dgrams : dgrams[k] # <<>>
      /\ rx_pbuf => rx_data # <<>>
  BY DEF AsmTypeOK, PartInv
<1>3. \A k \in DOMAIN dgrams : dgrams[k] \in Seq(Nat \X Nat)
  BY <1>2, ElementOfSeq, LenProperties
<1>4. dgrams # <<>> => Len(dgrams) \in DOMAIN dgrams
  BY <1>2, LenProperties, EmptySeq
<1> QED BY <1>1, <1>2, <1>3, <1>4 DEF Part, Done

\* Completing a datagram makes its number the last one done.
LEMMA DoneAppend ==
  ASSUME AsmTypeOK, NEW s \in Seq(Nat \X Nat), dgrams' = Append(dgrams, s)
  PROVE  dgrams' # <<>> /\ Done' = s[1][1]
<1>1. \A S : \A t \in Seq(S), e \in S :
        Append(t, e) # <<>> /\ Append(t, e)[Len(Append(t, e))] = e
  BY AppendElements, SMTT(30)
<1>2. dgrams \in Seq(Seq(Nat \X Nat)) /\ s \in Seq(Nat \X Nat)
  BY DEF AsmTypeOK
<1>3. dgrams' # <<>> /\ dgrams'[Len(dgrams')] = s
  BY <1>1, <1>2, Zenon
<1> QED BY <1>3 DEF Done

\* The number that an accepted chunk puts first.
LEMMA ArrivalNumber ==
  ASSUME TypeInv, AsmTypeOK, PartInv, SendOrder, ReceiveOrder, InFlight,
         Accepts(wr)
  PROVE  LET n == NewData(wr)[1][1] IN
         /\ n \in Nat /\ n <= wr.d /\ wr.d \in Nat
         /\ dgrams # <<>> => Done <= n /\ (dups = 0 => Done < n)
<1> DEFINE n == NewData(wr)[1][1]
<1>1. wr \in Chunk /\ wr.d \in Nat /\ wr.first \in BOOLEAN
  BY FlightChunk, SizeLemma
<1>2. /\ \A b \in Nat : ComingFrom(b) => b <= wr.d
      /\ rx_pbuf => Part \in Nat /\ rx_data # <<>>
      /\ dgrams # <<>> => Done \in Nat
  BY NumberTypes DEF ComingFrom
<1>3. EchoOrder /\ PartOrder /\ DoneOrder
  BY ReceiveParts
<1>4. CASE wr.first
  <2>1. n = wr.d
    <3>1. NewData(wr)[1] = <<wr.d, wr.i>>
      BY <1>1, <1>4, NewDataType
    <3> QED BY <3>1
  <2>2. dgrams # <<>> => Done <= n /\ (dups = 0 => Done + 1 <= n)
    BY <1>2, <1>3, <2>1 DEF DoneOrder
  <2> HIDE DEF n
  <2>3. dgrams # <<>> => Done <= n /\ (dups = 0 => Done < n)
    BY <1>1, <1>2, <2>1, <2>2
  <2> QED BY <1>1, <2>1, <2>3 DEF n
<1>5. CASE ~wr.first
  <2>1. rx_pbuf
    BY <1>5 DEF Accepts
  <2>2. n = Part
    BY <1>1, <1>2, <1>5, <2>1, NewDataType DEF Part
  <2> HIDE DEF n
  <2>3. n \in Nat /\ n <= wr.d
    BY <1>2, <1>3, <2>1, <2>2 DEF PartOrder
  <2>4. dgrams # <<>> => Done <= n /\ (dups = 0 => Done < n)
    BY <1>3, <2>1, <2>2 DEF DoneOrder
  <2> QED BY <1>1, <2>3, <2>4 DEF n
<1> QED BY <1>4, <1>5

\* Steps at which the receiver does nothing, and a repeated chunk that is put
\* aside.
LEMMA QuietOrder ==
  ASSUME TypeInv, CallbackInv, SenderInv, AsmTypeOK, PartInv, EchoInv,
         SendOrder, ReceiveOrder, [Next]_vars,
         dgrams' = dgrams, dups' = dups, echo' \in {echo, NoChunk},
         UNCHANGED <<rx_pbuf, rx_data>> \/ rx_pbuf' = FALSE
  PROVE  ReceiveOrder'
<1>1. EchoOrder /\ PartOrder /\ DoneOrder
  BY ReceiveParts
<1>2. \A b \in Nat : ComingFrom(b) => ComingFrom(b)'
  BY ComingFromKept
<1>3. EchoOrder'
  <2> SUFFICES ASSUME echo' # NoChunk PROVE ComingFrom(Behind(echo))'
    BY DEF EchoOrder
  <2>1. echo' = echo /\ echo \in Chunk
    BY DEF EchoInv
  <2>2. PICK b \in Nat : b = Behind(echo)
    BY <2>1, BehindLemma
  <2>3. ComingFrom(b)'
    BY <1>1, <1>2, <2>1, <2>2 DEF EchoOrder
  <2>4. Behind(echo') = b
    BY <2>1, <2>2
  <2> QED BY <2>3, <2>4
<1>4. PartOrder'
  <2> SUFFICES ASSUME rx_pbuf'
               PROVE  ComingFrom(Part)' /\ (echo' # NoChunk => Part' <= echo'.d)
    BY DEF PartOrder
  <2>1. rx_pbuf /\ Part' = Part /\ (echo' # NoChunk => echo' = echo)
    BY DEF Part
  <2>2. PICK b \in Nat : b = Part
    BY <2>1, NumberTypes
  <2>3. ComingFrom(b)' /\ (echo' # NoChunk => b <= echo'.d)
    BY <1>1, <1>2, <2>1, <2>2 DEF PartOrder
  <2>4. Part' = b
    BY <2>1, <2>2
  <2> QED BY <2>3, <2>4
<1>5. DoneOrder'
  <2> SUFFICES ASSUME dgrams' # <<>>
               PROVE  /\ ComingFrom(Done)'
                      /\ rx_pbuf' => Done' <= Part'
                      /\ echo' # NoChunk => Done' <= echo'.d
                      /\ dups' = 0 =>
                           ComingFrom(Done + 1)' /\ (rx_pbuf' => Done' < Part')
    BY DEF DoneOrder
  <2>1. /\ dgrams # <<>> /\ Done' = Done /\ (echo' # NoChunk => echo' = echo)
        /\ rx_pbuf' => rx_pbuf /\ Part' = Part
    BY DEF Done, Part
  <2>2. PICK b \in Nat : b = Done
    BY <2>1, NumberTypes
  <2>3. /\ ComingFrom(b)' /\ (echo' # NoChunk => b <= echo'.d)
        /\ rx_pbuf' => b <= Part'
        /\ dups' = 0 => ComingFrom(b + 1) /\ (rx_pbuf' => b < Part')
    BY <1>1, <1>2, <2>1, <2>2 DEF DoneOrder
  <2>4. dups' = 0 => ComingFrom(b + 1)'
    <3>1. b + 1 \in Nat
      OBVIOUS
    <3> QED BY <1>2, <2>3, <3>1
  <2>5. Done' = b
    BY <2>1, <2>2
  <2> QED BY <2>3, <2>4, <2>5
<1> QED
  <2>1. (ReceiveOrder <=> EchoOrder /\ PartOrder /\ DoneOrder)'
    BY ReceiveParts, PTL
  <2> QED BY <1>3, <1>4, <1>5, <2>1

\* What may still come, once the chunk in flight has arrived.
LEMMA ArrivalFrom ==
  ASSUME TypeInv, CallbackInv, SenderInv, SendOrder, Arrive, InFlight,
         NEW b \in Nat, b <= Behind(wr)
  PROVE  ComingFrom(b)'
<1>1. ~InFlight' /\ [Next]_vars
  BY ArriveCases DEF Arrive, Next
<1>2. Behind(wr) \in Nat
  BY FlightChunk, BehindLemma
<1>3. WaitingFrom(b)
  BY <1>2, FromLess DEF SendOrder
<1>4. WaitingFrom(b)'
  BY <1>1, <1>3, ComingFromKept
<1> QED BY <1>1, <1>4 DEF ComingFrom

\* The receiver keeps the order of what arrives.
LEMMA ArrivalOrder ==
  ASSUME TypeInv, CallbackInv, SenderInv, AsmTypeOK, PartInv, EchoInv,
         SendOrder, ReceiveOrder, dups \in Nat, Arrive, InFlight
  PROVE  ReceiveOrder'
<1>1. EchoOrder /\ PartOrder /\ DoneOrder
  BY ReceiveParts
<1>2. /\ wr \in Chunk /\ process_dgram_asm(wr) /\ [Next]_vars
      /\ wr.d \in Nat /\ Behind(wr) \in Nat /\ wr.d <= Behind(wr)
      /\ wr.last \in BOOLEAN /\ (wr.last => Behind(wr) = wr.d + 1)
  BY ArriveCases, FlightChunk, BehindLemma DEF Arrive, Next, Behind
<1>3. /\ \/ echo' = NoChunk /\ dups' = dups
         \/ echo' = wr /\ dups' = dups + 1
      /\ dups' = 0 => dups = 0 /\ echo' = NoChunk
  BY ArriveCases
<1>4. /\ \A b \in Nat : ComingFrom(b) => ComingFrom(b)' /\ b <= wr.d
      /\ \A b \in Nat : b <= Behind(wr) => ComingFrom(b)'
  BY <1>2, ComingFromKept, ArrivalFrom DEF ComingFrom
<1>5. EchoOrder'
  <2> SUFFICES ASSUME echo' # NoChunk PROVE ComingFrom(Behind(echo))'
    BY DEF EchoOrder
  <2>1. PICK b \in Nat : b = Behind(wr)
    BY <1>2
  <2>2. ComingFrom(b)' /\ Behind(echo') = b
    BY <1>3, <1>4, <2>1
  <2> QED BY <2>2
<1>6. CASE Rejects(wr)
  <2>1. rx_pbuf' = FALSE /\ dgrams' = dgrams /\ Done' = Done
    BY <1>6 DEF Rejects, Done
  <2>2. PartOrder'
    BY <2>1 DEF PartOrder
  <2>3. DoneOrder'
    <3> SUFFICES ASSUME dgrams # <<>>
                 PROVE  /\ ComingFrom(Done)' /\ (echo' # NoChunk => Done <= echo'.d)
                        /\ dups' = 0 => ComingFrom(Done + 1)'
      BY <2>1 DEF DoneOrder
    <3>1. PICK b \in Nat : b = Done
      BY NumberTypes
    <3>2. b + 1 \in Nat /\ Done' = b
      BY <2>1, <3>1
    <3>3. /\ ComingFrom(b)' /\ (echo' # NoChunk => b <= echo'.d)
          /\ dups' = 0 => ComingFrom(b + 1)'
      BY <1>1, <1>3, <1>4, <3>1, <3>2 DEF DoneOrder
    <3> QED BY <3>1, <3>2, <3>3
  <2>4. (ReceiveOrder <=> EchoOrder /\ PartOrder /\ DoneOrder)'
    BY ReceiveParts, PTL
  <2> QED BY <1>5, <2>2, <2>3, <2>4
<1>7. CASE Accepts(wr)
  <2>1. PICK n \in Nat :
          /\ n = NewData(wr)[1][1] /\ n <= wr.d
          /\ dgrams # <<>> => Done <= n /\ (dups = 0 => Done < n)
    BY <1>7, ArrivalNumber
  <2>2. ComingFrom(n)' /\ n <= Behind(wr)
    BY <1>2, <1>4, <2>1
  <2>3. CASE wr.last
    <3>1. /\ rx_pbuf' = FALSE /\ dgrams' = Append(dgrams, NewData(wr))
          /\ NewData(wr) \in Seq(Nat \X Nat)
      BY <1>2, <1>7, <2>3, NewDataType DEF Accepts, NewData
    <3>2. PartOrder'
      BY <3>1 DEF PartOrder
    <3>3. dgrams' # <<>> /\ Done' = n
      BY <2>1, <3>1, DoneAppend
    <3>4. n + 1 \in Nat /\ n + 1 <= Behind(wr)
      BY <1>2, <2>1, <2>3
    <3>5. ComingFrom(n + 1)'
      BY <1>4, <3>4
    <3>6. DoneOrder'
      BY <1>3, <2>1, <2>2, <3>1, <3>3, <3>5 DEF DoneOrder
    <3>7. (ReceiveOrder <=> EchoOrder /\ PartOrder /\ DoneOrder)'
      BY ReceiveParts, PTL
    <3> QED BY <1>5, <3>2, <3>6, <3>7
  <2>4. CASE ~wr.last
    <3>1. rx_data' = NewData(wr) /\ dgrams' = dgrams
      BY <1>7, <2>4 DEF Accepts, NewData
    <3>2. Part' = n /\ Done' = Done
      BY <2>1, <3>1 DEF Part, Done
    <3>3. PartOrder'
      BY <1>3, <2>1, <2>2, <3>2 DEF PartOrder
    <3>4. DoneOrder'
      <4> SUFFICES ASSUME dgrams # <<>>
                   PROVE  /\ ComingFrom(Done)'
                          /\ Done <= n
                          /\ echo' # NoChunk => Done <= echo'.d
                          /\ dups' = 0 => ComingFrom(Done + 1)' /\ Done < n
        BY <3>1, <3>2 DEF DoneOrder
      <4>1. PICK b \in Nat : b = Done
        BY NumberTypes
      <4>2. b + 1 \in Nat /\ Done' = b
        BY <3>2, <4>1
      <4>3. /\ ComingFrom(b)' /\ (echo' # NoChunk => b <= echo'.d)
            /\ dups' = 0 => ComingFrom(b + 1)'
        BY <1>1, <1>3, <1>4, <4>1, <4>2 DEF DoneOrder
      <4> QED BY <1>3, <2>1, <4>1, <4>2, <4>3
    <3>5. (ReceiveOrder <=> EchoOrder /\ PartOrder /\ DoneOrder)'
      BY ReceiveParts, PTL
    <3> QED BY <1>5, <3>3, <3>4, <3>5
  <2> QED BY <1>2, <2>3, <2>4
<1> QED BY <1>2, <1>6, <1>7, AsmCases DEF AsmTypeOK

\* A datagram that is repeated follows itself.
LEMMA RepeatOrder ==
  ASSUME TypeInv, CallbackInv, SenderInv, AsmTypeOK, PartInv, EchoInv,
         SendOrder, ReceiveOrder, ArriveAgain
  PROVE  /\ ReceiveOrder'
         /\ dups' # 0
         /\ \/ dgrams' = dgrams
            \/ \E s \in Seq(Nat \X Nat) :
                 /\ dgrams' = Append(dgrams, s)
                 /\ dgrams # <<>> => Done <= s[1][1]
<1>1. EchoOrder /\ PartOrder /\ DoneOrder
  BY ReceiveParts
<1>2. /\ echo # NoChunk /\ echo' = NoChunk /\ process_dgram_asm(echo)
      /\ UNCHANGED <<vars, dups>> /\ dups # 0 /\ echo \in Chunk
      /\ [Next]_vars
  BY DEF ArriveAgain, EchoInv
<1>3. CASE dgrams' = dgrams
           /\ (UNCHANGED <<rx_pbuf, rx_data>> \/ rx_pbuf' = FALSE)
  BY <1>2, <1>3, QuietOrder
<1>4. CASE /\ rx_pbuf' = FALSE /\ rx_data' = <<>>
           /\ echo.first /\ echo.last
           /\ dgrams' = Append(dgrams, Append(<<>>, <<echo.d, echo.i>>))
  <2>1. /\ NewData(echo) = Append(<<>>, <<echo.d, echo.i>>)
        /\ NewData(echo) \in Seq(Nat \X Nat)
        /\ NewData(echo)[1] = <<echo.d, echo.i>>
    BY <1>2, <1>4, NewDataType DEF NewData
  <2>2. NewData(echo)[1][1] = echo.d
    BY <2>1
  <2>3. dgrams' = Append(dgrams, NewData(echo))
    BY <1>4, <2>1
  <2>4. dgrams' # <<>> /\ Done' = echo.d
    BY <2>1, <2>2, <2>3, DoneAppend
  <2>6. ComingFrom(Done)'
    <3>1. PICK b \in Nat : b = echo.d /\ ComingFrom(b)
      BY <1>1, <1>2, BehindLemma, FromLess DEF EchoOrder
    <3>2. ComingFrom(b)'
      BY <1>2, <3>1, ComingFromKept
    <3> QED BY <2>4, <3>1, <3>2
  <2>7. EchoOrder' /\ PartOrder' /\ DoneOrder'
    BY <1>2, <1>4, <2>4, <2>6 DEF EchoOrder, PartOrder, DoneOrder
  <2>8. (ReceiveOrder <=> EchoOrder /\ PartOrder /\ DoneOrder)'
    BY ReceiveParts, PTL
  <2>9. dgrams # <<>> => Done <= echo.d
    BY <1>1, <1>2 DEF DoneOrder
  <2> QED BY <1>2, <2>1, <2>2, <2>3, <2>7, <2>8, <2>9
<1> QED BY <1>2, <1>3, <1>4, RepeatCases DEF Rejects

LEMMA ReceiveOrderNext ==
  ASSUME TypeInv, CallbackInv, SenderInv, AsmTypeOK, PartInv, EchoInv,
         SendOrder, ReceiveOrder, dups \in Nat, [PathNext]_allVars
  PROVE  ReceiveOrder'
<1>1. CASE Arrive /\ InFlight
  BY <1>1, ArrivalOrder
<1>2. CASE Arrive /\ ~InFlight
  BY <1>2, ArriveCases, PathStep, QuietOrder DEF asmVars
<1>3. CASE ArriveAgain
  BY <1>3, RepeatOrder
<1>4. CASE UNCHANGED <<rx_pbuf, rx_data, dgrams, dups, echo>>
  BY <1>4, PathStep, QuietOrder
<1> QED BY <1>1, <1>2, <1>3, <1>4
        DEF PathNext, Send, Lose, Connect, GattEthResetRx, allVars, asmVars,
            pathVars

\* One more datagram at the end.
LEMMA InOrderAppend ==
  ASSUME AsmTypeOK, PartInv, DgramsInOrder, NEW s \in Seq(Nat \X Nat),
         dgrams' = Append(dgrams, s), dups' = 0 => dups = 0,
         dgrams # <<>> =>
           Done <= s[1][1] /\ (dups' = 0 => Done # s[1][1])
  PROVE  DgramsInOrder'
<1>1. PICK S : S = Seq(Nat \X Nat)
  OBVIOUS
<1>2. dgrams \in Seq(S) /\ s \in S
  BY <1>1 DEF AsmTypeOK
<1>3. /\ Len(dgrams) \in Nat /\ Len(dgrams') = Len(dgrams) + 1
      /\ dgrams'[Len(dgrams) + 1] = s
      /\ \A k \in 1 .. Len(dgrams) : dgrams'[k] = dgrams[k]
      /\ Len(dgrams) # 0 => dgrams # <<>>
  BY <1>2, AppendElements, EmptySeq
<1>4. ASSUME NEW k \in 1 .. Len(dgrams') - 1
      PROVE  /\ dgrams'[k][1][1] <= dgrams'[k + 1][1][1]
             /\ dups' = 0 => dgrams'[k][1][1] # dgrams'[k + 1][1][1]
  <2>1. CASE k = Len(dgrams)
    <3>1. dgrams'[k] = dgrams[Len(dgrams)] /\ dgrams'[k + 1] = s
          /\ dgrams # <<>>
      BY <1>3, <2>1
    <3> QED BY <3>1 DEF Done
  <2>2. CASE k # Len(dgrams)
    <3>1. /\ k \in 1 .. Len(dgrams) - 1
          /\ dgrams'[k] = dgrams[k] /\ dgrams'[k + 1] = dgrams[k + 1]
      BY <1>3, <2>2
    <3> QED BY <3>1 DEF DgramsInOrder
  <2> QED BY <2>1, <2>2
<1> QED BY <1>4 DEF DgramsInOrder

\* Datagrams are completed in order.
LEMMA InOrderNext ==
  ASSUME TypeInv, CallbackInv, SenderInv, AsmTypeOK, PartInv, EchoInv,
         SendOrder, ReceiveOrder, dups \in Nat, DgramsInOrder,
         [PathNext]_allVars
  PROVE  DgramsInOrder'
<1>1. CASE dgrams' = dgrams /\ (dups' = 0 => dups = 0)
  BY <1>1 DEF DgramsInOrder
<1>2. CASE Arrive
  <2>1. dups' = 0 => dups = 0
    BY <1>2, ArriveCases
  <2>2. CASE dgrams' # dgrams
    <3>1. InFlight /\ wr \in Chunk /\ process_dgram_asm(wr)
      BY <1>2, <2>2, ArriveCases DEF asmVars
    <3>2. Accepts(wr) /\ dgrams' = Append(dgrams, NewData(wr))
      BY <2>2, <3>1, AsmCases DEF Accepts, Rejects, NewData, AsmTypeOK
    <3>3. /\ NewData(wr) \in Seq(Nat \X Nat) /\ NewData(wr)[1][1] \in Nat
          /\ dgrams # <<>> =>
               Done \in Nat /\ Done <= NewData(wr)[1][1]
               /\ (dups = 0 => Done < NewData(wr)[1][1])
      BY <3>1, <3>2, NewDataType, ArrivalNumber, NumberTypes
    <3>4. dgrams # <<>> =>
            Done <= NewData(wr)[1][1] /\ (dups' = 0 => Done # NewData(wr)[1][1])
      BY <2>1, <3>3
    <3> QED BY <2>1, <3>2, <3>3, <3>4, InOrderAppend
  <2> QED BY <1>1, <2>1, <2>2
<1>3. CASE ArriveAgain
  <2>1. CASE dgrams' # dgrams
    BY <1>3, <2>1, RepeatOrder, InOrderAppend
  <2> QED BY <1>1, <1>3, <2>1, RepeatOrder
<1> QED BY <1>1, <1>2, <1>3
        DEF PathNext, Send, Lose, Connect, GattEthResetRx, allVars, asmVars,
            pathVars

-----------------------------------------------------------------------------
(***************************************************************************)
(* The two ends together: theorems                                         *)
(***************************************************************************)
PathInv == TypeInv /\ CallbackInv /\ PathIInv

LEMMA PathInitInv == PathInit => PathInv
<1> SUFFICES ASSUME PathInit PROVE PathInv
  OBVIOUS
<1>1. Init /\ AsmInit /\ losses = 0 /\ dups = 0 /\ echo = NoChunk /\ early = FALSE
  BY DEF PathInit
<1>2. TypeInv /\ CallbackInv /\ TypeOK
  <2>1. TypeInv
    BY <1>1, TypeInit
  <2>2. TypeOK
    BY <2>1 DEF TypeInv, RouterTypes, EthTypes, ChunkTypes, FlagTypes,
                HandTypes, TaskTypes, WakeTypes, ThreadTypes, TypeOK
  <2> QED BY <1>1, <2>1, <2>2 DEF Init, CallbackInv
<1>3. AsmTypeOK
  <2>1. rx_data \in Seq(Nat \X Nat) /\ Len(rx_data) <= BufSize
    BY <1>1, EmptySeq, BleAsmAssumption DEF AsmInit
  <2>2. dgrams \in Seq(Seq(Nat \X Nat))
    BY <1>1, EmptySeq DEF AsmInit
  <2> QED BY <1>1, <2>1, <2>2, SeqsLemma DEF AsmInit, AsmTypeOK
<1>4. SenderInv /\ FollowInv /\ EarlyInv
  BY <1>1 DEF Init, SenderInv, FollowInv, EarlyInv, InFlight
<1>5. SyncInv /\ EchoInv
  BY <1>1 DEF AsmInit, SyncInv, EchoInv
<1>6. dgrams = <<>> /\ Len(dgrams) = 0 /\ DOMAIN dgrams = {} /\ ~rx_pbuf
  BY <1>1 DEF AsmInit
<1>7. PartInv /\ DgramsWhole
  BY <1>6 DEF PartInv, DgramsWhole
<1>8. DgramsInOrder
  BY <1>6 DEF DgramsInOrder
<1>9. SendOrder
  <2>1. /\ q_output = <<>> /\ DOMAIN q_output = {} /\ cbk_blk = 0
        /\ cbk_stores = {} /\ routed = 0 /\ current_tx_block = NoDgram
        /\ snd_blk = NoChunk /\ ~InFlight
    BY <1>1 DEF Init, NoDgram, InFlight
  <2> QED BY <2>1 DEF SendOrder, NoDgram
<1>10. ReceiveOrder
  BY <1>1, <1>6 DEF ReceiveOrder
<1> QED BY <1>1, <1>2, <1>3, <1>4, <1>5, <1>7, <1>8, <1>9, <1>10
        DEF PathInv, PathIInv, PathTypeOK

\* Each part of the invariant is kept by every step.
LEMMA PathInvNext ==
  ASSUME PathInv, ~Reorder, [PathNext]_allVars
  PROVE  PathInv'
<1> USE DEF PathInv, PathIInv, PathTypeOK
<1>1. [Next]_vars
  BY PathStep
<1>2. TypeInv' /\ CallbackInv' /\ TypeOK'
  <2>1. TypeInv'
    BY <1>1, RouterTypesNext, EthTypesNext, ChunkTypesNext, HandTypesNext,
       TaskTypesNext, WakeTypesNext, ThreadTypesNext, ConnsNext
    DEF TypeInv, FlagTypes
  <2>2. CallbackInv'
    BY <1>1, CallbackNext
  <2>3. TypeOK'
    BY <2>1 DEF TypeInv, RouterTypes, EthTypes, ChunkTypes, FlagTypes,
                HandTypes, TaskTypes, WakeTypes, ThreadTypes, TypeOK
  <2> QED BY <2>1, <2>2, <2>3
<1>3. AsmTypeOK' /\ dups' \in Nat
  BY AsmTypesNext
<1>4. losses' \in Nat /\ early' \in BOOLEAN
  BY EarlyKept
<1>5. SenderInv'
  BY <1>1, SenderNext
<1>6. FollowInv' /\ EarlyInv'
  BY FollowNext, EarlyNext
<1>7. EchoInv'
  BY EchoNext
<1>8. PartInv' /\ DgramsWhole'
  BY PartNext, WholeNext
<1>9. SyncInv'
  BY <1>2, <1>3, <1>8, SyncNext
<1>10. SendOrder'
  BY <1>1, SendOrderNext
<1>11. ReceiveOrder' /\ DgramsInOrder'
  BY ReceiveOrderNext, InOrderNext
<1> QED BY <1>2, <1>3, <1>4, <1>5, <1>6, <1>7, <1>8, <1>9, <1>10, <1>11

LEMMA PathInvariance == ~Reorder => (PathSpec => []PathInv)
<1> SUFFICES ASSUME ~Reorder PROVE PathSpec => []PathInv
  OBVIOUS
<1>1. PathInit => PathInv
  BY PathInitInv
<1>2. PathInv /\ [PathNext]_allVars => PathInv'
  BY PathInvNext
<1> QED BY <1>1, <1>2, PTL DEF PathSpec

\* The link with a receiver at its far end is still the sender of BleTx: what
\* holds of ble_tcp.c and ble_eth.c alone holds of the two ends together.
THEOREM PathImplementsSender == PathSpec => Spec
<1>1. PathInit => Init
  BY DEF PathInit
<1>2. [PathNext]_allVars => [Next]_vars
  BY PathStep
<1> QED BY <1>1, <1>2, PTL DEF PathSpec, Spec

\* Sender and receiver stay within their types: process_dgram_asm never fills
\* a pbuf past its end.
THEOREM PathTypeCorrect == ~Reorder => (PathSpec => []PathTypeOK)
<1> SUFFICES ASSUME ~Reorder PROVE PathSpec => []PathTypeOK
  OBVIOUS
<1>1. PathInv => PathTypeOK
  BY DEF PathInv, PathIInv
<1> QED BY <1>1, PathInvariance, PTL

\* process_dgram_asm completes only whole datagrams, whatever connections are
\* lost, chunks repeated or a chunk lost, for every range of sequence numbers
\* with more than one.
THEOREM WholeDatagrams == ~Reorder => (PathSpec => []DgramsWhole)
<1> SUFFICES ASSUME ~Reorder PROVE PathSpec => []DgramsWhole
  OBVIOUS
<1>1. PathInv => DgramsWhole
  BY DEF PathInv, PathIInv
<1> QED BY <1>1, PathInvariance, PTL

\* Datagrams leave process_dgram_asm in the order in which the router gave
\* them to the other end, and none twice unless a chunk was repeated.
THEOREM DatagramsInOrder == ~Reorder => (PathSpec => []DgramsInOrder)
<1> SUFFICES ASSUME ~Reorder PROVE PathSpec => []DgramsInOrder
  OBVIOUS
<1>1. PathInv => DgramsInOrder
  BY DEF PathInv, PathIInv
<1> QED BY <1>1, PathInvariance, PTL

\* Without loss no gap is found in the sequence numbers of a datagram, although
\* an acknowledgement that ble_gatt_trysend sends alone consumes one.
THEOREM NoGapInNumbers == ~Reorder => (PathSpec => []NoGap)
<1> SUFFICES ASSUME ~Reorder PROVE PathSpec => []NoGap
  OBVIOUS
<1>1. PathInv => NoGap
  <2> SUFFICES ASSUME PathInv, losses = 0, link, ~eth_rst_req_rx, rx_pbuf,
                      InFlight, ~wr.first
               PROVE  /\ wr.seq = NextSeq(rx_prev_seq)
                      /\ <<wr.d, wr.i - 1>> = rx_data[Len(rx_data)]
    BY DEF NoGap, InFlight
  <2>1. /\ TypeInv /\ AsmTypeOK /\ PartInv /\ SyncInv /\ Detectable
    BY DEF PathInv, PathIInv, PathTypeOK, Detectable
  <2>2. PICK d \in Dgram, i \in Nat \ {0} :
          /\ rx_data = Begin(d, i) /\ Len(rx_data) = i
          /\ rx_data[Len(rx_data)][1] = d /\ rx_data[Len(rx_data)][2] = i
    BY <2>1, PartLemma
  <2>3. Continues(d, i, NextSeq(rx_prev_seq))
    BY <2>1, <2>2 DEF SyncInv
  <2>4. wr.d = d /\ wr.i = i + 1 /\ wr.seq = NextSeq(rx_prev_seq)
    BY <2>3 DEF Continues
  <2>5. rx_data[Len(rx_data)] = <<d, i>>
    BY <2>2 DEF Begin
  <2> QED BY <2>4, <2>5
<1> QED BY <1>1, PathInvariance, PTL
=============================================================================
