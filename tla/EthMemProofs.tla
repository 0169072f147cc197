---------------------------- MODULE EthMemProofs ----------------------------
(***************************************************************************)
(* The safety of the memory manager for every pool size, queue length and  *)
(* number of references.                                                   *)
(***************************************************************************)
EXTENDS EthMemFifo, DataLemmas

-----------------------------------------------------------------------------
(***************************************************************************)
(* Ownership                                                               *)
(***************************************************************************)
\* A step that puts one pbuf into one place and disturbs no other pbuf keeps
\* every pbuf in one place.
LEMMA MoveLemma ==
  ASSUME NEW p \in Pbuf, NEW b \in Places,
         \A c \in Places : At(p, c)' <=> c = b,
         \A q \in Pbuf \ {p}, c \in Places : At(q, c)' <=> At(q, c),
         \A q \in Pbuf : OnePlace(q)
  PROVE  \A q \in Pbuf : OnePlace(q)'
<1> SUFFICES ASSUME NEW q \in Pbuf PROVE OnePlace(q)'
  OBVIOUS
<1>1. PICK d \in Places : \A c \in Places : At(q, c) <=> c = d
  BY DEF OnePlace
<1>2. CASE q = p
  BY <1>2 DEF OnePlace
<1>3. CASE q # p
  BY <1>1, <1>3 DEF OnePlace
<1> QED BY <1>2, <1>3

\* A pbuf in one place is in no other.
LEMMA Apart ==
  ASSUME NEW p \in Pbuf, OnePlace(p), NEW a \in Places, At(p, a)
  PROVE  \A c \in Places : At(p, c) <=> c = a
BY DEF OnePlace

-----------------------------------------------------------------------------
(***************************************************************************)
(* One lemma per action                                                    *)
(***************************************************************************)
\* A pbuf a driver or the router holds has one reference and can be queued
\* for release.
LEMMA ReleaseLemma ==
  ASSUME IInv, NEW p \in Pbuf,
         NEW a \in Places \ {"free_chain", "free_pbuf_q", "lwip"}, At(p, a)
  PROVE  /\ \A c \in Places : At(p, c) <=> c = a
         /\ ref[p] = 1
         /\ Append(free_pbuf_q, p) \in Seq(Pbuf)
         /\ IsInjective(Append(free_pbuf_q, p))
         /\ Range(Append(free_pbuf_q, p)) = Range(free_pbuf_q) \cup {p}
<1>1. \A c \in Places : At(p, c) <=> c = a
  BY Apart DEF IInv, Ownership
<1>2. p \notin free_chain /\ p \notin held /\ p \notin Range(free_pbuf_q)
  BY <1>1 DEF Places, At
<1>3. ref[p] = 1
  BY <1>2 DEF IInv, RefInv, One
<1> QED BY <1>1, <1>2, <1>3, PushLemma DEF IInv, TypeOK, Ownership

\* Arithmetic on the three queue lengths: their sum is a natural number.
LEMMA SumType == \A i, j, k \in Nat : i + j + k \in Nat
OBVIOUS

\* One entry less in a queue is one less in the sum of the queue lengths.
LEMMA SumLess ==
  \A i, j, k \in Nat : /\ i + (j - 1) + k = (i + j + k) - 1
                       /\ i + j + (k - 1) = (i + j + k) - 1
                       /\ (i - 1) + j + k = (i + j + k) - 1
OBVIOUS

\* One entry more in an output queue is one more in the sum.
LEMMA SumMore ==
  \A i, j, k \in Nat : /\ i + (j + 1) + k = (i + j + k) + 1
                       /\ i + j + (k + 1) = (i + j + k) + 1
OBVIOUS

\* The four groups of queue entries are counted by natural numbers.
LEMMA EntryTypes ==
  ASSUME TypeOK
  PROVE  /\ QueuedEntries \in Nat /\ RouterEntries \in Nat
         /\ RxEntries \in Nat /\ TxEntries \in Nat /\ used \in Nat
<1>1. /\ Len(q_input) \in Nat
      /\ Len(q_output["BLE"]) \in Nat /\ Len(q_output["LWIP"]) \in Nat
  BY LenProperties DEF TypeOK, Netif
<1>2. QueuedEntries \in Nat
  BY <1>1, SumType DEF QueuedEntries
<1>3. RouterEntries \in Nat /\ RxEntries \in Nat /\ TxEntries \in Nat
  BY DEF RouterEntries, RxEntries, TxEntries, One
<1> QED BY <1>2, <1>3 DEF TypeOK

\* A step that changes at most notify, task_res, if_up, core_pc and fault.
LEMMA QuietInv ==
  ASSUME IInv, TypeOK', fault' # "em_assert",
         UNCHANGED <<free_chain, ref, if_idx, free_pbuf_q, q_input, q_output,
                     q_output_len, callback_pending, used, task_pc, task_blk,
                     rx_pc, rx_buf, tx_pc, tx_buf, held>>
  PROVE  IInv'
<1>1. Ownership'
  BY DEF IInv, Ownership, OnePlace, At
<1>2. SlotInv' /\ RefInv' /\ IfIdxInv'
  BY DEF IInv, SlotInv, RefInv, IfIdxInv
<1>3. LenInv' /\ CallbackOwed' /\ CallbackOnce' /\ PendingMeansEmpty'
  BY DEF IInv, LenInv, CallbackOwed, CallbackOnce, PendingMeansEmpty
<1>4. EntriesConserved'
  BY DEF IInv, EntriesConserved, QueuedEntries, RouterEntries, RxEntries, TxEntries
<1> QED BY <1>1, <1>2, <1>3, <1>4 DEF IInv, NoEmAssert

\* eth_pbuf_alloc by a driver moves a pbuf from the free chain to the driver.
LEMMA RxAllocInv ==
  ASSUME IInv, NEW n \in Netif, RxAlloc(n)
  PROVE  IInv'
<1> USE DEF Netif
<1>1. CASE free_chain = {}
  <2>1. /\ UNCHANGED <<memVars, qVars, notify, taskVars, rxVars, txVars, lwipVars>>
        /\ fault' = "null_deref"
    BY <1>1 DEF RxAlloc, memVars
  <2> USE DEF memVars, qVars, taskVars, rxVars, txVars, lwipVars
  <2>2. TypeOK'
    BY <2>1 DEF IInv, TypeOK
  <2> QED BY <2>1, <2>2, QuietInv
<1>2. CASE free_chain # {}
  <2>1. PICK p \in free_chain :
          /\ free_chain' = free_chain \ {p}
          /\ ref' = [ref EXCEPT ![p] = 1]
          /\ if_idx' = [if_idx EXCEPT ![p] = "none"]
          /\ rx_buf' = [rx_buf EXCEPT ![n] = p]
          /\ rx_pc' = [rx_pc EXCEPT ![n] = "hold"]
    BY <1>2 DEF RxAlloc
  <2>2. /\ UNCHANGED <<free_pbuf_q, q_input, q_output, q_output_len,
                       callback_pending, used, if_up, notify, task_pc, task_res,
                       task_blk, tx_pc, tx_buf, held, core_pc, fault>>
        /\ rx_pc[n] = "idle" /\ rx_buf[n] = NoPbuf
    BY <1>2 DEF RxAlloc, qVars, taskVars, txVars, lwipVars, IInv, SlotInv
  <2>3. TypeOK /\ p \in Pbuf
    BY DEF IInv, TypeOK
  <2>4. \A c \in Places : At(p, c) <=> c = "free_chain"
    BY <2>3, Apart DEF IInv, Ownership, At, Places
  <2>5. /\ p \notin held /\ p \notin Range(q_input) /\ p # task_blk
        /\ \A m \in Netif : p # rx_buf[m]
    BY <2>4 DEF At, Places
  <2>6. TypeOK'
    BY <2>1, <2>2, <2>3 DEF TypeOK, RxPc
  <2>7. Ownership'
    <3>1. PICK b \in Places : b = IF n = "BLE" THEN "rx_ble" ELSE "rx_lwip"
      BY DEF Places
    <3>2. \A c \in Places : At(p, c)' <=> c = b
      BY <2>1, <2>2, <2>3, <2>4, <3>1 DEF At, Places, TypeOK
    <3>3. \A q \in Pbuf \ {p}, c \in Places : At(q, c)' <=> At(q, c)
      BY <2>1, <2>2, <2>3, EthMemAssumption DEF At, Places, TypeOK
    <3>4. \A q \in Pbuf : OnePlace(q)'
      BY <2>3, <3>2, <3>3, MoveLemma DEF IInv, Ownership
    <3> QED BY <3>4, <2>2 DEF IInv, Ownership
  <2>8. SlotInv' /\ RefInv'
    BY <2>1, <2>2, <2>3, <2>5, EthMemAssumption DEF IInv, SlotInv, RefInv, TypeOK, One
  <2>9. IfIdxInv'
    BY <2>1, <2>2, <2>3, <2>5 DEF IInv, IfIdxInv, TypeOK, Range
  <2>10. CallbackOwed' /\ CallbackOnce'
    BY <2>1, <2>2, <2>3, <2>5 DEF IInv, CallbackOwed, CallbackOnce, TypeOK
  <2>11. LenInv' /\ PendingMeansEmpty'
    BY <2>2 DEF IInv, LenInv, PendingMeansEmpty
  <2>12. EntriesConserved'
    BY <2>1, <2>2, <2>3 DEF IInv, EntriesConserved, QueuedEntries, RouterEntries,
       RxEntries, TxEntries, TypeOK, One
  <2> QED BY <2>2, <2>6, <2>7, <2>8, <2>9, <2>10, <2>11, <2>12 DEF IInv, NoEmAssert
<1> QED BY <1>1, <1>2

\* A driver that gives up its pbuf moves it to the queue of free requests.
LEMMA RxFreeInv ==
  ASSUME IInv, NEW n \in Netif, RxFree(n)
  PROVE  IInv'
<1> USE DEF Netif
<1>1. PICK p \in Pbuf : p = rx_buf[n]
  BY DEF IInv, TypeOK, SlotInv, RxFree
<1>2. PICK a \in Places \ {"free_chain", "free_pbuf_q", "lwip"} :
        a = IF n = "BLE" THEN "rx_ble" ELSE "rx_lwip"
  BY DEF Places
<1>3. /\ \A c \in Places : At(p, c) <=> c = a
      /\ ref[p] = 1
      /\ Append(free_pbuf_q, p) \in Seq(Pbuf)
      /\ IsInjective(Append(free_pbuf_q, p))
      /\ Range(Append(free_pbuf_q, p)) = Range(free_pbuf_q) \cup {p}
  <2>1. At(p, a)
    BY <1>1, <1>2 DEF At
  <2> QED BY <2>1, ReleaseLemma
<1>4. /\ free_pbuf_q' = Append(free_pbuf_q, p)
      /\ UNCHANGED <<free_chain, ref, if_idx, q_input, q_output, q_output_len,
                     callback_pending, used, if_up, notify, task_pc, task_res,
                     task_blk, tx_pc, tx_buf, held, core_pc>>
      /\ rx_buf' = [rx_buf EXCEPT ![n] = NoPbuf]
      /\ rx_pc' = [rx_pc EXCEPT ![n] = "notify_free"]
      /\ fault' = "none"
      /\ rx_pc[n] \in {"hold", "lost"}
  BY <1>1, <1>3 DEF RxFree, FreeRequest, AfterFreeRequest, EmAssert, qVars,
     taskVars, txVars, lwipVars
<1>5. TypeOK
  BY DEF IInv
<1>6. TypeOK'
  BY <1>3, <1>4, <1>5 DEF TypeOK, RxPc
<1>7. Ownership'
  <2>0. rx_buf \in [Netif -> Pbuf \cup {NoPbuf}]
    BY <1>5 DEF TypeOK
  <2>1. \A c \in Places : At(p, c)' <=> c = "free_pbuf_q"
    BY <1>1, <1>2, <1>3, <1>4, <1>5, EthMemAssumption DEF At, Places, TypeOK
  <2>2. \A q \in Pbuf \ {p}, c \in Places : At(q, c)' <=> At(q, c)
    BY <1>1, <1>3, <1>4, <2>0, EthMemAssumption DEF At, Places
  <2>3. \A q \in Pbuf : OnePlace(q)'
    BY <2>1, <2>2, MoveLemma DEF IInv, Ownership, Places
  <2> QED BY <2>3, <1>3, <1>4 DEF IInv, Ownership
<1>8. SlotInv' /\ RefInv'
  BY <1>4, <1>5 DEF IInv, SlotInv, RefInv, TypeOK
<1>9. IfIdxInv' /\ LenInv' /\ CallbackOwed' /\ CallbackOnce' /\ PendingMeansEmpty'
  BY <1>4, <1>5 DEF IInv, IfIdxInv, LenInv, CallbackOwed, CallbackOnce,
     PendingMeansEmpty, TypeOK
<1>10. EntriesConserved'
  BY <1>4, <1>5 DEF IInv, EntriesConserved, QueuedEntries, RouterEntries,
     RxEntries, TxEntries, TypeOK, One
<1> QED BY <1>4, <1>6, <1>7, <1>8, <1>9, <1>10 DEF IInv, NoEmAssert

\* Taking a queue entry in eth_add_packet_to_router_queue moves no pbuf.
LEMMA RxSubmitInv ==
  ASSUME IInv, NEW n \in Netif, RxSubmit(n)
  PROVE  IInv'
<1> USE DEF Netif
<1>1. PICK p \in Pbuf : p = rx_buf[n]
  BY DEF IInv, TypeOK, SlotInv, RxSubmit
<1>2. PICK a \in Places \ {"free_chain", "free_pbuf_q", "lwip"} :
        a = IF n = "BLE" THEN "rx_ble" ELSE "rx_lwip"
  BY DEF Places
<1>3. ref[p] = 1 /\ \A c \in Places : At(p, c) <=> c = a
  <2>1. At(p, a)
    BY <1>1, <1>2 DEF At
  <2> QED BY <2>1, ReleaseLemma
<1>4. /\ UNCHANGED <<free_chain, ref, free_pbuf_q, q_input, q_output, q_output_len,
                     callback_pending, if_up, notify, task_pc, task_res,
                     task_blk, tx_pc, tx_buf, held, core_pc, rx_buf>>
      /\ if_idx' = [if_idx EXCEPT ![p] = n]
      /\ \/ used' = used + 1 /\ rx_pc' = [rx_pc EXCEPT ![n] = "enqueue"]
         \/ used' = used /\ rx_pc' = [rx_pc EXCEPT ![n] = "lost"]
      /\ fault' = "none"
      /\ rx_pc[n] = "hold"
  BY <1>1, <1>3 DEF RxSubmit, EmAssert, taskVars, txVars, lwipVars
<1>5. TypeOK
  BY DEF IInv
<1>6. /\ p \notin Range(q_input) /\ p # task_blk
      /\ \A m \in Netif \ {n} : p # rx_buf[m]
  BY <1>2, <1>3 DEF At, Places
<1>7. TypeOK'
  BY <1>4, <1>5 DEF TypeOK, RxPc
<1>8. Ownership'
  BY <1>4 DEF IInv, Ownership, OnePlace, At
<1>9. SlotInv' /\ RefInv'
  BY <1>1, <1>4, <1>5 DEF IInv, SlotInv, RefInv, TypeOK
<1>10. IfIdxInv'
  <2>1. \A m \in Netif : rx_pc'[m] = "enqueue" => if_idx'[rx_buf'[m]] = m
    BY <1>1, <1>4, <1>5, <1>6 DEF IInv, IfIdxInv, TypeOK
  <2>2. \A i \in DOMAIN q_input : if_idx'[q_input[i]] \in Netif
    BY <1>4, <1>5, <1>6 DEF IInv, IfIdxInv, TypeOK, Range
  <2>3. task_blk # NoPbuf => if_idx'[task_blk] \in Netif
    BY <1>4, <1>5, <1>6 DEF IInv, IfIdxInv, TypeOK
  <2> QED BY <1>4, <2>1, <2>2, <2>3 DEF IfIdxInv
<1>11. LenInv' /\ CallbackOwed' /\ CallbackOnce' /\ PendingMeansEmpty'
  BY <1>4, <1>5, <1>6 DEF IInv, LenInv, CallbackOwed, CallbackOnce,
     PendingMeansEmpty, TypeOK
<1>12. EntriesConserved'
  <2>1. UNCHANGED <<QueuedEntries, RouterEntries, TxEntries>>
    BY <1>4 DEF QueuedEntries, RouterEntries, TxEntries
  <2>2. \/ RxEntries' = RxEntries + 1 /\ used' = used + 1
        \/ RxEntries' = RxEntries /\ used' = used
    BY <1>4, <1>5 DEF RxEntries, One, TypeOK
  <2> QED BY <1>5, <2>1, <2>2, EntryTypes DEF IInv, EntriesConserved
<1> QED BY <1>4, <1>7, <1>8, <1>9, <1>10, <1>11, <1>12 DEF IInv, NoEmAssert

\* The second half of eth_add_packet_to_router_queue moves the pbuf to q_input.
LEMMA RxEnqueueInv ==
  ASSUME IInv, NEW n \in Netif, RxEnqueue(n)
  PROVE  IInv'
<1> USE DEF Netif
<1>1. PICK p \in Pbuf : p = rx_buf[n]
  BY DEF IInv, TypeOK, SlotInv, RxEnqueue
<1>2. PICK a \in Places \ {"free_chain", "free_pbuf_q", "lwip"} :
        a = IF n = "BLE" THEN "rx_ble" ELSE "rx_lwip"
  BY DEF Places
<1>3. \A c \in Places : At(p, c) <=> c = a
  <2>1. At(p, a)
    BY <1>1, <1>2 DEF At
  <2> QED BY <2>1, ReleaseLemma
<1>4. /\ UNCHANGED <<free_chain, ref, if_idx, free_pbuf_q, q_output, q_output_len,
                     callback_pending, used, if_up, notify, task_pc, task_res,
                     task_blk, tx_pc, tx_buf, held, core_pc, fault>>
      /\ q_input' = Append(q_input, p)
      /\ rx_buf' = [rx_buf EXCEPT ![n] = NoPbuf]
      /\ rx_pc' = [rx_pc EXCEPT ![n] = "notify_router"]
      /\ rx_pc[n] = "enqueue" /\ if_idx[p] = n
  BY <1>1 DEF RxEnqueue, memVars, taskVars, txVars, lwipVars, IInv, IfIdxInv
<1>5. TypeOK
  BY DEF IInv
<1>6. p \notin Range(q_input)
  BY <1>2, <1>3 DEF At, Places
<1>7. /\ q_input' \in Seq(Pbuf) /\ IsInjective(q_input')
      /\ Range(q_input') = Range(q_input) \cup {p}
      /\ Len(q_input') = Len(q_input) + 1
  BY <1>4, <1>5, <1>6, PushLemma DEF IInv, TypeOK, Ownership
<1>8. TypeOK'
  BY <1>4, <1>5, <1>7 DEF TypeOK, RxPc
<1>9. Ownership'
  <2>1. \A c \in Places : At(p, c)' <=> c = "q_input"
    BY <1>1, <1>2, <1>3, <1>4, <1>5, <1>7, EthMemAssumption DEF At, Places, TypeOK
  <2>2. \A q \in Pbuf \ {p}, c \in Places : At(q, c)' <=> At(q, c)
    BY <1>1, <1>4, <1>5, <1>7, EthMemAssumption, SMTT(30) DEF At, Places, TypeOK
  <2>3. \A q \in Pbuf : OnePlace(q)'
    BY <2>1, <2>2, MoveLemma DEF IInv, Ownership, Places
  <2> QED BY <2>3, <1>4, <1>7 DEF IInv, Ownership
<1>10. SlotInv' /\ RefInv'
  BY <1>4, <1>5 DEF IInv, SlotInv, RefInv, TypeOK
<1>11. IfIdxInv'
  <2>1. \A q \in Range(q_input') : if_idx'[q] \in Netif
    BY <1>4, <1>7 DEF IInv, IfIdxInv, Range
  <2> QED BY <1>4, <1>5, <2>1 DEF IInv, IfIdxInv, TypeOK, Range
<1>12. LenInv' /\ CallbackOwed' /\ CallbackOnce' /\ PendingMeansEmpty'
  BY <1>4, <1>5 DEF IInv, LenInv, CallbackOwed, CallbackOnce,
     PendingMeansEmpty, TypeOK
<1>13. EntriesConserved'
  <2>1. QueuedEntries' = QueuedEntries + 1
    BY <1>4, <1>5, <1>7, LenProperties DEF QueuedEntries, TypeOK
  <2>2. RxEntries' = RxEntries - 1
    BY <1>4, <1>5 DEF RxEntries, One, TypeOK
  <2>3. UNCHANGED <<RouterEntries, TxEntries, used>>
    BY <1>4 DEF RouterEntries, TxEntries
  <2> QED BY <1>5, <2>1, <2>2, <2>3, EntryTypes DEF IInv, EntriesConserved
<1> QED BY <1>4, <1>8, <1>9, <1>10, <1>11, <1>12, <1>13 DEF IInv, NoEmAssert

\* TNotifyAdd by the receiving side of a driver moves no pbuf.
LEMMA RxNotifyInv ==
  ASSUME IInv, NEW n \in Netif, RxNotify(n)
  PROVE  IInv'
<1> USE DEF Netif
<1>1. /\ UNCHANGED <<free_chain, ref, if_idx, free_pbuf_q, q_input, q_output,
                     q_output_len, callback_pending, used, if_up, task_pc,
                     task_res, task_blk, rx_buf, tx_pc, tx_buf, held, core_pc,
                     fault>>
      /\ rx_pc' = [rx_pc EXCEPT ![n] = "idle"]
      /\ rx_pc[n] \in {"notify_router", "notify_free"}
      /\ notify' \in {notify \cup {Router}, notify \cup {Free}}
  BY DEF RxNotify, memVars, qVars, taskVars, txVars, lwipVars
<1>2. TypeOK
  BY DEF IInv
<1>3. TypeOK'
  BY <1>1, <1>2 DEF TypeOK, RxPc
<1>4. Ownership'
  BY <1>1 DEF IInv, Ownership, OnePlace, At
<1>5. SlotInv' /\ RefInv' /\ IfIdxInv'
  BY <1>1, <1>2 DEF IInv, SlotInv, RefInv, IfIdxInv, TypeOK
<1>6. LenInv' /\ CallbackOwed' /\ CallbackOnce' /\ PendingMeansEmpty'
  BY <1>1 DEF IInv, LenInv, CallbackOwed, CallbackOnce, PendingMeansEmpty
<1>7. EntriesConserved'
  BY <1>1, <1>2 DEF IInv, EntriesConserved, QueuedEntries, RouterEntries,
     RxEntries, TxEntries, TypeOK, One
<1> QED BY <1>1, <1>3, <1>4, <1>5, <1>6, <1>7 DEF IInv, NoEmAssert

\* eth_get_packet moves the head of the output queue to the driver.
LEMMA TxGetPacketInv ==
  ASSUME IInv, NEW n \in Netif, TxGetPacket(n)
  PROVE  IInv'
<1> USE DEF Netif
<1>1. /\ UNCHANGED <<free_chain, ref, if_idx, free_pbuf_q, q_input, used, if_up,
                     notify, task_pc, task_res, task_blk, rx_pc, rx_buf, held,
                     core_pc>>
      /\ tx_pc[n] = "idle" /\ fault = "none"
  BY DEF TxGetPacket, Running, memVars, taskVars, rxVars, lwipVars
<1>2. TypeOK /\ tx_buf[n] = NoPbuf
  BY <1>1 DEF IInv, SlotInv
<1>3. CASE q_output[n] = <<>>
  <2>1. /\ callback_pending' = [callback_pending EXCEPT ![n] = TRUE]
        /\ tx_pc' = [tx_pc EXCEPT ![n] = "wait"]
        /\ UNCHANGED <<q_output, q_output_len, tx_buf, fault>>
    BY <1>3 DEF TxGetPacket
  <2>2. TypeOK'
    BY <1>1, <1>2, <2>1 DEF TypeOK, TxPc
  <2>3. Ownership'
    BY <1>1, <2>1 DEF IInv, Ownership, OnePlace, At
  <2>4. SlotInv' /\ RefInv' /\ IfIdxInv' /\ LenInv'
    BY <1>1, <1>2, <2>1 DEF IInv, SlotInv, RefInv, IfIdxInv, LenInv, TypeOK
  <2>5. PendingMeansEmpty'
    BY <1>2, <1>3, <2>1 DEF IInv, PendingMeansEmpty, TypeOK
  <2>6. CallbackOwed' /\ CallbackOnce'
    BY <1>1, <1>2, <2>1 DEF IInv, CallbackOwed, CallbackOnce, TypeOK
  <2>7. EntriesConserved'
    BY <1>1, <1>2, <2>1 DEF IInv, EntriesConserved, QueuedEntries, RouterEntries,
       RxEntries, TxEntries, TypeOK, One
  <2> QED BY <2>1, <2>2, <2>3, <2>4, <2>5, <2>6, <2>7 DEF IInv, NoEmAssert
<1>4. CASE q_output[n] # <<>>
  <2>1. PICK p \in Pbuf : p = Head(q_output[n])
    BY <1>2, <1>4, HeadTailProperties DEF TypeOK
  <2>2. /\ p \in Range(q_output[n])
        /\ Tail(q_output[n]) \in Seq(Pbuf)
        /\ IsInjective(Tail(q_output[n]))
        /\ Range(Tail(q_output[n])) = Range(q_output[n]) \ {p}
        /\ Len(q_output[n]) \in Nat \ {0}
        /\ Len(Tail(q_output[n])) = Len(q_output[n]) - 1
    BY <1>2, <1>4, <2>1, PopLemma DEF TypeOK, IInv, Ownership
  <2>3. q_output_len[n] = Len(q_output[n])
    BY DEF IInv, LenInv
  <2>4. /\ tx_buf' = [tx_buf EXCEPT ![n] = p]
        /\ q_output' = [q_output EXCEPT ![n] = Tail(q_output[n])]
        /\ q_output_len' = [q_output_len EXCEPT ![n] = Len(q_output[n]) - 1]
        /\ tx_pc' = [tx_pc EXCEPT ![n] = "entry"]
        /\ UNCHANGED callback_pending
        /\ fault' = "none"
    BY <1>4, <2>1, <2>2, <2>3 DEF TxGetPacket, EmAssert
  <2>5. TypeOK'
    BY <1>1, <1>2, <2>2, <2>4 DEF TypeOK, TxPc
  <2>6. Ownership'
    <3>1. PICK a \in Places : a = IF n = "BLE" THEN "out_ble" ELSE "out_lwip"
      BY DEF Places
    <3>2. PICK b \in Places : b = IF n = "BLE" THEN "tx_ble" ELSE "tx_lwip"
      BY DEF Places
    <3>3. \A c \in Places : At(p, c) <=> c = a
      <4>1. At(p, a)
        BY <2>2, <3>1 DEF At
      <4> QED BY <4>1, Apart DEF IInv, Ownership
    <3>4. /\ \A m \in Netif : tx_buf'[m] = IF m = n THEN p ELSE tx_buf[m]
          /\ \A m \in Netif : Range(q_output'[m]) =
               IF m = n THEN Range(q_output[m]) \ {p} ELSE Range(q_output[m])
      BY <1>2, <2>2, <2>4 DEF TypeOK
    <3>5. \A c \in Places : At(p, c)' <=> c = b
      BY <1>1, <1>2, <3>1, <3>2, <3>3, <3>4 DEF At, Places
    <3>6. \A q \in Pbuf \ {p}, c \in Places : At(q, c)' <=> At(q, c)
      BY <1>1, <1>2, <3>4, EthMemAssumption DEF At, Places
    <3>7. \A q \in Pbuf : OnePlace(q)'
      BY <3>5, <3>6, MoveLemma DEF IInv, Ownership
    <3>8. \A m \in Netif : IsInjective(q_output'[m])
      BY <1>2, <2>2, <2>4 DEF IInv, Ownership, TypeOK
    <3> QED BY <3>7, <3>8, <1>1 DEF IInv, Ownership
  <2>7. SlotInv' /\ RefInv' /\ IfIdxInv'
    BY <1>1, <1>2, <2>4, EthMemAssumption DEF IInv, SlotInv, RefInv, IfIdxInv, TypeOK
  <2>8. LenInv'
    BY <1>2, <2>2, <2>4 DEF IInv, LenInv, TypeOK
  <2>9. PendingMeansEmpty'
    BY <1>2, <1>4, <2>4 DEF IInv, PendingMeansEmpty, TypeOK
  <2>10. CallbackOwed' /\ CallbackOnce'
    BY <1>1, <1>2, <2>4 DEF IInv, CallbackOwed, CallbackOnce, TypeOK
  <2>11. EntriesConserved'
    <3>1. QueuedEntries' = QueuedEntries - 1
      <4>1. /\ Len(q_input) \in Nat
            /\ Len(q_output["BLE"]) \in Nat /\ Len(q_output["LWIP"]) \in Nat
        BY <1>2, LenProperties DEF TypeOK
      <4>2. CASE n = "BLE"
        <5>1. /\ Len(q_output'["BLE"]) = Len(q_output["BLE"]) - 1
              /\ q_output'["LWIP"] = q_output["LWIP"]
          BY <1>2, <2>2, <2>4, <4>2 DEF TypeOK
        <5> QED BY <1>1, <4>1, <5>1, SumLess DEF QueuedEntries
      <4>3. CASE n = "LWIP"
        <5>1. /\ Len(q_output'["LWIP"]) = Len(q_output["LWIP"]) - 1
              /\ q_output'["BLE"] = q_output["BLE"]
          BY <1>2, <2>2, <2>4, <4>3 DEF TypeOK
        <5> QED BY <1>1, <4>1, <5>1, SumLess DEF QueuedEntries
      <4> QED BY <4>2, <4>3
    <3>2. TxEntries' = TxEntries + 1
      BY <1>1, <1>2, <2>4 DEF TxEntries, One, TypeOK
    <3>3. UNCHANGED <<RouterEntries, RxEntries, used>>
      BY <1>1 DEF RouterEntries, RxEntries
    <3> QED BY <1>2, <3>1, <3>2, <3>3, EntryTypes DEF IInv, EntriesConserved
  <2> QED BY <2>4, <2>5, <2>6, <2>7, <2>8, <2>9, <2>10, <2>11 DEF IInv, NoEmAssert
<1> QED BY <1>3, <1>4

\* The queue entry eth_get_packet frees is one that was in use.
LEMMA TxEntryFreeInv ==
  ASSUME IInv, NEW n \in Netif, TxEntryFree(n)
  PROVE  IInv'
<1> USE DEF Netif
<1>1. TypeOK
  BY DEF IInv
<1>2. used # 0 /\ used - 1 \in Nat
  <2>1. TxEntries \in Nat \ {0}
    BY <1>1 DEF TxEntryFree, TxEntries, One
  <2> QED BY <1>1, <2>1, EntryTypes DEF IInv, EntriesConserved
<1>3. /\ UNCHANGED <<free_chain, ref, if_idx, free_pbuf_q, q_input, q_output,
                     q_output_len, callback_pending, if_up, notify, task_pc,
                     task_res, task_blk, rx_pc, rx_buf, tx_buf, held, core_pc>>
      /\ tx_pc' = [tx_pc EXCEPT ![n] = "hold"]
      /\ tx_pc[n] = "entry"
      /\ used' = used - 1
      /\ fault' = "none"
  BY <1>2 DEF TxEntryFree, EmAssert, memVars, taskVars, rxVars, lwipVars
<1>4. TypeOK'
  BY <1>1, <1>2, <1>3 DEF TypeOK, TxPc
<1>5. Ownership'
  BY <1>3 DEF IInv, Ownership, OnePlace, At
<1>6. SlotInv' /\ RefInv' /\ IfIdxInv'
  BY <1>1, <1>3 DEF IInv, SlotInv, RefInv, IfIdxInv, TypeOK
<1>7. LenInv' /\ CallbackOwed' /\ CallbackOnce' /\ PendingMeansEmpty'
  BY <1>1, <1>3 DEF IInv, LenInv, CallbackOwed, CallbackOnce, PendingMeansEmpty, TypeOK
<1>8. EntriesConserved'
  <2>1. TxEntries' = TxEntries - 1
    BY <1>1, <1>3 DEF TxEntries, One, TypeOK
  <2>2. UNCHANGED <<QueuedEntries, RouterEntries, RxEntries>>
    BY <1>3 DEF QueuedEntries, RouterEntries, RxEntries
  <2> QED BY <1>1, <1>3, <2>1, <2>2, EntryTypes DEF IInv, EntriesConserved
<1> QED BY <1>3, <1>4, <1>5, <1>6, <1>7, <1>8 DEF IInv, NoEmAssert

\* The BLE driver releases a pbuf it has sent.
LEMMA BleTxFreeInv ==
  ASSUME IInv, BleTxFree
  PROVE  IInv'
<1> USE DEF Netif
<1>1. PICK p \in Pbuf : p = tx_buf["BLE"]
  BY DEF IInv, TypeOK, SlotInv, BleTxFree
<1>2. /\ \A c \in Places : At(p, c) <=> c = "tx_ble"
      /\ ref[p] = 1
      /\ Append(free_pbuf_q, p) \in Seq(Pbuf)
      /\ IsInjective(Append(free_pbuf_q, p))
      /\ Range(Append(free_pbuf_q, p)) = Range(free_pbuf_q) \cup {p}
  <2>1. At(p, "tx_ble") /\ "tx_ble" \in Places \ {"free_chain", "free_pbuf_q", "lwip"}
    BY <1>1 DEF At, Places
  <2> QED BY <2>1, ReleaseLemma
<1>3. /\ free_pbuf_q' = Append(free_pbuf_q, p)
      /\ UNCHANGED <<free_chain, ref, if_idx, q_input, q_output, q_output_len,
                     callback_pending, used, if_up, notify, task_pc, task_res,
                     task_blk, rx_pc, rx_buf, held, core_pc>>
      /\ tx_buf' = [tx_buf EXCEPT !["BLE"] = NoPbuf]
      /\ tx_pc' = [tx_pc EXCEPT !["BLE"] = "notify_free"]
      /\ fault' = "none"
      /\ tx_pc["BLE"] = "hold"
  BY <1>1, <1>2 DEF BleTxFree, FreeRequest, AfterFreeRequest, EmAssert, qVars,
     taskVars, rxVars, lwipVars
<1>4. TypeOK
  BY DEF IInv
<1>5. TypeOK'
  BY <1>2, <1>3, <1>4 DEF TypeOK, TxPc
<1>6. Ownership'
  <2>0. tx_buf \in [Netif -> Pbuf \cup {NoPbuf}]
    BY <1>4 DEF TypeOK
  <2>1. \A c \in Places : At(p, c)' <=> c = "free_pbuf_q"
    BY <1>1, <1>2, <1>3, <2>0, EthMemAssumption DEF At, Places
  <2>2. \A q \in Pbuf \ {p}, c \in Places : At(q, c)' <=> At(q, c)
    BY <1>1, <1>2, <1>3, <2>0, EthMemAssumption DEF At, Places
  <2>3. \A q \in Pbuf : OnePlace(q)'
    BY <2>1, <2>2, MoveLemma DEF IInv, Ownership, Places
  <2> QED BY <2>3, <1>2, <1>3 DEF IInv, Ownership
<1>7. SlotInv' /\ RefInv' /\ IfIdxInv'
  BY <1>3, <1>4 DEF IInv, SlotInv, RefInv, IfIdxInv, TypeOK
<1>8. LenInv' /\ CallbackOwed' /\ CallbackOnce' /\ PendingMeansEmpty'
  BY <1>3, <1>4 DEF IInv, LenInv, CallbackOwed, CallbackOnce,
     PendingMeansEmpty, TypeOK
<1>9. EntriesConserved'
  BY <1>3, <1>4 DEF IInv, EntriesConserved, QueuedEntries, RouterEntries,
     RxEntries, TxEntries, TypeOK, One
<1> QED BY <1>3, <1>5, <1>6, <1>7, <1>8, <1>9 DEF IInv, NoEmAssert

\* TNotifyAdd by the BLE driver moves no pbuf.
LEMMA BleTxNotifyInv ==
  ASSUME IInv, BleTxNotify
  PROVE  IInv'
<1> USE DEF Netif
<1>1. /\ UNCHANGED <<free_chain, ref, if_idx, free_pbuf_q, q_input, q_output,
                     q_output_len, callback_pending, used, if_up, task_pc,
                     task_res, task_blk, rx_pc, rx_buf, tx_buf, held, core_pc,
                     fault>>
      /\ tx_pc' = [tx_pc EXCEPT !["BLE"] = "idle"]
      /\ tx_pc["BLE"] = "notify_free"
      /\ notify' = notify \cup {Free}
  BY DEF BleTxNotify, memVars, qVars, taskVars, rxVars, lwipVars
<1>2. TypeOK
  BY DEF IInv
<1>3. TypeOK'
  BY <1>1, <1>2 DEF TypeOK, TxPc
<1>4. Ownership'
  BY <1>1 DEF IInv, Ownership, OnePlace, At
<1>5. SlotInv' /\ RefInv' /\ IfIdxInv'
  BY <1>1, <1>2 DEF IInv, SlotInv, RefInv, IfIdxInv, TypeOK
<1>6. LenInv' /\ CallbackOwed' /\ CallbackOnce' /\ PendingMeansEmpty'
  BY <1>1, <1>2 DEF IInv, LenInv, CallbackOwed, CallbackOnce, PendingMeansEmpty, TypeOK
<1>7. EntriesConserved'
  BY <1>1, <1>2 DEF IInv, EntriesConserved, QueuedEntries, RouterEntries,
     RxEntries, TxEntries, TypeOK, One
<1> QED BY <1>1, <1>3, <1>4, <1>5, <1>6, <1>7 DEF IInv, NoEmAssert

\* netif->input moves the pbuf from the lwIP driver into the stack.
LEMMA LwipInputInv ==
  ASSUME IInv, LwipInput
  PROVE  IInv'
<1> USE DEF Netif
<1>1. PICK p \in Pbuf : p = tx_buf["LWIP"]
  BY DEF IInv, TypeOK, SlotInv, LwipInput
<1>2. ref[p] = 1 /\ \A c \in Places : At(p, c) <=> c = "tx_lwip"
  <2>1. At(p, "tx_lwip") /\ "tx_lwip" \in Places \ {"free_chain", "free_pbuf_q", "lwip"}
    BY <1>1 DEF At, Places
  <2> QED BY <2>1, ReleaseLemma
<1>3. /\ UNCHANGED <<free_chain, ref, if_idx, free_pbuf_q, q_input, q_output,
                     q_output_len, callback_pending, used, if_up, notify, task_pc,
                     task_res, task_blk, rx_pc, rx_buf, core_pc>>
      /\ held' = held \cup {p}
      /\ tx_buf' = [tx_buf EXCEPT !["LWIP"] = NoPbuf]
      /\ tx_pc' = [tx_pc EXCEPT !["LWIP"] = "idle"]
      /\ fault' = "none"
      /\ tx_pc["LWIP"] = "hold"
  BY <1>1, <1>2 DEF LwipInput, EmAssert, memVars, qVars, taskVars, rxVars
<1>4. TypeOK
  BY DEF IInv
<1>5. TypeOK'
  BY <1>3, <1>4 DEF TypeOK, TxPc
<1>6. Ownership'
  <2>0. tx_buf \in [Netif -> Pbuf \cup {NoPbuf}]
    BY <1>4 DEF TypeOK
  <2>1. \A c \in Places : At(p, c)' <=> c = "lwip"
    BY <1>1, <1>2, <1>3, <2>0, EthMemAssumption DEF At, Places
  <2>2. \A q \in Pbuf \ {p}, c \in Places : At(q, c)' <=> At(q, c)
    BY <1>1, <1>3, <2>0, EthMemAssumption DEF At, Places
  <2>3. \A q \in Pbuf : OnePlace(q)'
    BY <2>1, <2>2, MoveLemma DEF IInv, Ownership, Places
  <2> QED BY <2>3, <1>3 DEF IInv, Ownership
<1>7. SlotInv' /\ RefInv' /\ IfIdxInv'
  BY <1>2, <1>3, <1>4 DEF IInv, SlotInv, RefInv, IfIdxInv, TypeOK
<1>8. LenInv' /\ CallbackOwed' /\ CallbackOnce' /\ PendingMeansEmpty'
  BY <1>3, <1>4 DEF IInv, LenInv, CallbackOwed, CallbackOnce,
     PendingMeansEmpty, TypeOK
<1>9. EntriesConserved'
  BY <1>3, <1>4 DEF IInv, EntriesConserved, QueuedEntries, RouterEntries,
     RxEntries, TxEntries, TypeOK, One
<1> QED BY <1>3, <1>5, <1>6, <1>7, <1>8, <1>9 DEF IInv, NoEmAssert

\* References taken and dropped inside lwIP leave at least one.
LEMMA LwipPbufRefInv ==
  ASSUME IInv, NEW p \in Pbuf, LwipPbufRef(p) \/ LwipPbufUnref(p)
  PROVE  IInv'
<1>1. /\ UNCHANGED <<free_chain, if_idx, free_pbuf_q, q_input, q_output,
                     q_output_len, callback_pending, used, if_up, notify, task_pc,
                     task_res, task_blk, rx_pc, rx_buf, tx_pc, tx_buf, held,
                     core_pc, fault>>
      /\ p \in held
      /\ \/ ref' = [ref EXCEPT ![p] = ref[p] + 1]
         \/ ref[p] > 1 /\ ref' = [ref EXCEPT ![p] = ref[p] - 1]
  BY DEF LwipPbufRef, LwipPbufUnref, qVars, taskVars, rxVars, txVars, lwipVars
<1>2. TypeOK
  BY DEF IInv
<1>3. TypeOK'
  <2>1. ref' \in [Pbuf -> Nat]
    <3>1. ref \in [Pbuf -> Nat] /\ ref[p] \in Nat
      BY <1>2 DEF TypeOK
    <3>2. CASE ref' = [ref EXCEPT ![p] = ref[p] + 1]
      BY <3>1, <3>2
    <3>3. CASE ref[p] > 1 /\ ref' = [ref EXCEPT ![p] = ref[p] - 1]
      <4>1. ref[p] - 1 \in Nat
        BY <3>1, <3>3
      <4> QED BY <3>1, <3>3, <4>1
    <3> QED BY <1>1, <3>2, <3>3
  <2> QED BY <1>1, <1>2, <2>1 DEF TypeOK
<1>4. Ownership'
  BY <1>1 DEF IInv, Ownership, OnePlace, At
<1>5. RefInv'
  BY <1>1, <1>2 DEF IInv, RefInv, TypeOK
<1>6. SlotInv' /\ IfIdxInv'
  BY <1>1 DEF IInv, SlotInv, IfIdxInv
<1>7. LenInv' /\ CallbackOwed' /\ CallbackOnce' /\ PendingMeansEmpty'
  BY <1>1 DEF IInv, LenInv, CallbackOwed, CallbackOnce, PendingMeansEmpty
<1>8. EntriesConserved'
  BY <1>1 DEF IInv, EntriesConserved, QueuedEntries, RouterEntries, RxEntries, TxEntries
<1> QED BY <1>1, <1>3, <1>4, <1>5, <1>6, <1>7, <1>8 DEF IInv, NoEmAssert

\* eth_custom_pbuf_free_request moves a pbuf from lwIP to the free requests.
LEMMA LwipPbufFreeInv ==
  ASSUME IInv, NEW p \in Pbuf, LwipPbufFree(p)
  PROVE  IInv'
<1> USE DEF Netif
<1>1. /\ UNCHANGED <<free_chain, ref, if_idx, q_input, q_output, q_output_len,
                     callback_pending, used, if_up, notify, task_pc, task_res,
                     task_blk, rx_pc, rx_buf, tx_pc, tx_buf, fault>>
      /\ p \in held /\ ref[p] = 1
      /\ held' = held \ {p}
      /\ free_pbuf_q' = Append(free_pbuf_q, p)
      /\ core_pc' = "notify_free"
  BY DEF LwipPbufFree, qVars, taskVars, rxVars, txVars
<1>2. TypeOK
  BY DEF IInv
<1>3. \A c \in Places : At(p, c) <=> c = "lwip"
  BY <1>1, Apart DEF IInv, Ownership, At, Places
<1>4. p \notin Range(free_pbuf_q) /\ p \notin free_chain
  BY <1>3 DEF At, Places
<1>5. /\ free_pbuf_q' \in Seq(Pbuf) /\ IsInjective(free_pbuf_q')
      /\ Range(free_pbuf_q') = Range(free_pbuf_q) \cup {p}
  BY <1>1, <1>2, <1>4, PushLemma DEF IInv, TypeOK, Ownership
<1>6. TypeOK'
  BY <1>1, <1>2, <1>5 DEF TypeOK
<1>7. Ownership'
  <2>1. \A c \in Places : At(p, c)' <=> c = "free_pbuf_q"
    BY <1>1, <1>3, <1>5 DEF At, Places
  <2>2. \A q \in Pbuf \ {p}, c \in Places : At(q, c)' <=> At(q, c)
    BY <1>1, <1>5 DEF At, Places
  <2>3. \A q \in Pbuf : OnePlace(q)'
    BY <2>1, <2>2, MoveLemma DEF IInv, Ownership, Places
  <2> QED BY <2>3, <1>1, <1>5 DEF IInv, Ownership
<1>8. RefInv'
  BY <1>1, <1>4 DEF IInv, RefInv, One
<1>9. SlotInv' /\ IfIdxInv'
  BY <1>1 DEF IInv, SlotInv, IfIdxInv
<1>10. LenInv' /\ CallbackOwed' /\ CallbackOnce' /\ PendingMeansEmpty'
  BY <1>1 DEF IInv, LenInv, CallbackOwed, CallbackOnce, PendingMeansEmpty
<1>11. EntriesConserved'
  BY <1>1 DEF IInv, EntriesConserved, QueuedEntries, RouterEntries, RxEntries, TxEntries
<1> QED BY <1>1, <1>6, <1>7, <1>8, <1>9, <1>10, <1>11 DEF IInv, NoEmAssert

\* EthQueueTask moves on without a packet and without touching a queue.
LEMMA TaskPcInv ==
  ASSUME IInv, TypeOK',
         UNCHANGED <<free_chain, ref, if_idx, free_pbuf_q, q_input, q_output,
                     q_output_len, callback_pending, used, task_blk, rx_pc,
                     rx_buf, tx_pc, tx_buf, held, fault>>,
         \/ /\ task_pc \in {"wait", "free", "pop", "free2"}
            /\ task_pc' \in {"wait", "free", "pop", "free2"}
         \/ task_pc = "drop_notify" /\ task_pc' = "drop_entry"
  PROVE  IInv'
<1>1. Ownership'
  BY DEF IInv, Ownership, OnePlace, At
<1>2. SlotInv' /\ RefInv' /\ IfIdxInv'
  BY DEF IInv, SlotInv, RefInv, IfIdxInv
<1>3. LenInv' /\ PendingMeansEmpty'
  BY DEF IInv, LenInv, PendingMeansEmpty
<1>4. CallbackOwed' /\ CallbackOnce'
  BY DEF IInv, CallbackOwed, CallbackOnce
<1>5. EntriesConserved'
  BY DEF IInv, EntriesConserved, QueuedEntries, RouterEntries, RxEntries, TxEntries, One
<1> QED BY <1>1, <1>2, <1>3, <1>4, <1>5 DEF IInv, NoEmAssert

\* TNotifyWait, the end of free_blk and TNotifyAdd in the task move no pbuf.
LEMMA TaskIdleInv ==
  ASSUME IInv,
         TaskWait \/ FreeBlkDone \/ TaskDropNotify \/ (TaskPop /\ q_input = <<>>)
  PROVE  IInv'
<1> USE DEF memVars, qVars, taskVars, rxVars, txVars, lwipVars
<1>1. CASE TaskWait
  <2>1. TypeOK'
    BY <1>1 DEF TaskWait, IInv, TypeOK, TaskPc
  <2> QED BY <1>1, <2>1, TaskPcInv DEF TaskWait
<1>2. CASE FreeBlkDone
  <2>1. TypeOK'
    BY <1>2 DEF FreeBlkDone, IInv, TypeOK, TaskPc
  <2> QED BY <1>2, <2>1, TaskPcInv DEF FreeBlkDone
<1>3. CASE TaskDropNotify
  <2>1. TypeOK'
    BY <1>3 DEF TaskDropNotify, IInv, TypeOK, TaskPc
  <2> QED BY <1>3, <2>1, TaskPcInv DEF TaskDropNotify
<1>4. CASE TaskPop /\ q_input = <<>>
  <2>1. TypeOK'
    BY <1>4 DEF TaskPop, IInv, TypeOK, TaskPc
  <2> QED BY <1>4, <2>1, TaskPcInv DEF TaskPop
<1> QED BY <1>1, <1>2, <1>3, <1>4

\* free_blk moves the head of the free requests to the free chain.
LEMMA FreeBlkInv ==
  ASSUME IInv, FreeBlk
  PROVE  IInv'
<1> USE DEF Netif
<1>1. TypeOK
  BY DEF IInv
<1>2. PICK p \in Pbuf : p = Head(free_pbuf_q)
  BY <1>1, HeadTailProperties DEF TypeOK, FreeBlk
<1>3. /\ p \in Range(free_pbuf_q)
      /\ Tail(free_pbuf_q) \in Seq(Pbuf)
      /\ IsInjective(Tail(free_pbuf_q))
      /\ Range(Tail(free_pbuf_q)) = Range(free_pbuf_q) \ {p}
  BY <1>1, <1>2, PopLemma DEF TypeOK, IInv, Ownership, FreeBlk
<1>4. \A c \in Places : At(p, c) <=> c = "free_pbuf_q"
  BY <1>3, Apart DEF IInv, Ownership, At, Places
<1>5. p \notin held /\ p \notin free_chain
  BY <1>4 DEF At, Places
<1>6. ref[p] = 1
  BY <1>5 DEF IInv, RefInv, One
<1>7. /\ UNCHANGED <<q_input, q_output, q_output_len, callback_pending, used,
                     if_up, notify, task_pc, task_res, task_blk, rx_pc,
                     rx_buf, tx_pc, tx_buf, held, core_pc>>
      /\ if_idx' = [if_idx EXCEPT ![p] = "none"]
      /\ free_pbuf_q' = Tail(free_pbuf_q)
      /\ free_chain' = free_chain \cup {p}
      /\ ref' = [ref EXCEPT ![p] = 0]
      /\ fault' = "none"
  BY <1>2, <1>6 DEF FreeBlk, EmAssert, qVars, taskVars, rxVars, txVars, lwipVars
<1>8. TypeOK'
  BY <1>1, <1>3, <1>7 DEF TypeOK
<1>9. Ownership'
  <2>1. \A c \in Places : At(p, c)' <=> c = "free_chain"
    BY <1>3, <1>4, <1>7 DEF At, Places
  <2>2. \A q \in Pbuf \ {p}, c \in Places : At(q, c)' <=> At(q, c)
    BY <1>3, <1>7 DEF At, Places
  <2>3. \A q \in Pbuf : OnePlace(q)'
    BY <2>1, <2>2, MoveLemma DEF IInv, Ownership, Places
  <2> QED BY <2>3, <1>3, <1>7 DEF IInv, Ownership
<1>10. RefInv'
  BY <1>1, <1>5, <1>7 DEF IInv, RefInv, One, TypeOK
<1>11. SlotInv' /\ IfIdxInv'
  <2>1. p # task_blk /\ p \notin Range(q_input)
        /\ \A n \in Netif : p # rx_buf[n]
    BY <1>4 DEF At, Places, Netif
  <2>2. \A i \in DOMAIN q_input : q_input[i] \in Pbuf /\ q_input[i] # p
    BY <1>1, <2>1, ElementOfSeq, LenProperties DEF TypeOK, Range
  <2> QED BY <1>1, <1>7, <2>1, <2>2 DEF IInv, SlotInv, IfIdxInv, TypeOK
<1>12. LenInv' /\ CallbackOwed' /\ CallbackOnce' /\ PendingMeansEmpty'
  <2>1. task_blk # p
    BY <1>4 DEF At, Places
  <2> QED BY <1>1, <1>7, <2>1 DEF IInv, LenInv, CallbackOwed, CallbackOnce,
             PendingMeansEmpty, TypeOK
<1>13. EntriesConserved'
  BY <1>7 DEF IInv, EntriesConserved, QueuedEntries, RouterEntries, RxEntries, TxEntries
<1> QED BY <1>7, <1>8, <1>9, <1>10, <1>11, <1>12, <1>13 DEF IInv, NoEmAssert

\* EthQueueTask moves the head of q_input to itself.
LEMMA TaskPopInv ==
  ASSUME IInv, TaskPop, q_input # <<>>
  PROVE  IInv'
<1> USE DEF Netif
<1>1. TypeOK
  BY DEF IInv
<1>2. PICK p \in Pbuf : p = Head(q_input)
  BY <1>1, HeadTailProperties DEF TypeOK
<1>3. /\ p \in Range(q_input)
      /\ Tail(q_input) \in Seq(Pbuf)
      /\ IsInjective(Tail(q_input))
      /\ Range(Tail(q_input)) = Range(q_input) \ {p}
      /\ Len(Tail(q_input)) = Len(q_input) - 1
  BY <1>1, <1>2, PopLemma DEF TypeOK, IInv, Ownership
<1>4. /\ UNCHANGED <<free_chain, ref, if_idx, free_pbuf_q, q_output, q_output_len,
                     callback_pending, used, if_up, notify, task_res, rx_pc,
                     rx_buf, tx_pc, tx_buf, held, core_pc, fault>>
      /\ task_pc = "pop" /\ task_pc' = "route"
      /\ task_blk = NoPbuf /\ task_blk' = p
      /\ q_input' = Tail(q_input)
  BY <1>2 DEF TaskPop, memVars, rxVars, txVars, lwipVars, IInv, SlotInv
<1>5. TypeOK'
  BY <1>1, <1>3, <1>4 DEF TypeOK, TaskPc
<1>6. Ownership'
  <2>1. \A c \in Places : At(p, c) <=> c = "q_input"
    BY <1>3, Apart DEF IInv, Ownership, At, Places
  <2>2. \A c \in Places : At(p, c)' <=> c = "router"
    BY <1>3, <1>4, <2>1 DEF At, Places
  <2>3. \A q \in Pbuf \ {p}, c \in Places : At(q, c)' <=> At(q, c)
    BY <1>3, <1>4, EthMemAssumption DEF At, Places
  <2>4. \A q \in Pbuf : OnePlace(q)'
    BY <2>2, <2>3, MoveLemma DEF IInv, Ownership, Places
  <2> QED BY <2>4, <1>3, <1>4 DEF IInv, Ownership
<1>7. SlotInv' /\ RefInv'
  BY <1>4, EthMemAssumption DEF IInv, SlotInv, RefInv
<1>8. IfIdxInv'
  <2>1. \A q \in Range(q_input) : if_idx[q] \in Netif
    BY DEF IInv, IfIdxInv, Range
  <2>2. \A q \in Range(q_input') : if_idx[q] \in Netif
    BY <1>3, <1>4, <2>1
  <2> QED BY <1>3, <1>4, <2>1, <2>2 DEF IInv, IfIdxInv, Range
<1>9. LenInv' /\ CallbackOwed' /\ CallbackOnce' /\ PendingMeansEmpty'
  BY <1>4 DEF IInv, LenInv, CallbackOwed, CallbackOnce, PendingMeansEmpty
<1>10. EntriesConserved'
  <2>1. /\ Len(q_input) \in Nat
        /\ Len(q_output["BLE"]) \in Nat /\ Len(q_output["LWIP"]) \in Nat
    BY <1>1, LenProperties DEF TypeOK
  <2>2. QueuedEntries' = QueuedEntries - 1
    BY <1>3, <1>4, <2>1, SumLess DEF QueuedEntries
  <2>3. RouterEntries' = RouterEntries + 1
    BY <1>4 DEF RouterEntries, One
  <2>4. UNCHANGED <<RxEntries, TxEntries, used>>
    BY <1>4 DEF RxEntries, TxEntries
  <2> QED BY <1>1, <2>2, <2>3, <2>4, EntryTypes DEF IInv, EntriesConserved
<1> QED BY <1>4, <1>5, <1>6, <1>7, <1>8, <1>9, <1>10 DEF IInv, NoEmAssert

\* eth_route_block: the packet stays with the router or joins an output queue.
LEMMA TaskRouteInv ==
  ASSUME IInv, TaskRoute
  PROVE  IInv'
<1> USE DEF Netif
<1>1. TypeOK /\ task_pc = "route" /\ fault = "none"
  BY DEF IInv, TaskRoute, Running
<1>2. PICK p \in Pbuf : p = task_blk
  BY <1>1 DEF IInv, SlotInv, TypeOK
<1>3. ref[p] = 1 /\ \A c \in Places : At(p, c) <=> c = "router"
  <2>1. At(p, "router") /\ "router" \in Places \ {"free_chain", "free_pbuf_q", "lwip"}
    BY <1>2 DEF At, Places
  <2> QED BY <2>1, ReleaseLemma
<1>4. if_idx[p] \in Netif
  BY <1>2, EthMemAssumption DEF IInv, IfIdxInv
<1>5. PICK n \in Netif : n = Dst(if_idx[p])
  BY <1>4 DEF Dst
<1>6. UNCHANGED <<free_chain, ref, if_idx, free_pbuf_q, q_input, used, if_up,
                  notify, task_res, rx_pc, rx_buf, tx_pc, tx_buf, held, core_pc>>
  BY DEF TaskRoute, memVars, rxVars, txVars, lwipVars
\* The packet stays with the router, which will drop it or call the driver.
<1>7. CASE /\ task_pc' \in {"drop_free", "cbk_entry"}
           /\ UNCHANGED <<q_output, q_output_len, task_blk>>
           /\ fault' = "none"
           /\ callback_pending' =
                IF task_pc' = "drop_free" THEN callback_pending
                ELSE [callback_pending EXCEPT ![n] = FALSE]
           /\ task_pc' = "cbk_entry" => callback_pending[n]
  <2>1. TypeOK'
    BY <1>1, <1>6, <1>7 DEF TypeOK, TaskPc
  <2>2. Ownership'
    BY <1>6, <1>7 DEF IInv, Ownership, OnePlace, At
  <2>3. SlotInv' /\ RefInv' /\ IfIdxInv' /\ LenInv'
    BY <1>1, <1>6, <1>7 DEF IInv, SlotInv, RefInv, IfIdxInv, LenInv
  <2>4. PendingMeansEmpty'
    BY <1>1, <1>7 DEF IInv, PendingMeansEmpty, TypeOK
  <2>5. CallbackOwed' /\ CallbackOnce'
    BY <1>1, <1>2, <1>5, <1>6, <1>7 DEF IInv, CallbackOwed, CallbackOnce, TypeOK
  <2>6. EntriesConserved'
    BY <1>1, <1>6, <1>7 DEF IInv, EntriesConserved, QueuedEntries, RouterEntries,
       RxEntries, TxEntries, One
  <2> QED BY <1>7, <2>1, <2>2, <2>3, <2>4, <2>5, <2>6 DEF IInv, NoEmAssert
\* The packet joins an output queue.
<1>8. CASE /\ ~callback_pending[n]
           /\ q_output' = [q_output EXCEPT ![n] = Append(q_output[n], p)]
           /\ q_output_len' = [q_output_len EXCEPT ![n] = q_output_len[n] + 1]
           /\ task_blk' = NoPbuf
           /\ task_pc' = "free2"
           /\ UNCHANGED <<callback_pending, fault>>
  <2>1. PICK b \in Places : b = IF n = "BLE" THEN "out_ble" ELSE "out_lwip"
    BY DEF Places
  <2>2. p \notin Range(q_output[n])
    BY <1>3 DEF At, Places
  <2>3. /\ Append(q_output[n], p) \in Seq(Pbuf)
        /\ IsInjective(Append(q_output[n], p))
        /\ Range(Append(q_output[n], p)) = Range(q_output[n]) \cup {p}
        /\ Len(Append(q_output[n], p)) = Len(q_output[n]) + 1
    <3>1. q_output[n] \in Seq(Pbuf) /\ IsInjective(q_output[n])
      BY <1>1 DEF TypeOK, IInv, Ownership
    <3> QED BY <2>2, <3>1, PushLemma
  <2>4. TypeOK'
    BY <1>1, <1>6, <1>8, <2>3, SMTT(30) DEF TypeOK, TaskPc
  <2>5. Ownership'
    <3>1. \A m \in Netif : Range(q_output'[m]) =
            IF m = n THEN Range(q_output[m]) \cup {p} ELSE Range(q_output[m])
      BY <1>1, <1>8, <2>3 DEF TypeOK
    <3>2. \A c \in Places : At(p, c)' <=> c = b
      BY <1>2, <1>3, <1>6, <1>8, <2>1, <3>1, EthMemAssumption DEF At, Places
    <3>3. \A q \in Pbuf \ {p}, c \in Places : At(q, c)' <=> At(q, c)
      BY <1>2, <1>6, <1>8, <3>1, EthMemAssumption DEF At, Places
    <3>4. \A q \in Pbuf : OnePlace(q)'
      BY <3>2, <3>3, MoveLemma DEF IInv, Ownership
    <3>5. \A m \in Netif : IsInjective(q_output'[m])
      BY <1>1, <1>8, <2>3 DEF TypeOK, IInv, Ownership
    <3> QED BY <1>6, <3>4, <3>5 DEF IInv, Ownership
  <2>6. SlotInv' /\ RefInv' /\ IfIdxInv'
    BY <1>1, <1>6, <1>8 DEF IInv, SlotInv, RefInv, IfIdxInv
  <2>7. LenInv'
    BY <1>1, <1>8, <2>3 DEF IInv, LenInv, TypeOK
  <2>8. PendingMeansEmpty'
    BY <1>1, <1>8 DEF IInv, PendingMeansEmpty, TypeOK
  <2>9. CallbackOwed' /\ CallbackOnce'
    BY <1>1, <1>6, <1>8 DEF IInv, CallbackOwed, CallbackOnce
  <2>10. EntriesConserved'
    <3>1. PICK i \in Nat, j \in Nat, k \in Nat :
            /\ i = Len(q_input)
            /\ j = Len(q_output["BLE"]) /\ k = Len(q_output["LWIP"])
      BY <1>1, LenProperties DEF TypeOK
    <3>2. QueuedEntries' = QueuedEntries + 1
      <4>1. Len(q_input') = i
        BY <1>6, <3>1
      <4>2. CASE n = "BLE"
        <5>1. /\ Len(q_output'["BLE"]) = j + 1
              /\ Len(q_output'["LWIP"]) = k
          BY <1>1, <1>8, <2>3, <3>1, <4>2 DEF TypeOK
        <5>2. QueuedEntries' = i + (j + 1) + k /\ QueuedEntries = i + j + k
          BY <3>1, <4>1, <5>1 DEF QueuedEntries
        <5> QED BY <5>2, SumMore
      <4>3. CASE n = "LWIP"
        <5>1. /\ Len(q_output'["BLE"]) = j
              /\ Len(q_output'["LWIP"]) = k + 1
          BY <1>1, <1>8, <2>3, <3>1, <4>3 DEF TypeOK
        <5>2. QueuedEntries' = i + j + (k + 1) /\ QueuedEntries = i + j + k
          BY <3>1, <4>1, <5>1 DEF QueuedEntries
        <5> QED BY <5>2, SumMore
      <4> QED BY <4>2, <4>3
    <3>3. RouterEntries' = RouterEntries - 1
      BY <1>1, <1>8 DEF RouterEntries, One
    <3>4. UNCHANGED <<RxEntries, TxEntries, used>>
      BY <1>6 DEF RxEntries, TxEntries
    <3> QED BY <1>1, <3>2, <3>3, <3>4, EntryTypes DEF IInv, EntriesConserved
  <2> QED BY <1>1, <1>8, <2>4, <2>5, <2>6, <2>7, <2>8, <2>9, <2>10 DEF IInv, NoEmAssert
<1>9. CASE ~if_up[if_idx[p]]
  BY <1>1, <1>2, <1>3, <1>4, <1>7, <1>9 DEF TaskRoute
<1>10. CASE if_up[if_idx[p]]
  <2>1. AddToOutputQueue(n)
    BY <1>2, <1>3, <1>4, <1>5, <1>10 DEF TaskRoute
  <2>2. CASE callback_pending[n]
    <3>1. q_output[n] = <<>>
      BY <2>2 DEF IInv, PendingMeansEmpty
    <3> QED BY <1>7, <2>1, <2>2, <3>1 DEF AddToOutputQueue, EmAssert
  <2>3. CASE ~callback_pending[n] /\ q_output_len[n] >= QLen
    BY <1>1, <1>7, <2>1, <2>3 DEF AddToOutputQueue
  <2>4. CASE ~callback_pending[n] /\ ~(q_output_len[n] >= QLen)
    BY <1>2, <1>8, <2>1, <2>4 DEF AddToOutputQueue
  <2> QED BY <2>2, <2>3, <2>4
<1> QED BY <1>9, <1>10

\* The router drops a packet: its pbuf joins the free requests.
LEMMA TaskDropFreeInv ==
  ASSUME IInv, TaskDropFree
  PROVE  IInv'
<1> USE DEF Netif
<1>1. TypeOK
  BY DEF IInv
<1>2. PICK p \in Pbuf : p = task_blk
  BY <1>1 DEF IInv, TypeOK, SlotInv, TaskDropFree
<1>3. /\ \A c \in Places : At(p, c) <=> c = "router"
      /\ ref[p] = 1
      /\ Append(free_pbuf_q, p) \in Seq(Pbuf)
      /\ IsInjective(Append(free_pbuf_q, p))
      /\ Range(Append(free_pbuf_q, p)) = Range(free_pbuf_q) \cup {p}
  <2>1. At(p, "router") /\ "router" \in Places \ {"free_chain", "free_pbuf_q", "lwip"}
    BY <1>2 DEF At, Places
  <2> QED BY <2>1, ReleaseLemma
<1>4. /\ free_pbuf_q' = Append(free_pbuf_q, p)
      /\ UNCHANGED <<free_chain, ref, if_idx, q_input, q_output, q_output_len,
                     callback_pending, used, if_up, notify, task_res, rx_pc,
                     rx_buf, tx_pc, tx_buf, held, core_pc>>
      /\ task_blk' = NoPbuf
      /\ task_pc = "drop_free" /\ task_pc' = "drop_notify"
      /\ fault' = "none"
  BY <1>2, <1>3 DEF TaskDropFree, FreeRequest, AfterFreeRequest, EmAssert, qVars,
     rxVars, txVars, lwipVars
<1>5. TypeOK'
  BY <1>1, <1>3, <1>4 DEF TypeOK, TaskPc
<1>6. Ownership'
  <2>1. \A c \in Places : At(p, c)' <=> c = "free_pbuf_q"
    BY <1>2, <1>3, <1>4, EthMemAssumption DEF At, Places
  <2>2. \A q \in Pbuf \ {p}, c \in Places : At(q, c)' <=> At(q, c)
    BY <1>2, <1>3, <1>4, EthMemAssumption DEF At, Places
  <2>3. \A q \in Pbuf : OnePlace(q)'
    BY <2>1, <2>2, MoveLemma DEF IInv, Ownership, Places
  <2> QED BY <2>3, <1>3, <1>4 DEF IInv, Ownership
<1>7. SlotInv' /\ RefInv' /\ IfIdxInv'
  BY <1>4 DEF IInv, SlotInv, RefInv, IfIdxInv
<1>8. LenInv' /\ CallbackOwed' /\ CallbackOnce' /\ PendingMeansEmpty'
  BY <1>4 DEF IInv, LenInv, CallbackOwed, CallbackOnce, PendingMeansEmpty
<1>9. EntriesConserved'
  BY <1>4 DEF IInv, EntriesConserved, QueuedEntries, RouterEntries, RxEntries,
     TxEntries, One
<1> QED BY <1>4, <1>5, <1>6, <1>7, <1>8, <1>9 DEF IInv, NoEmAssert

\* The queue entry the router frees is one that was in use.
LEMMA TaskEntryFreeInv ==
  ASSUME IInv, TaskEntryFree
  PROVE  IInv'
<1>1. TypeOK
  BY DEF IInv
<1>2. used # 0 /\ used - 1 \in Nat
  <2>1. RouterEntries \in Nat \ {0}
    BY DEF TaskEntryFree, RouterEntries, One
  <2> QED BY <1>1, <2>1, EntryTypes DEF IInv, EntriesConserved
<1>3. /\ UNCHANGED <<free_chain, ref, if_idx, free_pbuf_q, q_input, q_output,
                     q_output_len, callback_pending, if_up, notify, task_res,
                     task_blk, rx_pc, rx_buf, tx_pc, tx_buf, held, core_pc>>
      /\ \/ task_pc = "drop_entry" /\ task_pc' = "free2"
         \/ task_pc = "cbk_entry" /\ task_pc' = "cbk_call"
      /\ used' = used - 1
      /\ fault' = "none"
  BY <1>2 DEF TaskEntryFree, EmAssert, memVars, rxVars, txVars, lwipVars
<1>4. TypeOK'
  BY <1>1, <1>2, <1>3 DEF TypeOK, TaskPc
<1>5. Ownership'
  BY <1>3 DEF IInv, Ownership, OnePlace, At
<1>6. SlotInv' /\ RefInv' /\ IfIdxInv'
  BY <1>3 DEF IInv, SlotInv, RefInv, IfIdxInv
<1>7. LenInv' /\ CallbackOwed' /\ CallbackOnce' /\ PendingMeansEmpty'
  BY <1>3 DEF IInv, LenInv, CallbackOwed, CallbackOnce, PendingMeansEmpty
<1>8. EntriesConserved'
  <2>1. RouterEntries' = RouterEntries - 1
    BY <1>3 DEF RouterEntries, One
  <2>2. UNCHANGED <<QueuedEntries, RxEntries, TxEntries>>
    BY <1>3 DEF QueuedEntries, RxEntries, TxEntries
  <2> QED BY <1>1, <1>3, <2>1, <2>2, EntryTypes DEF IInv, EntriesConserved
<1> QED BY <1>3, <1>4, <1>5, <1>6, <1>7, <1>8 DEF IInv, NoEmAssert

\* The callback moves the packet from the router to the waiting driver.
LEMMA TaskCallbackInv ==
  ASSUME IInv, TaskCallback
  PROVE  IInv'
<1> USE DEF Netif
<1>1. TypeOK /\ task_pc = "cbk_call"
  BY DEF IInv, TaskCallback
<1>2. PICK p \in Pbuf : p = task_blk
  BY <1>1 DEF IInv, TypeOK, SlotInv
<1>3. PICK n \in Netif : n = Dst(if_idx[p])
  BY <1>2, EthMemAssumption DEF Dst, IInv, IfIdxInv
\* The driver that is called is waiting, so it holds no other packet.
<1>4. tx_pc[n] = "wait" /\ tx_buf[n] = NoPbuf /\ ~callback_pending[n]
  <2>1. tx_pc[n] = "wait"
    BY <1>1, <1>2, <1>3 DEF IInv, CallbackOwed
  <2>2. tx_buf[n] = NoPbuf
    BY <2>1 DEF IInv, SlotInv
  <2>3. ~callback_pending[n]
    BY <1>1, <1>2, <1>3 DEF IInv, CallbackOnce
  <2> QED BY <2>1, <2>2, <2>3
<1>5. \A c \in Places : At(p, c) <=> c = "router"
  <2>1. At(p, "router") /\ "router" \in Places \ {"free_chain", "free_pbuf_q", "lwip"}
    BY <1>2 DEF At, Places
  <2> QED BY <2>1, ReleaseLemma
<1>6. /\ UNCHANGED <<free_chain, ref, if_idx, free_pbuf_q, q_input, q_output,
                     q_output_len, callback_pending, used, if_up, notify, task_res,
                     rx_pc, rx_buf, held, core_pc, fault>>
      /\ tx_buf' = [tx_buf EXCEPT ![n] = p]
      /\ tx_pc' = [tx_pc EXCEPT ![n] = "hold"]
      /\ task_blk' = NoPbuf
      /\ task_pc' = "free2"
  BY <1>2, <1>3 DEF TaskCallback, memVars, qVars, rxVars, lwipVars
<1>7. TypeOK'
  BY <1>1, <1>6 DEF TypeOK, TaskPc, TxPc
<1>8. Ownership'
  <2>1. PICK b \in Places : b = IF n = "BLE" THEN "tx_ble" ELSE "tx_lwip"
    BY DEF Places
  <2>2. \A m \in Netif : tx_buf'[m] = IF m = n THEN p ELSE tx_buf[m]
    BY <1>1, <1>6 DEF TypeOK
  <2>3. \A c \in Places : At(p, c)' <=> c = b
    BY <1>2, <1>5, <1>6, <2>1, <2>2, EthMemAssumption DEF At, Places
  <2>4. \A q \in Pbuf \ {p}, c \in Places : At(q, c)' <=> At(q, c)
    BY <1>2, <1>4, <1>6, <2>2, EthMemAssumption DEF At, Places
  <2>5. \A q \in Pbuf : OnePlace(q)'
    BY <2>3, <2>4, MoveLemma DEF IInv, Ownership
  <2> QED BY <2>5, <1>6 DEF IInv, Ownership
<1>9. SlotInv' /\ RefInv' /\ IfIdxInv'
  BY <1>1, <1>4, <1>6, EthMemAssumption DEF IInv, SlotInv, RefInv, IfIdxInv, TypeOK
<1>10. LenInv' /\ PendingMeansEmpty' /\ CallbackOnce'
  BY <1>6 DEF IInv, LenInv, PendingMeansEmpty, CallbackOnce
<1>11. CallbackOwed'
  BY <1>1, <1>2, <1>3, <1>4, <1>6 DEF IInv, CallbackOwed, TypeOK
<1>12. EntriesConserved'
  BY <1>1, <1>4, <1>6 DEF IInv, EntriesConserved, QueuedEntries, RouterEntries,
     RxEntries, TxEntries, One, TypeOK
<1> QED BY <1>6, <1>7, <1>8, <1>9, <1>10, <1>11, <1>12 DEF IInv, NoEmAssert

-----------------------------------------------------------------------------
(***************************************************************************)
(* The theorems                                                            *)
(***************************************************************************)
\* The state JNI_OnLoad leaves behind satisfies the inductive invariant.
LEMMA InitInv ==
  ASSUME Init
  PROVE  IInv
<1> USE DEF Init, Netif
<1>1. TypeOK /\ NoEmAssert
  BY EmptySeq DEF TypeOK, NoEmAssert, TaskPc, RxPc, TxPc
<1>2. Range(<<>>) = {}
  BY DEF Range
<1>3. \A p \in Pbuf, c \in Places : At(p, c) <=> c = "free_chain"
  BY <1>2, EthMemAssumption DEF At, Places
<1>4. Ownership
  BY <1>3 DEF Ownership, OnePlace, Places, IsInjective
<1>5. SlotInv /\ RefInv /\ IfIdxInv /\ LenInv
  BY DEF SlotInv, RefInv, IfIdxInv, LenInv, One
<1>6. PendingMeansEmpty /\ CallbackOwed /\ CallbackOnce
  BY DEF PendingMeansEmpty, CallbackOwed, CallbackOnce
<1>7. EntriesConserved
  BY DEF EntriesConserved, QueuedEntries, RouterEntries, RxEntries, TxEntries, One
<1> QED BY <1>1, <1>4, <1>5, <1>6, <1>7 DEF IInv

\* Every step of every thread preserves the inductive invariant.
LEMMA NextInv ==
  ASSUME IInv, [Next]_vars
  PROVE  IInv'
<1>1. CASE EthQueueTask
  BY <1>1, TaskIdleInv, FreeBlkInv, TaskPopInv, TaskRouteInv, TaskDropFreeInv,
     TaskEntryFreeInv, TaskCallbackInv DEF EthQueueTask
<1>2. ASSUME NEW n \in Netif, Driver(n) PROVE IInv'
  BY <1>2, RxAllocInv, RxFreeInv, RxSubmitInv, RxEnqueueInv, RxNotifyInv,
     TxGetPacketInv, TxEntryFreeInv DEF Driver
<1>3. CASE LwipIfUp \/ LwipNotify
  <2>1. TypeOK'
    BY <1>3 DEF IInv, TypeOK, LwipIfUp, LwipNotify, Netif, memVars, qVars,
       taskVars, rxVars, txVars, lwipVars
  <2>2. fault' # "em_assert"
    BY <1>3 DEF IInv, NoEmAssert, LwipIfUp, LwipNotify
  <2> QED BY <1>3, <2>1, <2>2, QuietInv DEF LwipIfUp, LwipNotify, memVars, qVars,
          taskVars, rxVars, txVars, lwipVars
<1>4. CASE Lwip
  BY <1>3, <1>4, LwipInputInv, LwipPbufRefInv, LwipPbufFreeInv DEF Lwip
<1>5. CASE UNCHANGED vars
  <2> USE DEF vars, memVars, qVars, taskVars, rxVars, txVars, lwipVars
  <2>1. TypeOK'
    BY <1>5 DEF IInv, TypeOK
  <2> QED BY <1>5, <2>1, QuietInv DEF IInv, NoEmAssert
<1> QED BY <1>1, <1>2, <1>4, <1>5, BleTxFreeInv, BleTxNotifyInv DEF Next, Stopped

\* The inductive invariant holds in every reachable state.
THEOREM Invariance == Spec => []IInv
<1>1. Init => IInv
  BY InitInv
<1>2. IInv /\ [Next]_vars => IInv'
  BY NextInv
<1> QED BY <1>1, <1>2, PTL DEF Spec

\* Type correctness.  It is not inductive on its own: that the counters used
\* and q_output_len never drop below zero rests on what they count.
THEOREM TypeCorrect == Spec => []TypeOK
<1>1. IInv => TypeOK
  BY DEF IInv
<1> QED BY <1>1, Invariance, PTL

\* Every pbuf has exactly one owner, for every pool and queue size: none is
\* leaked, freed twice, or used by two threads.
THEOREM PbufOwnership == Spec => []Ownership
<1>1. IInv => Ownership
  BY DEF IInv
<1> QED BY <1>1, Invariance, PTL

\* No EM_ASSERT of eth_mem.c or eth_router.c fires.
THEOREM AssertsHold == Spec => []NoEmAssert
<1>1. IInv => NoEmAssert
  BY DEF IInv
<1> QED BY <1>1, Invariance, PTL

\* Queue entries are conserved.
THEOREM QueueEntries == Spec => []EntriesConserved
<1>1. IInv => EntriesConserved
  BY DEF IInv
<1> QED BY <1>1, Invariance, PTL

\* A driver waits exactly as long as a callback is owed to it.
THEOREM Callbacks == Spec => []CallbackOwed
<1>1. IInv => CallbackOwed
  BY DEF IInv
<1> QED BY <1>1, Invariance, PTL

\* A driver that waits for a callback has nothing queued, so none overtakes.
THEOREM NoOvertaking == Spec => []PendingMeansEmpty
<1>1. IInv => PendingMeansEmpty
  BY DEF IInv
<1> QED BY <1>1, Invariance, PTL

-----------------------------------------------------------------------------
(***************************************************************************)
(* Wakeups                                                                 *)
(***************************************************************************)
\* WakeInv is inductive together with the types.
LEMMA WakeNext ==
  ASSUME TypeOK, WakeInv, [Next]_vars
  PROVE  WakeInv'
<1> USE DEF WakeInv, NoLostWakeup, FreeNotifyDue, RouterNotifyDue, memVars, qVars,
            taskVars, rxVars, txVars, lwipVars
<1>0. /\ rx_pc = [n \in Netif |-> rx_pc[n]] /\ tx_pc = [n \in Netif |-> tx_pc[n]]
      /\ Netif = {"BLE", "LWIP"}
  BY DEF TypeOK, Netif
<1>1. CASE TaskWait
  BY <1>1, <1>0 DEF TaskWait
<1>2. CASE FreeBlk
  BY <1>2, <1>0 DEF FreeBlk
<1>3. CASE FreeBlkDone
  BY <1>3, <1>0 DEF FreeBlkDone
<1>4. CASE TaskPop
  BY <1>4, <1>0 DEF TaskPop
<1>5. CASE TaskRoute
  BY <1>5, <1>0 DEF TaskRoute, AddToOutputQueue
<1>6. CASE TaskDropFree
  BY <1>6, <1>0 DEF TaskDropFree, AfterFreeRequest
<1>7. CASE TaskDropNotify \/ TaskEntryFree \/ TaskCallback
  BY <1>7, <1>0 DEF TaskDropNotify, TaskEntryFree, TaskCallback
<1>8. ASSUME NEW n \in Netif, RxAlloc(n) PROVE WakeInv'
  BY <1>8, <1>0 DEF RxAlloc
<1>9. ASSUME NEW n \in Netif, RxFree(n) PROVE WakeInv'
  BY <1>9, <1>0 DEF RxFree, FreeRequest, AfterFreeRequest
<1>10. ASSUME NEW n \in Netif, RxSubmit(n) PROVE WakeInv'
  BY <1>10, <1>0 DEF RxSubmit
<1>11. ASSUME NEW n \in Netif, RxEnqueue(n) PROVE WakeInv'
  BY <1>11, <1>0 DEF RxEnqueue
<1>12. ASSUME NEW n \in Netif, RxNotify(n) PROVE WakeInv'
  BY <1>12, <1>0 DEF RxNotify
<1>13. ASSUME NEW n \in Netif, TxGetPacket(n) \/ TxEntryFree(n) PROVE WakeInv'
  BY <1>13, <1>0 DEF TxGetPacket, TxEntryFree
<1>14. CASE BleTxFree
  BY <1>14, <1>0 DEF BleTxFree, FreeRequest, AfterFreeRequest
<1>15. CASE BleTxNotify
  BY <1>15, <1>0 DEF BleTxNotify
<1>16. CASE LwipIfUp \/ LwipInput \/ LwipNotify
  BY <1>16, <1>0 DEF LwipIfUp, LwipInput, LwipNotify
<1>17. ASSUME NEW p \in Pbuf, LwipPbufRef(p) \/ LwipPbufUnref(p) \/ LwipPbufFree(p)
       PROVE  WakeInv'
  BY <1>17, <1>0 DEF LwipPbufRef, LwipPbufUnref, LwipPbufFree
<1>18. CASE UNCHANGED vars
  BY <1>18 DEF vars
<1> QED BY <1>1, <1>2, <1>3, <1>4, <1>5, <1>6, <1>7, <1>8, <1>9, <1>10, <1>11,
           <1>12, <1>13, <1>14, <1>15, <1>16, <1>17, <1>18
        DEF Next, EthQueueTask, Driver, Lwip, Stopped

\* eth_pbuf_free_request and eth_add_packet_to_router_queue notify after they
\* have queued and unlocked, and still EthQueueTask never sleeps on their work.
THEOREM WakeupsKept == Spec => []NoLostWakeup
<1>1. Init => WakeInv
  BY DEF Init, WakeInv, NoLostWakeup
<1>2. TypeOK /\ WakeInv /\ [Next]_vars => WakeInv'
  BY WakeNext
<1>3. WakeInv => NoLostWakeup
  BY DEF WakeInv
<1> QED BY <1>1, <1>2, <1>3, TypeCorrect, PTL DEF Spec

-----------------------------------------------------------------------------
(***************************************************************************)
(* The packets of one interface in a queue                                 *)
(***************************************************************************)
\* f[i] is what the first i packets of q contribute.
Picks(f, idx, n, q) ==
  /\ f[0] = <<>>
  /\ \A i \in 1 .. Len(q) :
       f[i] = IF idx[q[i]] = n THEN Append(f[i - 1], q[i]) ELSE f[i - 1]

\* There is one such f only ...
LEMMA PicksUnique ==
  ASSUME NEW S, NEW q \in Seq(S), NEW idx, NEW n, NEW f, NEW g,
         Picks(f, idx, n, q), Picks(g, idx, n, q)
  PROVE  \A i \in 0 .. Len(q) : f[i] = g[i]
<1> DEFINE T == {i \in 0 .. Len(q) : f[i] = g[i]}
<1>1. Len(q) \in Nat
  BY LenProperties
<1>2. 0 \in T
  BY <1>1 DEF Picks
<1>3. ASSUME NEW k \in 1 .. Len(q), k - 1 \in T PROVE k \in T
  BY <1>1, <1>3 DEF Picks
<1> HIDE DEF T
<1>4. \A k \in 1 .. Len(q) : k - 1 \in T => k \in T
  BY <1>3
<1>5. \A k \in 0 .. Len(q) : k \in T
  BY ONLY <1>1, <1>2, <1>4, UpTo
<1> QED BY <1>5 DEF T

\* ... and one exists: the recursive function that FromIf is defined by.
LEMMA PicksExists ==
  ASSUME NEW S, NEW q \in Seq(S), NEW idx, NEW n
  PROVE  \E f \in [0 .. Len(q) -> Seq(S)] :
           Picks(f, idx, n, q) /\ FromIf(idx, n, q) = f[Len(q)]
<1> DEFINE k == Len(q)
           empty == <<>>
           Turn(i, v) == IF idx[q[i]] = n THEN Append(v, q[i]) ELSE v
           F == [i \in 1 .. k |-> [v \in Seq(S) |-> Turn(i, v)]]
           f == CHOOSE g : g =
                  [i \in 0 .. k |-> IF i = 0 THEN empty ELSE Turn(i, g[i - 1])]
<1>1. k \in Nat /\ empty \in Seq(S)
  BY LenProperties, EmptySeq
<1>2. \A i \in 1 .. k, v \in Seq(S) : Turn(i, v) \in Seq(S)
  <2>1. \A i \in 1 .. k : q[i] \in S
    BY ElementOfSeq
  <2> QED BY <2>1, AppendProperties
<1>3. FromIf(idx, n, q) =
        LET h == CHOOSE h : h =
                   [i \in 0 .. k |-> IF i = 0 THEN empty
                                     ELSE IF idx[q[i]] = n
                                     THEN Append(h[i - 1], q[i]) ELSE h[i - 1]]
        IN h[k]
  BY DEF FromIf
<1>4. FromIf(idx, n, q) = f[k]
  BY <1>3
<1>5. ASSUME NEW g, g[0] = empty, \A i \in 1 .. k : g[i] = Turn(i, g[i - 1])
      PROVE  Picks(g, idx, n, q)
  BY <1>5 DEF Picks
<1> HIDE DEF k, empty, Turn
<1>6. PICK g : IsHistory(g, k, Seq(S), empty, F)
  <2>1. F \in Turns(k, Seq(S))
    BY <1>2 DEF Turns
  <2> HIDE DEF F, f
  <2> QED BY ONLY <1>1, <2>1, LoopHistory
<1>7. /\ g \in [0 .. k -> Seq(S)] /\ g[0] = empty
      /\ \A i \in 1 .. k : g[i] = Turn(i, g[i - 1])
  <2>1. g \in [0 .. k -> Seq(S)] /\ g[0] = empty
    BY <1>6 DEF IsHistory
  <2>2. \A i \in 1 .. k : g[i - 1] \in Seq(S)
    BY <1>1, <2>1
  <2> HIDE DEF f
  <2> QED BY <1>6, <2>1, <2>2 DEF IsHistory
<1>8. g = [i \in 0 .. k |-> IF i = 0 THEN empty ELSE Turn(i, g[i - 1])]
  <2> HIDE DEF f, F
  <2> QED BY <1>1, <1>7
<1>9. f[0] = empty /\ \A i \in 1 .. k : f[i] = Turn(i, f[i - 1])
  <2>1. f = [i \in 0 .. k |-> IF i = 0 THEN empty ELSE Turn(i, f[i - 1])]
    BY <1>8
  <2> HIDE DEF f, F
  <2> QED BY <1>1, <2>1
<1> HIDE DEF f, F
<1>10. Picks(f, idx, n, q) /\ Picks(g, idx, n, q)
  BY <1>5, <1>7, <1>9
<1>11. f[k] = g[k]
  <2>1. \A i \in 0 .. Len(q) : f[i] = g[i]
    BY <1>10, PicksUnique
  <2> QED BY <1>1, <2>1 DEF k
<1>12. FromIf(idx, n, q) = g[Len(q)] /\ g \in [0 .. Len(q) -> Seq(S)]
  BY <1>4, <1>7, <1>11 DEF k
<1> QED BY <1>10, <1>12

\* Whatever contributes packet by packet yields FromIf.
LEMMA FromIfIs ==
  ASSUME NEW S, NEW q \in Seq(S), NEW idx, NEW n, NEW f, Picks(f, idx, n, q)
  PROVE  FromIf(idx, n, q) = f[Len(q)]
<1>1. PICK g \in [0 .. Len(q) -> Seq(S)] :
        Picks(g, idx, n, q) /\ FromIf(idx, n, q) = g[Len(q)]
  BY PicksExists
<1>2. Len(q) \in Nat
  BY LenProperties
<1>3. \A i \in 0 .. Len(q) : f[i] = g[i]
  BY <1>1, PicksUnique
<1> QED BY <1>1, <1>2, <1>3

\* What FromIf yields is a sequence of exactly those packets.
LEMMA FromIfRange ==
  ASSUME NEW S, NEW q \in Seq(S), NEW idx, NEW n
  PROVE  /\ FromIf(idx, n, q) \in Seq(S)
         /\ \A x : x \in Range(FromIf(idx, n, q)) <=>
                     x \in Range(q) /\ idx[x] = n
<1>1. PICK f \in [0 .. Len(q) -> Seq(S)] :
        Picks(f, idx, n, q) /\ FromIf(idx, n, q) = f[Len(q)]
  BY PicksExists
<1>2. /\ Len(q) \in Nat /\ DOMAIN q = 1 .. Len(q)
      /\ \A i \in 1 .. Len(q) : q[i] \in S
  BY LenProperties, ElementOfSeq
<1> DEFINE Of(k) == {q[i] : i \in {i \in 1 .. k : idx[q[i]] = n}}
           T == {k \in 0 .. Len(q) : Range(f[k]) = Of(k)}
<1>3. 0 \in T
  <2>1. f[0] = <<>>
    BY <1>1 DEF Picks
  <2>2. Range(<<>>) = {} /\ Of(0) = {}
    BY DEF Range
  <2> HIDE DEF Of
  <2>3. Range(f[0]) = Of(0)
    BY ONLY <2>1, <2>2
  <2> QED BY <1>2, <2>3
<1>4. ASSUME NEW k \in 1 .. Len(q), k - 1 \in T PROVE k \in T
  <2>1. f[k - 1] \in Seq(S) /\ Range(f[k - 1]) = Of(k - 1) /\ q[k] \in S
    BY <1>2, <1>4
  <2>2. CASE idx[q[k]] = n
    <3>1. f[k] = Append(f[k - 1], q[k])
      BY <1>1, <2>2 DEF Picks
    <3>2. Range(Append(f[k - 1], q[k])) = Range(f[k - 1]) \cup {q[k]}
      BY <2>1, AppendRange
    <3>3. Of(k) = Of(k - 1) \cup {q[k]}
      <4>1. {i \in 1 .. k : idx[q[i]] = n}
              = {i \in 1 .. k - 1 : idx[q[i]] = n} \cup {k}
        BY <1>2, <2>2
      <4> QED BY <4>1
    <3> HIDE DEF Of
    <3>4. Range(f[k]) = Of(k)
      BY ONLY <2>1, <3>1, <3>2, <3>3
    <3> QED BY <1>2, <3>4
  <2>3. CASE idx[q[k]] # n
    <3>1. f[k] = f[k - 1]
      BY <1>1, <2>3 DEF Picks
    <3>2. Of(k) = Of(k - 1)
      <4>1. {i \in 1 .. k : idx[q[i]] = n} = {i \in 1 .. k - 1 : idx[q[i]] = n}
        BY <1>2, <2>3
      <4> QED BY <4>1
    <3> HIDE DEF Of
    <3>3. Range(f[k]) = Of(k)
      BY ONLY <2>1, <3>1, <3>2
    <3> QED BY <1>2, <3>3
  <2> QED BY <2>2, <2>3
<1>5. Range(f[Len(q)]) = Of(Len(q))
  <2> HIDE DEF T
  <2>1. \A k \in 1 .. Len(q) : k - 1 \in T => k \in T
    BY <1>4
  <2>2. \A k \in 0 .. Len(q) : k \in T
    BY ONLY <1>2, <1>3, <2>1, UpTo
  <2> QED BY <1>2, <2>2 DEF T
<1>6. f[Len(q)] \in Seq(S)
  BY <1>2
<1>7. \A x : x \in Of(Len(q)) <=> x \in Range(q) /\ idx[x] = n
  BY <1>2 DEF Range
<1> QED BY <1>1, <1>5, <1>6, <1>7

\* A packet that joins the queue joins those of its interface.
LEMMA FromIfAppend ==
  ASSUME NEW S, NEW q \in Seq(S), NEW p \in S, NEW idx, NEW n
  PROVE  FromIf(idx, n, Append(q, p)) =
           IF idx[p] = n THEN Append(FromIf(idx, n, q), p) ELSE FromIf(idx, n, q)
<1> DEFINE k == Len(q)
           r == Append(q, p)
<1>1. PICK f \in [0 .. k -> Seq(S)] :
        Picks(f, idx, n, q) /\ FromIf(idx, n, q) = f[k]
  BY PicksExists
<1>2. /\ k \in Nat /\ r \in Seq(S) /\ Len(r) = k + 1
      /\ \A i \in 1 .. k : r[i] = q[i]
      /\ r[k + 1] = p
  BY LenProperties, AppendProperties
<1> HIDE DEF r
<1> DEFINE last == IF idx[p] = n THEN Append(f[k], p) ELSE f[k]
           g == [i \in 0 .. k + 1 |-> IF i = k + 1 THEN last ELSE f[i]]
<1>3. /\ f[0] = <<>>
      /\ \A i \in 1 .. k :
           f[i] = IF idx[q[i]] = n THEN Append(f[i - 1], q[i]) ELSE f[i - 1]
  BY <1>1 DEF Picks
<1> HIDE DEF k
<1>4. g[k + 1] = last /\ \A i \in 0 .. k : g[i] = f[i]
  BY <1>2
<1>5. last = IF idx[r[k + 1]] = n THEN Append(g[k], r[k + 1]) ELSE g[k]
  <2>1. g[k] = f[k]
    BY <1>2
  <2> HIDE DEF g
  <2> QED BY <1>2, <2>1
<1> HIDE DEF last, g
<1>6. \A i \in 1 .. k + 1 :
        g[i] = IF idx[r[i]] = n THEN Append(g[i - 1], r[i]) ELSE g[i - 1]
  <2> SUFFICES ASSUME NEW i \in 1 .. k + 1
               PROVE  g[i] = IF idx[r[i]] = n THEN Append(g[i - 1], r[i])
                             ELSE g[i - 1]
    OBVIOUS
  <2>1. CASE i = k + 1
    <3>1. i - 1 = k
      BY <1>2, <2>1
    <3> QED BY <1>4, <1>5, <2>1, <3>1
  <2>2. CASE i # k + 1
    <3>1. i \in 1 .. k /\ i \in 0 .. k /\ i - 1 \in 0 .. k
      BY <1>2, <2>2
    <3> QED BY <1>2, <1>3, <1>4, <3>1
  <2> QED BY <2>1, <2>2
<1>7. Picks(g, idx, n, r)
  <2>1. g[0] = <<>>
    BY <1>2, <1>3, <1>4
  <2> QED BY <1>2, <1>6, <2>1 DEF Picks
<1>8. FromIf(idx, n, r) = last
  <2>1. FromIf(idx, n, r) = g[Len(r)]
    BY <1>2, <1>7, FromIfIs
  <2> QED BY <1>2, <1>4, <2>1
<1> QED BY <1>1, <1>8 DEF last, r

\* Only what idx says of the packets in the queue matters.
LEMMA FromIfSame ==
  ASSUME NEW S, NEW q \in Seq(S), NEW idx, NEW idx2, NEW n,
         \A p \in Range(q) : idx2[p] = idx[p]
  PROVE  FromIf(idx2, n, q) = FromIf(idx, n, q)
<1>1. PICK f \in [0 .. Len(q) -> Seq(S)] :
        Picks(f, idx, n, q) /\ FromIf(idx, n, q) = f[Len(q)]
  BY PicksExists
<1>2. \A i \in 1 .. Len(q) : q[i] \in Range(q)
  BY LenProperties DEF Range
<1>3. Picks(f, idx2, n, q)
  BY <1>1, <1>2 DEF Picks
<1> QED BY <1>1, <1>3, FromIfIs

\* An empty queue has no packets of any interface.
LEMMA FromIfEmpty ==
  ASSUME NEW idx, NEW n
  PROVE  FromIf(idx, n, <<>>) = <<>>
<1> DEFINE q == <<>>
<1>1. q \in Seq({}) /\ Len(q) = 0
  BY EmptySeq
<1> HIDE DEF q
<1>2. PICK f : Picks(f, idx, n, q) /\ FromIf(idx, n, q) = f[Len(q)]
  BY <1>1, PicksExists
<1>3. FromIf(idx, n, q) = <<>>
  BY <1>1, <1>2 DEF Picks
<1> QED BY <1>3 DEF q

\* The head of a queue is the first of the packets of its interface.
LEMMA FromIfTail ==
  ASSUME NEW S, NEW q \in Seq(S), NEW idx, NEW n, q # <<>>
  PROVE  FromIf(idx, n, q) =
           IF idx[Head(q)] = n THEN <<Head(q)>> \o FromIf(idx, n, Tail(q))
                               ELSE FromIf(idx, n, Tail(q))
<1> DEFINE t == Tail(q)
           k == Len(t)
           e == Head(q)
           pre == IF idx[e] = n THEN <<e>> ELSE <<>>
<1>1. /\ t \in Seq(S) /\ k \in Nat /\ Len(q) = k + 1 /\ e \in S /\ q[1] = e
      /\ \A i \in 1 .. k : t[i] = q[i + 1] /\ t[i] \in S
  <2>1. /\ t \in Seq(S) /\ e \in S /\ q[1] = e /\ Len(t) = Len(q) - 1
        /\ \A i \in 1 .. Len(q) - 1 : t[i] = q[i + 1]
    BY HeadTailProperties, EmptySeq
  <2>2. Len(q) \in Nat /\ Len(t) \in Nat
    BY <2>1, LenProperties
  <2>3. \A i \in 1 .. Len(t) : t[i] \in S
    BY <2>1, ElementOfSeq
  <2> HIDE DEF t, e
  <2> QED BY <2>1, <2>2, <2>3
<1>2. PICK f \in [0 .. k -> Seq(S)] :
        Picks(f, idx, n, t) /\ FromIf(idx, n, t) = f[k]
  <2>1. t \in Seq(S)
    BY <1>1
  <2> HIDE DEF t
  <2> QED BY ONLY <2>1, PicksExists
<1>3. /\ f[0] = <<>>
      /\ \A i \in 1 .. k :
           f[i] = IF idx[t[i]] = n THEN Append(f[i - 1], t[i]) ELSE f[i - 1]
  BY <1>2 DEF Picks
<1>4. pre \in Seq(S) /\ pre = IF idx[e] = n THEN Append(<<>>, e) ELSE <<>>
  BY <1>1, EmptySeq
<1> HIDE DEF t, k, e, pre
<1> DEFINE g == [i \in 0 .. k + 1 |-> IF i = 0 THEN <<>> ELSE pre \o f[i - 1]]
<1>5. g[0] = <<>> /\ \A i \in 1 .. k + 1 : g[i] = pre \o f[i - 1]
  BY <1>1
<1> HIDE DEF g
<1>6. ASSUME NEW i \in 1 .. k + 1
      PROVE  g[i] = IF idx[q[i]] = n THEN Append(g[i - 1], q[i]) ELSE g[i - 1]
  <2>1. CASE i = 1
    <3>1. g[i] = pre /\ g[i - 1] = <<>>
      <4>1. 1 \in 1 .. k + 1 /\ 1 - 1 = 0
        BY <1>1
      <4>2. g[1] = pre \o f[0]
        BY <1>5, <4>1
      <4>3. pre \o <<>> = pre
        BY <1>4, ConcatEmptySeq
      <4>4. g[1] = pre
        BY <1>3, <4>2, <4>3
      <4> QED BY <1>5, <2>1, <4>1, <4>4
    <3> QED BY <1>1, <1>4, <2>1, <3>1
  <2>2. CASE i # 1
    <3>1. /\ i - 1 \in 1 .. k /\ i - 1 \in 1 .. k + 1 /\ i - 2 \in 0 .. k
          /\ (i - 1) - 1 = i - 2 /\ (i - 1) + 1 = i
      BY <1>1, <2>2
    <3>2. q[i] = t[i - 1] /\ t[i - 1] \in S
      BY <1>1, <3>1
    <3>3. g[i] = pre \o f[i - 1] /\ g[i - 1] = pre \o f[i - 2]
      BY <1>5, <3>1
    <3>4. f[i - 1] = IF idx[q[i]] = n THEN Append(f[i - 2], q[i]) ELSE f[i - 2]
      BY <1>3, <3>1, <3>2
    <3>5. pre \o Append(f[i - 2], q[i]) = Append(pre \o f[i - 2], q[i])
      BY <1>4, <1>2, <3>1, <3>2, ConcatAppend
    <3> QED BY <3>3, <3>4, <3>5
  <2> QED BY <2>1, <2>2
<1>7. Picks(g, idx, n, q)
  BY <1>1, <1>5, <1>6 DEF Picks
<1>8. FromIf(idx, n, q) = pre \o f[k]
  <2>1. FromIf(idx, n, q) = g[Len(q)]
    BY <1>7, FromIfIs
  <2>2. k + 1 \in 1 .. k + 1 /\ (k + 1) - 1 = k
    BY <1>1
  <2> QED BY <1>1, <1>5, <2>1, <2>2
<1>9. <<>> \o f[k] = f[k]
  BY <1>1, <1>2, ConcatEmptySeq
<1> QED BY <1>2, <1>8, <1>9 DEF pre, t, e

-----------------------------------------------------------------------------
(***************************************************************************)
(* The bridge implements the lossy channel                                 *)
(***************************************************************************)
\* The variables of the channel, as the bridge's state determines them.
Chan == [n \in Netif |-> OnTheWay(n)]
Rcvd == [n \in Netif |-> Received(n)]

\* A step the channel from n does not see.
Same(n) == OnTheWay(n)' = OnTheWay(n) /\ Received(n)' = Received(n)

LEMMA SameIsStutter ==
  ASSUME \A n \in Netif : Same(n)
  PROVE  UNCHANGED <<Chan, Rcvd>>
BY DEF Same, Chan, Rcvd

\* Steps of the four kinds, each on one channel.
LEMMA SendIsStep ==
  ASSUME NEW n \in Netif, NEW p \in Pbuf,
         p \notin Range(OnTheWay(n)), p # Received(n),
         OnTheWay(n)' = Append(OnTheWay(n), p), Received(n)' = Received(n),
         \A m \in Netif \ {n} : Same(m)
  PROVE  Channel!Next
<1>1. /\ Chan' = [Chan EXCEPT ![n] = Append(@, p)] /\ Rcvd' = Rcvd
      /\ Chan[n] = OnTheWay(n) /\ Rcvd[n] = Received(n)
  BY DEF Same, Chan, Rcvd
<1>2. p \notin Channel!Range(Chan[n])
  BY <1>1 DEF Channel!Range, Range
<1>3. Channel!Send(n, p)
  BY <1>1, <1>2 DEF Channel!Send, Chan, Rcvd
<1> QED BY <1>3 DEF Channel!Next

LEMMA DeliverIsStep ==
  ASSUME NEW n \in Netif, OnTheWay(n) # <<>>, Received(n) = NoPbuf,
         Received(n)' = Head(OnTheWay(n)), OnTheWay(n)' = Tail(OnTheWay(n)),
         \A m \in Netif \ {n} : Same(m)
  PROVE  Channel!Next
<1>1. /\ Chan' = [Chan EXCEPT ![n] = Tail(@)]
      /\ Rcvd' = [Rcvd EXCEPT ![n] = Head(Chan[n])]
      /\ Chan[n] = OnTheWay(n) /\ Rcvd[n] = Received(n)
  BY DEF Same, Chan, Rcvd
<1>2. Channel!Deliver(n)
  BY <1>1 DEF Channel!Deliver, Chan, Rcvd
<1> QED BY <1>2 DEF Channel!Next

LEMMA ReleaseIsStep ==
  ASSUME NEW n \in Netif, Received(n) # NoPbuf, Received(n)' = NoPbuf,
         OnTheWay(n)' = OnTheWay(n), \A m \in Netif \ {n} : Same(m)
  PROVE  Channel!Next
<1>1. /\ Chan' = Chan /\ Rcvd' = [Rcvd EXCEPT ![n] = NoPbuf]
      /\ Rcvd[n] = Received(n)
  BY DEF Same, Chan, Rcvd
<1>2. Channel!Release(n)
  BY <1>1 DEF Channel!Release, Chan, Rcvd
<1> QED BY <1>2 DEF Channel!Next

LEMMA LoseIsStep ==
  ASSUME NEW n \in Netif, NEW i \in DOMAIN OnTheWay(n),
         OnTheWay(n)' = RemoveAt(OnTheWay(n), i), Received(n)' = Received(n),
         \A m \in Netif \ {n} : Same(m)
  PROVE  Channel!Next
<1>1. /\ Chan' = [Chan EXCEPT ![n] = RemoveAt(@, i)] /\ Rcvd' = Rcvd
      /\ Chan[n] = OnTheWay(n)
  BY DEF Same, Chan, Rcvd
<1>2. Channel!RemoveAt(Chan[n], i) = RemoveAt(Chan[n], i)
  BY DEF Channel!RemoveAt, RemoveAt
<1>3. Channel!Lose(n, i) /\ i \in DOMAIN Chan[n]
  BY <1>1, <1>2 DEF Channel!Lose, Chan, Rcvd
<1> QED BY <1>3 DEF Channel!Next, Chan

\* The parts of a channel are sequences of pbufs.
LEMMA ChannelType ==
  ASSUME IInv, NEW n \in Netif
  PROVE  /\ Dst(n) \in Netif /\ Dst(Dst(n)) = n
         /\ q_output[Dst(n)] \in Seq(Pbuf)
         /\ Routing(n) \in Seq(Pbuf)
         /\ FromIf(if_idx, n, q_input) \in Seq(Pbuf)
         /\ q_output[Dst(n)] \o Routing(n) \in Seq(Pbuf)
         /\ OnTheWay(n) \in Seq(Pbuf)
<1>1. Dst(n) \in Netif /\ Dst(Dst(n)) = n
  BY DEF Dst, Netif
<1>2. q_output[Dst(n)] \in Seq(Pbuf) /\ q_input \in Seq(Pbuf)
  BY <1>1 DEF IInv, TypeOK
<1>3. Routing(n) \in Seq(Pbuf)
  <2>1. task_pc = "route" => task_blk \in Pbuf
    BY DEF IInv, TypeOK, SlotInv
  <2> QED BY <2>1, EmptySeq DEF Routing
<1>4. FromIf(if_idx, n, q_input) \in Seq(Pbuf)
  BY <1>2, FromIfRange
<1> QED BY <1>1, <1>2, <1>3, <1>4, ConcatProperties DEF OnTheWay

\* A step that moves no packet on the way: it may change the interface only
\* of pbufs that are elsewhere, and leaves what the router holds.
LEMMA QuietSame ==
  ASSUME IInv, UNCHANGED <<q_output, q_input, tx_buf>>,
         \A p \in Range(q_input) : if_idx'[p] = if_idx[p],
         task_pc = "route" <=> task_pc' = "route",
         task_pc \in {"cbk_entry", "cbk_call"} <=>
           task_pc' \in {"cbk_entry", "cbk_call"},
         task_pc \in {"route", "cbk_entry", "cbk_call"} =>
           task_blk' = task_blk /\ if_idx'[task_blk] = if_idx[task_blk]
  PROVE  \A n \in Netif : Same(n)
<1> SUFFICES ASSUME NEW n \in Netif PROVE Same(n)
  OBVIOUS
<1>1. FromIf(if_idx', n, q_input) = FromIf(if_idx, n, q_input)
  BY FromIfSame DEF IInv, TypeOK
<1>2. OnTheWay(n)' = q_output[Dst(n)] \o Routing(n)' \o FromIf(if_idx', n, q_input)
  BY DEF OnTheWay, Dst
<1>3. Routing(n)' = Routing(n)
  BY DEF Routing
<1>4. Received(n)' = Received(n)
  BY DEF Received, Dst
<1> QED BY <1>1, <1>2, <1>3, <1>4 DEF Same, OnTheWay

\* The same for a step that changes no interface and not the router.
LEMMA StillSame ==
  ASSUME IInv,
         UNCHANGED <<q_output, q_input, tx_buf, if_idx, task_pc, task_blk>>
  PROVE  \A n \in Netif : Same(n)
BY QuietSame

\* eth_pbuf_alloc, free_blk and the first half of eth_add_packet_to_router_queue
\* set the interface of a pbuf that is not on its way.
LEMMA OtherSame ==
  ASSUME IInv, UNCHANGED <<q_output, q_input, tx_buf, task_pc, task_blk>>,
         NEW p \in Pbuf,
         NEW a \in Places \ {"q_input", "router"}, At(p, a),
         \A q \in Pbuf \ {p} : if_idx'[q] = if_idx[q]
  PROVE  \A n \in Netif : Same(n)
<1>1. p \notin Range(q_input) /\ p # task_blk
  <2>1. \A c \in Places : At(p, c) <=> c = a
    BY Apart DEF IInv, Ownership
  <2> QED BY <2>1 DEF At, Places
<1>2. \A q \in Range(q_input) : q \in Pbuf
  BY RangeOfSeq DEF IInv, TypeOK
<1>3. task_pc \in {"route", "cbk_entry", "cbk_call"} => task_blk \in Pbuf
  BY DEF IInv, SlotInv, TypeOK
<1> QED BY <1>1, <1>2, <1>3, QuietSame

\* eth_pbuf_alloc.
LEMMA RxAllocSame ==
  ASSUME IInv, NEW n \in Netif, RxAlloc(n)
  PROVE  \A m \in Netif : Same(m)
<1>1. UNCHANGED <<q_output, q_input, tx_buf, task_pc, task_blk>>
  BY DEF RxAlloc, qVars, taskVars, txVars
<1>2. CASE free_chain = {}
  BY <1>1, <1>2, StillSame DEF RxAlloc
<1>3. CASE free_chain # {}
  <2>1. PICK p \in free_chain : if_idx' = [if_idx EXCEPT ![p] = "none"]
    BY <1>3 DEF RxAlloc
  <2>2. p \in Pbuf /\ At(p, "free_chain")
    BY <2>1 DEF IInv, TypeOK, At
  <2>3. "free_chain" \in Places \ {"q_input", "router"}
    BY DEF Places
  <2>4. \A q \in Pbuf \ {p} : if_idx'[q] = if_idx[q]
    BY <2>1 DEF IInv, TypeOK
  <2> QED BY <1>1, <2>2, <2>3, <2>4, OtherSame
<1> QED BY <1>2, <1>3

\* The first half of eth_add_packet_to_router_queue.
LEMMA RxSubmitSame ==
  ASSUME IInv, NEW n \in Netif, RxSubmit(n)
  PROVE  \A m \in Netif : Same(m)
<1>1. UNCHANGED <<q_output, q_input, tx_buf, task_pc, task_blk>>
  BY DEF RxSubmit, taskVars, txVars
<1>2. PICK p \in Pbuf : p = rx_buf[n]
  BY DEF RxSubmit, IInv, SlotInv, TypeOK
<1>3. PICK a \in Places \ {"q_input", "router"} : At(p, a)
  BY <1>2 DEF Places, At, Netif
<1>4. \A q \in Pbuf \ {p} : if_idx'[q] = if_idx[q]
  BY <1>2 DEF RxSubmit, IInv, TypeOK
<1> QED BY <1>1, <1>3, <1>4, OtherSame

\* One turn of free_blk.
LEMMA FreeBlkSame ==
  ASSUME IInv, FreeBlk
  PROVE  \A m \in Netif : Same(m)
<1>1. UNCHANGED <<q_output, q_input, tx_buf, task_pc, task_blk>>
  BY DEF FreeBlk, qVars, taskVars, txVars
<1>2. PICK p \in Pbuf : p = Head(free_pbuf_q) /\ p \in Range(free_pbuf_q)
  BY PopLemma DEF FreeBlk, IInv, TypeOK, Ownership
<1>3. At(p, "free_pbuf_q") /\ "free_pbuf_q" \in Places \ {"q_input", "router"}
  BY <1>2 DEF Places, At
<1>4. \A q \in Pbuf \ {p} : if_idx'[q] = if_idx[q]
  BY <1>2 DEF FreeBlk, IInv, TypeOK
<1> QED BY <1>1, <1>3, <1>4, OtherSame

\* Every other step that moves no packet on the way.
LEMMA OtherTaskSame ==
  ASSUME IInv,
         \/ TaskWait \/ FreeBlkDone \/ TaskDropFree \/ TaskDropNotify
         \/ TaskEntryFree
         \/ TaskPop /\ q_input = <<>>
  PROVE  \A n \in Netif : Same(n)
<1> USE DEF qVars, memVars, txVars
<1>1. UNCHANGED <<q_output, q_input, tx_buf, if_idx>>
  BY DEF TaskWait, FreeBlkDone, TaskDropFree, TaskDropNotify, TaskEntryFree, TaskPop
<1>2. /\ task_pc = "route" <=> task_pc' = "route"
      /\ task_pc \in {"cbk_entry", "cbk_call"} <=>
           task_pc' \in {"cbk_entry", "cbk_call"}
      /\ task_pc \in {"route", "cbk_entry", "cbk_call"} => task_blk' = task_blk
  BY DEF TaskWait, FreeBlkDone, TaskDropFree, AfterFreeRequest, TaskDropNotify,
     TaskEntryFree, TaskPop
<1> QED BY <1>1, <1>2, QuietSame

LEMMA OtherDriverSame ==
  ASSUME IInv,
         \/ \E n \in Netif : RxFree(n) \/ RxNotify(n) \/ TxEntryFree(n)
         \/ \E n \in Netif : TxGetPacket(n) /\ q_output[n] = <<>>
         \/ BleTxNotify
  PROVE  \A n \in Netif : Same(n)
<1>1. UNCHANGED <<q_output, q_input, tx_buf, if_idx, task_pc, task_blk>>
  BY DEF RxFree, RxNotify, TxEntryFree, TxGetPacket, BleTxNotify, qVars, memVars,
     txVars, taskVars
<1> QED BY <1>1, StillSame

LEMMA OtherLwipSame ==
  ASSUME IInv,
         \/ LwipIfUp \/ LwipNotify
         \/ \E p \in Pbuf : LwipPbufRef(p) \/ LwipPbufUnref(p) \/ LwipPbufFree(p)
         \/ UNCHANGED vars
  PROVE  \A n \in Netif : Same(n)
<1>1. UNCHANGED <<q_output, q_input, tx_buf, if_idx, task_pc, task_blk>>
  BY DEF LwipIfUp, LwipNotify, LwipPbufRef, LwipPbufUnref, LwipPbufFree, vars,
     qVars, memVars, txVars, taskVars
<1> QED BY <1>1, StillSame

\* eth_add_packet_to_router_queue: the driver sends a packet.
LEMMA RxEnqueueSends ==
  ASSUME IInv, NEW n \in Netif, RxEnqueue(n)
  PROVE  Channel!Next
<1>1. /\ rx_pc[n] = "enqueue" /\ q_input' = Append(q_input, rx_buf[n])
      /\ UNCHANGED <<if_idx, q_output, task_pc, task_blk, tx_buf>>
  BY DEF RxEnqueue, memVars, taskVars, txVars
<1>2. PICK p \in Pbuf : p = rx_buf[n]
  BY <1>1 DEF IInv, SlotInv, TypeOK
<1>3. if_idx[p] = n
  BY <1>1, <1>2 DEF IInv, IfIdxInv
<1>4. q_input \in Seq(Pbuf)
  BY DEF IInv, TypeOK
<1>5. ASSUME NEW m \in Netif
      PROVE  /\ Received(m)' = Received(m)
             /\ OnTheWay(m)' = IF m = n THEN Append(OnTheWay(m), p)
                                        ELSE OnTheWay(m)
  <2> DEFINE a == q_output[Dst(m)] \o Routing(m)
             b == FromIf(if_idx, m, q_input)
  <2>1. a \in Seq(Pbuf) /\ b \in Seq(Pbuf) /\ OnTheWay(m) = a \o b
    BY ChannelType DEF OnTheWay
  <2>2. OnTheWay(m)' = a \o FromIf(if_idx, m, Append(q_input, p))
    BY <1>1, <1>2 DEF OnTheWay, Routing, Dst
  <2>3. FromIf(if_idx, m, Append(q_input, p)) = IF m = n THEN Append(b, p) ELSE b
    BY <1>3, <1>4, FromIfAppend
  <2>4. Received(m)' = Received(m)
    BY <1>1 DEF Received, Dst
  <2> HIDE DEF a, b
  <2>5. a \o Append(b, p) = Append(a \o b, p)
    BY <2>1, ConcatAppend
  <2> QED BY <2>1, <2>2, <2>3, <2>4, <2>5
<1>6. \A q \in Range(OnTheWay(n)) : \E a \in Places \ {"rx_ble", "rx_lwip"} : At(q, a)
  <2> DEFINE a == q_output[Dst(n)]
             b == Routing(n)
             c == FromIf(if_idx, n, q_input)
  <2>1. /\ a \in Seq(Pbuf) /\ b \in Seq(Pbuf) /\ c \in Seq(Pbuf)
        /\ a \o b \in Seq(Pbuf)
        /\ OnTheWay(n) = (a \o b) \o c /\ Dst(n) \in Netif
    BY ChannelType DEF OnTheWay
  <2>2. Range(b) \subseteq {task_blk}
    BY DEF Routing, Range
  <2>3. Range(c) \subseteq Range(q_input)
    BY <1>4, FromIfRange
  <2> HIDE DEF a, b, c
  <2>4. Range(OnTheWay(n)) = Range(a) \cup Range(b) \cup Range(c)
    <3> DEFINE u == a \o b
    <3>1. u \in Seq(Pbuf)
      BY <2>1
    <3>2. Range(u) = Range(a) \cup Range(b)
      BY ONLY <2>1, RangeConcatenation
    <3>3. OnTheWay(n) = u \o c
      BY <2>1
    <3> HIDE DEF u
    <3>4. Range(u \o c) = Range(u) \cup Range(c)
      BY ONLY <2>1, <3>1, RangeConcatenation
    <3> QED BY <3>2, <3>3, <3>4
  <2>5. ASSUME NEW q \in Range(a)
        PROVE  At(q, "out_ble") \/ At(q, "out_lwip")
    BY <2>1, <2>5 DEF At, Netif, a
  <2>6. \A q \in Range(b) : At(q, "router")
    BY <2>2 DEF At
  <2>7. \A q \in Range(c) : At(q, "q_input")
    BY <2>3 DEF At
  <2> QED BY <2>4, <2>5, <2>6, <2>7 DEF Places
<1>7. /\ \A a \in Places : At(p, a) => a \in {"rx_ble", "rx_lwip"}
  <2>1. PICK b \in {"rx_ble", "rx_lwip"} : At(p, b)
    BY <1>2 DEF At, Netif
  <2>2. \A c \in Places : At(p, c) <=> c = b
    BY <2>1, Apart DEF IInv, Ownership, Places
  <2> QED BY <2>2
<1>8. p \notin Range(OnTheWay(n))
  BY <1>6, <1>7
<1>9. p # Received(n)
  <2>1. p # task_blk /\ p # tx_buf["BLE"] /\ p # tx_buf["LWIP"]
    BY <1>7 DEF At, Places
  <2>2. Dst(n) = "BLE" \/ Dst(n) = "LWIP"
    BY DEF Dst
  <2> QED BY <2>1, <2>2 DEF Received
<1> QED BY <1>5, <1>8, <1>9, SendIsStep DEF Same

\* A driver whose buffer is empty and that no callback is on its way to holds
\* no packet; one in position "hold" holds the one in its buffer.
LEMMA HoldsBuffer ==
  ASSUME IInv, NEW n \in Netif, tx_pc[Dst(n)] # "wait"
  PROVE  Received(n) = tx_buf[Dst(n)]
<1>1. Dst(n) \in Netif
  BY DEF Dst, Netif
<1> QED BY <1>1 DEF Received, IInv, CallbackOwed

\* eth_get_packet delivers the head of the output queue.
LEMMA TxGetPacketDelivers ==
  ASSUME IInv, NEW d \in Netif, TxGetPacket(d), q_output[d] # <<>>
  PROVE  Channel!Next
<1>1. PICK n \in Netif : d = Dst(n) /\ \A m \in Netif \ {n} : Dst(m) # d
  BY DEF Dst, Netif
<1>2. /\ tx_pc[d] = "idle"
      /\ tx_buf' = [tx_buf EXCEPT ![d] = Head(q_output[d])]
      /\ q_output' = [q_output EXCEPT ![d] = Tail(@)]
      /\ UNCHANGED <<if_idx, q_input, task_pc, task_blk>>
  BY DEF TxGetPacket, memVars, taskVars
<1>3. \A m \in Netif : Dst(m) \in Netif
  BY DEF Dst, Netif
<1>4. \A m \in Netif \ {n} : Same(m)
  <2>1. \A m \in Netif \ {n} : q_output'[Dst(m)] = q_output[Dst(m)]
                             /\ tx_buf'[Dst(m)] = tx_buf[Dst(m)]
    BY <1>1, <1>2, <1>3 DEF IInv, TypeOK
  <2> QED BY <1>2, <2>1 DEF Same, OnTheWay, Received, Routing, Dst
<1>5. Received(n) = NoPbuf /\ Received(n)' = Head(q_output[d])
  <2>1. Received(n) = tx_buf[d] /\ tx_buf[d] = NoPbuf
    BY <1>1, <1>2, HoldsBuffer DEF IInv, SlotInv
  <2>2. ~(task_pc \in {"cbk_entry", "cbk_call"} /\ if_idx[task_blk] = n)
    BY <1>1, <1>2 DEF IInv, CallbackOwed
  <2>3. Received(n)' = tx_buf'[d]
    BY <1>1, <1>2, <2>2 DEF Received, Dst
  <2> QED BY <1>2, <2>1, <2>3 DEF IInv, TypeOK
<1>6. /\ OnTheWay(n) # <<>> /\ Head(OnTheWay(n)) = Head(q_output[d])
      /\ OnTheWay(n)' = Tail(OnTheWay(n))
  <2> DEFINE a == q_output[d]
             b == Routing(n)
             c == FromIf(if_idx, n, q_input)
  <2>1. /\ a \in Seq(Pbuf) /\ b \in Seq(Pbuf) /\ c \in Seq(Pbuf)
        /\ a \o b \in Seq(Pbuf) /\ OnTheWay(n) = (a \o b) \o c /\ a # <<>>
    BY <1>1, ChannelType DEF OnTheWay
  <2>2. OnTheWay(n)' = (Tail(a) \o b) \o c
    <3>1. q_output'[d] = Tail(a)
      BY <1>2 DEF IInv, TypeOK
    <3>2. Routing(n)' = b
      BY <1>2 DEF Routing
    <3> QED BY <1>1, <1>2, <3>1, <3>2 DEF OnTheWay, Dst
  <2> HIDE DEF a, b, c
  <2>3. a \o b # <<>> /\ Head(a \o b) = Head(a) /\ Tail(a \o b) = Tail(a) \o b
    BY <2>1, ConcatHead
  <2> DEFINE u == a \o b
  <2>4. u \in Seq(Pbuf) /\ u # <<>>
    BY <2>1, <2>3
  <2> HIDE DEF u
  <2>5. u \o c # <<>> /\ Head(u \o c) = Head(u) /\ Tail(u \o c) = Tail(u) \o c
    BY <2>1, <2>4, ConcatHead
  <2> QED BY <2>1, <2>2, <2>3, <2>5 DEF u, a
<1> QED BY <1>4, <1>5, <1>6, DeliverIsStep

\* The receiver gives up the packet it holds: current_tx_block is freed, or
\* lwIP takes it over.
LEMMA TxReleases ==
  ASSUME IInv, NEW d \in Netif, tx_pc[d] = "hold",
         tx_buf' = [tx_buf EXCEPT ![d] = NoPbuf],
         UNCHANGED <<q_output, q_input, if_idx, task_pc, task_blk>>
  PROVE  Channel!Next
<1>1. PICK n \in Netif : d = Dst(n) /\ \A m \in Netif \ {n} : Dst(m) # d
  BY DEF Dst, Netif
<1>2. \A m \in Netif : Dst(m) \in Netif
  BY DEF Dst, Netif
<1>3. \A m \in Netif : OnTheWay(m)' = OnTheWay(m)
  BY DEF OnTheWay, Routing, Dst
<1>4. \A m \in Netif \ {n} : Received(m)' = Received(m)
  <2>1. \A m \in Netif \ {n} : tx_buf'[Dst(m)] = tx_buf[Dst(m)]
    BY <1>1, <1>2 DEF IInv, TypeOK
  <2> QED BY <2>1 DEF Received, Dst
<1>5. Received(n) # NoPbuf /\ Received(n)' = NoPbuf
  <2>1. Received(n) = tx_buf[d] /\ tx_buf[d] # NoPbuf
    BY <1>1, HoldsBuffer DEF IInv, SlotInv
  <2>2. ~(task_pc \in {"cbk_entry", "cbk_call"} /\ if_idx[task_blk] = n)
    BY <1>1 DEF IInv, CallbackOwed
  <2>3. Received(n)' = tx_buf'[d]
    BY <1>1, <2>2 DEF Received, Dst
  <2> QED BY <2>1, <2>3 DEF IInv, TypeOK
<1> QED BY <1>3, <1>4, <1>5, ReleaseIsStep DEF Same

\* The router takes a packet from q_input: it stays the same packet on its way.
LEMMA TaskPopSame ==
  ASSUME IInv, TaskPop, q_input # <<>>
  PROVE  \A n \in Netif : Same(n)
<1> SUFFICES ASSUME NEW n \in Netif PROVE Same(n)
  OBVIOUS
<1>1. /\ task_pc = "pop" /\ task_pc' = "route"
      /\ task_blk' = Head(q_input) /\ q_input' = Tail(q_input)
      /\ UNCHANGED <<if_idx, q_output, tx_buf>>
  BY DEF TaskPop, memVars, txVars
<1> DEFINE a == q_output[Dst(n)]
           c == FromIf(if_idx, n, q_input)
           t == FromIf(if_idx, n, Tail(q_input))
           r == IF if_idx[Head(q_input)] = n THEN <<Head(q_input)>> ELSE <<>>
<1>2. Received(n)' = Received(n)
  BY <1>1 DEF Received, Dst
<1>3. q_input \in Seq(Pbuf) /\ Tail(q_input) \in Seq(Pbuf) /\ Head(q_input) \in Pbuf
  BY HeadTailProperties DEF IInv, TypeOK
<1>4. a \in Seq(Pbuf) /\ t \in Seq(Pbuf) /\ r \in Seq(Pbuf) /\ c \in Seq(Pbuf)
  <2>1. a \in Seq(Pbuf) /\ c \in Seq(Pbuf)
    BY ChannelType
  <2>2. t \in Seq(Pbuf)
    BY <1>3, FromIfRange
  <2>3. r \in Seq(Pbuf)
    BY <1>3
  <2> QED BY <2>1, <2>2, <2>3
<1>5. OnTheWay(n) = (a \o <<>>) \o c
  BY <1>1 DEF OnTheWay, Routing
<1>6. OnTheWay(n)' = (a \o r) \o t
  BY <1>1 DEF OnTheWay, Routing, Dst
<1>7. c = IF if_idx[Head(q_input)] = n THEN <<Head(q_input)>> \o t ELSE t
  BY <1>3, FromIfTail
<1>8. c = r \o t
  <2>1. <<>> \o t = t
    BY <1>4, ConcatEmptySeq
  <2> HIDE DEF c, t
  <2> QED BY <1>7, <2>1
<1> HIDE DEF a, c, t, r
<1>9. a \o <<>> = a /\ (a \o r) \o t = a \o (r \o t)
  BY <1>4, ConcatEmptySeq, ConcatAssociative
<1> QED BY <1>2, <1>5, <1>6, <1>8, <1>9 DEF Same

\* eth_route_block: the packet is lost, joins the output queue, or is promised
\* to the waiting driver, whose queue is empty.
LEMMA TaskRouteStep ==
  ASSUME IInv, TaskRoute
  PROVE  [Channel!Next]_<<Chan, Rcvd>>
<1>1. task_pc = "route" /\ UNCHANGED <<if_idx, q_input, tx_buf>>
  BY DEF TaskRoute, memVars, txVars
<1>2. PICK p \in Pbuf : p = task_blk
  BY <1>1 DEF IInv, SlotInv, TypeOK
<1>3. PICK n \in Netif : n = if_idx[p]
  BY <1>2, EthMemAssumption DEF IInv, IfIdxInv
<1>4. PICK d \in Netif : d = Dst(n) /\ \A m \in Netif \ {n} : Dst(m) # d
  BY DEF Dst, Netif
<1>5. ref[p] = 1
  <2>1. At(p, "router") /\ "router" \in Places \ {"free_chain", "free_pbuf_q", "lwip"}
    BY <1>2 DEF At, Places
  <2> QED BY <2>1, ReleaseLemma
<1>6. n # "none"
  BY DEF Netif
<1>7. \A m \in Netif : Routing(m) = IF m = n THEN <<p>> ELSE <<>>
  BY <1>1, <1>2, <1>3 DEF Routing
<1>8. \A m \in Netif : Dst(m) \in Netif
  BY DEF Dst, Netif
<1> DEFINE a == q_output[d]
           c == FromIf(if_idx, n, q_input)
<1>9. /\ a \in Seq(Pbuf) /\ c \in Seq(Pbuf) /\ OnTheWay(n) = (a \o <<p>>) \o c
      /\ a \o <<p>> = Append(a, p) /\ a \o <<>> = a /\ <<>> \o c = c
  BY <1>4, <1>7, ChannelType, AppendIsConcat, ConcatEmptySeq DEF OnTheWay
\* The packet will be dropped.
<1>10. CASE task_pc' = "drop_free" /\ UNCHANGED <<q_output, task_blk>>
  <2>1. \A m \in Netif : Received(m)' = Received(m)
    BY <1>1, <1>10 DEF Received, Dst
  <2>2. \A m \in Netif : Routing(m)' = <<>>
    BY <1>10 DEF Routing
  <2>3. \A m \in Netif \ {n} : Same(m)
    BY <1>1, <1>7, <1>10, <2>1, <2>2 DEF Same, OnTheWay, Dst
  <2>4. OnTheWay(n)' = (a \o <<>>) \o c
    BY <1>1, <1>4, <1>10, <2>2 DEF OnTheWay, Dst
  <2> HIDE DEF a, c
  <2>5. /\ Len(a) + 1 \in 1 .. Len(Append(a, p) \o c)
        /\ RemoveAt(Append(a, p) \o c, Len(a) + 1) = a \o c
    BY <1>9, RemoveBetween
  <2>6. DOMAIN OnTheWay(n) = 1 .. Len(OnTheWay(n))
    BY ChannelType, LenProperties
  <2>7. Len(a) + 1 \in DOMAIN OnTheWay(n)
    BY <1>9, <2>5, <2>6
  <2>8. OnTheWay(n)' = RemoveAt(OnTheWay(n), Len(a) + 1)
    BY <1>9, <2>4, <2>5
  <2> QED BY <2>1, <2>3, <2>7, <2>8, LoseIsStep
\* The packet joins the output queue.
<1>11. CASE /\ task_pc' = "free2"
            /\ q_output' = [q_output EXCEPT ![d] = Append(@, p)]
  <2>1. \A m \in Netif : Received(m)' = Received(m)
    BY <1>1, <1>11 DEF Received, Dst
  <2>2. \A m \in Netif : Routing(m)' = <<>>
    BY <1>11 DEF Routing
  <2>3. \A m \in Netif : q_output'[Dst(m)] = IF m = n THEN Append(a, p)
                                             ELSE q_output[Dst(m)]
    BY <1>4, <1>8, <1>11 DEF IInv, TypeOK
  <2>4. \A m \in Netif \ {n} : Same(m)
    BY <1>1, <1>7, <2>1, <2>2, <2>3 DEF Same, OnTheWay, Dst
  <2>5. OnTheWay(n)' = (Append(a, p) \o <<>>) \o c
    BY <1>1, <2>2, <2>3 DEF OnTheWay, Dst
  <2> HIDE DEF a, c
  <2>6. Append(a, p) \o <<>> = Append(a, p)
    BY <1>9, AppendProperties, ConcatEmptySeq
  <2>7. \A m \in Netif : Same(m)
    BY <1>9, <2>1, <2>4, <2>5, <2>6 DEF Same
  <2> QED BY <2>7, SameIsStutter
\* The packet is promised to the waiting driver.
<1>12. CASE /\ task_pc' = "cbk_entry" /\ callback_pending[d]
            /\ UNCHANGED <<q_output, task_blk>>
  <2>1. a = <<>> /\ Received(n) = NoPbuf
    <3>1. a = <<>> /\ tx_pc[d] = "wait" /\ tx_buf[d] = NoPbuf
      BY <1>12 DEF IInv, PendingMeansEmpty, CallbackOwed, SlotInv
    <3> QED BY <1>1, <1>4, <3>1 DEF Received
  <2>2. \A m \in Netif : Received(m)' = IF m = n THEN p ELSE Received(m)
    BY <1>1, <1>2, <1>3, <1>12 DEF Received, Dst
  <2>3. \A m \in Netif : Routing(m)' = <<>>
    BY <1>12 DEF Routing
  <2>4. \A m \in Netif \ {n} : Same(m)
    BY <1>1, <1>7, <1>12, <2>2, <2>3 DEF Same, OnTheWay, Dst
  <2>5. OnTheWay(n)' = (a \o <<>>) \o c
    BY <1>1, <1>4, <1>12, <2>3 DEF OnTheWay, Dst
  <2> HIDE DEF a, c
  <2>6. OnTheWay(n) = <<p>> \o c /\ OnTheWay(n)' = <<>> \o c
    <3>1. Append(<<>>, p) = <<p>>
      OBVIOUS
    <3> QED BY <1>9, <2>1, <2>5, <3>1
  <2>7. /\ OnTheWay(n) # <<>> /\ Head(OnTheWay(n)) = p
        /\ OnTheWay(n)' = Tail(OnTheWay(n))
    <3>1. <<p>> \in Seq(Pbuf) /\ <<p>> # <<>> /\ Head(<<p>>) = p /\ Tail(<<p>>) = <<>>
      OBVIOUS
    <3> DEFINE s == <<p>>
    <3> HIDE DEF s
    <3>2. s \in Seq(Pbuf) /\ s # <<>> /\ Head(s) = p /\ Tail(s) = <<>>
      BY <3>1 DEF s
    <3>3. s \o c # <<>> /\ Head(s \o c) = Head(s) /\ Tail(s \o c) = Tail(s) \o c
      BY <1>9, <3>2, ConcatHead
    <3>4. OnTheWay(n) = s \o c
      BY <2>6 DEF s
    <3> QED BY <2>6, <3>2, <3>3, <3>4
  <2> QED BY <2>1, <2>2, <2>4, <2>7, DeliverIsStep
<1>13. CASE ~if_up[n]
  BY <1>2, <1>3, <1>5, <1>6, <1>10, <1>13 DEF TaskRoute
<1>14. CASE if_up[n]
  <2>1. AddToOutputQueue(d)
    BY <1>2, <1>3, <1>4, <1>5, <1>6, <1>14 DEF TaskRoute
  <2> QED BY <1>2, <1>10, <1>11, <1>12, <2>1 DEF AddToOutputQueue
<1> QED BY <1>13, <1>14

\* The call of callback_fn hands over what the driver was promised.
LEMMA TaskCallbackSame ==
  ASSUME IInv, TaskCallback
  PROVE  \A n \in Netif : Same(n)
<1>1. /\ task_pc = "cbk_call" /\ task_pc' = "free2"
      /\ UNCHANGED <<if_idx, q_input, q_output>>
      /\ tx_buf' = [tx_buf EXCEPT ![Dst(if_idx[task_blk])] = task_blk]
  BY DEF TaskCallback, memVars, qVars
<1>2. PICK n \in Netif : n = if_idx[task_blk]
  BY <1>1, EthMemAssumption DEF IInv, SlotInv, IfIdxInv
<1>3. PICK d \in Netif : d = Dst(n) /\ \A m \in Netif \ {n} : Dst(m) # d
  BY DEF Dst, Netif
<1>4. \A m \in Netif : Dst(m) \in Netif
  BY DEF Dst, Netif
<1>5. \A m \in Netif : tx_buf'[Dst(m)] = IF m = n THEN task_blk ELSE tx_buf[Dst(m)]
  BY <1>1, <1>2, <1>3, <1>4 DEF IInv, TypeOK
<1>6. \A m \in Netif : Received(m)' = Received(m)
  BY <1>1, <1>2, <1>5 DEF Received, Dst
<1>7. \A m \in Netif : OnTheWay(m)' = OnTheWay(m)
  BY <1>1 DEF OnTheWay, Routing, Dst
<1> QED BY <1>6, <1>7 DEF Same

\* Every step of every thread is a step of the channel or none.
LEMMA ChannelStep ==
  ASSUME IInv, [Next]_vars
  PROVE  [Channel!Next]_<<Chan, Rcvd>>
<1>1. CASE EthQueueTask
  <2>1. CASE TaskRoute
    BY <2>1, TaskRouteStep
  <2>2. CASE ~TaskRoute
    <3>1. \A n \in Netif : Same(n)
      BY <1>1, <2>2, FreeBlkSame, OtherTaskSame, TaskPopSame, TaskCallbackSame
         DEF EthQueueTask
    <3> QED BY <3>1, SameIsStutter
  <2> QED BY <2>1, <2>2
<1>2. ASSUME NEW n \in Netif, Driver(n) PROVE [Channel!Next]_<<Chan, Rcvd>>
  BY <1>2, RxEnqueueSends, TxGetPacketDelivers, RxAllocSame, RxSubmitSame,
     OtherDriverSame, SameIsStutter DEF Driver
<1>3. CASE BleTxFree
  <2>1. /\ tx_pc["BLE"] = "hold" /\ tx_buf' = [tx_buf EXCEPT !["BLE"] = NoPbuf]
        /\ UNCHANGED <<q_output, q_input, if_idx, task_pc, task_blk>>
    BY <1>3 DEF BleTxFree, qVars, taskVars
  <2> QED BY <2>1, TxReleases DEF Netif
<1>4. CASE LwipInput
  <2>1. /\ tx_pc["LWIP"] = "hold" /\ tx_buf' = [tx_buf EXCEPT !["LWIP"] = NoPbuf]
        /\ UNCHANGED <<q_output, q_input, if_idx, task_pc, task_blk>>
    BY <1>4 DEF LwipInput, memVars, qVars, taskVars
  <2> QED BY <2>1, TxReleases DEF Netif
<1>5. CASE Lwip
  BY <1>4, <1>5, OtherLwipSame, SameIsStutter DEF Lwip
<1>6. CASE BleTxNotify \/ UNCHANGED vars
  BY <1>6, OtherDriverSame, OtherLwipSame, SameIsStutter
<1> QED BY <1>1, <1>2, <1>3, <1>5, <1>6 DEF Next, Stopped

\* Router, queues, drops and callbacks together implement the lossy channel,
\* for every pool, queue length and number of references: the packets of one
\* interface reach the other driver in the order in which they were submitted,
\* each at most once.
THEOREM BridgeIsLossyFifo == Spec => ImplementsLossyFifo
<1>1. Init => Channel!Init
  <2> SUFFICES ASSUME Init PROVE Channel!Init
    OBVIOUS
  <2>1. ASSUME NEW n \in Netif
        PROVE  OnTheWay(n) = <<>> /\ Received(n) = NoPbuf
    <3>1. /\ q_output[Dst(n)] = <<>> /\ q_input = <<>> /\ task_pc = "wait"
          /\ tx_buf[Dst(n)] = NoPbuf
      BY DEF Init, Dst, Netif
    <3>2. OnTheWay(n) = (<<>> \o <<>>) \o <<>> /\ Received(n) = NoPbuf
      BY <3>1, FromIfEmpty DEF OnTheWay, Routing, Received
    <3>3. <<>> \o <<>> = <<>>
      BY EmptySeq, ConcatEmptySeq
    <3> QED BY <3>2, <3>3
  <2> QED BY <2>1 DEF Channel!Init
<1>2. IInv /\ [Next]_vars => [Channel!Next]_<<Chan, Rcvd>>
  BY ChannelStep
<1>3. [Channel!Next]_<<Chan, Rcvd>> <=>
        [Channel!Next]_<<[n \in Netif |-> OnTheWay(n)],
                         [n \in Netif |-> Received(n)]>>
  BY DEF Chan, Rcvd
<1> QED BY <1>1, <1>2, <1>3, Invariance, PTL DEF Spec, ImplementsLossyFifo,
        Channel!Spec
=============================================================================
