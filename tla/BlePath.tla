------------------------------- MODULE BlePath -------------------------------
(***************************************************************************)
(* The BLE link end to end: BleTx on one side, BleAsm on the other.  Both  *)
(* ends of the link follow the chunk format of ble_eth.c; the far end is   *)
(* taken to reassemble the way this program does.  A chunk reaches the     *)
(* receiver when its write is done; it may be dropped above the radio (a   *)
(* lost broadcast), or be delivered twice (the receiver of MainActivity    *)
(* can be registered more than once).                                      *)
(***************************************************************************)
EXTENDS BleTx, BleAsm

CONSTANT MaxFaults   \* bound: chunks lost or delivered twice within a connection

VARIABLES losses, dups,  \* chunks lost and duplicated so far
          echo,          \* the chunk that is to be delivered once more
          early          \* a chunk was sent on a connection before its reset

pathVars == <<losses, dups, echo, early>>
allVars == <<vars, asmVars, pathVars>>

PathInit ==
  /\ Init /\ AsmInit
  /\ losses = 0 /\ dups = 0 /\ echo = NoChunk /\ early = FALSE

\* A write ends and its chunk arrives; the acknowledgement byte alone goes no
\* further than process_gatt_data.
Arrive ==
  /\ WriteDone /\ echo = NoChunk
  /\ IF wr = AckOnly THEN UNCHANGED asmVars ELSE process_dgram_asm(wr)
  /\ \/ UNCHANGED <<dups, echo>>
     \/ /\ wr # AckOnly /\ losses + dups < MaxFaults
        /\ dups' = dups + 1
        /\ echo' = wr
  /\ UNCHANGED <<losses, early>>

\* The same chunk is delivered again, before any other.
ArriveAgain ==
  /\ echo # NoChunk
  /\ process_dgram_asm(echo)
  /\ echo' = NoChunk
  /\ UNCHANGED <<vars, losses, dups, early>>

\* A write ends and its chunk is lost on the way to process_gatt_data.
Lose ==
  /\ WriteDone /\ echo = NoChunk /\ losses + dups < MaxFaults
  /\ losses' = losses + 1
  /\ UNCHANGED <<asmVars, dups, echo, early>>

\* A connection: the receiver resets before it subscribes to notifications, so
\* before any chunk of this connection can reach it.
Connect ==
  /\ LinkUp /\ echo = NoChunk
  /\ GattEthResetRx
  /\ UNCHANGED pathVars

\* The sender: between eth_ble_stack_control setting the status and the reset,
\* or in a bt_send that a reconnection overtook, it may still use the old index.
Send ==
  /\ TxStep
  /\ early' = \/ early
               \/ /\ wr' \notin {wr, NoChunk, AckOnly}
                  /\ ~status \/ main_pc = "reset"
  /\ UNCHANGED <<asmVars, losses, dups, echo>>

PathNext ==
  \/ Send
  \/ Arrive \/ ArriveAgain \/ Lose \/ Connect

PathSpec == PathInit /\ [][PathNext]_allVars

-----------------------------------------------------------------------------
\* The state of the two ends stays within its types.
PathTypeOK == TypeOK /\ AsmTypeOK

\* Six bits of sequence number tell a lost chunk, unless the sender also used
\* the old index on a connection.  They do not tell two: the last chunk of one
\* datagram and the first of another can be lost with as many acknowledgements
\* in between, each of which consumes a number, as make the numbers wrap.
Detectable == losses = 0 \/ (losses = 1 /\ ~early)

\* Whatever is repeated, restarted or cut off by a lost connection, a datagram
\* the receiver completes is one that was sent, whole and in one piece: chunks
\* of two datagrams are never mixed.  A chunk lost within a connection does not
\* break this either, unless the sender used the old index on it as well.
DgramsWhole ==
  Detectable =>
  \A k \in DOMAIN dgrams :
    \E d \in Dgram : dgrams[k] = [i \in 1 .. Size[d] |-> <<d, i>>]

\* Datagrams are completed in the order in which the router forwarded them,
\* and once each unless a chunk was repeated.
DgramsInOrder ==
  /\ \A k \in 1 .. Len(dgrams) - 1 : dgrams[k][1][1] <= dgrams[k + 1][1][1]
  /\ dups = 0 =>
       \A k \in 1 .. Len(dgrams) - 1 : dgrams[k][1][1] # dgrams[k + 1][1][1]

\* Without loss the sequence numbers within a datagram never have a gap at the
\* receiver, although an acknowledgement sent alone also consumes a number: a
\* partial datagram is continued by its next chunk in flight, or restarted.
NoGap ==
  (losses = 0 /\ dups = 0 /\ link /\ ~eth_rst_req_rx
     /\ main_pc = "idle" /\ ~tx_rst /\ rx_pbuf /\ wr \notin {NoChunk, AckOnly}
     /\ ~wr.first)
  => /\ wr.seq = NextSeq(rx_prev_seq)
     /\ <<wr.d, wr.i - 1>> = rx_data[Len(rx_data)]

-----------------------------------------------------------------------------
(***************************************************************************)
(* The inductive invariant: what these properties rest on.                 *)
(***************************************************************************)
InFlight == wr \notin {NoChunk, AckOnly}

\* The flag bits mark the first and the last chunk.
Marked(c) == c.first = (c.i = 1) /\ c.last = (c.i = Size[c.d])

\* What the sender has in hand.  Between two datagrams no chunk is counted; a
\* datagram whose chunk waits in snd_blk is not finished before its last one;
\* a reset is pending only while nothing waits; and only between datagrams is
\* an acknowledgement sent alone.
SenderInv ==
  /\ snd_blk # NoChunk => Marked(snd_blk)
  /\ InFlight => Marked(wr)
  /\ ~link => wr = NoChunk
  /\ cbk_pending => tx_ptr = 0
  /\ tx_lock <=> task_pc \in {"send", "write"}
  /\ tx_rst => snd_blk = NoChunk /\ ~tx_lock
  /\ tx_lock /\ snd_blk = NoChunk => tx_ptr = 0
  /\ snd_blk # NoChunk =>
       IF snd_blk.last THEN tx_ptr = 0
       ELSE current_tx_block = snd_blk.d /\ tx_ptr = snd_blk.i

\* The next chunk to be written starts a datagram.
FirstNext ==
  IF snd_blk # NoChunk THEN snd_blk.first ELSE tx_rst \/ tx_ptr = 0

\* It is the one after chunk i of datagram d, and it will have number s.
ChunkNext(d, i, s) ==
  /\ tx_index_blk = s
  /\ IF snd_blk # NoChunk
     THEN snd_blk.d = d /\ snd_blk.i = i + 1
     ELSE ~tx_rst /\ current_tx_block = d /\ tx_ptr = i

\* The chunk behind the one in flight.
FollowInv ==
  InFlight =>
    LET next == ChunkNext(wr.d, wr.i, NextSeq(wr.seq)) IN
    /\ FirstNext \/ next
    /\ ~early /\ ~wr.last => next

\* The next chunk to arrive: exactly the one after chunk i of datagram d, with
\* number s; that one or one that starts a datagram; with one chunk missing.
Exactly(d, i, s) ==
  IF InFlight THEN wr.d = d /\ wr.i = i + 1 /\ wr.seq = s
              ELSE ChunkNext(d, i, s)
Continues(d, i, s) ==
  IF InFlight THEN wr.first \/ (wr.d = d /\ wr.i = i + 1 /\ wr.seq = s)
              ELSE FirstNext \/ ChunkNext(d, i, s)
Skipped(s) ==
  IF InFlight THEN wr.first \/ wr.seq = NextSeq(s)
              ELSE FirstNext \/ tx_index_blk = NextSeq(s)

\* Sender and receiver, while the receiver has a part of a datagram.
SyncInv ==
  (rx_pbuf /\ ~eth_rst_req_rx /\ link) =>
    LET d == rx_data[Len(rx_data)][1]
        i == rx_data[Len(rx_data)][2]
        s == NextSeq(rx_prev_seq)
    IN
    /\ losses = 0 /\ ~early => Exactly(d, i, s)
    /\ losses = 0 => Continues(d, i, s)
    /\ losses = 1 /\ ~early => Continues(d, i, s) \/ Skipped(s)

\* As long as the sender did not use the old index, nothing arrives on a
\* connection before the reset has been carried out.
EarlyInv ==
  link /\ ~early /\ (~status \/ main_pc = "reset" \/ tx_rst) =>
    eth_rst_req_rx /\ ~InFlight /\ echo = NoChunk

\* The chunk that will be delivered again was the last to arrive.
EchoInv ==
  echo # NoChunk =>
    /\ echo \in Chunk /\ Marked(echo) /\ ~eth_rst_req_rx /\ dups # 0
    /\ rx_pbuf => rx_prev_seq = echo.seq
    /\ echo.first /\ ~echo.last =>
         rx_pbuf /\ rx_data = <<<<echo.d, echo.i>>>>

\* A partial datagram is the beginning of one that was sent.
PartInv ==
  /\ \A k \in DOMAIN dgrams : dgrams[k] # <<>>
  /\ rx_pbuf => rx_data # <<>>
  /\ Detectable /\ rx_pbuf =>
       \E d \in Dgram : rx_data = [i \in 1 .. Len(rx_data) |-> <<d, i>>]

\* All that is still to come has a number of b or more: in the router, with
\* the block being cut, with the chunk that waits, with the one in flight.
RouterFrom(b) ==
  /\ \A i \in DOMAIN q_output : b <= q_output[i]
  /\ cbk_blk # NoDgram => b <= cbk_blk
  /\ b <= routed + 1
BlockFrom(b) == RouterFrom(b) /\ (current_tx_block # NoDgram => b <= current_tx_block)
WaitingFrom(b) == BlockFrom(b) /\ (snd_blk # NoChunk => b <= snd_blk.d)
ComingFrom(b) == WaitingFrom(b) /\ (InFlight => b <= wr.d)

\* The least number that may follow chunk c.
Behind(c) == IF c.last THEN c.d + 1 ELSE c.d

\* The sender keeps the router's order.
SendOrder ==
  /\ callback_pending => q_output = <<>>
  /\ cbk_blk # NoDgram <=> "block" \in cbk_stores
  /\ \A i, j \in DOMAIN q_output : i < j => q_output[i] < q_output[j]
  /\ \A i \in DOMAIN q_output :
       q_output[i] <= routed /\ (cbk_blk # NoDgram => cbk_blk < q_output[i])
  /\ cbk_blk <= routed
  /\ current_tx_block # NoDgram => RouterFrom(current_tx_block + 1)
  /\ snd_blk # NoChunk => BlockFrom(Behind(snd_blk))
  /\ InFlight => WaitingFrom(Behind(wr))

\* So does the receiver: the datagram it assembles is not behind the last one
\* it completed, and without repetition it is a later one.
ReceiveOrder ==
  /\ echo # NoChunk => ComingFrom(Behind(echo))
  /\ rx_pbuf =>
       /\ ComingFrom(rx_data[1][1])
       /\ echo # NoChunk => rx_data[1][1] <= echo.d
  /\ dgrams # <<>> =>
       LET l == dgrams[Len(dgrams)][1][1] IN
       /\ ComingFrom(l)
       /\ rx_pbuf => l <= rx_data[1][1]
       /\ echo # NoChunk => l <= echo.d
       /\ dups = 0 => ComingFrom(l + 1) /\ (rx_pbuf => l < rx_data[1][1])

PathIInv ==
  /\ PathTypeOK /\ losses \in Nat /\ dups \in Nat /\ early \in BOOLEAN
  /\ SenderInv /\ FollowInv /\ SyncInv /\ EarlyInv /\ EchoInv /\ PartInv
  /\ SendOrder /\ ReceiveOrder
  /\ DgramsWhole /\ DgramsInOrder
=============================================================================
