------------------------------- MODULE BleAsm -------------------------------
(***************************************************************************)
(* The receiving side of the BLE link: process_dgram_asm of ble_eth.c puts *)
(* the chunks of a datagram together.  It runs under RX_LOCK, so a chunk   *)
(* is one step.  The pbuf it fills is EthMem's; here only its contents     *)
(* matter: the chunks copied into it so far, <<datagram, position>> each.  *)
(* rx_seq_err is never set in the code and is left out, and so are the     *)
(* chunks and datagrams that are too short, which no sender produces.      *)
(***************************************************************************)
EXTENDS BleChunk

CONSTANT BufSize   \* chunks a pbuf has room for (ETH_MEM_BUF_SIZE)

ASSUME BleAsmAssumption == BufSize \in Nat \ {0}

VARIABLES
  rx_pbuf,         \* a pbuf is being filled
  rx_data,         \* its contents up to rx_ptr
  rx_prev_seq,     \* sequence number of the last chunk
  eth_rst_req_rx,  \* gatt_eth_reset asks to drop what is there
  dgrams           \* the datagrams given to the router so far

asmVars == <<rx_pbuf, rx_data, rx_prev_seq, eth_rst_req_rx, dgrams>>

AsmTypeOK ==
  /\ rx_pbuf \in BOOLEAN /\ eth_rst_req_rx \in BOOLEAN
  /\ rx_data \in Seq(Nat \X Nat) /\ Len(rx_data) <= BufSize
  /\ rx_prev_seq \in Seqs
  /\ dgrams \in Seq(Seq(Nat \X Nat))

AsmInit ==
  /\ rx_pbuf = FALSE /\ rx_data = <<>> /\ rx_prev_seq = 0
  /\ eth_rst_req_rx = FALSE
  /\ dgrams = <<>>

\* The pbuf is released, or was handed on.
NoRxPbuf == rx_pbuf' = FALSE /\ rx_data' = <<>>

\* Mutant: the reset request is acknowledged but not acted on.
process_dgram_asm_norst(c) ==
  LET pbuf == c.first \/ rx_pbuf
      data == IF c.first THEN <<>> ELSE rx_data
      seq  == IF c.first THEN c.seq ELSE NextSeq(rx_prev_seq)
      new  == Append(data, <<c.d, c.i>>)
  IN
  /\ eth_rst_req_rx' = FALSE
  /\ rx_prev_seq' = IF pbuf THEN seq ELSE rx_prev_seq
  /\ \/ /\ ~pbuf \/ seq # c.seq \/ Len(new) > BufSize
        /\ NoRxPbuf
        /\ UNCHANGED dgrams
     \/ /\ pbuf /\ seq = c.seq /\ Len(new) <= BufSize
        /\ IF c.last
           THEN NoRxPbuf /\ dgrams' = Append(dgrams, new)
           ELSE /\ rx_pbuf' = TRUE /\ rx_data' = new
                /\ UNCHANGED dgrams

\* Chunk c arrives: a pending reset first drops a partial datagram; a first
\* chunk starts over in the same or a new pbuf; a chunk out of sequence or too
\* long drops the datagram; the last chunk completes it.
process_dgram_asm(c) ==
  LET pbuf == c.first \/ (rx_pbuf /\ ~eth_rst_req_rx)
      data == IF c.first THEN <<>> ELSE rx_data
      seq  == IF c.first THEN c.seq ELSE NextSeq(rx_prev_seq)
      new  == Append(data, <<c.d, c.i>>)
  IN
  /\ eth_rst_req_rx' = FALSE
  /\ rx_prev_seq' = IF pbuf THEN seq ELSE rx_prev_seq
  /\ \/ /\ ~pbuf \/ seq # c.seq \/ Len(new) > BufSize
        /\ NoRxPbuf
        /\ UNCHANGED dgrams
     \/ /\ pbuf /\ seq = c.seq /\ Len(new) <= BufSize
        /\ IF c.last
           THEN NoRxPbuf /\ dgrams' = Append(dgrams, new)
           ELSE /\ rx_pbuf' = TRUE /\ rx_data' = new
                /\ UNCHANGED dgrams

\* gatt_eth_reset, the receiving half.
GattEthResetRx ==
  /\ eth_rst_req_rx' = TRUE
  /\ UNCHANGED <<rx_pbuf, rx_data, rx_prev_seq, dgrams>>
=============================================================================
