------------------------------ MODULE BleChunk ------------------------------
(***************************************************************************)
(* The sequence number in the header byte of a chunk (ble_eth.c): six      *)
(* bits, beside the two that mark the first and the last chunk.            *)
(***************************************************************************)
EXTENDS Naturals, Sequences

CONSTANT SeqMod   \* 64

ASSUME SeqModAssumption == SeqMod \in Nat \ {0, 1}

Seqs == 0 .. SeqMod - 1

\* Mutant: no wrap.
NextSeqNoWrap(s) == s + 1

NextSeq(s) == (s + 1) % SeqMod
=============================================================================
