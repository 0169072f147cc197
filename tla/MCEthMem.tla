------------------------------ MODULE MCEthMem ------------------------------
(***************************************************************************)
(* EthMem for TLC.  Two queue entries and output queues of one element     *)
(* reach every limit with three pbufs: no entry left, output queue full,   *)
(* pool exhausted.                                                         *)
(***************************************************************************)
EXTENDS EthMem, TLC

Perms == Permutations(Pbuf)
=============================================================================
