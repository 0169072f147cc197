------------------------------- MODULE MCBleTx -------------------------------
(***************************************************************************)
(* BleTx on small instances.                                               *)
(***************************************************************************)
EXTENDS BleTx

\* A datagram in two chunks, then one in one chunk.
MCSize == <<2, 1>>
=============================================================================
