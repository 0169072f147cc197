------------------------------ MODULE MCBlePath ------------------------------
(***************************************************************************)
(* BlePath on small instances.                                             *)
(***************************************************************************)
EXTENDS BlePath

\* Two datagrams in two chunks.
MCSize == <<2, 2>>
=============================================================================
