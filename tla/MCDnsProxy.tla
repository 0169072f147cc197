------------------------------ MODULE MCDnsProxy ------------------------------
(***************************************************************************)
(* DnsProxy for TLC: a name that just fits into an answer and one that     *)
(* does not, the empty name, a label with a dot and a zero byte in it, a   *)
(* section that ends early and a name too long for rec->name.  Three       *)
(* buffers and a queue of two reach the full queue and the empty pool.     *)
(***************************************************************************)
EXTENDS DnsProxy

MCQuestion ==
  [r \in {"a.b", "ab.c", "root", "odd", "short", "long"} |->
     CASE r = "a.b"   -> <<1, 97, 1, 98, 0>>
       [] r = "ab.c"  -> <<2, 97, 98, 1, 99, 0>>
       [] r = "root"  -> <<0>>
       [] r = "odd"   -> <<3, 97, 46, 0, 0>>
       [] r = "short" -> <<2, 97>>
       [] r = "long"  -> <<2, 97, 98, 2, 99, 100, 0>>]
MCRequest == DOMAIN MCQuestion
MCW == 34
=============================================================================
