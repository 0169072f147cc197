-------------------------------- MODULE MCNat --------------------------------
(***************************************************************************)
(* Nat with two sources, one of which talks to two destinations.           *)
(***************************************************************************)
EXTENDS Nat, TLC

CONSTANTS s1, s2, d1, d2, c1, c2

Flows == {<<s1, d1>>, <<s2, d1>>, <<s1, d2>>}
Pcbs  == {c1, c2}
Perms == Permutations(Pcbs)
=============================================================================
