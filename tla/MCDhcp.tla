-------------------------------- MODULE MCDhcp --------------------------------
(***************************************************************************)
(* Dhcp and its list for TLC.  Three clients and two addresses reach the   *)
(* wrapped search and the exhausted pool.  The list's own operators do not *)
(* depend on the number of addresses and are compared here with what they  *)
(* stand for on every sorted list of up to five nodes.                     *)
(***************************************************************************)
EXTENDS DhcpList, TLC

Perms == Permutations(Client)

SortedList(S) ==
  SetToSortSeq([ip : S, mac : {"m"}, left : {1}], LAMBDA a, b : a.ip < b.ip)

FirstOutside(S, p) == CHOOSE a \in p .. 9 : a \notin S /\ p .. a - 1 \subseteq S

\* Insertion keeps a list sorted, and both loops find the first address that
\* the list does not have.
ASSUME ListOperators ==
  \A S \in SUBSET (1 .. 5) :
    /\ \A a \in (1 .. 6) \ S :
         Insert(SortedList(S), [ip |-> a, mac |-> "m", left |-> 1])
           = SortedList(S \cup {a})
    /\ \A p \in 1 .. 6 : WalkPlus(SortedList(S), p) = FirstOutside(S, p)
    /\ FirstUnused(SortedList(S)) = FirstOutside(S, 1)
=============================================================================
