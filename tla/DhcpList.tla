------------------------------ MODULE DhcpList ------------------------------
(***************************************************************************)
(* The linked list of dhcp_server.c, run in step with Dhcp: plist is built *)
(* with the code's own loops and nothing of it depends on pool.            *)
(***************************************************************************)
EXTENDS Dhcp

VARIABLE plist   \* the nodes, head first

listVars == <<vars, plist>>

\* node_insert_to_list: before the first node with a greater address.
Insert(l, e) ==
  LET k == CHOOSE k \in 1 .. Len(l) + 1 :
             /\ k = Len(l) + 1 \/ e.ip < l[k].ip
             /\ \A j \in 1 .. k - 1 : ~(e.ip < l[j].ip)
  IN InsertAt(l, k, e)

\* The loop of parse_msg: client_address_plus after the nodes of l.
WalkPlus(l, p) ==
  LET f[i \in 0 .. Len(l)] ==
        IF i = 0 THEN p
        ELSE IF l[i].ip = f[i - 1] THEN f[i - 1] + 1 ELSE f[i - 1]
  IN f[Len(l)]

\* first_address after the loop: raised at each node until one lies beyond it.
FirstUnused(l) ==
  CHOOSE a \in 1 .. Len(l) + 1 :
    /\ a = Len(l) + 1 \/ a < l[a].ip
    /\ \A b \in 1 .. a - 1 : ~(b < l[b].ip)

\* The position of c's node, behind the list if there is none.
Position(c) ==
  CHOOSE i \in 1 .. Len(plist) + 1 :
    /\ i = Len(plist) + 1 \/ plist[i].mac = c
    /\ \A j \in 1 .. i - 1 : plist[j].mac # c

\* Mutant: the walk does not stop at the client's own node.
BeforeAll(c) == plist

\* The nodes the loop passes before it finds c's.
Before(c) == SubSeq(plist, 1, Position(c) - 1)

\* client_address for a client without a node.
ListChosen ==
  IF plist = <<>> THEN 1
  ELSE IF WalkPlus(plist, plus) <= N THEN WalkPlus(plist, plus)
  ELSE FirstUnused(plist)

\* The list after parse_msg has handled m.
parse_msg(m) ==
  LET i == Position(m.c) IN
  IF i <= Len(plist)
  THEN IF State(m, plist[i].ip, m.ciaddr = plist[i].ip) \in {"RELEASE", "NAK"}
       THEN RemoveAt(plist, i)
       ELSE [plist EXCEPT ![i].left = Lease]
  ELSE IF \/ ListChosen > N
          \/ State(m, ListChosen, FALSE) \in {"RELEASE", "NAK"}
       THEN plist
       ELSE Insert(plist, [ip |-> ListChosen, mac |-> m.c, left |-> Lease])

\* Mutant: the count is tested before it is lowered.
ListTickLate ==
  LET f[i \in 0 .. Len(plist)] ==
        IF i = 0 THEN <<>>
        ELSE IF plist[i].left = 0 THEN f[i - 1]
        ELSE Append(f[i - 1], [plist[i] EXCEPT !.left = @ - 1])
  IN f[Len(plist)]

\* dhcps_tmr goes down the list, counts each node down and unlinks it at 0.
ListTick ==
  LET f[i \in 0 .. Len(plist)] ==
        IF i = 0 THEN <<>>
        ELSE IF plist[i].left - 1 = 0 THEN f[i - 1]
        ELSE Append(f[i - 1], [plist[i] EXCEPT !.left = @ - 1])
  IN f[Len(plist)]

ListInit == Init /\ plist = <<>>

ListNext ==
  \/ handle_dhcp /\ plist' = parse_msg(Head(req))
  \/ Tick /\ plist' = ListTick
  \/ Restart /\ plist' = <<>>
  \/ /\ LoseRequest \/ LoseReply \/ \E c \in Client : ClientStep(c)
     /\ UNCHANGED plist

ListSpec == ListInit /\ [][ListNext]_listVars

-----------------------------------------------------------------------------
\* The list that insertions, removals and expiries leave is sorted and holds
\* exactly the nodes of pool.
ListAgrees ==
  /\ Range(plist) = pool
  /\ \A i \in 1 .. Len(plist) - 1 : plist[i].ip < plist[i + 1].ip

\* Each loop over the list computes what Dhcp says it does, from wherever
\* client_address_plus has got to.
LoopsAgree ==
  /\ \A c \in Client : WalkPlus(Before(c), plus) = Skip(plus, Passed(c))
  /\ plist # <<>> => FirstUnused(plist) = Skip(1, pool)
=============================================================================
