--------------------------------- MODULE Dhcp ---------------------------------
(***************************************************************************)
(* The DHCP server of the app (lwip/dhcp_server.c) and its clients, the    *)
(* units behind the BLE link (external).  Every handler runs under the     *)
(* lwIP core lock, so each is one step.  The link in between is a FIFO     *)
(* that may lose datagrams.  The app's process may be killed and started   *)
(* again, and the server keeps nothing across that.                        *)
(*                                                                         *)
(* Addresses are numbered from dhcps_poll.start_ip, 1, to end_ip, N.  The  *)
(* list plist is the set pool: DhcpList shows that the two agree.          *)
(***************************************************************************)
EXTENDS Integers, Sequences, SequencesExt

CONSTANTS Client,   \* the clients, by their MAC address
          N,        \* addresses in the pool (DHCPS_MAX_LEASE)
          Lease,    \* the lease time in ticks of dhcps_tmr
          Cap       \* bound: datagrams on the way, both directions together

ASSUME DhcpAssumption ==
  N \in Nat \ {0} /\ Lease \in Nat \ {0} /\ Cap \in Nat

Addr   == 1 .. N
NoAddr == 0

\* A struct dhcps_pool: an address, its owner, and the ticks until it expires.
Node == [ip : Addr, mac : Client, left : 1 .. Lease]

\* A client's datagram: want is option 50 and ciaddr the field of that name.
\* cur: it carries the xid of its client's current transaction.  left: what
\* will remain of the lease if it is granted, counted from its sending.
Request ==
  [c : Client, type : {"DISCOVER", "REQUEST", "DECLINE", "RELEASE", "INFORM"},
   want : 0 .. N, ciaddr : 0 .. N, cur : BOOLEAN, left : 0 .. Lease]
Reply ==
  [c : Client, type : {"OFFER", "ACK", "NAK"}, ip : 0 .. N,
   cur : BOOLEAN, left : 0 .. Lease]

VARIABLES
  pool,     \* plist
  plus,     \* client_address_plus
  req, rsp, \* datagrams to the server and from it, oldest first
  st,       \* st[c]: the state of client c
  addr,     \* addr[c]: the address c asks for or has leased
  left,     \* left[c]: ticks left of c's lease by c's reckoning, 0: no lease
  served    \* clients that hold a lease this run of the process has granted

serverVars == <<pool, plus>>
clientVars == <<st, addr, left, served>>
vars == <<pool, plus, req, rsp, st, addr, left, served>>

TypeOK ==
  /\ pool \subseteq Node
  /\ plus \in 1 .. N + 1
  /\ req \in Seq(Request) /\ rsp \in Seq(Reply)
  /\ st \in [Client -> {"init", "selecting", "requesting", "bound", "renewing"}]
  /\ addr \in [Client -> 0 .. N]
  /\ left \in [Client -> 0 .. Lease]
  /\ served \subseteq Client

\* dhcps_new and dhcps_start.
Init ==
  /\ pool = {} /\ plus = 1
  /\ req = <<>> /\ rsp = <<>>
  /\ st = [c \in Client |-> "init"]
  /\ addr = [c \in Client |-> NoAddr]
  /\ left = [c \in Client |-> 0]
  /\ served = {}

-----------------------------------------------------------------------------
(***************************************************************************)
(* The server                                                              *)
(***************************************************************************)
Ips(nodes) == {n.ip : n \in nodes}
Known(c) == \E n \in pool : n.mac = c

\* The nodes parse_msg has passed when it finds c's node, or the list's end.
Passed(c) == {n \in pool : \A m \in pool : m.mac = c => n.ip < m.ip}

\* The loop raises an address by one at each node that has it; the nodes come
\* in the order of their addresses.
Skip(a, nodes) ==
  CHOOSE b \in a .. N + 1 :
    /\ b \notin Ips(nodes)
    /\ \A k \in a .. b - 1 : k \in Ips(nodes)

\* Mutants: the search for the first unused address is forgotten; used
\* addresses are not skipped.
ChosenUpwards(c) == IF pool = {} THEN 1 ELSE Skip(plus, pool)

ChosenBlind(c) == IF pool = {} THEN 1 ELSE plus

\* client_address for a client without a node.  Past the end of the pool the
\* first unused address is taken.
Chosen(c) ==
  IF pool = {} THEN 1
  ELSE IF Skip(plus, pool) <= N THEN Skip(plus, pool)
  ELSE Skip(1, pool)

\* parse_options, for a client whose address is ip; renew: ciaddr is ip and c
\* was in the list.
State(m, ip, renew) ==
  CASE m.type = "DISCOVER" -> "OFFER"
    [] m.type = "REQUEST" ->
         IF m.want = ip \/ (m.want = NoAddr /\ renew) THEN "ACK" ELSE "NAK"
    [] m.type = "RELEASE" -> "RELEASE"
    [] OTHER -> "IDLE"

\* send_offer, send_ack, send_nak, broadcast to all; nothing for other states.
SendReply(m, state, ip) ==
  rsp' = IF state \in {"OFFER", "ACK", "NAK"}
         THEN Append(rsp, [c |-> m.c, type |-> state, cur |-> m.cur,
                           ip |-> IF state = "NAK" THEN NoAddr ELSE ip,
                           left |-> m.left])
         ELSE rsp

\* The node of c with a new lease, unless the answer takes it away.
Keep(m, state, ip) ==
  IF state \in {"RELEASE", "NAK"} THEN {}
  ELSE {[ip |-> ip, mac |-> m.c, left |-> Lease]}

\* handle_dhcp for a client in the list: its lease starts again whatever the
\* message is, and client_address_plus has moved past the nodes before it.
HandleKnown ==
  /\ req # <<>>
  /\ LET m == Head(req) IN
     \E n \in pool :
       /\ n.mac = m.c
       /\ LET state == State(m, n.ip, m.ciaddr = n.ip) IN
          /\ pool' = (pool \ {n}) \cup Keep(m, state, n.ip)
          /\ SendReply(m, state, n.ip)
       /\ plus' = Skip(plus, Passed(m.c))
  /\ req' = Tail(req)
  /\ UNCHANGED clientVars

\* handle_dhcp for a client that is not in the list: a node is made for it
\* whatever the message is.
HandleNew ==
  /\ req # <<>>
  /\ LET m == Head(req)
         ip == Chosen(m.c)
         state == State(m, ip, FALSE) IN
     /\ ~Known(m.c) /\ ip <= N
     /\ pool' = pool \cup Keep(m, state, ip)
     /\ SendReply(m, state, ip)
     /\ plus' = IF ip = N THEN 1 ELSE ip + 1
  /\ req' = Tail(req)
  /\ UNCHANGED clientVars

\* handle_dhcp when no address is left.
HandleNone ==
  /\ req # <<>>
  /\ LET m == Head(req) IN
     /\ ~Known(m.c) /\ Chosen(m.c) > N
     /\ SendReply(m, "NAK", NoAddr)
  /\ plus' = 1
  /\ req' = Tail(req)
  /\ UNCHANGED <<pool, clientVars>>

handle_dhcp == HandleKnown \/ HandleNew \/ HandleNone

-----------------------------------------------------------------------------
(***************************************************************************)
(* Time, the link and the process                                          *)
(***************************************************************************)
Less(k) == IF k = 0 THEN 0 ELSE k - 1
Older(q) == [i \in DOMAIN q |-> [q[i] EXCEPT !.left = Less(@)]]

\* Mutants: a node is freed one tick before its time runs out, or one after.
dhcps_tmr_early == {[n EXCEPT !.left = @ - 1] : n \in {n \in pool : n.left > 2}}
dhcps_tmr_late == {[n EXCEPT !.left = @ - 1] : n \in {n \in pool : n.left > 0}}

\* dhcps_tmr: every node loses a tick and is freed when none is left.
dhcps_tmr == {[n EXCEPT !.left = @ - 1] : n \in {n \in pool : n.left > 1}}

\* A second passes, for the server and for the leases the clients hold.
Tick ==
  /\ pool' = dhcps_tmr
  /\ req' = Older(req) /\ rsp' = Older(rsp)
  /\ left' = [c \in Client |-> Less(left[c])]
  /\ st' = [c \in Client |->
              IF st[c] \in {"bound", "renewing"} /\ left[c] <= 1
              THEN "init" ELSE st[c]]
  /\ addr' = [c \in Client |-> IF st'[c] = "init" THEN NoAddr ELSE addr[c]]
  /\ served' = {c \in served : left'[c] > 0}
  /\ UNCHANGED plus

\* A datagram is lost on the link.
LoseRequest ==
  /\ req # <<>>
  /\ req' = Tail(req)
  /\ UNCHANGED <<serverVars, rsp, clientVars>>

\* A reply is lost, or it is none its client waits for.
LoseReply ==
  /\ rsp # <<>>
  /\ rsp' = Tail(rsp)
  /\ UNCHANGED <<serverVars, req, clientVars>>

\* The process is killed and started again: a new server, and the datagrams
\* that its queues held are gone.  The clients do not notice.
Restart ==
  /\ pool' = {} /\ plus' = 1
  /\ req' = <<>> /\ rsp' = <<>>
  /\ served' = {}
  /\ UNCHANGED <<st, addr, left>>

-----------------------------------------------------------------------------
(***************************************************************************)
(* A client (external), as RFC 2131 has it: a lease counts from the        *)
(* sending of the request that was granted.                                *)
(***************************************************************************)
Msg(c, type, want, ciaddr) ==
  [c |-> c, type |-> type, want |-> want, ciaddr |-> ciaddr, cur |-> TRUE,
   left |-> IF type = "REQUEST" THEN Lease ELSE 0]

Room == Len(req) + Len(rsp) < Cap

Send(m) ==
  /\ Room
  /\ req' = Append(req, m)

\* A transaction with a new xid: what is still on the way no longer matters.
Past(c, q) ==
  [i \in DOMAIN q |->
     IF q[i].c = c THEN [q[i] EXCEPT !.cur = FALSE, !.left = 0] ELSE q[i]]

SendNew(m) ==
  /\ Room
  /\ req' = Append(Past(m.c, req), m)
  /\ rsp' = Past(m.c, rsp)

\* c is without a lease and waits for nothing.
Idle(c) ==
  /\ st' = [st EXCEPT ![c] = "init"]
  /\ addr' = [addr EXCEPT ![c] = NoAddr]
  /\ left' = [left EXCEPT ![c] = 0]
  /\ served' = served \ {c}

Discover(c) ==
  /\ st[c] = "init"
  /\ SendNew(Msg(c, "DISCOVER", NoAddr, NoAddr))
  /\ st' = [st EXCEPT ![c] = "selecting"]
  /\ UNCHANGED <<serverVars, addr, left, served>>

\* INIT-REBOOT: c asks for an address it remembers.
Reboot(c) ==
  /\ st[c] = "init"
  /\ \E a \in Addr :
       /\ SendNew(Msg(c, "REQUEST", a, NoAddr))
       /\ addr' = [addr EXCEPT ![c] = a]
  /\ st' = [st EXCEPT ![c] = "requesting"]
  /\ UNCHANGED <<serverVars, left, served>>

\* c got its address elsewhere.
Inform(c) ==
  /\ st[c] = "init"
  /\ SendNew(Msg(c, "INFORM", NoAddr, NoAddr))
  /\ UNCHANGED <<serverVars, clientVars>>

Renew(c) ==
  /\ st[c] = "bound"
  /\ SendNew(Msg(c, "REQUEST", NoAddr, addr[c]))
  /\ st' = [st EXCEPT ![c] = "renewing"]
  /\ UNCHANGED <<serverVars, addr, left, served>>

Release(c) ==
  /\ st[c] \in {"bound", "renewing"}
  /\ SendNew(Msg(c, "RELEASE", NoAddr, addr[c]))
  /\ Idle(c)
  /\ UNCHANGED serverVars

\* No answer: the same message again.
Retry(c) ==
  /\ Send(CASE st[c] = "selecting"  -> Msg(c, "DISCOVER", NoAddr, NoAddr)
            [] st[c] = "requesting" -> Msg(c, "REQUEST", addr[c], NoAddr)
            [] OTHER                -> Msg(c, "REQUEST", NoAddr, addr[c]))
  /\ st[c] \in {"selecting", "requesting", "renewing"}
  /\ UNCHANGED <<serverVars, rsp, clientVars>>

GiveUp(c) ==
  /\ st[c] \in {"selecting", "requesting"}
  /\ Idle(c)
  /\ UNCHANGED <<serverVars, req, rsp>>

TakeOffer(c) ==
  /\ rsp # <<>> /\ Head(rsp).c = c /\ Head(rsp).cur
  /\ Head(rsp).type = "OFFER" /\ st[c] = "selecting"
  /\ req' = Append(req, Msg(c, "REQUEST", Head(rsp).ip, NoAddr))
  /\ addr' = [addr EXCEPT ![c] = Head(rsp).ip]
  /\ st' = [st EXCEPT ![c] = "requesting"]
  /\ rsp' = Tail(rsp)
  /\ UNCHANGED <<serverVars, left, served>>

\* An acknowledgement that comes before its lease has run out.
TakeAck(c) ==
  /\ rsp # <<>> /\ Head(rsp).c = c /\ Head(rsp).cur
  /\ Head(rsp).type = "ACK" /\ Head(rsp).left > 0
  /\ st[c] \in {"requesting", "renewing"}
  /\ addr' = [addr EXCEPT ![c] = Head(rsp).ip]
  /\ left' = [left EXCEPT ![c] = Head(rsp).left]
  /\ st' = [st EXCEPT ![c] = "bound"]
  /\ served' = served \cup {c}
  /\ rsp' = Tail(rsp)
  /\ UNCHANGED <<serverVars, req>>

\* Another host already uses the address that was acknowledged.
Decline(c) ==
  /\ rsp # <<>> /\ Head(rsp).c = c /\ Head(rsp).cur
  /\ Head(rsp).type = "ACK" /\ st[c] = "requesting"
  /\ req' = Append(Past(c, req), Msg(c, "DECLINE", Head(rsp).ip, NoAddr))
  /\ rsp' = Past(c, Tail(rsp))
  /\ Idle(c)
  /\ UNCHANGED serverVars

TakeNak(c) ==
  /\ rsp # <<>> /\ Head(rsp).c = c /\ Head(rsp).cur
  /\ Head(rsp).type = "NAK" /\ st[c] \in {"requesting", "renewing"}
  /\ Idle(c)
  /\ rsp' = Tail(rsp)
  /\ UNCHANGED <<serverVars, req>>

ClientStep(c) ==
  \/ Discover(c) \/ Reboot(c) \/ Inform(c) \/ Renew(c) \/ Release(c)
  \/ Retry(c) \/ GiveUp(c)
  \/ TakeOffer(c) \/ TakeAck(c) \/ TakeNak(c) \/ Decline(c)

Next ==
  \/ handle_dhcp \/ Tick \/ LoseRequest \/ LoseReply \/ Restart
  \/ \E c \in Client : ClientStep(c)

Spec == Init /\ [][Next]_vars

-----------------------------------------------------------------------------
\* The list never has two nodes with one address, or two nodes of one client.
PoolSound ==
  \A n, m \in pool : n.ip = m.ip \/ n.mac = m.mac => n = m

\* Wherever client_address_plus has got to, a client that is not in the list
\* is offered an unused address of the pool as long as there is one.
FreeAddressFound ==
  \A c \in Client :
    (~Known(c) /\ Addr \ Ips(pool) # {}) => Chosen(c) \in Addr \ Ips(pool)

\* No two clients hold the same address at the same time, whatever is lost,
\* repeated, refused, released or declined on the way; leases granted before
\* the process was started again are excepted, the server cannot know them.
NoAddressConflict ==
  \A c, d \in served :
    (c # d /\ left[c] > 0 /\ left[d] > 0) => addr[c] # addr[d]
=============================================================================
