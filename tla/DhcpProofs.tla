------------------------------ MODULE DhcpProofs ------------------------------
(***************************************************************************)
(* Proofs about the DHCP server and its clients, for any number of         *)
(* clients and addresses and any lease time.                               *)
(***************************************************************************)
EXTENDS DhcpList, DataLemmas

\* m leaves its sender's node at address a in place.
Keeps(m, a) ==
  m.type = "REQUEST" /\ (m.want = a \/ (m.want = NoAddr /\ m.ciaddr = a))

\* The list reserves a for c for at least k more ticks.
Covered(c, a, k) == \E n \in pool : n.mac = c /\ n.ip = a /\ n.left >= k

\* Offers and acknowledgements carry an address of the pool.
ReplyAddr == \A i \in DOMAIN rsp : rsp[i].type # "NAK" => rsp[i].ip \in Addr

\* A client has a lease exactly while it is bound or renewing.
ClientStates ==
  \A c \in Client :
    /\ left[c] > 0 <=> st[c] \in {"bound", "renewing"}
    /\ st[c] \in {"requesting", "bound", "renewing"} => addr[c] \in Addr

\* What a client asks for within a transaction is one address, and nothing
\* that could cost it that address follows on the link.
CurrentRequests ==
  \A i \in DOMAIN req :
    (req[i].cur /\ req[i].type = "REQUEST") =>
      /\ st[req[i].c] # "selecting"
      /\ st[req[i].c] \in {"requesting", "renewing"} =>
           Keeps(req[i], addr[req[i].c])
      /\ \A j \in DOMAIN req :
           (j > i /\ req[j].c = req[i].c) => req[j].cur /\ req[j].type = "REQUEST"

\* As long as c holds a lease, it sends nothing that gives it up.
Harmless(c) == \A i \in DOMAIN req : req[i].c = c => Keeps(req[i], addr[c])
LeaseHolders == \A c \in Client : left[c] > 0 => Harmless(c)

\* An acknowledgement that its client will accept is backed by the list.
AckBacked(r) ==
  /\ st[r.c] # "selecting"
  /\ (r.left > 0 /\ st[r.c] \in {"requesting", "renewing"}) =>
       /\ r.ip = addr[r.c]
       /\ Covered(r.c, r.ip, r.left)
       /\ Harmless(r.c)
CurrentAcks ==
  \A i \in DOMAIN rsp : (rsp[i].cur /\ rsp[i].type = "ACK") => AckBacked(rsp[i])

\* So is every lease granted by this run of the process.
LeasesBacked ==
  \A c \in served : left[c] > 0 => Covered(c, addr[c], left[c])

IInv ==
  /\ TypeOK /\ PoolSound
  /\ ReplyAddr /\ ClientStates
  /\ CurrentRequests /\ LeaseHolders
  /\ CurrentAcks /\ LeasesBacked

-----------------------------------------------------------------------------
(***************************************************************************)
(* Sequences                                                               *)
(***************************************************************************)
LEMMA TailLemma ==
  ASSUME NEW S, NEW q \in Seq(S), q # <<>>
  PROVE  /\ Head(q) \in S /\ Head(q) = q[1] /\ 1 \in DOMAIN q
         /\ Tail(q) \in Seq(S)
         /\ Len(Tail(q)) = Len(q) - 1
         /\ DOMAIN Tail(q) = 1 .. Len(q) - 1
         /\ DOMAIN q = 1 .. Len(q)
         /\ \A i \in DOMAIN Tail(q) :
              i + 1 \in DOMAIN q /\ Tail(q)[i] = q[i + 1]
<1>1. Tail(q) \in Seq(S) /\ Len(Tail(q)) = Len(q) - 1 /\ Len(q) \in Nat \ {0}
  BY EmptySeq, LenProperties
<1>2. \A i \in 1 .. Len(q) - 1 : Tail(q)[i] = q[i + 1]
  BY <1>1
<1> QED BY <1>1, <1>2, LenProperties

LEMMA AppendLemma ==
  ASSUME NEW S, NEW q \in Seq(S), NEW m \in S
  PROVE  /\ Append(q, m) \in Seq(S)
         /\ Len(Append(q, m)) = Len(q) + 1 /\ Len(q) \in Nat
         /\ DOMAIN q = 1 .. Len(q)
         /\ DOMAIN Append(q, m) = 1 .. Len(q) + 1
         /\ \A i \in DOMAIN q : Append(q, m)[i] = q[i]
         /\ Append(q, m)[Len(q) + 1] = m
BY AppendProperties, LenProperties

LEMMA MapLemma ==
  ASSUME NEW S, NEW q \in Seq(S), NEW f, f = [i \in DOMAIN q |-> f[i]],
         \A i \in DOMAIN q : f[i] \in S
  PROVE  f \in Seq(S) /\ Len(f) = Len(q) /\ DOMAIN f = DOMAIN q
<1>1. DOMAIN q = 1 .. Len(q) /\ Len(q) \in Nat
  BY LenProperties
<1>2. f \in [1 .. Len(q) -> S]
  BY <1>1
<1> QED BY <1>1, <1>2, LenProperties

LEMMA PastLemma ==
  ASSUME NEW c \in Client
  PROVE  /\ \A q \in Seq(Request) :
              /\ Past(c, q) \in Seq(Request)
              /\ Len(Past(c, q)) = Len(q) /\ DOMAIN Past(c, q) = DOMAIN q
         /\ \A q \in Seq(Reply) :
              /\ Past(c, q) \in Seq(Reply)
              /\ Len(Past(c, q)) = Len(q) /\ DOMAIN Past(c, q) = DOMAIN q
<1> DEFINE P(q) == Past(c, q)
<1>1. 0 \in 0 .. Lease
  BY DhcpAssumption
<1>2. ASSUME NEW q \in Seq(Request)
      PROVE  \A i \in DOMAIN q : P(q)[i] \in Request
  <2>1. \A i \in DOMAIN q : q[i] \in Request
    BY ElementOfSeq, LenProperties
  <2> QED BY <1>1, <2>1 DEF Past, Request
<1>3. ASSUME NEW q \in Seq(Reply)
      PROVE  \A i \in DOMAIN q : P(q)[i] \in Reply
  <2>1. \A i \in DOMAIN q : q[i] \in Reply
    BY ElementOfSeq, LenProperties
  <2> QED BY <1>1, <2>1 DEF Past, Reply
<1>4. \A q : P(q) = [i \in DOMAIN q |-> P(q)[i]]
  BY DEF Past
<1> HIDE DEF P
<1>5. \A q \in Seq(Request) :
        P(q) \in Seq(Request) /\ Len(P(q)) = Len(q) /\ DOMAIN P(q) = DOMAIN q
  BY <1>2, <1>4, MapLemma
<1>6. \A q \in Seq(Reply) :
        P(q) \in Seq(Reply) /\ Len(P(q)) = Len(q) /\ DOMAIN P(q) = DOMAIN q
  BY <1>3, <1>4, MapLemma
<1> QED BY <1>5, <1>6 DEF P

LEMMA OlderLemma ==
  /\ \A q \in Seq(Request) :
       /\ Older(q) \in Seq(Request)
       /\ Len(Older(q)) = Len(q) /\ DOMAIN Older(q) = DOMAIN q
  /\ \A q \in Seq(Reply) :
       /\ Older(q) \in Seq(Reply)
       /\ Len(Older(q)) = Len(q) /\ DOMAIN Older(q) = DOMAIN q
<1>1. \A k \in 0 .. Lease : Less(k) \in 0 .. Lease
  BY DhcpAssumption DEF Less
<1>2. ASSUME NEW q \in Seq(Request)
      PROVE  \A i \in DOMAIN q : Older(q)[i] \in Request
  <2>1. \A i \in DOMAIN q : q[i] \in Request
    BY ElementOfSeq, LenProperties
  <2> QED BY <1>1, <2>1 DEF Older, Request
<1>3. ASSUME NEW q \in Seq(Reply)
      PROVE  \A i \in DOMAIN q : Older(q)[i] \in Reply
  <2>1. \A i \in DOMAIN q : q[i] \in Reply
    BY ElementOfSeq, LenProperties
  <2> QED BY <1>1, <2>1 DEF Older, Reply
<1>4. \A q : Older(q) = [i \in DOMAIN q |-> Older(q)[i]]
  BY DEF Older
<1> QED BY <1>2, <1>3, <1>4, MapLemma

-----------------------------------------------------------------------------
(***************************************************************************)
(* Addresses                                                               *)
(***************************************************************************)
LEMMA SkipLemma ==
  ASSUME NEW a \in 1 .. N + 1, NEW nodes \in SUBSET Node
  PROVE  /\ Skip(a, nodes) \in a .. N + 1
         /\ Skip(a, nodes) \notin Ips(nodes)
         /\ \A k \in a .. Skip(a, nodes) - 1 : k \in Ips(nodes)
<1> DEFINE S == {b \in a .. N + 1 : b \notin Ips(nodes)}
<1>0. N \in Nat
  BY DhcpAssumption
<1>1. Ips(nodes) \subseteq 1 .. N
  BY DEF Ips, Node, Addr
<1>2. N + 1 \in S /\ S \in SUBSET Nat
  BY <1>0, <1>1
<1>3. PICK m \in S : \A k \in S : m <= k
  BY <1>2, MinExists
<1>4. \A k \in a .. m - 1 : k \in Ips(nodes)
  BY <1>0, <1>3
<1> QED BY <1>3, <1>4 DEF Skip

\* A client that is not in the list gets an address no node has, unless all
\* are in use.
LEMMA ChosenLemma ==
  ASSUME TypeOK, NEW c \in Client
  PROVE  /\ Chosen(c) \in 1 .. N + 1
         /\ Chosen(c) \notin Ips(pool)
         /\ Addr \ Ips(pool) # {} => Chosen(c) \in Addr
<1>0. N \in Nat \ {0} /\ plus \in 1 .. N + 1 /\ pool \in SUBSET Node
  BY DhcpAssumption DEF TypeOK
<1>1. CASE pool = {}
  BY <1>0, <1>1 DEF Chosen, Ips, Addr
<1>2. CASE pool # {} /\ Skip(plus, pool) <= N
  BY <1>0, <1>2, SkipLemma DEF Chosen, Addr
<1>3. CASE pool # {} /\ ~(Skip(plus, pool) <= N)
  <2>1. Chosen(c) = Skip(1, pool)
    BY <1>3 DEF Chosen
  <2>2. /\ Skip(1, pool) \in 1 .. N + 1
        /\ Skip(1, pool) \notin Ips(pool)
        /\ \A k \in 1 .. Skip(1, pool) - 1 : k \in Ips(pool)
    BY <1>0, SkipLemma
  <2> QED BY <1>0, <2>1, <2>2 DEF Addr
<1> QED BY <1>1, <1>2, <1>3

-----------------------------------------------------------------------------
(***************************************************************************)
(* Messages that are marked, aged or added keep what the invariant is about*)
(***************************************************************************)
LEMMA PastFields ==
  ASSUME NEW c \in Client
  PROVE  /\ \A q \in Seq(Request) : \A i \in DOMAIN q :
              LET m == Past(c, q)[i] IN
              /\ m.c = q[i].c /\ m.type = q[i].type
              /\ m.want = q[i].want /\ m.ciaddr = q[i].ciaddr
              /\ m.cur => q[i].cur /\ m.c # c
         /\ \A q \in Seq(Reply) : \A i \in DOMAIN q :
              LET m == Past(c, q)[i] IN
              /\ m.c = q[i].c /\ m.type = q[i].type /\ m.ip = q[i].ip
              /\ m.cur => q[i].cur /\ m.c # c /\ m.left = q[i].left
<1>1. \A q \in Seq(Request) : \A i \in DOMAIN q : q[i] \in Request
  BY ElementOfSeq, LenProperties
<1>2. \A q \in Seq(Reply) : \A i \in DOMAIN q : q[i] \in Reply
  BY ElementOfSeq, LenProperties
<1>3. ASSUME NEW q \in Seq(Request), NEW i \in DOMAIN q
      PROVE  LET m == Past(c, q)[i] IN
             /\ m.c = q[i].c /\ m.type = q[i].type
             /\ m.want = q[i].want /\ m.ciaddr = q[i].ciaddr
             /\ m.cur => q[i].cur /\ m.c # c
  BY <1>1 DEF Past, Request
<1>4. ASSUME NEW q \in Seq(Reply), NEW i \in DOMAIN q
      PROVE  LET m == Past(c, q)[i] IN
             /\ m.c = q[i].c /\ m.type = q[i].type /\ m.ip = q[i].ip
             /\ m.cur => q[i].cur /\ m.c # c /\ m.left = q[i].left
  BY <1>2 DEF Past, Reply
<1> QED BY <1>3, <1>4

LEMMA OlderFields ==
  /\ \A q \in Seq(Request) : \A i \in DOMAIN q :
       LET m == Older(q)[i] IN
       /\ m.c = q[i].c /\ m.type = q[i].type
       /\ m.want = q[i].want /\ m.ciaddr = q[i].ciaddr
       /\ m.cur = q[i].cur
  /\ \A q \in Seq(Reply) : \A i \in DOMAIN q :
       LET m == Older(q)[i] IN
       /\ m.c = q[i].c /\ m.type = q[i].type /\ m.ip = q[i].ip
       /\ m.cur = q[i].cur /\ m.left = Less(q[i].left)
<1>1. \A q \in Seq(Request) : \A i \in DOMAIN q : q[i] \in Request
  BY ElementOfSeq, LenProperties
<1>2. \A q \in Seq(Reply) : \A i \in DOMAIN q : q[i] \in Reply
  BY ElementOfSeq, LenProperties
<1>3. ASSUME NEW q \in Seq(Request), NEW i \in DOMAIN q
      PROVE  LET m == Older(q)[i] IN
             /\ m.c = q[i].c /\ m.type = q[i].type
             /\ m.want = q[i].want /\ m.ciaddr = q[i].ciaddr
             /\ m.cur = q[i].cur
  <2>1. q[i] \in Request
    BY <1>1
  <2>2. Older(q)[i] = [q[i] EXCEPT !.left = Less(q[i].left)]
    BY DEF Older
  <2> QED BY <2>1, <2>2 DEF Request
<1>4. ASSUME NEW q \in Seq(Reply), NEW i \in DOMAIN q
      PROVE  LET m == Older(q)[i] IN
             /\ m.c = q[i].c /\ m.type = q[i].type /\ m.ip = q[i].ip
             /\ m.cur = q[i].cur /\ m.left = Less(q[i].left)
  <2>1. q[i] \in Reply
    BY <1>2
  <2>2. Older(q)[i] = [q[i] EXCEPT !.left = Less(q[i].left)]
    BY DEF Older
  <2> QED BY <2>1, <2>2 DEF Reply
<1> QED BY <1>3, <1>4

-----------------------------------------------------------------------------
(***************************************************************************)
(* The server                                                              *)
(***************************************************************************)
\* A message that keeps c's node at a is answered with an acknowledgement.
LEMMA KeepsMeansAck ==
  ASSUME NEW m, NEW a \in Addr, Keeps(m, a)
  PROVE  State(m, a, m.ciaddr = a) = "ACK"
BY DhcpAssumption DEF Keeps, State, NoAddr, Addr

\* The server's step as far as the clients are concerned: the first message m
\* is taken off, the list still covers whoever it covered unless m gave the
\* node up, and an acknowledgement is backed by the list.
LEMMA ServerInv ==
  ASSUME IInv, TypeOK', PoolSound', req # <<>>,
         NEW m \in Request, m = Head(req),
         req' = Tail(req), UNCHANGED clientVars,
         NEW state, NEW ip \in 0 .. N,
         SendReply(m, state, ip),
         state # "NAK" => ip \in Addr,
         state = "ACK" =>
           /\ m.type = "REQUEST"
           /\ m.want = ip \/ (m.want = NoAddr /\ m.ciaddr = ip)
           /\ Covered(m.c, ip, Lease)',
         \A c \in Client, a \in Addr, k \in Nat :
           /\ Covered(c, a, k)
           /\ k <= Lease
           /\ c = m.c => Keeps(m, a)
           => Covered(c, a, k)'
  PROVE  IInv'
<1>1. /\ m \in Request /\ m = req[1] /\ 1 \in DOMAIN req
      /\ DOMAIN Tail(req) = 1 .. Len(req) - 1 /\ DOMAIN req = 1 .. Len(req)
      /\ Len(req) \in Nat
      /\ \A i \in DOMAIN req' : i + 1 \in DOMAIN req /\ req'[i] = req[i + 1]
  BY TailLemma, LenProperties DEF IInv, TypeOK
<1>2. \/ rsp' = rsp
      \/ /\ state \in {"OFFER", "ACK", "NAK"}
         /\ DOMAIN rsp = 1 .. Len(rsp) /\ DOMAIN rsp' = 1 .. Len(rsp) + 1
         /\ Len(rsp) \in Nat
         /\ \A i \in DOMAIN rsp : rsp'[i] = rsp[i]
         /\ rsp'[Len(rsp) + 1] =
              [c |-> m.c, type |-> state, cur |-> m.cur,
               ip |-> IF state = "NAK" THEN NoAddr ELSE ip, left |-> m.left]
  <2>1. CASE state \in {"OFFER", "ACK", "NAK"}
    <3> DEFINE r == [c |-> m.c, type |-> state, cur |-> m.cur,
                     ip |-> IF state = "NAK" THEN NoAddr ELSE ip,
                     left |-> m.left]
    <3>1. r \in Reply
      BY <1>1, <2>1, DhcpAssumption DEF Request, Reply, NoAddr
    <3>2. rsp' = Append(rsp, r)
      BY <2>1 DEF SendReply
    <3> HIDE DEF r
    <3>3. /\ DOMAIN rsp = 1 .. Len(rsp) /\ DOMAIN rsp' = 1 .. Len(rsp) + 1
          /\ Len(rsp) \in Nat
          /\ \A i \in DOMAIN rsp : rsp'[i] = rsp[i]
          /\ rsp'[Len(rsp) + 1] = r
      BY <3>1, <3>2, AppendLemma DEF IInv, TypeOK
    <3> QED BY <2>1, <3>3 DEF r
  <2> QED BY <2>1 DEF SendReply
<1>3. ReplyAddr'
  BY <1>2 DEF IInv, ReplyAddr
<1>4. ClientStates'
  BY DEF IInv, ClientStates, clientVars
<1>5. CurrentRequests'
  BY <1>1 DEF IInv, CurrentRequests, Keeps, clientVars
<1>6. \A c \in Client : Harmless(c) => Harmless(c)'
  BY <1>1 DEF Harmless, Keeps, clientVars
<1>7. LeaseHolders'
  BY <1>6 DEF IInv, LeaseHolders, clientVars
<1>8. \A c \in Client, a \in Addr, k \in 0 .. Lease :
        /\ Covered(c, a, k)
        /\ c = m.c => Keeps(m, a)
        => Covered(c, a, k)'
  BY DhcpAssumption
<1>9. LeasesBacked'
  <2> SUFFICES ASSUME NEW c \in served, left[c] > 0
               PROVE  Covered(c, addr[c], left[c])'
    BY DEF LeasesBacked, clientVars
  <2>1. c \in Client /\ left[c] \in 0 .. Lease /\ addr[c] \in Addr
    BY DEF IInv, TypeOK, ClientStates
  <2>2. Covered(c, addr[c], left[c])
    BY DEF IInv, LeasesBacked
  <2>3. c = m.c => Keeps(m, addr[c])
    BY <1>1, <2>1 DEF IInv, LeaseHolders, Harmless
  <2>4. Covered(c, addr[c], left[c])'
    BY <1>8, <2>1, <2>2, <2>3 DEF Covered, clientVars
  <2> QED BY <2>4
<1>10. CurrentAcks'
  <2> SUFFICES ASSUME NEW i \in DOMAIN rsp', rsp'[i].cur, rsp'[i].type = "ACK"
               PROVE  AckBacked(rsp[i])'
    BY DEF CurrentAcks
  <2>1. CASE i \in DOMAIN rsp /\ rsp'[i] = rsp[i]
    <3>1. PICK r \in Reply : r = rsp[i]
      BY <2>1, ElementOfSeq, LenProperties DEF IInv, TypeOK
    <3>2. AckBacked(r)
      BY <2>1, <3>1 DEF IInv, CurrentAcks
    <3>3. r.ip \in Addr
      BY <2>1, <3>1 DEF IInv, ReplyAddr
    <3>4. Harmless(r.c) /\ r.c = m.c => Keeps(m, addr[r.c])
      BY <1>1 DEF Harmless
    <3>5. (r.left > 0 /\ st[r.c] \in {"requesting", "renewing"}) =>
            Covered(r.c, r.ip, r.left)' /\ Harmless(r.c)'
      BY <1>6, <1>8, <3>1, <3>2, <3>3, <3>4 DEF Reply, AckBacked
    <3>6. AckBacked(r)'
      BY <2>1, <3>2, <3>5 DEF AckBacked, clientVars, Covered, Harmless
    <3> QED BY <2>1, <3>1, <3>6 DEF AckBacked, Covered, Harmless
  <2>2. CASE /\ state = "ACK" /\ Len(rsp) \in Nat /\ i = Len(rsp) + 1
             /\ rsp'[i] = [c |-> m.c, type |-> "ACK", cur |-> m.cur,
                           ip |-> ip, left |-> m.left]
    <3>1. m.cur /\ m.type = "REQUEST"
      BY <2>2
    <3>2. /\ st[m.c] # "selecting"
          /\ st[m.c] \in {"requesting", "renewing"} => Keeps(m, addr[m.c])
          /\ \A j \in DOMAIN req : (j > 1 /\ req[j].c = m.c) =>
               req[j].cur /\ req[j].type = "REQUEST"
      BY <1>1, <3>1 DEF IInv, CurrentRequests
    <3>3. ASSUME st[m.c] \in {"requesting", "renewing"}
          PROVE  ip = addr[m.c] /\ Harmless(m.c)'
      <4>1. addr[m.c] \in Addr /\ addr[m.c] # NoAddr
        BY <1>1, <3>3, DhcpAssumption DEF IInv, ClientStates, Request, Addr, NoAddr
      <4>2. ip = addr[m.c]
        BY <2>2, <3>2, <3>3, <4>1, DhcpAssumption DEF Keeps, Addr, NoAddr
      <4>3. \A j \in DOMAIN req : (j > 1 /\ req[j].c = m.c) => Keeps(req[j], addr[m.c])
        BY <3>2, <3>3 DEF IInv, CurrentRequests
      <4>4. Harmless(m.c)'
        BY <1>1, <4>3 DEF Harmless, Keeps, clientVars
      <4> QED BY <4>2, <4>4
    <3>4. Covered(m.c, ip, m.left)'
      BY <1>1, <2>2, DhcpAssumption, SMTT(30) DEF Covered, Request, Node, TypeOK
    <3> QED BY <2>2, <3>2, <3>3, <3>4 DEF AckBacked, Harmless, Covered, clientVars
  <2> QED BY <1>2, <2>1, <2>2
<1> QED BY <1>3, <1>4, <1>5, <1>7, <1>9, <1>10 DEF IInv

LEMMA SendReplyType ==
  ASSUME TypeOK, NEW m \in Request, NEW state, NEW ip \in 0 .. N,
         SendReply(m, state, ip)
  PROVE  rsp' \in Seq(Reply)
<1>1. CASE state \in {"OFFER", "ACK", "NAK"}
  <2> DEFINE r == [c |-> m.c, type |-> state, cur |-> m.cur,
                   ip |-> IF state = "NAK" THEN NoAddr ELSE ip, left |-> m.left]
  <2>1. r \in Reply
    BY <1>1, DhcpAssumption DEF Request, Reply, NoAddr
  <2>2. rsp' = Append(rsp, r)
    BY <1>1 DEF SendReply
  <2> HIDE DEF r
  <2> QED BY <2>1, <2>2, AppendLemma DEF TypeOK
<1> QED BY <1>1 DEF SendReply, TypeOK

LEMMA HandleKnownInv ==
  ASSUME IInv, HandleKnown
  PROVE  IInv'
<1>1. PICK m \in Request : m = Head(req)
  BY TailLemma DEF IInv, TypeOK, HandleKnown
<1>2. PICK n \in pool :
        LET state == State(m, n.ip, m.ciaddr = n.ip) IN
        /\ n.mac = m.c
        /\ pool' = (pool \ {n}) \cup Keep(m, state, n.ip)
        /\ SendReply(m, state, n.ip)
        /\ plus' = Skip(plus, Passed(m.c))
  BY <1>1 DEF HandleKnown
<1> DEFINE state == State(m, n.ip, m.ciaddr = n.ip)
           new == [ip |-> n.ip, mac |-> m.c, left |-> Lease]
<1>3. n \in Node /\ n.ip \in Addr /\ new \in Node /\ new.ip = n.ip /\ new.mac = n.mac
  BY <1>1, <1>2, DhcpAssumption DEF IInv, TypeOK, Node, Request
<1>4. Keep(m, state, n.ip) \subseteq {new} /\ pool' = (pool \ {n}) \cup Keep(m, state, n.ip)
  BY <1>2 DEF Keep
<1>5. state \notin {"RELEASE", "NAK"} => Keep(m, state, n.ip) = {new}
  BY DEF Keep
<1>6. state = "ACK" => /\ m.type = "REQUEST"
                       /\ m.want = n.ip \/ (m.want = NoAddr /\ m.ciaddr = n.ip)
  BY <1>1 DEF State, Request
<1>7. \A a \in Addr : Keeps(m, a) /\ n.ip = a => state = "ACK"
  BY KeepsMeansAck
<1>8. SendReply(m, state, n.ip) /\ plus' = Skip(plus, Passed(m.c))
  BY <1>2
<1> HIDE DEF state, new
<1>9. TypeOK'
  <2>1. rsp' \in Seq(Reply)
    BY <1>3, <1>8, SendReplyType DEF IInv, Addr
  <2>2. req' \in Seq(Request)
    BY TailLemma DEF IInv, TypeOK, HandleKnown
  <2>3. plus' \in 1 .. N + 1
    <3>1. Passed(m.c) \in SUBSET Node /\ plus \in 1 .. N + 1
      BY DEF IInv, TypeOK, Passed
    <3> QED BY <1>8, <3>1, SkipLemma, DhcpAssumption
  <2> QED BY <1>3, <1>4, <2>1, <2>2, <2>3 DEF IInv, TypeOK, HandleKnown, clientVars
<1>10. PoolSound'
  BY <1>2, <1>3, <1>4 DEF IInv, PoolSound
<1>11. state = "ACK" => Covered(m.c, n.ip, Lease)'
  <2>1. new.mac = m.c /\ new.ip = n.ip /\ new.left >= Lease
    BY DhcpAssumption DEF new
  <2> QED BY <1>4, <1>5, <2>1 DEF Covered
<1>12. ASSUME NEW c \in Client, NEW a \in Addr, NEW k \in Nat,
              Covered(c, a, k), k <= Lease, c = m.c => Keeps(m, a)
       PROVE  Covered(c, a, k)'
  <2>1. PICK x \in pool : x.mac = c /\ x.ip = a /\ x.left >= k
    BY <1>12 DEF Covered
  <2>2. CASE x # n
    BY <1>4, <2>1, <2>2 DEF Covered
  <2>3. CASE x = n
    <3>1. state = "ACK" /\ new \in pool'
      BY <1>2, <1>4, <1>5, <1>7, <1>12, <2>1, <2>3
    <3>2. new.mac = c /\ new.ip = a /\ new.left >= k
      BY <1>2, <1>12, <2>1, <2>3, DhcpAssumption DEF new
    <3> QED BY <3>1, <3>2 DEF Covered
  <2> QED BY <2>2, <2>3
<1>13. req # <<>> /\ req' = Tail(req) /\ UNCHANGED clientVars /\ n.ip \in 0 .. N
  BY <1>3 DEF HandleKnown, Addr
<1> QED BY <1>1, <1>3, <1>6, <1>8, <1>9, <1>10, <1>11, <1>12, <1>13, ServerInv

LEMMA HandleNewInv ==
  ASSUME IInv, HandleNew
  PROVE  IInv'
<1>1. PICK m \in Request : m = Head(req)
  BY TailLemma DEF IInv, TypeOK, HandleNew
<1>2. PICK ip \in 1 .. N + 1 : ip = Chosen(m.c) /\ ip \notin Ips(pool)
  BY <1>1, ChosenLemma DEF IInv, Request
<1> DEFINE state == State(m, ip, FALSE)
           new == [ip |-> ip, mac |-> m.c, left |-> Lease]
<1>3. /\ ~Known(m.c) /\ ip <= N
      /\ pool' = pool \cup Keep(m, state, ip)
      /\ SendReply(m, state, ip)
      /\ plus' = IF ip = N THEN 1 ELSE ip + 1
  BY <1>1, <1>2 DEF HandleNew
<1>4. ip \in Addr /\ new \in Node /\ new.ip = ip /\ new.mac = m.c
  BY <1>3, DhcpAssumption DEF Node, Addr, Request
<1>5. Keep(m, state, ip) \subseteq {new}
  BY DEF Keep
<1>6. state \notin {"RELEASE", "NAK"} => Keep(m, state, ip) = {new}
  BY DEF Keep
<1>7. state = "ACK" => m.type = "REQUEST" /\ m.want = ip
  BY <1>1 DEF State, Request
<1> HIDE DEF state, new
<1>8. TypeOK'
  <2>1. rsp' \in Seq(Reply)
    BY <1>3, <1>4, SendReplyType DEF IInv, Addr
  <2>2. req' \in Seq(Request)
    BY TailLemma DEF IInv, TypeOK, HandleNew
  <2>3. plus' \in 1 .. N + 1
    BY <1>3, <1>4, DhcpAssumption DEF Addr
  <2> QED BY <1>3, <1>4, <1>5, <2>1, <2>2, <2>3 DEF IInv, TypeOK, HandleNew, clientVars
<1>9. PoolSound'
  BY <1>2, <1>3, <1>4, <1>5 DEF IInv, PoolSound, Ips, Known
<1>10. state = "ACK" => Covered(m.c, ip, Lease)'
  <2>1. new.mac = m.c /\ new.ip = ip /\ new.left >= Lease
    BY DhcpAssumption DEF new
  <2> QED BY <1>3, <1>6, <2>1 DEF Covered
<1>11. \A c \in Client, a \in Addr, k \in Nat : Covered(c, a, k) => Covered(c, a, k)'
  BY <1>3 DEF Covered
<1>12. req # <<>> /\ req' = Tail(req) /\ UNCHANGED clientVars /\ ip \in 0 .. N
  BY <1>4 DEF HandleNew, Addr
<1> QED BY <1>1, <1>3, <1>4, <1>7, <1>8, <1>9, <1>10, <1>11, <1>12, ServerInv

LEMMA HandleNoneInv ==
  ASSUME IInv, HandleNone
  PROVE  IInv'
<1>1. PICK m \in Request : m = Head(req)
  BY TailLemma DEF IInv, TypeOK, HandleNone
<1>2. SendReply(m, "NAK", NoAddr) /\ NoAddr \in 0 .. N
  BY <1>1, DhcpAssumption DEF HandleNone, NoAddr
<1>3. TypeOK'
  <2>1. rsp' \in Seq(Reply)
    BY <1>2, SendReplyType DEF IInv
  <2>2. req' \in Seq(Request)
    BY TailLemma DEF IInv, TypeOK, HandleNone
  <2> QED BY <2>1, <2>2, DhcpAssumption DEF IInv, TypeOK, HandleNone, clientVars
<1>4. PoolSound'
  BY DEF IInv, PoolSound, HandleNone
<1>5. \A c \in Client, a \in Addr, k \in Nat : Covered(c, a, k) => Covered(c, a, k)'
  BY DEF Covered, HandleNone
<1>6. req # <<>> /\ req' = Tail(req) /\ UNCHANGED clientVars
  BY DEF HandleNone
<1> QED BY <1>1, <1>2, <1>3, <1>4, <1>5, <1>6, ServerInv

-----------------------------------------------------------------------------
(***************************************************************************)
(* Time, the link and the process                                          *)
(***************************************************************************)
LEMMA TickInv ==
  ASSUME IInv, Tick
  PROVE  IInv'
<1>1. /\ \A i \in DOMAIN req : req[i] \in Request
      /\ \A i \in DOMAIN rsp : rsp[i] \in Reply
  BY ElementOfSeq, LenProperties DEF IInv, TypeOK
<1>2. /\ DOMAIN req' = DOMAIN req /\ DOMAIN rsp' = DOMAIN rsp
      /\ req' \in Seq(Request) /\ rsp' \in Seq(Reply)
      /\ \A i \in DOMAIN req :
           /\ req'[i].c = req[i].c /\ req'[i].type = req[i].type
           /\ req'[i].want = req[i].want /\ req'[i].ciaddr = req[i].ciaddr
           /\ req'[i].cur = req[i].cur
      /\ \A i \in DOMAIN rsp :
           /\ rsp'[i].c = rsp[i].c /\ rsp'[i].type = rsp[i].type
           /\ rsp'[i].ip = rsp[i].ip /\ rsp'[i].cur = rsp[i].cur
           /\ rsp'[i].left = Less(rsp[i].left)
  BY OlderLemma, OlderFields DEF Tick, IInv, TypeOK
<1>3. \A c \in Client :
        /\ left[c] \in 0 .. Lease /\ addr[c] \in 0 .. N
        /\ left'[c] = Less(left[c])
        /\ st'[c] \in {"requesting", "selecting"} <=> st[c] \in {"requesting", "selecting"}
        /\ st'[c] \in {"bound", "renewing"} <=>
             st[c] \in {"bound", "renewing"} /\ left[c] > 1
        /\ st'[c] # "init" => st'[c] = st[c] /\ addr'[c] = addr[c]
  BY DhcpAssumption DEF Tick, IInv, TypeOK, Less
<1>4. TypeOK'
  <2>1. pool' \subseteq Node
    <3>1. ASSUME NEW n \in pool, n.left > 1
          PROVE  [n EXCEPT !.left = @ - 1] \in Node
      <4>1. n \in Node /\ n.left - 1 \in 1 .. Lease
        BY <3>1, DhcpAssumption DEF IInv, TypeOK, Node
      <4> QED BY <4>1 DEF Node
    <3> QED BY <3>1 DEF Tick, dhcps_tmr
  <2>2. left' \in [Client -> 0 .. Lease] /\ addr' \in [Client -> 0 .. N]
    BY <1>3, DhcpAssumption DEF Tick, Less, NoAddr
  <2>3. st' \in [Client -> {"init", "selecting", "requesting", "bound", "renewing"}]
    BY DEF Tick, IInv, TypeOK
  <2> QED BY <1>2, <2>1, <2>2, <2>3 DEF Tick, IInv, TypeOK
<1>5. PoolSound'
  <2> SUFFICES ASSUME NEW x \in pool', NEW y \in pool', x.ip = y.ip \/ x.mac = y.mac
               PROVE  x = y
    BY DEF PoolSound
  <2>1. PICK n \in pool : x = [n EXCEPT !.left = @ - 1]
    BY DEF Tick, dhcps_tmr
  <2>2. PICK m \in pool : y = [m EXCEPT !.left = @ - 1]
    BY DEF Tick, dhcps_tmr
  <2>3. x.ip = n.ip /\ x.mac = n.mac /\ y.ip = m.ip /\ y.mac = m.mac
    BY <2>1, <2>2 DEF IInv, TypeOK, Node
  <2> QED BY <2>1, <2>2, <2>3 DEF IInv, PoolSound
<1>6. ASSUME NEW c \in Client, NEW a \in Addr, NEW k \in 0 .. Lease,
             Covered(c, a, k), k > 1
      PROVE  Covered(c, a, k - 1)'
  <2>1. PICK n \in pool : n.mac = c /\ n.ip = a /\ n.left >= k
    BY <1>6 DEF Covered
  <2>2. n \in Node /\ n.left > 1
    BY <1>6, <2>1, DhcpAssumption DEF IInv, TypeOK, Node
  <2>3. PICK x \in pool' : x = [n EXCEPT !.left = @ - 1]
    BY <2>2 DEF Tick, dhcps_tmr
  <2>4. x.mac = c /\ x.ip = a /\ x.left >= k - 1
    BY <1>6, <2>1, <2>2, <2>3, DhcpAssumption DEF Node
  <2> QED BY <2>4 DEF Covered
<1>7. ASSUME NEW c \in Client, Harmless(c), addr'[c] = addr[c]
      PROVE  Harmless(c)'
  BY <1>2, <1>7 DEF Harmless, Keeps
<1>8. ReplyAddr'
  BY <1>2 DEF IInv, ReplyAddr
<1>9. ClientStates'
  BY <1>3, DhcpAssumption DEF IInv, ClientStates, Less
<1>10. CurrentRequests'
  <2>1. \A i \in DOMAIN req :
          /\ req[i].c \in Client
          /\ st'[req[i].c] \in {"requesting", "renewing"} =>
               st[req[i].c] \in {"requesting", "renewing"} /\ addr'[req[i].c] = addr[req[i].c]
          /\ st'[req[i].c] = "selecting" => st[req[i].c] = "selecting"
    BY <1>1, <1>3 DEF Request
  <2> QED BY <1>2, <2>1 DEF IInv, CurrentRequests, Keeps
<1>11. LeaseHolders'
  <2> SUFFICES ASSUME NEW c \in Client, left'[c] > 0 PROVE Harmless(c)'
    BY DEF LeaseHolders
  <2>1. left[c] > 1
    BY <1>3, DhcpAssumption DEF Less
  <2>2. addr'[c] = addr[c]
    BY <1>3, <2>1 DEF IInv, ClientStates
  <2> QED BY <1>3, <1>7, <2>1, <2>2 DEF IInv, LeaseHolders
<1>12. CurrentAcks'
  <2> SUFFICES ASSUME NEW i \in DOMAIN rsp', rsp'[i].cur, rsp'[i].type = "ACK"
               PROVE  AckBacked(rsp[i])'
    BY DEF CurrentAcks
  <2>1. PICK r \in Reply : r = rsp[i] /\ r.cur /\ r.type = "ACK" /\ AckBacked(r) /\ r.ip \in Addr
    BY <1>1, <1>2 DEF IInv, CurrentAcks, ReplyAddr
  <2>2. PICK q : q = rsp'[i] /\ q.c = r.c /\ q.ip = r.ip /\ q.left = Less(r.left)
    BY <1>2, <2>1
  <2>3. r.c \in Client /\ r.left \in 0 .. Lease
    BY DEF Reply
  <2>4. ASSUME q.left > 0, st'[r.c] \in {"requesting", "renewing"}
        PROVE  q.ip = addr'[q.c] /\ Covered(q.c, q.ip, q.left)' /\ Harmless(q.c)'
    <3>1. r.left > 1 /\ q.left = r.left - 1
      BY <2>2, <2>3, <2>4, DhcpAssumption DEF Less
    <3>2. st[r.c] \in {"requesting", "renewing"} /\ addr'[r.c] = addr[r.c]
      BY <1>3, <2>3, <2>4
    <3>3. r.ip = addr[r.c] /\ Covered(r.c, r.ip, r.left) /\ Harmless(r.c)
      BY <2>1, <2>3, <3>1, <3>2 DEF AckBacked
    <3>4. Covered(r.c, r.ip, r.left - 1)'
      BY <1>6, <2>1, <2>3, <3>1, <3>3
    <3>5. Harmless(r.c)'
      BY <1>7, <2>3, <3>2, <3>3
    <3> QED BY <2>2, <3>1, <3>2, <3>3, <3>4, <3>5
  <2>5. st'[q.c] # "selecting"
    BY <1>3, <2>1, <2>2, <2>3 DEF AckBacked
  <2>6. AckBacked(q)'
    BY <2>2, <2>4, <2>5 DEF AckBacked
  <2> QED BY <2>2, <2>6 DEF AckBacked, Covered, Harmless
<1>13. LeasesBacked'
  <2> SUFFICES ASSUME NEW c \in served, left'[c] > 0
               PROVE  Covered(c, addr[c], left[c])'
    BY DEF LeasesBacked, Tick
  <2>0. c \in Client
    BY DEF IInv, TypeOK
  <2>1. left[c] > 1 /\ left'[c] = left[c] - 1 /\ left[c] \in 0 .. Lease
    BY <1>3, <2>0, DhcpAssumption DEF Less
  <2>2. addr'[c] = addr[c] /\ addr[c] \in Addr
    BY <1>3, <2>0, <2>1 DEF IInv, ClientStates
  <2>3. PICK a \in Addr, k \in 0 .. Lease : a = addr[c] /\ k = left[c]
    BY <2>1, <2>2
  <2>4. Covered(c, a, k - 1)'
    BY <1>6, <2>0, <2>1, <2>3 DEF IInv, LeasesBacked
  <2> QED BY <2>1, <2>2, <2>3, <2>4 DEF Covered
<1> QED BY <1>4, <1>5, <1>8, <1>9, <1>10, <1>11, <1>12, <1>13 DEF IInv

\* Losing the first datagram of a queue, or none.
LEMMA Shorter ==
  ASSUME TypeOK, req' = req \/ (req # <<>> /\ req' = Tail(req)),
         rsp' = rsp \/ (rsp # <<>> /\ rsp' = Tail(rsp))
  PROVE  /\ req' \in Seq(Request) /\ rsp' \in Seq(Reply)
         /\ \A i \in DOMAIN req : req[i] \in Request
         /\ \A i \in DOMAIN rsp : rsp[i] \in Reply
         /\ \E k \in {0, 1} :
              \A i \in DOMAIN req' : i \in Nat /\ i + k \in DOMAIN req /\ req'[i] = req[i + k]
         /\ \A i \in DOMAIN rsp' : \E j \in DOMAIN rsp : rsp'[i] = rsp[j]
<1>1. /\ \A i \in DOMAIN req : req[i] \in Request
      /\ \A i \in DOMAIN rsp : rsp[i] \in Reply
      /\ DOMAIN req = 1 .. Len(req) /\ Len(req) \in Nat
  BY ElementOfSeq, LenProperties DEF TypeOK
<1>2. rsp' \in Seq(Reply) /\ \A i \in DOMAIN rsp' : \E j \in DOMAIN rsp : rsp'[i] = rsp[j]
  <2>1. CASE rsp' = rsp
    BY <2>1 DEF TypeOK
  <2>2. CASE rsp # <<>> /\ rsp' = Tail(rsp)
    BY <2>2, TailLemma DEF TypeOK
  <2> QED BY <2>1, <2>2
<1>3. CASE req' = req
  <2>1. \A i \in DOMAIN req' : i \in Nat /\ i + 0 \in DOMAIN req /\ req'[i] = req[i + 0]
    BY <1>1, <1>3
  <2>2. req' \in Seq(Request) /\ 0 \in {0, 1}
    BY <1>3 DEF TypeOK
  <2> QED BY <1>1, <1>2, <2>1, <2>2
<1>4. CASE req # <<>> /\ req' = Tail(req)
  <2>1. /\ req' \in Seq(Request) /\ DOMAIN req' = 1 .. Len(req) - 1
        /\ \A i \in DOMAIN req' : i + 1 \in DOMAIN req /\ req'[i] = req[i + 1]
    BY <1>4, TailLemma DEF TypeOK
  <2>2. \A i \in DOMAIN req' : i \in Nat /\ i + 1 \in DOMAIN req /\ req'[i] = req[i + 1]
    BY <1>1, <2>1
  <2>3. 1 \in {0, 1}
    OBVIOUS
  <2> QED BY <1>1, <1>2, <2>1, <2>2, <2>3
<1> QED BY <1>3, <1>4

\* Clients C drop what they had or asked for, and nothing is added to a queue.
LEMMA LessInv ==
  ASSUME IInv, UNCHANGED serverVars, served' \subseteq served,
         req' = req \/ (req # <<>> /\ req' = Tail(req)),
         rsp' = rsp \/ (rsp # <<>> /\ rsp' = Tail(rsp)),
         NEW C \in SUBSET Client,
         st' = [c \in Client |-> IF c \in C THEN "init" ELSE st[c]],
         addr' = [c \in Client |-> IF c \in C THEN NoAddr ELSE addr[c]],
         left' = [c \in Client |-> IF c \in C THEN 0 ELSE left[c]]
  PROVE  IInv'
<1>1. /\ req' \in Seq(Request) /\ rsp' \in Seq(Reply)
      /\ \A i \in DOMAIN req : req[i] \in Request
      /\ \A i \in DOMAIN rsp : rsp[i] \in Reply
      /\ \A i \in DOMAIN rsp' : \E j \in DOMAIN rsp : rsp'[i] = rsp[j]
  BY Shorter DEF IInv
<1>2. PICK k \in {0, 1} :
        \A i \in DOMAIN req' : i \in Nat /\ i + k \in DOMAIN req /\ req'[i] = req[i + k]
  BY Shorter DEF IInv
<1>3. TypeOK' /\ PoolSound'
  BY <1>1, DhcpAssumption DEF IInv, TypeOK, PoolSound, serverVars, NoAddr
<1>4. ReplyAddr'
  BY <1>1 DEF IInv, ReplyAddr
<1>5. ClientStates'
  BY DEF IInv, TypeOK, ClientStates
<1>6. CurrentRequests'
  <2> SUFFICES ASSUME NEW i \in DOMAIN req', req'[i].cur, req'[i].type = "REQUEST"
               PROVE  /\ st'[req'[i].c] # "selecting"
                      /\ st'[req'[i].c] \in {"requesting", "renewing"} =>
                           Keeps(req[i], addr[req[i].c])'
                      /\ \A j \in DOMAIN req' : (j > i /\ req'[j].c = req'[i].c) =>
                           req'[j].cur /\ req'[j].type = "REQUEST"
    BY DEF CurrentRequests
  <2>1. /\ req'[i] = req[i + k] /\ i + k \in DOMAIN req /\ req'[i].c \in Client
        /\ \A j \in DOMAIN req' : j > i =>
             j + k \in DOMAIN req /\ req'[j] = req[j + k] /\ j + k > i + k
    BY <1>1, <1>2, SMTT(30) DEF Request
  <2>2. /\ st[req'[i].c] # "selecting"
        /\ st[req'[i].c] \in {"requesting", "renewing"} => Keeps(req[i + k], addr[req'[i].c])
        /\ \A j \in DOMAIN req : (j > i + k /\ req[j].c = req'[i].c) =>
             req[j].cur /\ req[j].type = "REQUEST"
    BY <2>1 DEF IInv, CurrentRequests
  <2> QED BY <2>1, <2>2 DEF Keeps
<1>7. ASSUME NEW c \in Client, c \notin C, Harmless(c)
      PROVE  Harmless(c)'
  BY <1>2, <1>7 DEF Harmless, Keeps
<1>8. LeaseHolders'
  BY <1>7 DEF IInv, LeaseHolders
<1>9. CurrentAcks'
  <2> SUFFICES ASSUME NEW i \in DOMAIN rsp', rsp'[i].cur, rsp'[i].type = "ACK"
               PROVE  AckBacked(rsp[i])'
    BY DEF CurrentAcks
  <2>1. PICK r \in Reply : r = rsp'[i] /\ AckBacked(r)
    BY <1>1 DEF IInv, CurrentAcks
  <2>2. r.c \in Client
    BY DEF Reply
  <2>3. AckBacked(r)'
    BY <1>7, <2>1, <2>2 DEF AckBacked, Covered, serverVars
  <2> QED BY <2>1, <2>3 DEF AckBacked, Covered, Harmless
<1>10. LeasesBacked'
  <2> SUFFICES ASSUME NEW c \in served, left'[c] > 0
               PROVE  Covered(c, addr[c], left[c])'
    BY DEF LeasesBacked
  <2>1. c \in Client
    BY DEF IInv, TypeOK
  <2>2. c \notin C /\ left'[c] = left[c] /\ addr'[c] = addr[c]
    BY <2>1
  <2> QED BY <2>2 DEF IInv, LeasesBacked, Covered, serverVars
<1> QED BY <1>3, <1>4, <1>5, <1>6, <1>8, <1>9, <1>10 DEF IInv

LEMMA RestartInv ==
  ASSUME IInv, Restart
  PROVE  IInv'
<1>1. TypeOK' /\ PoolSound'
  BY DhcpAssumption DEF IInv, TypeOK, PoolSound, Restart
<1>2. DOMAIN req' = {} /\ DOMAIN rsp' = {}
  BY DEF Restart
<1> QED BY <1>1, <1>2 DEF IInv, Restart, ReplyAddr, ClientStates, CurrentRequests,
             LeaseHolders, Harmless, CurrentAcks, LeasesBacked

-----------------------------------------------------------------------------
(***************************************************************************)
(* The clients                                                             *)
(***************************************************************************)
\* c starts a transaction with m: nothing of c's earlier ones counts any more.
LEMMA NewTransaction ==
  ASSUME IInv, UNCHANGED serverVars, served' \subseteq served, TypeOK',
         NEW c \in Client, NEW m \in Request, m.c = c, m.cur,
         req' = Append(Past(c, req), m),
         \A i \in DOMAIN rsp' : \E j \in DOMAIN rsp :
           /\ rsp'[i].c = rsp[j].c /\ rsp'[i].type = rsp[j].type
           /\ rsp'[i].ip = rsp[j].ip
           /\ rsp'[i].cur => /\ rsp[j].cur /\ rsp[j].c # c
                             /\ rsp'[i].left = rsp[j].left,
         \A d \in Client \ {c} : st'[d] = st[d] /\ addr'[d] = addr[d] /\ left'[d] = left[d],
         left'[c] > 0 <=> st'[c] \in {"bound", "renewing"},
         st'[c] \in {"requesting", "bound", "renewing"} => addr'[c] \in Addr,
         left'[c] > 0 => left'[c] = left[c] /\ addr'[c] = addr[c] /\ Keeps(m, addr[c]),
         m.type = "REQUEST" =>
           /\ st'[c] # "selecting"
           /\ st'[c] \in {"requesting", "renewing"} => Keeps(m, addr'[c])
  PROVE  IInv'
<1>1. PICK k \in Nat :
        /\ k = Len(req) /\ DOMAIN req = 1 .. k /\ DOMAIN req' = 1 .. k + 1
        /\ req'[k + 1] = m
        /\ \A i \in DOMAIN req :
             /\ req'[i].c = req[i].c /\ req'[i].type = req[i].type
             /\ req'[i].want = req[i].want /\ req'[i].ciaddr = req[i].ciaddr
             /\ req'[i].cur => req[i].cur /\ req[i].c # c
             /\ req[i].c # c => req'[i].cur = req[i].cur
  <2>1. PICK q \in Seq(Request) :
          q = Past(c, req) /\ Len(q) = Len(req) /\ DOMAIN q = DOMAIN req
    BY PastLemma DEF IInv, TypeOK
  <2>2. \A i \in DOMAIN req :
          /\ q[i].c = req[i].c /\ q[i].type = req[i].type
          /\ q[i].want = req[i].want /\ q[i].ciaddr = req[i].ciaddr
          /\ q[i].cur => req[i].cur /\ q[i].c # c
    <3>1. req \in Seq(Request)
      BY DEF IInv, TypeOK
    <3>2. ASSUME NEW i \in DOMAIN req
          PROVE  LET x == Past(c, req)[i] IN
                 /\ x.c = req[i].c /\ x.type = req[i].type
                 /\ x.want = req[i].want /\ x.ciaddr = req[i].ciaddr
                 /\ x.cur => req[i].cur /\ x.c # c
      BY <3>1, PastFields
    <3> QED BY <2>1, <3>2
  <2>3. \A i \in DOMAIN req : req[i].c # c => q[i] = req[i]
    BY <2>1 DEF Past
  <2>4. /\ Len(q) \in Nat /\ DOMAIN q = 1 .. Len(q)
        /\ DOMAIN req' = 1 .. Len(q) + 1
        /\ \A i \in DOMAIN q : req'[i] = q[i]
        /\ req'[Len(q) + 1] = m
    BY <2>1, AppendLemma
  <2>5. Len(req) \in Nat /\ DOMAIN req = 1 .. Len(req) /\ Len(q) = Len(req)
    BY <2>1, <2>4
  <2>6. \A i \in DOMAIN req :
          /\ req'[i].c = req[i].c /\ req'[i].type = req[i].type
          /\ req'[i].want = req[i].want /\ req'[i].ciaddr = req[i].ciaddr
          /\ req'[i].cur => req[i].cur /\ req[i].c # c
          /\ req[i].c # c => req'[i].cur = req[i].cur
    BY <2>1, <2>2, <2>3, <2>4
  <2> QED BY <2>4, <2>5, <2>6
<1>2. /\ \A i \in DOMAIN req : req[i] \in Request
      /\ \A i \in DOMAIN rsp : rsp[i] \in Reply
  BY ElementOfSeq, LenProperties DEF IInv, TypeOK
<1>3. PoolSound' /\ ReplyAddr' /\ ClientStates'
  BY DEF IInv, PoolSound, ReplyAddr, ClientStates, serverVars
<1>4. CurrentRequests'
  <2> SUFFICES ASSUME NEW i \in DOMAIN req', req'[i].cur, req'[i].type = "REQUEST"
               PROVE  /\ st'[req'[i].c] # "selecting"
                      /\ st'[req'[i].c] \in {"requesting", "renewing"} =>
                           Keeps(req[i], addr[req[i].c])'
                      /\ \A j \in DOMAIN req' : (j > i /\ req'[j].c = req'[i].c) =>
                           req'[j].cur /\ req'[j].type = "REQUEST"
    BY DEF CurrentRequests
  <2>1. CASE i = k + 1
    BY <1>1, <2>1 DEF Keeps
  <2>2. CASE i \in DOMAIN req
    <3>1. /\ req[i].cur /\ req[i].type = "REQUEST" /\ req[i].c \in Client \ {c}
          /\ req'[i].c = req[i].c
      BY <1>1, <1>2, <2>2 DEF Request
    <3>2. /\ st[req[i].c] # "selecting"
          /\ st[req[i].c] \in {"requesting", "renewing"} => Keeps(req[i], addr[req[i].c])
          /\ \A j \in DOMAIN req : (j > i /\ req[j].c = req[i].c) =>
               req[j].cur /\ req[j].type = "REQUEST"
      BY <2>2, <3>1 DEF IInv, CurrentRequests
    <3>3. \A j \in DOMAIN req' : (j > i /\ req'[j].c = req'[i].c) => j \in DOMAIN req
      BY <1>1, <3>1
    <3> QED BY <1>1, <2>2, <3>1, <3>2, <3>3 DEF Keeps
  <2> QED BY <1>1, <2>1, <2>2
<1>5. ASSUME NEW d \in Client \ {c}, Harmless(d)
      PROVE  Harmless(d)'
  BY <1>1, <1>5 DEF Harmless, Keeps
<1>6. LeaseHolders'
  <2>1. ASSUME left'[c] > 0 PROVE Harmless(c)'
    <3>1. Harmless(c) /\ addr'[c] = addr[c] /\ Keeps(m, addr[c])
      BY <2>1 DEF IInv, LeaseHolders
    <3> QED BY <1>1, <3>1 DEF Harmless, Keeps
  <2> QED BY <1>5, <2>1 DEF IInv, LeaseHolders
<1>7. CurrentAcks'
  <2> SUFFICES ASSUME NEW i \in DOMAIN rsp', rsp'[i].cur, rsp'[i].type = "ACK"
               PROVE  AckBacked(rsp[i])'
    BY DEF CurrentAcks
  <2>1. PICK r : r = rsp'[i]
    OBVIOUS
  <2>2. PICK j \in DOMAIN rsp :
          /\ r.c = rsp[j].c /\ r.ip = rsp[j].ip /\ r.left = rsp[j].left
          /\ rsp[j].type = "ACK" /\ rsp[j].cur /\ r.c \in Client \ {c}
    BY <1>2, <2>1 DEF Reply
  <2>3. AckBacked(r)
    BY <2>2 DEF IInv, CurrentAcks, AckBacked
  <2>4. AckBacked(r)'
    BY <1>5, <2>2, <2>3 DEF AckBacked, Covered, serverVars
  <2> QED BY <2>1, <2>4 DEF AckBacked, Covered, Harmless
<1>8. LeasesBacked'
  <2> SUFFICES ASSUME NEW d \in served, left'[d] > 0
               PROVE  Covered(d, addr[d], left[d])'
    BY DEF LeasesBacked
  <2>1. d \in Client /\ left'[d] = left[d] /\ addr'[d] = addr[d]
    BY DEF IInv, TypeOK
  <2> QED BY <2>1 DEF IInv, LeasesBacked, Covered, serverVars
<1> QED BY <1>3, <1>4, <1>6, <1>7, <1>8 DEF IInv

LEMMA MsgType ==
  ASSUME NEW c \in Client, NEW want \in 0 .. N, NEW ciaddr \in 0 .. N,
         NEW type \in {"DISCOVER", "REQUEST", "DECLINE", "RELEASE", "INFORM"}
  PROVE  LET m == Msg(c, type, want, ciaddr) IN
         /\ m \in Request /\ m.c = c /\ m.cur
         /\ m.type = type /\ m.want = want /\ m.ciaddr = ciaddr
BY DhcpAssumption DEF Msg, Request

\* The queues after SendNew.
LEMMA SendNewLemma ==
  ASSUME IInv, NEW c \in Client, NEW m \in Request, m.c = c, SendNew(m)
  PROVE  /\ req' = Append(Past(c, req), m)
         /\ req' \in Seq(Request) /\ rsp' \in Seq(Reply)
         /\ \A i \in DOMAIN rsp' : \E j \in DOMAIN rsp :
              /\ rsp'[i].c = rsp[j].c /\ rsp'[i].type = rsp[j].type
              /\ rsp'[i].ip = rsp[j].ip
              /\ rsp'[i].cur => /\ rsp[j].cur /\ rsp[j].c # c
                                /\ rsp'[i].left = rsp[j].left
<1>1. req' = Append(Past(c, req), m) /\ rsp' = Past(c, rsp)
  BY DEF SendNew
<1>2. Past(c, req) \in Seq(Request) /\ rsp' \in Seq(Reply) /\ DOMAIN rsp' = DOMAIN rsp
  BY <1>1, PastLemma DEF IInv, TypeOK
<1>3. req' \in Seq(Request)
  BY <1>1, <1>2, AppendLemma
<1>4. \A i \in DOMAIN rsp :
        /\ rsp'[i].c = rsp[i].c /\ rsp'[i].type = rsp[i].type
        /\ rsp'[i].ip = rsp[i].ip
        /\ rsp'[i].cur => rsp[i].cur /\ rsp'[i].c # c /\ rsp'[i].left = rsp[i].left
  BY <1>1, PastFields DEF IInv, TypeOK
<1> QED BY <1>1, <1>2, <1>3, <1>4

LEMMA SendNewSteps ==
  ASSUME IInv, NEW c \in Client,
         Discover(c) \/ Reboot(c) \/ Inform(c) \/ Renew(c) \/ Release(c)
  PROVE  IInv'
<1>1. /\ NoAddr \in 0 .. N /\ NoAddr \notin Addr /\ \A a \in Addr : a \in 0 .. N
      /\ 0 \in 0 .. Lease /\ addr[c] \in 0 .. N
      /\ left[c] > 0 <=> st[c] \in {"bound", "renewing"}
      /\ left[c] \in 0 .. Lease /\ served \subseteq Client
      /\ st \in [Client -> {"init", "selecting", "requesting", "bound", "renewing"}]
      /\ addr \in [Client -> 0 .. N] /\ left \in [Client -> 0 .. Lease]
  BY DhcpAssumption DEF NoAddr, Addr, IInv, TypeOK, ClientStates
<1>2. ASSUME NEW m \in Request, m.c = c, m.cur, SendNew(m),
             UNCHANGED serverVars, served' \subseteq served,
             st' \in [Client -> {"init", "selecting", "requesting", "bound", "renewing"}],
             addr' \in [Client -> 0 .. N], left' \in [Client -> 0 .. Lease],
             \A d \in Client \ {c} : st'[d] = st[d] /\ addr'[d] = addr[d] /\ left'[d] = left[d],
             left'[c] > 0 <=> st'[c] \in {"bound", "renewing"},
             st'[c] \in {"requesting", "bound", "renewing"} => addr'[c] \in Addr,
             left'[c] > 0 => left'[c] = left[c] /\ addr'[c] = addr[c] /\ Keeps(m, addr[c]),
             m.type = "REQUEST" =>
               /\ st'[c] # "selecting"
               /\ st'[c] \in {"requesting", "renewing"} => Keeps(m, addr'[c])
      PROVE  IInv'
  <2>1. /\ req' = Append(Past(c, req), m)
        /\ req' \in Seq(Request) /\ rsp' \in Seq(Reply)
        /\ \A i \in DOMAIN rsp' : \E j \in DOMAIN rsp :
             /\ rsp'[i].c = rsp[j].c /\ rsp'[i].type = rsp[j].type
             /\ rsp'[i].ip = rsp[j].ip
             /\ rsp'[i].cur => /\ rsp[j].cur /\ rsp[j].c # c
                               /\ rsp'[i].left = rsp[j].left
    BY <1>2, SendNewLemma
  <2>2. TypeOK'
    BY <1>2, <2>1 DEF IInv, TypeOK, serverVars
  <2> QED BY <1>2, <2>1, <2>2, NewTransaction
<1>3. CASE Discover(c)
  <2>1. PICK m \in Request : /\ m = Msg(c, "DISCOVER", NoAddr, NoAddr)
                             /\ m.c = c /\ m.cur /\ m.type = "DISCOVER"
    BY <1>1, MsgType
  <2>2. SendNew(m)
    BY <1>3, <2>1 DEF Discover
  <2> QED BY <1>1, <1>2, <1>3, <2>1, <2>2 DEF Discover
<1>4. CASE Reboot(c)
  <2>1. PICK a \in Addr : SendNew(Msg(c, "REQUEST", a, NoAddr)) /\ addr' = [addr EXCEPT ![c] = a]
    BY <1>4 DEF Reboot
  <2>2. PICK m \in Request : /\ m = Msg(c, "REQUEST", a, NoAddr)
                             /\ m.c = c /\ m.cur /\ m.type = "REQUEST" /\ m.want = a
    BY <1>1, MsgType
  <2>3. SendNew(m) /\ Keeps(m, a)
    BY <2>1, <2>2 DEF Keeps
  <2> QED BY <1>1, <1>2, <1>4, <2>1, <2>2, <2>3 DEF Reboot
<1>5. CASE Inform(c)
  <2>1. PICK m \in Request : /\ m = Msg(c, "INFORM", NoAddr, NoAddr)
                             /\ m.c = c /\ m.cur /\ m.type = "INFORM"
    BY <1>1, MsgType
  <2>2. SendNew(m)
    BY <1>5, <2>1 DEF Inform
  <2> QED BY <1>1, <1>2, <1>5, <2>1, <2>2 DEF Inform, clientVars
<1>6. CASE Renew(c)
  <2>1. PICK m \in Request : /\ m = Msg(c, "REQUEST", NoAddr, addr[c])
                             /\ m.c = c /\ m.cur /\ m.type = "REQUEST"
                             /\ m.want = NoAddr /\ m.ciaddr = addr[c]
    BY <1>1, MsgType
  <2>2. SendNew(m) /\ Keeps(m, addr[c])
    BY <1>6, <2>1 DEF Renew, Keeps
  <2>3. addr[c] \in Addr
    BY <1>6 DEF Renew, IInv, ClientStates
  <2> QED BY <1>1, <1>2, <1>6, <2>1, <2>2, <2>3 DEF Renew
<1>7. CASE Release(c)
  <2>1. PICK m \in Request : /\ m = Msg(c, "RELEASE", NoAddr, addr[c])
                             /\ m.c = c /\ m.cur /\ m.type = "RELEASE"
    BY <1>1, MsgType
  <2>2. SendNew(m)
    BY <1>7, <2>1 DEF Release
  <2> QED BY <1>1, <1>2, <1>7, <2>1, <2>2 DEF Release, Idle
<1> QED BY <1>3, <1>4, <1>5, <1>6, <1>7

LEMMA DeclineInv ==
  ASSUME IInv, NEW c \in Client, Decline(c)
  PROVE  IInv'
<1>1. PICK m \in Request : /\ req' = Append(Past(c, req), m)
                           /\ m.c = c /\ m.cur /\ m.type = "DECLINE"
  <2>1. Head(rsp) \in Reply
    BY TailLemma DEF IInv, TypeOK, Decline
  <2>2. PICK a \in 0 .. N : a = Head(rsp).ip
    BY <2>1 DEF Reply
  <2>3. PICK m \in Request : /\ m = Msg(c, "DECLINE", a, NoAddr)
                             /\ m.c = c /\ m.cur /\ m.type = "DECLINE"
    BY MsgType, DhcpAssumption DEF NoAddr
  <2> QED BY <2>2, <2>3 DEF Decline
<1>2. PICK q \in Seq(Reply) :
        q = Tail(rsp) /\ \A i \in DOMAIN q : \E j \in DOMAIN rsp : q[i] = rsp[j]
  <2>1. rsp \in Seq(Reply) /\ rsp # <<>>
    BY DEF IInv, TypeOK, Decline
  <2>2. Tail(rsp) \in Seq(Reply) /\ \A i \in DOMAIN Tail(rsp) :
          i + 1 \in DOMAIN rsp /\ Tail(rsp)[i] = rsp[i + 1]
    BY <2>1, TailLemma
  <2> QED BY <2>2
<1>3. rsp' = Past(c, q) /\ rsp' \in Seq(Reply) /\ DOMAIN rsp' = DOMAIN q
  BY <1>2, PastLemma DEF Decline
<1>4. ASSUME NEW i \in DOMAIN rsp'
      PROVE  \E j \in DOMAIN rsp :
               /\ rsp'[i].c = rsp[j].c /\ rsp'[i].type = rsp[j].type
               /\ rsp'[i].ip = rsp[j].ip
               /\ rsp'[i].cur => /\ rsp[j].cur /\ rsp[j].c # c
                                 /\ rsp'[i].left = rsp[j].left
  <2>1. PICK j \in DOMAIN rsp : q[i] = rsp[j]
    BY <1>2, <1>3
  <2>2. LET x == Past(c, q)[i] IN
        /\ x.c = q[i].c /\ x.type = q[i].type /\ x.ip = q[i].ip
        /\ x.cur => q[i].cur /\ x.c # c /\ x.left = q[i].left
    BY <1>3, PastFields
  <2> QED BY <1>3, <2>1, <2>2
<1>5. TypeOK'
  <2>1. Past(c, req) \in Seq(Request)
    BY PastLemma DEF IInv, TypeOK
  <2>2. req' \in Seq(Request)
    BY <1>1, <2>1, AppendLemma
  <2> QED BY <1>3, <2>2, DhcpAssumption DEF IInv, TypeOK, Decline, Idle, serverVars, NoAddr
<1>6. UNCHANGED serverVars /\ served' \subseteq served
  BY DEF Decline, Idle
<1>7. /\ \A d \in Client \ {c} : st'[d] = st[d] /\ addr'[d] = addr[d] /\ left'[d] = left[d]
      /\ left'[c] = 0 /\ st'[c] = "init"
  BY DEF Decline, Idle, IInv, TypeOK
<1> QED BY <1>1, <1>4, <1>5, <1>6, <1>7, NewTransaction

LEMMA TakeAckInv ==
  ASSUME IInv, NEW c \in Client, TakeAck(c)
  PROVE  IInv'
<1>1. PICK a \in Reply :
        /\ a = Head(rsp) /\ a = rsp[1] /\ 1 \in DOMAIN rsp
        /\ \A i \in DOMAIN rsp' : \E j \in DOMAIN rsp : rsp'[i] = rsp[j]
        /\ rsp' \in Seq(Reply)
  BY TailLemma DEF IInv, TypeOK, TakeAck
<1>2. /\ a.c = c /\ a.ip \in Addr /\ a.left \in 1 .. Lease
      /\ a.ip = addr[c] /\ Covered(c, a.ip, a.left) /\ Harmless(c)
  <2>1. /\ a.c = c /\ a.cur /\ a.type = "ACK" /\ a.left > 0
        /\ st[c] \in {"requesting", "renewing"}
    BY <1>1 DEF TakeAck
  <2>2. a.left \in 1 .. Lease
    BY <2>1, DhcpAssumption DEF Reply
  <2>3. a.ip \in Addr
    BY <1>1, <2>1 DEF IInv, ReplyAddr
  <2>4. AckBacked(a)
    BY <1>1, <2>1 DEF IInv, CurrentAcks
  <2> QED BY <2>1, <2>2, <2>3, <2>4 DEF AckBacked
<1>3. /\ addr' = addr /\ req' = req /\ pool' = pool
      /\ left'[c] = a.left /\ st'[c] = "bound"
      /\ \A d \in Client \ {c} : st'[d] = st[d] /\ left'[d] = left[d]
      /\ served' = served \cup {c}
  BY <1>1, <1>2 DEF TakeAck, IInv, TypeOK, serverVars
<1>4. TypeOK' /\ PoolSound'
  BY <1>1, <1>2, DhcpAssumption DEF IInv, TypeOK, PoolSound, TakeAck, serverVars, Addr
<1>5. ReplyAddr' /\ ClientStates'
  BY <1>1, <1>2, <1>3 DEF IInv, ReplyAddr, ClientStates
<1>6. \A d \in Client : Harmless(d) => Harmless(d)'
  BY <1>3 DEF Harmless, Keeps
<1>7. CurrentRequests' /\ LeaseHolders'
  <2>1. \A i \in DOMAIN req : req[i] \in Request
    BY ElementOfSeq, LenProperties DEF IInv, TypeOK
  <2>2. CurrentRequests'
    BY <1>3, <2>1 DEF IInv, CurrentRequests, Keeps, Request
  <2>3. LeaseHolders'
    BY <1>2, <1>3, <1>6 DEF IInv, LeaseHolders
  <2> QED BY <2>2, <2>3
<1>8. CurrentAcks'
  <2> SUFFICES ASSUME NEW i \in DOMAIN rsp', rsp'[i].cur, rsp'[i].type = "ACK"
               PROVE  AckBacked(rsp[i])'
    BY DEF CurrentAcks
  <2>1. PICK r \in Reply : r = rsp'[i] /\ AckBacked(r)
    <3>1. PICK j \in DOMAIN rsp : rsp'[i] = rsp[j]
      BY <1>1
    <3>2. rsp[j] \in Reply
      BY ElementOfSeq, LenProperties DEF IInv, TypeOK
    <3> QED BY <3>1, <3>2 DEF IInv, CurrentAcks
  <2>2. r.c \in Client
    BY DEF Reply
  <2>3. AckBacked(r)'
    BY <1>3, <1>6, <2>1, <2>2 DEF AckBacked, Covered
  <2> QED BY <2>1, <2>3 DEF AckBacked, Covered, Harmless
<1>9. LeasesBacked'
  <2> SUFFICES ASSUME NEW d \in served', left'[d] > 0
               PROVE  Covered(d, addr[d], left[d])'
    BY DEF LeasesBacked
  <2>1. d = c \/ (d \in served /\ d \in Client \ {c})
    BY <1>3 DEF IInv, TypeOK
  <2>2. CASE d = c
    BY <1>2, <1>3, <2>2 DEF Covered
  <2>3. CASE d \in served /\ d \in Client \ {c}
    BY <1>3, <2>3 DEF IInv, LeasesBacked, Covered
  <2> QED BY <2>1, <2>2, <2>3
<1> QED BY <1>4, <1>5, <1>7, <1>8, <1>9 DEF IInv

\* c repeats its request, or answers an offer with one.
LEMMA SameTransaction ==
  ASSUME IInv, UNCHANGED serverVars, UNCHANGED served, UNCHANGED left, TypeOK',
         NEW c \in Client, NEW m \in Request, m.c = c, m.cur,
         req' = Append(req, m),
         \A i \in DOMAIN rsp' : \E j \in DOMAIN rsp : rsp'[i] = rsp[j],
         \A d \in Client \ {c} : st'[d] = st[d] /\ addr'[d] = addr[d],
         m.type \in {"DISCOVER", "REQUEST"},
         m.type = "DISCOVER" => st[c] = "selecting" /\ st'[c] = "selecting",
         m.type = "REQUEST" => st'[c] \in {"requesting", "renewing"} /\ Keeps(m, addr'[c]),
         st[c] # "selecting" => st'[c] = st[c] /\ addr'[c] = addr[c],
         st[c] = "selecting" => st'[c] \in {"selecting", "requesting"},
         addr'[c] \in Addr \/ st'[c] = "selecting"
  PROVE  IInv'
<1>1. PICK k \in Nat :
        /\ DOMAIN req = 1 .. k /\ DOMAIN req' = 1 .. k + 1 /\ req'[k + 1] = m
        /\ \A i \in DOMAIN req : req'[i] = req[i]
  <2>1. /\ Len(req) \in Nat /\ DOMAIN req = 1 .. Len(req)
        /\ DOMAIN req' = 1 .. Len(req) + 1 /\ req'[Len(req) + 1] = m
        /\ \A i \in DOMAIN req : req'[i] = req[i]
    BY AppendLemma DEF IInv, TypeOK
  <2> QED BY <2>1
<1>2. /\ \A i \in DOMAIN req : req[i] \in Request
      /\ \A i \in DOMAIN rsp : rsp[i] \in Reply
  BY ElementOfSeq, LenProperties DEF IInv, TypeOK
<1>3. PoolSound' /\ ReplyAddr'
  BY DEF IInv, PoolSound, ReplyAddr, serverVars
<1>4. ClientStates'
  BY DEF IInv, ClientStates
<1>5. CurrentRequests'
  <2> SUFFICES ASSUME NEW i \in DOMAIN req', req'[i].cur, req'[i].type = "REQUEST"
               PROVE  /\ st'[req'[i].c] # "selecting"
                      /\ st'[req'[i].c] \in {"requesting", "renewing"} =>
                           Keeps(req[i], addr[req[i].c])'
                      /\ \A j \in DOMAIN req' : (j > i /\ req'[j].c = req'[i].c) =>
                           req'[j].cur /\ req'[j].type = "REQUEST"
    BY DEF CurrentRequests
  <2>1. CASE i = k + 1
    BY <1>1, <2>1 DEF Keeps
  <2>2. CASE i \in DOMAIN req
    <3>1. /\ req[i].cur /\ req[i].type = "REQUEST" /\ req[i].c \in Client
          /\ req'[i] = req[i]
      BY <1>1, <1>2, <2>2 DEF Request
    <3>2. /\ st[req[i].c] # "selecting"
          /\ st[req[i].c] \in {"requesting", "renewing"} => Keeps(req[i], addr[req[i].c])
          /\ \A j \in DOMAIN req : (j > i /\ req[j].c = req[i].c) =>
               req[j].cur /\ req[j].type = "REQUEST"
      BY <2>2, <3>1 DEF IInv, CurrentRequests
    <3>3. st'[req[i].c] = st[req[i].c] /\ addr'[req[i].c] = addr[req[i].c]
      BY <3>1, <3>2
    <3>4. req[i].c = c => m.type = "REQUEST"
      BY <3>2
    <3> QED BY <1>1, <2>2, <3>1, <3>2, <3>3, <3>4 DEF Keeps
  <2> QED BY <1>1, <2>1, <2>2
<1>6. ASSUME NEW d \in Client, Harmless(d), d # c \/ st[c] # "selecting"
      PROVE  Harmless(d)'
  <2>1. addr'[d] = addr[d]
    BY <1>6
  <2>2. d = c => Keeps(m, addr'[c])
    BY <1>6
  <2> QED BY <1>1, <1>6, <2>1, <2>2 DEF Harmless, Keeps
<1>7. LeaseHolders'
  <2> SUFFICES ASSUME NEW d \in Client, left[d] > 0 PROVE Harmless(d)'
    BY DEF LeaseHolders
  <2>1. Harmless(d) /\ st[d] \in {"bound", "renewing"}
    BY DEF IInv, LeaseHolders, ClientStates
  <2> QED BY <1>6, <2>1
<1>8. CurrentAcks'
  <2> SUFFICES ASSUME NEW i \in DOMAIN rsp', rsp'[i].cur, rsp'[i].type = "ACK"
               PROVE  AckBacked(rsp[i])'
    BY DEF CurrentAcks
  <2>1. PICK r \in Reply : r = rsp'[i] /\ AckBacked(r)
    BY <1>2 DEF IInv, CurrentAcks
  <2>2. r.c \in Client /\ st[r.c] # "selecting"
    BY <2>1 DEF Reply, AckBacked
  <2>3. st'[r.c] = st[r.c] /\ addr'[r.c] = addr[r.c]
    BY <2>2
  <2>4. AckBacked(r)'
    BY <1>6, <2>1, <2>2, <2>3 DEF AckBacked, Covered, serverVars
  <2> QED BY <2>1, <2>4 DEF AckBacked, Covered, Harmless
<1>9. LeasesBacked'
  <2> SUFFICES ASSUME NEW d \in served, left[d] > 0
               PROVE  Covered(d, addr[d], left[d])'
    BY DEF LeasesBacked
  <2>1. d \in Client /\ st[d] \in {"bound", "renewing"}
    BY DEF IInv, TypeOK, ClientStates
  <2>2. addr'[d] = addr[d]
    BY <2>1
  <2> QED BY <2>2 DEF IInv, LeasesBacked, Covered, serverVars
<1> QED BY <1>3, <1>4, <1>5, <1>7, <1>8, <1>9 DEF IInv

LEMMA RetryInv ==
  ASSUME IInv, NEW c \in Client, Retry(c)
  PROVE  IInv'
<1>1. /\ NoAddr \in 0 .. N /\ addr[c] \in 0 .. N
      /\ st[c] \in {"selecting", "requesting", "renewing"}
      /\ st[c] # "selecting" => addr[c] \in Addr
  BY DhcpAssumption DEF Retry, NoAddr, IInv, TypeOK, ClientStates
<1>2. PICK m \in Request :
        /\ req' = Append(req, m) /\ m.c = c /\ m.cur
        /\ m.type \in {"DISCOVER", "REQUEST"}
        /\ m.type = "DISCOVER" => st[c] = "selecting"
        /\ m.type = "REQUEST" => st[c] \in {"requesting", "renewing"} /\ Keeps(m, addr[c])
  <2>1. CASE st[c] = "selecting"
    <3>1. PICK m \in Request : /\ m = Msg(c, "DISCOVER", NoAddr, NoAddr)
                               /\ m.c = c /\ m.cur /\ m.type = "DISCOVER"
      BY <1>1, MsgType
    <3> QED BY <2>1, <3>1 DEF Retry, Send
  <2>2. CASE st[c] = "requesting"
    <3>1. PICK m \in Request : /\ m = Msg(c, "REQUEST", addr[c], NoAddr)
                               /\ m.c = c /\ m.cur /\ m.type = "REQUEST" /\ m.want = addr[c]
      BY <1>1, MsgType
    <3> QED BY <2>2, <3>1 DEF Retry, Send, Keeps
  <2>3. CASE st[c] = "renewing"
    <3>1. PICK m \in Request : /\ m = Msg(c, "REQUEST", NoAddr, addr[c])
                               /\ m.c = c /\ m.cur /\ m.type = "REQUEST"
                               /\ m.want = NoAddr /\ m.ciaddr = addr[c]
      BY <1>1, MsgType
    <3> QED BY <2>3, <3>1 DEF Retry, Send, Keeps
  <2> QED BY <1>1, <2>1, <2>2, <2>3
<1>3. UNCHANGED <<serverVars, rsp, st, addr, left, served>>
  BY DEF Retry, clientVars
<1>4. req' \in Seq(Request)
  BY <1>2, AppendLemma DEF IInv, TypeOK
<1>5. TypeOK'
  BY <1>3, <1>4 DEF IInv, TypeOK, serverVars
<1> QED BY <1>1, <1>2, <1>3, <1>5, SameTransaction

LEMMA TakeOfferInv ==
  ASSUME IInv, NEW c \in Client, TakeOffer(c)
  PROVE  IInv'
<1>1. rsp \in Seq(Reply) /\ rsp # <<>>
  BY DEF IInv, TypeOK, TakeOffer
<1>2. PICK a \in Reply :
        /\ a = Head(rsp) /\ a = rsp[1] /\ 1 \in DOMAIN rsp
        /\ \A i \in DOMAIN Tail(rsp) : i + 1 \in DOMAIN rsp /\ Tail(rsp)[i] = rsp[i + 1]
        /\ Tail(rsp) \in Seq(Reply)
  BY <1>1, TailLemma
<1>3. a.ip \in Addr /\ a.ip \in 0 .. N
  BY <1>2 DEF TakeOffer, IInv, ReplyAddr, Reply
<1>4. PICK m \in Request :
        /\ req' = Append(req, m) /\ m.c = c /\ m.cur /\ m.type = "REQUEST"
        /\ Keeps(m, a.ip)
  <2>1. PICK m \in Request : /\ m = Msg(c, "REQUEST", a.ip, NoAddr)
                             /\ m.c = c /\ m.cur /\ m.type = "REQUEST" /\ m.want = a.ip
    BY <1>3, MsgType, DhcpAssumption DEF NoAddr
  <2> QED BY <1>2, <2>1 DEF TakeOffer, Keeps
<1>5. /\ UNCHANGED <<serverVars, left, served>>
      /\ st[c] = "selecting" /\ st'[c] = "requesting" /\ addr'[c] = a.ip
      /\ \A d \in Client \ {c} : st'[d] = st[d] /\ addr'[d] = addr[d]
  BY <1>2 DEF TakeOffer, IInv, TypeOK
<1>6. TypeOK'
  <2>1. req' \in Seq(Request)
    BY <1>4, AppendLemma DEF IInv, TypeOK
  <2> QED BY <1>2, <1>3, <2>1 DEF IInv, TypeOK, TakeOffer, serverVars
<1>7. \A i \in DOMAIN rsp' : \E j \in DOMAIN rsp : rsp'[i] = rsp[j]
  BY <1>2 DEF TakeOffer
<1> QED BY <1>3, <1>4, <1>5, <1>6, <1>7, SameTransaction

LEMMA LessSteps ==
  ASSUME IInv,
         \/ LoseRequest \/ LoseReply
         \/ \E c \in Client : GiveUp(c) \/ TakeNak(c)
  PROVE  IInv'
<1>1. st = [c \in Client |-> st[c]] /\ addr = [c \in Client |-> addr[c]]
      /\ left = [c \in Client |-> left[c]]
  BY DEF IInv, TypeOK
<1>2. CASE LoseRequest \/ LoseReply
  <2>1. /\ st' = [c \in Client |-> IF c \in {} THEN "init" ELSE st[c]]
        /\ addr' = [c \in Client |-> IF c \in {} THEN NoAddr ELSE addr[c]]
        /\ left' = [c \in Client |-> IF c \in {} THEN 0 ELSE left[c]]
        /\ {} \in SUBSET Client
    BY <1>1, <1>2 DEF LoseRequest, LoseReply, clientVars
  <2> QED BY <1>2, <2>1, LessInv DEF LoseRequest, LoseReply, clientVars
<1>3. ASSUME NEW c \in Client, GiveUp(c) \/ TakeNak(c)
      PROVE  IInv'
  <2>1. /\ st' = [d \in Client |-> IF d \in {c} THEN "init" ELSE st[d]]
        /\ addr' = [d \in Client |-> IF d \in {c} THEN NoAddr ELSE addr[d]]
        /\ left' = [d \in Client |-> IF d \in {c} THEN 0 ELSE left[d]]
        /\ {c} \in SUBSET Client
    BY <1>1, <1>3 DEF GiveUp, TakeNak, Idle
  <2>2. UNCHANGED serverVars /\ served' \subseteq served
    BY <1>3 DEF GiveUp, TakeNak, Idle, serverVars
  <2> QED BY <1>3, <2>1, <2>2, LessInv DEF GiveUp, TakeNak
<1> QED BY <1>2, <1>3

-----------------------------------------------------------------------------
(***************************************************************************)
(* The theorems                                                            *)
(***************************************************************************)
LEMMA InitInv == Init => IInv
<1> SUFFICES ASSUME Init PROVE IInv
  OBVIOUS
<1>1. TypeOK /\ PoolSound
  BY DhcpAssumption DEF Init, TypeOK, PoolSound, NoAddr
<1>2. DOMAIN req = {} /\ DOMAIN rsp = {}
  BY DEF Init
<1> QED BY <1>1, <1>2, DhcpAssumption DEF Init, IInv, ReplyAddr, ClientStates,
             CurrentRequests, LeaseHolders, Harmless, CurrentAcks, LeasesBacked

LEMMA NextInv == IInv /\ [Next]_vars => IInv'
<1> SUFFICES ASSUME IInv, [Next]_vars PROVE IInv'
  OBVIOUS
<1>1. CASE handle_dhcp
  BY <1>1, HandleKnownInv, HandleNewInv, HandleNoneInv DEF handle_dhcp
<1>2. CASE Tick
  BY <1>2, TickInv
<1>3. CASE LoseRequest \/ LoseReply
  BY <1>3, LessSteps
<1>4. CASE Restart
  BY <1>4, RestartInv
<1>5. ASSUME NEW c \in Client, ClientStep(c) PROVE IInv'
  <2>1. CASE Discover(c) \/ Reboot(c) \/ Inform(c) \/ Renew(c) \/ Release(c)
    BY <2>1, SendNewSteps
  <2>2. CASE Retry(c)
    BY <2>2, RetryInv
  <2>3. CASE GiveUp(c) \/ TakeNak(c)
    BY <2>3, LessSteps
  <2>4. CASE TakeOffer(c)
    BY <2>4, TakeOfferInv
  <2>5. CASE TakeAck(c)
    BY <2>5, TakeAckInv
  <2>6. CASE Decline(c)
    BY <2>6, DeclineInv
  <2> QED BY <1>5, <2>1, <2>2, <2>3, <2>4, <2>5, <2>6 DEF ClientStep
<1>6. CASE UNCHANGED vars
  BY <1>6 DEF vars, IInv, TypeOK, PoolSound, ReplyAddr, ClientStates,
     CurrentRequests, LeaseHolders, Harmless, Keeps, CurrentAcks, AckBacked,
     LeasesBacked, Covered
<1> QED BY <1>1, <1>2, <1>3, <1>4, <1>5, <1>6 DEF Next

LEMMA Invariance == Spec => []IInv
BY InitInv, NextInv, PTL DEF Spec

\* The server, the link and the clients keep to their types.
THEOREM TypeCorrect == Spec => []TypeOK
<1>1. IInv => TypeOK
  BY DEF IInv
<1> QED BY <1>1, Invariance, PTL

\* handle_dhcp and dhcps_tmr never leave two nodes with one address or with one
\* owner in plist.
THEOREM PoolAlwaysSound == Spec => []PoolSound
<1>1. IInv => PoolSound
  BY DEF IInv
<1> QED BY <1>1, Invariance, PTL

\* parse_msg finds an unused address as long as there is one, wherever
\* client_address_plus points.
THEOREM FreeAddressAlwaysFound == Spec => []FreeAddressFound
<1>1. IInv => FreeAddressFound
  <2> SUFFICES ASSUME IInv, NEW c \in Client, Addr \ Ips(pool) # {}
               PROVE  Chosen(c) \in Addr \ Ips(pool)
    BY DEF FreeAddressFound
  <2> QED BY ChosenLemma DEF IInv
<1> QED BY <1>1, Invariance, PTL

\* Two leases that this run of the process granted and that have not run out
\* are for different addresses: each is backed by a node of its client, and no
\* two nodes share an address.
THEOREM NoConflict == Spec => []NoAddressConflict
<1>1. IInv => NoAddressConflict
  <2> SUFFICES ASSUME IInv, NEW c \in served, NEW d \in served, c # d,
                      left[c] > 0, left[d] > 0
               PROVE  addr[c] # addr[d]
    BY DEF NoAddressConflict
  <2>1. PICK n \in pool : n.mac = c /\ n.ip = addr[c]
    BY DEF IInv, LeasesBacked, Covered
  <2>2. PICK m \in pool : m.mac = d /\ m.ip = addr[d]
    BY DEF IInv, LeasesBacked, Covered
  <2> QED BY <2>1, <2>2 DEF IInv, PoolSound
<1> QED BY <1>1, Invariance, PTL

-----------------------------------------------------------------------------
(***************************************************************************)
(* The list: its loops compute what Dhcp says of the set                   *)
(***************************************************************************)
\* Any two nodes of l are in the order of their addresses.
Ascending(l) == \A i, j \in DOMAIN l : i < j => l[i].ip < l[j].ip

\* The list holds the nodes of pool in the order of their addresses.
ListIInv ==
  /\ IInv
  /\ plist \in Seq(Node) /\ Ascending(plist) /\ Range(plist) = pool

LEMMA NodesOf ==
  ASSUME NEW l \in Seq(Node)
  PROVE  /\ Len(l) \in Nat /\ DOMAIN l = 1 .. Len(l) /\ N \in Nat \ {0}
         /\ \A i \in 1 .. Len(l) :
              l[i] \in Node /\ l[i].ip \in 1 .. N /\ l[i] \in Range(l)
         /\ Range(l) \in SUBSET Node
         /\ \A a : a \in Ips(Range(l)) <=> \E i \in 1 .. Len(l) : l[i].ip = a
<1>1. Len(l) \in Nat /\ DOMAIN l = 1 .. Len(l)
  BY LenProperties
<1>2. \A i \in 1 .. Len(l) : l[i] \in Node
  BY ElementOfSeq
<1>3. \A n \in Node : n.ip \in 1 .. N
  BY DEF Node, Addr
<1>4. \A x : x \in Range(l) <=> \E i \in 1 .. Len(l) : l[i] = x
  BY <1>1 DEF Range
<1>5. \A a : a \in Ips(Range(l)) <=> \E i \in 1 .. Len(l) : l[i].ip = a
  BY <1>4 DEF Ips
<1> QED BY <1>1, <1>2, <1>3, <1>4, <1>5, DhcpAssumption

\* The address a search finds is determined by what Skip says of it.
LEMMA SkipIs ==
  ASSUME NEW a \in 1 .. N + 1, NEW nodes \in SUBSET Node, NEW v \in Nat,
         a <= v, v \notin Ips(nodes), \A k \in a .. v - 1 : k \in Ips(nodes)
  PROVE  Skip(a, nodes) = v
<1> DEFINE b == Skip(a, nodes)
<1>1. b \in a .. N + 1 /\ b \notin Ips(nodes)
      /\ \A k \in a .. b - 1 : k \in Ips(nodes)
  BY SkipLemma
<1> HIDE DEF b
<1>2. a \in Nat /\ b \in Nat
  BY <1>1, DhcpAssumption
<1>3. ~(b < v) /\ ~(v < b)
  BY <1>1, <1>2
<1> QED BY <1>2, <1>3 DEF b

\* The walk over a sorted list leaves its argument at the first address from
\* there on that no node has.
LEMMA WalkLemma ==
  ASSUME NEW l \in Seq(Node), Ascending(l), NEW p \in 1 .. N + 1
  PROVE  WalkPlus(l, p) = Skip(p, Range(l))
<1> DEFINE n == Len(l)
           F == [i \in 1 .. n |->
                   [v \in Nat |-> IF l[i].ip = v THEN v + 1 ELSE v]]
           f == CHOOSE g : g = [i \in 0 .. n |->
                   IF i = 0 THEN p
                   ELSE IF l[i].ip = g[i - 1] THEN g[i - 1] + 1 ELSE g[i - 1]]
<1>0. p \in Nat /\ N \in Nat
  BY DhcpAssumption
<1>1. /\ n \in Nat /\ DOMAIN l = 1 .. n
      /\ \A i \in 1 .. n : l[i].ip \in 1 .. N
      /\ Range(l) \in SUBSET Node
      /\ \A a : a \in Ips(Range(l)) <=> \E i \in 1 .. n : l[i].ip = a
  BY NodesOf
<1>2. \A i, j \in 1 .. n : i < j => l[i].ip < l[j].ip
  BY <1>1 DEF Ascending
<1>3. WalkPlus(l, p) = f[n]
  BY DEF WalkPlus
<1> HIDE DEF n
<1>4. PICK g \in [0 .. n -> Nat] :
        g[0] = p /\ \A i \in 1 .. n : g[i] = F[i][g[i - 1]]
  <2>1. F \in Turns(n, Nat)
    BY DEF Turns
  <2>2. p \in Nat /\ n \in Nat
    BY <1>0, <1>1
  <2> HIDE DEF F, f
  <2>3. PICK h : IsHistory(h, n, Nat, p, F)
    BY ONLY <2>1, <2>2, LoopHistory
  <2> QED BY <2>3 DEF IsHistory
<1>5. g = [i \in 0 .. n |->
             IF i = 0 THEN p
             ELSE IF l[i].ip = g[i - 1] THEN g[i - 1] + 1 ELSE g[i - 1]]
  <2>1. \A i \in 1 .. n : g[i - 1] \in Nat
    BY <1>1, <1>4
  <2>2. \A i \in 1 .. n :
          g[i] = IF l[i].ip = g[i - 1] THEN g[i - 1] + 1 ELSE g[i - 1]
    BY <1>4, <2>1
  <2> QED BY <1>1, <1>4, <2>2
<1>6. /\ f[0] = p
      /\ \A i \in 1 .. n :
           f[i] = IF l[i].ip = f[i - 1] THEN f[i - 1] + 1 ELSE f[i - 1]
  <2>1. f = [i \in 0 .. n |->
               IF i = 0 THEN p
               ELSE IF l[i].ip = f[i - 1] THEN f[i - 1] + 1 ELSE f[i - 1]]
    BY <1>5
  <2> HIDE DEF f
  <2> QED BY <1>1, <2>1
<1> HIDE DEF F, f
<1> DEFINE S == {k \in 0 .. n :
                   /\ f[k] \in Nat /\ p <= f[k]
                   /\ \A j \in 1 .. k : l[j].ip # f[k]
                   /\ \A a \in p .. f[k] - 1 : \E j \in 1 .. k : l[j].ip = a}
<1>7. 0 \in S
  BY <1>0, <1>1, <1>6
<1>8. ASSUME NEW k \in 1 .. n, k - 1 \in S PROVE k \in S
  <2>1. /\ f[k - 1] \in Nat /\ p <= f[k - 1]
        /\ \A j \in 1 .. k - 1 : l[j].ip # f[k - 1]
        /\ \A a \in p .. f[k - 1] - 1 : \E j \in 1 .. k - 1 : l[j].ip = a
        /\ k \in Nat
    BY <1>1, <1>8
  <2>2. CASE l[k].ip = f[k - 1]
    <3>1. f[k] = f[k - 1] + 1
      BY <1>6, <2>2
    <3>2. \A j \in 1 .. k : l[j].ip # f[k]
      BY <1>0, <1>1, <1>2, <2>1, <2>2, <3>1, SMTT(30)
    <3>3. \A a \in p .. f[k] - 1 : \E j \in 1 .. k : l[j].ip = a
      <4> SUFFICES ASSUME NEW a \in p .. f[k] - 1
                   PROVE  \E j \in 1 .. k : l[j].ip = a
        OBVIOUS
      <4>1. CASE a = f[k - 1]
        BY <2>1, <2>2, <4>1
      <4>2. CASE a # f[k - 1]
        <5>1. a \in p .. f[k - 1] - 1
          BY <1>0, <2>1, <3>1, <4>2
        <5>2. PICK j \in 1 .. k - 1 : l[j].ip = a
          BY <2>1, <5>1
        <5>3. j \in 1 .. k
          BY <2>1
        <5> QED BY <5>2, <5>3
      <4> QED BY <4>1, <4>2
    <3> QED BY <1>0, <2>1, <3>1, <3>2, <3>3
  <2>3. CASE l[k].ip # f[k - 1]
    <3>1. f[k] = f[k - 1]
      BY <1>6, <2>3
    <3>2. \A j \in 1 .. k : l[j].ip # f[k]
      BY <1>1, <2>1, <2>3, <3>1
    <3>3. \A a \in p .. f[k] - 1 : \E j \in 1 .. k : l[j].ip = a
      BY <2>1, <3>1, SMTT(30)
    <3> QED BY <2>1, <3>1, <3>2, <3>3
  <2> QED BY <2>2, <2>3
<1>9. n \in S
  <2> HIDE DEF S
  <2>1. \A k \in 1 .. n : k - 1 \in S => k \in S
    BY <1>8
  <2>2. \A k \in 0 .. n : k \in S
    BY ONLY <1>1, <1>7, <2>1, UpTo
  <2> QED BY <1>1, <2>2
<1>10. /\ f[n] \in Nat /\ p <= f[n]
       /\ f[n] \notin Ips(Range(l))
       /\ \A a \in p .. f[n] - 1 : a \in Ips(Range(l))
  BY <1>1, <1>9
<1> QED BY <1>1, <1>3, <1>10, SkipIs

\* Below the first gap of a sorted list the i-th node has address i.
LEMMA FirstUnusedLemma ==
  ASSUME NEW l \in Seq(Node), Ascending(l)
  PROVE  FirstUnused(l) = Skip(1, Range(l))
<1> DEFINE n == Len(l)
           G == {a \in 1 .. n + 1 : a = n + 1 \/ a < l[a].ip}
           S == {k \in 0 .. n : k = 0 \/ k <= l[k].ip}
<1>1. /\ n \in Nat /\ DOMAIN l = 1 .. n /\ N \in Nat \ {0}
      /\ \A i \in 1 .. n : l[i].ip \in 1 .. N
      /\ Range(l) \in SUBSET Node
      /\ \A a : a \in Ips(Range(l)) <=> \E i \in 1 .. n : l[i].ip = a
  BY NodesOf
<1>2. \A i, j \in 1 .. n : i < j => l[i].ip < l[j].ip
  BY <1>1 DEF Ascending
<1>3. PICK m \in G : \A k \in G : m <= k
  <2>1. G \in SUBSET Nat /\ n + 1 \in G
    BY <1>1
  <2> QED BY <2>1, MinExists
<1> DEFINE a == FirstUnused(l)
<1>4. /\ a \in 1 .. n + 1
      /\ a = n + 1 \/ a < l[a].ip
      /\ \A b \in 1 .. a - 1 : ~(b < l[b].ip)
  <2>1. /\ m \in 1 .. n + 1
        /\ m = n + 1 \/ m < l[m].ip
        /\ \A b \in 1 .. m - 1 : ~(b < l[b].ip)
    BY <1>1, <1>3
  <2> QED BY <2>1 DEF FirstUnused
<1> HIDE DEF n, a
<1>5. \A k \in 1 .. n : k <= l[k].ip
  <2>1. 0 \in S
    BY <1>1
  <2>2. ASSUME NEW k \in 1 .. n, k - 1 \in S PROVE k \in S
    <3>1. CASE k = 1
      BY <1>1, <3>1
    <3>2. CASE k > 1
      <4>1. k - 1 \in 1 .. n /\ k - 1 <= l[k - 1].ip /\ k \in Nat
        BY <1>1, <2>2, <3>2
      <4>2. l[k - 1].ip < l[k].ip
        BY <1>1, <1>2, <4>1
      <4> QED BY <1>1, <4>1, <4>2
    <3> QED BY <1>1, <3>1, <3>2
  <2> HIDE DEF S
  <2>3. \A k \in 1 .. n : k - 1 \in S => k \in S
    BY <2>2
  <2>4. \A k \in 0 .. n : k \in S
    BY ONLY <1>1, <2>1, <2>3, UpTo
  <2> QED BY <1>1, <2>4 DEF S
<1>6. \A b \in 1 .. a - 1 : b \in 1 .. n /\ l[b].ip = b
  BY <1>1, <1>4, <1>5
<1>7. a \notin Ips(Range(l))
  <2> SUFFICES ASSUME NEW i \in 1 .. n, l[i].ip = a PROVE FALSE
    BY <1>1
  <2>1. CASE i < a
    BY <1>1, <1>4, <1>6, <2>1
  <2>2. CASE i = a
    BY <1>1, <1>4, <2>2
  <2>3. CASE i > a
    BY <1>1, <1>2, <1>4, <2>3
  <2> QED BY <1>1, <1>4, <2>1, <2>2, <2>3
<1>8. \A k \in 1 .. a - 1 : k \in Ips(Range(l))
  BY <1>1, <1>6
<1>9. a \in Nat /\ 1 <= a /\ 1 \in 1 .. N + 1
  BY <1>1, <1>4
<1>10. Skip(1, Range(l)) = a
  BY <1>1, <1>7, <1>8, <1>9, SkipIs
<1> QED BY <1>10 DEF a

-----------------------------------------------------------------------------
(***************************************************************************)
(* The list: insertion, removal and renewal keep it sorted                 *)
(***************************************************************************)
LEMMA OrderOf ==
  ASSUME NEW l \in Seq(Node)
  PROVE  Ascending(l) <=>
           \A i, j \in 1 .. Len(l) : i < j => l[i].ip < l[j].ip
BY NodesOf DEF Ascending

\* A node with a greater address than all others belongs at the end.
LEMMA AppendNode ==
  ASSUME NEW l \in Seq(Node), Ascending(l), NEW e \in Node,
         \A x \in Range(l) : x.ip < e.ip
  PROVE  /\ Append(l, e) \in Seq(Node) /\ Ascending(Append(l, e))
         /\ Range(Append(l, e)) = Range(l) \cup {e}
<1> DEFINE r == Append(l, e)
<1>1. /\ r \in Seq(Node) /\ Len(r) = Len(l) + 1 /\ Len(l) \in Nat
      /\ DOMAIN l = 1 .. Len(l) /\ DOMAIN r = 1 .. Len(l) + 1
      /\ \A i \in 1 .. Len(l) : r[i] = l[i] /\ l[i] \in Range(l)
      /\ r[Len(l) + 1] = e
  BY AppendLemma, NodesOf
<1> HIDE DEF r
<1>2. Ascending(r)
  BY <1>1 DEF Ascending
<1>3. Range(r) = Range(l) \cup {e}
  BY <1>1 DEF Range
<1> QED BY <1>1, <1>2, <1>3 DEF r

\* node_insert_to_list puts a node with a new address where it belongs.
LEMMA InsertNode ==
  ASSUME NEW l \in Seq(Node), Ascending(l), NEW e \in Node,
         e.ip \notin Ips(Range(l))
  PROVE  /\ Insert(l, e) \in Seq(Node) /\ Ascending(Insert(l, e))
         /\ Range(Insert(l, e)) = Range(l) \cup {e}
<1> DEFINE n == Len(l)
           k == CHOOSE k \in 1 .. n + 1 :
                  /\ k = n + 1 \/ e.ip < l[k].ip
                  /\ \A j \in 1 .. k - 1 : ~(e.ip < l[j].ip)
           G == {i \in 1 .. n + 1 : i = n + 1 \/ e.ip < l[i].ip}
           r == Insert(l, e)
<1>1. /\ n \in Nat /\ DOMAIN l = 1 .. n /\ e.ip \in Nat
      /\ \A i \in 1 .. n : l[i].ip \in Nat /\ l[i].ip # e.ip
  <2>1. /\ n \in Nat /\ DOMAIN l = 1 .. n /\ N \in Nat
        /\ \A i \in 1 .. n : l[i].ip \in 1 .. N
        /\ \A i \in 1 .. n : l[i].ip # e.ip
    BY NodesOf
  <2>2. e.ip \in 1 .. N
    BY DEF Node, Addr
  <2> QED BY <2>1, <2>2
<1>2. PICK m \in G : \A i \in G : m <= i
  <2>1. G \in SUBSET Nat /\ n + 1 \in G
    BY <1>1
  <2> QED BY <2>1, MinExists
<1>3. /\ k \in 1 .. n + 1
      /\ k = n + 1 \/ e.ip < l[k].ip
      /\ \A j \in 1 .. k - 1 : ~(e.ip < l[j].ip)
  <2>1. /\ m \in 1 .. n + 1
        /\ m = n + 1 \/ e.ip < l[m].ip
        /\ \A j \in 1 .. m - 1 : ~(e.ip < l[j].ip)
    BY <1>1, <1>2
  <2> QED BY <2>1
<1>4. r = InsertAt(l, k, e)
  BY DEF Insert
<1> HIDE DEF k
<1>5. /\ r \in Seq(Node) /\ Len(r) = n + 1 /\ r[k] = e
      /\ \A i \in 1 .. k - 1 : r[i] = l[i]
      /\ \A i \in k .. n : r[i + 1] = l[i]
  <2>1. k \in 1 .. Len(l) + 1
    BY <1>3
  <2>2. /\ InsertAt(l, k, e) \in Seq(Node)
        /\ Len(InsertAt(l, k, e)) = Len(l) + 1
        /\ InsertAt(l, k, e)[k] = e
        /\ \A i \in 1 .. k - 1 : InsertAt(l, k, e)[i] = l[i]
        /\ \A i \in k .. Len(l) : InsertAt(l, k, e)[i + 1] = l[i]
    BY ONLY l \in Seq(Node), e \in Node, <2>1, InsertAtLemma
  <2> HIDE DEF r
  <2> QED BY <1>4, <2>2
<1> HIDE DEF r, n
<1>6. DOMAIN r = 1 .. n + 1
  BY <1>5, LenProperties
<1>7. \A i, j \in 1 .. n : i < j => l[i].ip < l[j].ip
  BY <1>1 DEF Ascending
<1>8. /\ \A i \in 1 .. k - 1 : l[i].ip < e.ip
      /\ \A i \in k .. n : e.ip < l[i].ip
  <2>1. \A i \in 1 .. k - 1 : l[i].ip < e.ip
    BY <1>1, <1>3
  <2>2. ASSUME NEW i \in k .. n PROVE e.ip < l[i].ip
    <3>1. k \in 1 .. n /\ e.ip < l[k].ip /\ i \in 1 .. n
      BY <1>1, <1>3
    <3> QED BY <1>1, <1>7, <3>1
  <2> QED BY <2>1, <2>2
<1>9. \A i \in 1 .. n + 1 :
        \/ i < k /\ r[i] = l[i] /\ i \in 1 .. n
        \/ i = k /\ r[i] = e
        \/ i > k /\ r[i] = l[i - 1] /\ i - 1 \in k .. n
  <2> SUFFICES ASSUME NEW i \in 1 .. n + 1, i > k
               PROVE  r[i] = l[i - 1] /\ i - 1 \in k .. n
    BY <1>1, <1>3, <1>5
  <2>1. i - 1 \in k .. n /\ (i - 1) + 1 = i
    BY <1>1, <1>3
  <2> QED BY <1>5, <2>1
<1>10. Ascending(r)
  <2> SUFFICES ASSUME NEW i \in 1 .. n + 1, NEW j \in 1 .. n + 1, i < j
               PROVE  r[i].ip < r[j].ip
    BY <1>6 DEF Ascending
  <2>1. CASE j < k
    BY <1>1, <1>3, <1>7, <1>9, <2>1
  <2>2. CASE j = k
    BY <1>1, <1>3, <1>8, <1>9, <2>2
  <2>3. CASE j > k
    <3>1. r[j] = l[j - 1] /\ j - 1 \in k .. n
      BY <1>9, <1>1, <1>3, <2>3
    <3>2. CASE i < k
      BY <1>1, <1>3, <1>7, <1>9, <3>1, <3>2
    <3>3. CASE i = k
      BY <1>1, <1>3, <1>8, <1>9, <3>1, <3>3
    <3>4. CASE i > k
      <4>1. r[i] = l[i - 1] /\ i - 1 \in k .. n
        BY <1>9, <1>1, <1>3, <3>4
      <4> QED BY <1>1, <1>3, <1>7, <3>1, <4>1
    <3> QED BY <1>1, <1>3, <3>2, <3>3, <3>4
  <2> QED BY <1>1, <1>3, <2>1, <2>2, <2>3
<1>11. Range(r) = Range(l) \cup {e}
  <2>1. ASSUME NEW x \in Range(r) PROVE x \in Range(l) \cup {e}
    BY <1>1, <1>3, <1>6, <1>9 DEF Range
  <2>2. e \in Range(r)
    BY <1>3, <1>5, <1>6 DEF Range
  <2>3. ASSUME NEW i \in 1 .. n PROVE l[i] \in Range(r)
    <3>1. CASE i < k
      BY <1>1, <1>3, <1>5, <1>6, <3>1, SMTT(30) DEF Range
    <3>2. CASE i >= k
      <4>1. i \in k .. n /\ i + 1 \in 1 .. n + 1
        BY <1>1, <1>3, <3>2
      <4> QED BY <1>5, <1>6, <4>1 DEF Range
    <3> QED BY <1>1, <1>3, <3>1, <3>2
  <2> QED BY <1>1, <2>1, <2>2, <2>3 DEF Range
<1> QED BY <1>5, <1>10, <1>11 DEF r

\* node_remove_from_list takes exactly one node away.
LEMMA RemoveNode ==
  ASSUME NEW l \in Seq(Node), Ascending(l), NEW k \in 1 .. Len(l)
  PROVE  /\ RemoveAt(l, k) \in Seq(Node) /\ Ascending(RemoveAt(l, k))
         /\ Range(RemoveAt(l, k)) = Range(l) \ {l[k]}
<1> DEFINE n == Len(l)
           r == RemoveAt(l, k)
<1>1. /\ n \in Nat /\ DOMAIN l = 1 .. n /\ k \in 1 .. n
      /\ \A i \in 1 .. n : l[i].ip \in Nat
  BY NodesOf
<1>2. /\ r \in Seq(Node) /\ Len(r) = n - 1
      /\ \A i \in 1 .. k - 1 : r[i] = l[i]
      /\ \A i \in k .. n - 1 : r[i] = l[i + 1]
  BY RemoveAtLemma
<1> HIDE DEF n, r
<1>3. DOMAIN r = 1 .. n - 1
  BY <1>2, LenProperties
<1>4. \A i, j \in 1 .. n : i < j => l[i].ip < l[j].ip
  BY <1>1 DEF Ascending
<1>5. \A i \in 1 .. n - 1 :
        \/ i < k /\ r[i] = l[i] /\ i \in 1 .. n
        \/ i >= k /\ r[i] = l[i + 1] /\ i + 1 \in 1 .. n
  BY <1>1, <1>2
<1>6. Ascending(r)
  <2> SUFFICES ASSUME NEW i \in 1 .. n - 1, NEW j \in 1 .. n - 1, i < j
               PROVE  r[i].ip < r[j].ip
    BY <1>3 DEF Ascending
  <2> QED BY <1>1, <1>4, <1>5
<1>7. Range(r) = Range(l) \ {l[k]}
  <2>1. ASSUME NEW i \in 1 .. n - 1 PROVE r[i] \in Range(l) \ {l[k]}
    <3>1. CASE i < k
      <4>1. r[i] = l[i] /\ i \in 1 .. n
        BY <1>1, <1>5, <3>1
      <4>2. l[i].ip # l[k].ip
        BY <1>1, <1>4, <3>1, <4>1
      <4> QED BY <1>1, <4>1, <4>2 DEF Range
    <3>2. CASE i >= k
      <4>1. r[i] = l[i + 1] /\ i + 1 \in 1 .. n /\ k < i + 1
        BY <1>1, <1>5, <3>2
      <4> QED BY <1>1, <1>4, <4>1 DEF Range
    <3> QED BY <1>1, <3>1, <3>2
  <2>2. ASSUME NEW i \in 1 .. n, l[i] # l[k] PROVE l[i] \in Range(r)
    <3>1. CASE i < k
      <4>1. i \in 1 .. k - 1 /\ i \in 1 .. n - 1
        BY <1>1, <3>1
      <4> QED BY <1>2, <1>3, <4>1 DEF Range
    <3>2. CASE i > k
      <4>1. i - 1 \in k .. n - 1 /\ i - 1 \in 1 .. n - 1 /\ (i - 1) + 1 = i
        BY <1>1, <3>2
      <4> QED BY <1>2, <1>3, <4>1 DEF Range
    <3> QED BY <1>1, <2>2, <3>1, <3>2
  <2> QED BY <1>1, <1>3, <2>1, <2>2 DEF Range
<1> QED BY <1>2, <1>6, <1>7 DEF r

\* A lease that starts again leaves the node where it is.
LEMMA RenewNode ==
  ASSUME NEW l \in Seq(Node), Ascending(l), NEW k \in 1 .. Len(l),
         NEW e \in Node, e.ip = l[k].ip
  PROVE  /\ [l EXCEPT ![k] = e] \in Seq(Node) /\ Ascending([l EXCEPT ![k] = e])
         /\ Range([l EXCEPT ![k] = e]) = (Range(l) \ {l[k]}) \cup {e}
<1> DEFINE n == Len(l)
           r == [l EXCEPT ![k] = e]
<1>1. /\ n \in Nat /\ DOMAIN l = 1 .. n /\ k \in 1 .. n
      /\ \A i \in 1 .. n : l[i].ip \in Nat
  BY NodesOf
<1>2. /\ r \in Seq(Node) /\ Len(r) = n
      /\ \A i \in 1 .. n : r[i] = IF i = k THEN e ELSE l[i]
  BY ExceptSeq
<1> HIDE DEF n, r
<1>3. DOMAIN r = 1 .. n
  BY <1>2, LenProperties
<1>4. \A i, j \in 1 .. n : i < j => l[i].ip < l[j].ip
  BY <1>1 DEF Ascending
<1>5. Ascending(r)
  BY <1>1, <1>2, <1>3, <1>4 DEF Ascending
<1>6. \A i \in 1 .. n : i # k => l[i] # l[k]
  BY <1>1, <1>4
<1>7. Range(r) = (Range(l) \ {l[k]}) \cup {e}
  <2>1. ASSUME NEW i \in 1 .. n
        PROVE  r[i] \in (Range(l) \ {l[k]}) \cup {e}
    BY <1>1, <1>2, <1>6 DEF Range
  <2>2. e \in Range(r)
    BY <1>1, <1>2, <1>3 DEF Range
  <2>3. ASSUME NEW i \in 1 .. n, l[i] # l[k] PROVE l[i] \in Range(r)
    BY <1>2, <1>3, <2>3 DEF Range
  <2> QED BY <1>1, <1>3, <2>1, <2>2, <2>3 DEF Range
<1> QED BY <1>2, <1>5, <1>7 DEF r

-----------------------------------------------------------------------------
(***************************************************************************)
(* The list: parse_msg and dhcps_tmr                                       *)
(***************************************************************************)
LEMMA PositionLemma ==
  ASSUME plist \in Seq(Node), NEW c \in Client
  PROVE  /\ Position(c) \in 1 .. Len(plist) + 1
         /\ Position(c) = Len(plist) + 1 \/ plist[Position(c)].mac = c
         /\ \A j \in 1 .. Position(c) - 1 : plist[j].mac # c
         /\ Len(plist) \in Nat
<1> DEFINE n == Len(plist)
           G == {i \in 1 .. n + 1 : i = n + 1 \/ plist[i].mac = c}
<1>1. n \in Nat
  BY NodesOf
<1>2. PICK m \in G : \A i \in G : m <= i
  <2>1. G \in SUBSET Nat /\ n + 1 \in G
    BY <1>1
  <2> QED BY <2>1, MinExists
<1>3. /\ m \in 1 .. n + 1
      /\ m = n + 1 \/ plist[m].mac = c
      /\ \A j \in 1 .. m - 1 : plist[j].mac # c
  BY <1>1, <1>2
<1> QED BY <1>1, <1>3 DEF Position

\* The nodes before c's place in the list are those parse_msg passes.
LEMMA BeforeLemma ==
  ASSUME ListIInv, NEW c \in Client
  PROVE  /\ Before(c) \in Seq(Node) /\ Ascending(Before(c))
         /\ Range(Before(c)) = Passed(c)
<1> DEFINE n == Len(plist)
           i == Position(c)
           l == Before(c)
<1>1. /\ n \in Nat /\ DOMAIN plist = 1 .. n
      /\ \A j \in 1 .. n : plist[j] \in Node /\ plist[j].ip \in Nat
  BY NodesOf DEF ListIInv
<1>2. /\ i \in 1 .. n + 1
      /\ i = n + 1 \/ plist[i].mac = c
      /\ \A j \in 1 .. i - 1 : plist[j].mac # c
  BY PositionLemma DEF ListIInv
<1>3. \A j, k \in 1 .. n : j < k => plist[j].ip < plist[k].ip
  BY <1>1 DEF ListIInv, Ascending
<1>4. l = SubSeq(plist, 1, i - 1)
  BY DEF Before
<1>5. \A x : x \in pool <=> \E j \in 1 .. n : plist[j] = x
  BY <1>1 DEF ListIInv, Range
<1> HIDE DEF n, i, l
<1>6. l \in Seq(Node) /\ Len(l) = i - 1 /\ \A j \in 1 .. i - 1 : l[j] = plist[j]
  <2>1. /\ SubSeq(plist, 1, i - 1) \in Seq(Node)
        /\ Len(SubSeq(plist, 1, i - 1))
             = IF 1 <= i - 1 THEN (i - 1) - 1 + 1 ELSE 0
        /\ \A j \in 1 .. (i - 1) - 1 + 1 :
             SubSeq(plist, 1, i - 1)[j] = plist[1 + j - 1]
    <3>1. \A j \in 1 .. i - 1 : plist[j] \in Node
      BY <1>1, <1>2
    <3>2. 1 \in Int /\ i - 1 \in Int
      BY <1>1, <1>2
    <3> QED BY <3>1, <3>2, SubSeqProperties
  <2> QED BY <1>1, <1>2, <1>4, <2>1
<1>7. DOMAIN l = 1 .. i - 1
  BY <1>6, LenProperties
<1>8. Ascending(l)
  BY <1>1, <1>2, <1>3, <1>6, <1>7 DEF Ascending
<1>9. ASSUME NEW j \in 1 .. i - 1 PROVE plist[j] \in Passed(c)
  <2>1. j \in 1 .. n
    BY <1>1, <1>2
  <2>2. ASSUME NEW m \in pool, m.mac = c PROVE plist[j].ip < m.ip
    <3>1. PICK k \in 1 .. n : plist[k] = m
      BY <1>5
    <3>2. ~(k < i)
      BY <1>1, <1>2, <2>2, <3>1
    <3>3. j < k
      BY <1>1, <1>2, <3>2
    <3> QED BY <1>3, <2>1, <3>1, <3>3
  <2>3. plist[j] \in pool
    BY <1>5, <2>1
  <2> QED BY <2>2, <2>3 DEF Passed
<1>10. ASSUME NEW x \in Passed(c) PROVE x \in Range(l)
  <2>1. x \in pool /\ \A m \in pool : m.mac = c => x.ip < m.ip
    BY DEF Passed
  <2>2. PICK j \in 1 .. n : plist[j] = x
    BY <1>5, <2>1
  <2>3. j < i
    <3> SUFFICES ASSUME i <= j PROVE FALSE
      BY <1>1, <1>2
    <3>1. i \in 1 .. n /\ plist[i].mac = c /\ plist[i] \in pool
      BY <1>1, <1>2, <1>5
    <3>2. plist[j].ip < plist[i].ip
      BY <2>1, <2>2, <3>1
    <3> QED BY <1>1, <1>3, <3>1, <3>2
  <2>4. j \in 1 .. i - 1
    BY <1>1, <1>2, <2>3
  <2> QED BY <1>6, <1>7, <2>2, <2>4 DEF Range
<1>11. Range(l) = Passed(c)
  <2>1. \A x \in Range(l) : x \in Passed(c)
    BY <1>6, <1>7, <1>9 DEF Range
  <2> QED BY <1>10, <2>1
<1> QED BY <1>6, <1>8, <1>11 DEF l

\* The list finds the address that Dhcp chooses.
LEMMA ListChosenLemma ==
  ASSUME ListIInv, NEW c \in Client
  PROVE  ListChosen = Chosen(c)
<1>1. plist = <<>> <=> pool = {}
  <2>1. CASE plist = <<>>
    BY <2>1 DEF ListIInv, Range
  <2>2. CASE plist # <<>>
    <3>1. 1 \in 1 .. Len(plist)
      BY <2>2, EmptySeq DEF ListIInv
    <3>2. plist[1] \in pool
      BY <3>1, NodesOf DEF ListIInv
    <3> QED BY <2>2, <3>2
  <2> QED BY <2>1, <2>2
<1>2. WalkPlus(plist, plus) = Skip(plus, pool)
  BY WalkLemma DEF ListIInv, IInv, TypeOK
<1>3. FirstUnused(plist) = Skip(1, pool)
  BY FirstUnusedLemma DEF ListIInv
<1> QED BY <1>1, <1>2, <1>3 DEF ListChosen, Chosen

\* dhcps_tmr goes through the whole list and frees no node but those whose
\* time is over.
LEMMA ListTickLemma ==
  ASSUME plist \in Seq(Node), Ascending(plist), Range(plist) = pool
  PROVE  /\ ListTick \in Seq(Node) /\ Ascending(ListTick)
         /\ Range(ListTick) = dhcps_tmr
<1> DEFINE n == Len(plist)
           empty == <<>>
           Down(x) == [x EXCEPT !.left = @ - 1]
           Turn(i, v) ==
             IF plist[i].left - 1 = 0 THEN v ELSE Append(v, Down(plist[i]))
           F == [i \in 1 .. n |-> [v \in Seq(Node) |-> Turn(i, v)]]
           f == CHOOSE g : g =
                  [i \in 0 .. n |-> IF i = 0 THEN empty ELSE Turn(i, g[i - 1])]
           Kept(k) == {Down(plist[i]) : i \in {i \in 1 .. k : plist[i].left > 1}}
<1>1. /\ n \in Nat /\ DOMAIN plist = 1 .. n
      /\ \A i \in 1 .. n : plist[i] \in Node
  BY NodesOf
<1>2. \A i, j \in 1 .. n : i < j => plist[i].ip < plist[j].ip
  BY <1>1 DEF Ascending
<1>3. ListTick = f[n]
  BY DEF ListTick
<1>4. \A x \in Node : /\ x.left # 1 => Down(x) \in Node
                      /\ Down(x).ip = x.ip /\ x.ip \in Nat
                      /\ x.left \in Nat \ {0}
  BY DhcpAssumption, SMTT(30) DEF Node, Addr
<1>5. empty \in Seq(Node) /\ Ascending(empty) /\ Range(empty) = {}
  BY EmptySeq DEF Ascending, Range
<1>6. dhcps_tmr = Kept(n)
  <2>1. \A x : x \in pool <=> \E j \in 1 .. n : plist[j] = x
    BY <1>1 DEF Range
  <2>2. dhcps_tmr = {Down(m) : m \in {m \in pool : m.left > 1}}
    BY DEF dhcps_tmr
  <2> HIDE DEF Down, n
  <2> QED BY <2>1, <2>2
<1>7. \A i \in 1 .. n, v \in Seq(Node) : Turn(i, v) \in Seq(Node)
  <2> SUFFICES ASSUME NEW i \in 1 .. n, NEW v \in Seq(Node)
               PROVE  Turn(i, v) \in Seq(Node)
    OBVIOUS
  <2> HIDE DEF Down
  <2>1. CASE plist[i].left - 1 = 0
    BY <2>1
  <2>2. CASE plist[i].left - 1 # 0
    <3>1. plist[i] \in Node /\ plist[i].left # 1
      BY <1>1, <1>4, <2>2
    <3>2. Down(plist[i]) \in Node
      BY <1>4, <3>1
    <3> QED BY <2>2, <3>2, AppendProperties
  <2> QED BY <2>1, <2>2
<1>8. \A i \in 1 .. n, v \in Seq(Node) :
        \/ plist[i].left = 1 /\ Turn(i, v) = v
        \/ plist[i].left > 1 /\ Turn(i, v) = Append(v, Down(plist[i]))
  <2> SUFFICES ASSUME NEW i \in 1 .. n, NEW v
               PROVE  \/ plist[i].left = 1 /\ Turn(i, v) = v
                      \/ plist[i].left > 1 /\ Turn(i, v) = Append(v, Down(plist[i]))
    OBVIOUS
  <2> HIDE DEF Down
  <2>1. plist[i].left \in Nat \ {0}
    BY <1>1, <1>4
  <2> QED BY <2>1
<1> HIDE DEF n, empty, Down, Turn, Kept
<1>9. PICK g : IsHistory(g, n, Seq(Node), empty, F)
  <2>1. F \in Turns(n, Seq(Node))
    BY <1>7 DEF Turns
  <2> HIDE DEF F, f
  <2> QED BY ONLY <1>1, <1>5, <2>1, LoopHistory
<1>10. g = [i \in 0 .. n |-> IF i = 0 THEN empty ELSE Turn(i, g[i - 1])]
  <2>1. g \in [0 .. n -> Seq(Node)] /\ g[0] = empty
    BY <1>9 DEF IsHistory
  <2>2. \A i \in 1 .. n : g[i - 1] \in Seq(Node)
    BY <1>1, <2>1
  <2>3. \A i \in 1 .. n : g[i] = Turn(i, g[i - 1])
    BY <1>9, <2>2 DEF IsHistory
  <2> HIDE DEF f, F
  <2> QED BY <1>1, <2>1, <2>3
<1>11. f[0] = empty /\ \A i \in 1 .. n : f[i] = Turn(i, f[i - 1])
  <2>1. f = [i \in 0 .. n |-> IF i = 0 THEN empty ELSE Turn(i, f[i - 1])]
    BY <1>10
  <2> HIDE DEF f, F
  <2> QED BY <1>1, <2>1
<1> HIDE DEF F, f
<1> DEFINE S == {k \in 0 .. n : /\ f[k] \in Seq(Node) /\ Ascending(f[k])
                                /\ Range(f[k]) = Kept(k)}
<1>12. 0 \in S
  <2>1. Kept(0) = {}
    BY DEF Kept
  <2>2. f[0] \in Seq(Node) /\ Ascending(f[0]) /\ Range(f[0]) = Kept(0)
    BY ONLY <1>5, <1>11, <2>1
  <2> QED BY <1>1, <2>2
<1>13. ASSUME NEW k \in 1 .. n, k - 1 \in S PROVE k \in S
  <2>1. /\ f[k - 1] \in Seq(Node) /\ Ascending(f[k - 1])
        /\ Range(f[k - 1]) = Kept(k - 1)
    BY <1>13
  <2>2. plist[k] \in Node /\ plist[k].left \in Nat \ {0}
    BY <1>1, <1>4
  <2>3. f[k] = Turn(k, f[k - 1])
    BY <1>11
  <2>4. CASE plist[k].left = 1
    <3>1. f[k] = f[k - 1]
      BY <1>8, <2>1, <2>3, <2>4
    <3>2. Kept(k) = Kept(k - 1)
      BY <1>1, <2>4 DEF Kept
    <3> QED BY <2>1, <3>1, <3>2
  <2>5. CASE plist[k].left > 1
    <3>1. f[k] = Append(f[k - 1], Down(plist[k]))
      BY <1>8, <2>1, <2>3, <2>5
    <3>2. Down(plist[k]) \in Node /\ Down(plist[k]).ip = plist[k].ip
      BY <1>4, <2>2, <2>5
    <3>3. ASSUME NEW x \in Kept(k - 1) PROVE x.ip < Down(plist[k]).ip
      <4>1. PICK i \in 1 .. k - 1 : x = Down(plist[i])
        BY DEF Kept
      <4>2. i \in 1 .. n /\ i < k /\ plist[i] \in Node
        BY <1>1
      <4>3. plist[i].ip < plist[k].ip /\ x.ip = plist[i].ip
        BY <1>2, <1>4, <4>1, <4>2
      <4> QED BY <3>2, <4>3
    <3>4. /\ Append(f[k - 1], Down(plist[k])) \in Seq(Node)
          /\ Ascending(Append(f[k - 1], Down(plist[k])))
          /\ Range(Append(f[k - 1], Down(plist[k])))
               = Range(f[k - 1]) \cup {Down(plist[k])}
      BY <2>1, <3>2, <3>3, AppendNode
    <3>5. Kept(k) = Kept(k - 1) \cup {Down(plist[k])}
      <4>1. {i \in 1 .. k : plist[i].left > 1}
              = {i \in 1 .. k - 1 : plist[i].left > 1} \cup {k}
        BY <1>1, <2>5
      <4> QED BY <4>1 DEF Kept
    <3>6. f[k] \in Seq(Node) /\ Ascending(f[k]) /\ Range(f[k]) = Kept(k)
      BY ONLY <2>1, <3>1, <3>4, <3>5
    <3> QED BY <1>1, <3>6
  <2> QED BY <2>2, <2>4, <2>5
<1>14. n \in S
  <2> HIDE DEF S
  <2>1. \A k \in 1 .. n : k - 1 \in S => k \in S
    BY <1>13
  <2>2. \A k \in 0 .. n : k \in S
    BY ONLY <1>1, <1>12, <2>1, UpTo
  <2> QED BY <1>1, <2>2
<1> QED BY <1>3, <1>6, <1>14

\* The list part of the invariant, for a step that leaves list l and set S.
Holds(l, S) == l \in Seq(Node) /\ Ascending(l) /\ Range(l) = S

\* A client in the list: its node is renewed or removed.
LEMMA ListKnown ==
  ASSUME ListIInv, HandleKnown
  PROVE  Holds(parse_msg(Head(req)), pool')
<1>1. PICK m \in Request : m = Head(req)
  BY TailLemma DEF ListIInv, IInv, TypeOK, HandleKnown
<1>2. PICK x \in pool :
        /\ x.mac = m.c
        /\ pool' = (pool \ {x}) \cup Keep(m, State(m, x.ip, m.ciaddr = x.ip), x.ip)
  BY <1>1 DEF HandleKnown
<1> DEFINE i == Position(m.c)
           state == State(m, x.ip, m.ciaddr = x.ip)
           new == [plist[i] EXCEPT !.left = Lease]
<1>3. /\ Len(plist) \in Nat
      /\ \A j \in 1 .. Len(plist) : plist[j] \in Node /\ plist[j] \in pool
      /\ \A y : y \in pool <=> \E j \in 1 .. Len(plist) : plist[j] = y
  BY NodesOf DEF ListIInv, Range
<1>4. m.c \in Client
  BY DEF Request
<1>5. i \in 1 .. Len(plist) /\ plist[i] = x
  <2>1. /\ i \in 1 .. Len(plist) + 1
        /\ i = Len(plist) + 1 \/ plist[i].mac = m.c
        /\ \A j \in 1 .. i - 1 : plist[j].mac # m.c
    BY <1>4, PositionLemma DEF ListIInv
  <2>2. PICK j \in 1 .. Len(plist) : plist[j] = x
    BY <1>3
  <2> HIDE DEF i
  <2>3. i \in 1 .. Len(plist) /\ plist[i].mac = m.c
    BY <1>2, <1>3, <2>1, <2>2
  <2> QED BY <1>2, <1>3, <2>3 DEF ListIInv, IInv, PoolSound
<1>6. x \in Node /\ new \in Node /\ new.ip = x.ip
      /\ new = [ip |-> x.ip, mac |-> m.c, left |-> Lease]
  <2>1. x \in Node
    BY DEF ListIInv, IInv, TypeOK
  <2> QED BY <1>2, <1>5, <2>1, DhcpAssumption DEF Node
<1>7. parse_msg(m) = IF state \in {"RELEASE", "NAK"} THEN RemoveAt(plist, i)
                     ELSE [plist EXCEPT ![i] = new]
  <2>1. parse_msg(m) =
          IF i <= Len(plist)
          THEN IF State(m, plist[i].ip, m.ciaddr = plist[i].ip)
                    \in {"RELEASE", "NAK"}
               THEN RemoveAt(plist, i)
               ELSE [plist EXCEPT ![i] = new]
          ELSE IF \/ ListChosen > N
                  \/ State(m, ListChosen, FALSE) \in {"RELEASE", "NAK"}
               THEN plist
               ELSE Insert(plist, [ip |-> ListChosen, mac |-> m.c, left |-> Lease])
    BY DEF parse_msg
  <2>2. i <= Len(plist)
    BY <1>3, <1>5
  <2>3. State(m, plist[i].ip, m.ciaddr = plist[i].ip) = state
    BY <1>5
  <2> HIDE DEF i, new, state
  <2> QED BY <2>1, <2>2, <2>3
<1>8. pool' = IF state \in {"RELEASE", "NAK"} THEN pool \ {x}
              ELSE (pool \ {x}) \cup {new}
  BY <1>2, <1>6 DEF Keep
<1> HIDE DEF i, state, new
<1>9. /\ RemoveAt(plist, i) \in Seq(Node) /\ Ascending(RemoveAt(plist, i))
      /\ Range(RemoveAt(plist, i)) = pool \ {x}
  BY <1>5, RemoveNode DEF ListIInv
<1>10. /\ [plist EXCEPT ![i] = new] \in Seq(Node)
       /\ Ascending([plist EXCEPT ![i] = new])
       /\ Range([plist EXCEPT ![i] = new]) = (pool \ {x}) \cup {new}
  <2>1. /\ plist \in Seq(Node) /\ Ascending(plist) /\ i \in 1 .. Len(plist)
        /\ new \in Node /\ new.ip = plist[i].ip
    BY <1>5, <1>6 DEF ListIInv
  <2>2. /\ [plist EXCEPT ![i] = new] \in Seq(Node)
        /\ Ascending([plist EXCEPT ![i] = new])
        /\ Range([plist EXCEPT ![i] = new]) = (Range(plist) \ {plist[i]}) \cup {new}
    BY ONLY <2>1, RenewNode, ZenonT(60)
  <2> QED BY <1>5, <2>2 DEF ListIInv
<1>11. Holds(parse_msg(m), pool')
  BY ONLY <1>7, <1>8, <1>9, <1>10 DEF Holds
<1> QED BY <1>1, <1>11

\* A client that is not in the list: a node is inserted, or there is no room.
LEMMA ListNew ==
  ASSUME ListIInv, HandleNew \/ HandleNone
  PROVE  Holds(parse_msg(Head(req)), pool')
<1>1. PICK m \in Request : m = Head(req)
  BY TailLemma DEF ListIInv, IInv, TypeOK, HandleNew, HandleNone
<1> DEFINE ip == Chosen(m.c)
           state == State(m, ip, FALSE)
           new == [ip |-> ip, mac |-> m.c, left |-> Lease]
<1>2. m.c \in Client /\ ~Known(m.c)
  BY <1>1 DEF Request, HandleNew, HandleNone
<1>3. ~(Position(m.c) <= Len(plist))
  <2>1. /\ Position(m.c) \in 1 .. Len(plist) + 1
        /\ Position(m.c) = Len(plist) + 1 \/ plist[Position(m.c)].mac = m.c
        /\ Len(plist) \in Nat
    BY <1>2, PositionLemma DEF ListIInv
  <2>2. \A j \in 1 .. Len(plist) : plist[j] \in pool
    BY NodesOf DEF ListIInv
  <2> QED BY <1>2, <2>1, <2>2 DEF Known
<1>4. ListChosen = ip /\ ip \in 1 .. N + 1 /\ ip \notin Ips(pool)
  BY <1>2, ListChosenLemma, ChosenLemma DEF ListIInv, IInv
<1>5. parse_msg(m) = IF ip > N \/ state \in {"RELEASE", "NAK"} THEN plist
                     ELSE Insert(plist, new)
  BY <1>3, <1>4 DEF parse_msg
<1>6. CASE HandleNew
  <2>1. ip <= N /\ pool' = pool \cup Keep(m, state, ip)
    BY <1>1, <1>6 DEF HandleNew
  <2>2. ip \in 1 .. N /\ ~(ip > N) /\ new \in Node /\ new.ip = ip
    BY <1>2, <1>4, <2>1, DhcpAssumption DEF Node, Addr
  <2>3. CASE state \in {"RELEASE", "NAK"}
    BY <1>1, <1>5, <2>1, <2>3 DEF Keep, Holds, ListIInv
  <2>4. CASE state \notin {"RELEASE", "NAK"}
    <3>1. pool' = pool \cup {new} /\ parse_msg(m) = Insert(plist, new)
      BY <1>5, <2>1, <2>2, <2>4 DEF Keep
    <3> HIDE DEF new, ip
    <3>2. /\ Insert(plist, new) \in Seq(Node) /\ Ascending(Insert(plist, new))
          /\ Range(Insert(plist, new)) = pool \cup {new}
      BY <1>4, <2>2, InsertNode DEF ListIInv
    <3> QED BY <1>1, <3>1, <3>2 DEF Holds
  <2> QED BY <2>3, <2>4
<1>7. CASE HandleNone
  <2>1. ip > N /\ pool' = pool
    BY <1>1, <1>7 DEF HandleNone
  <2> QED BY <1>1, <1>5, <2>1 DEF Holds, ListIInv
<1> QED BY <1>6, <1>7

LEMMA ListInitInv == ListInit => ListIInv
<1> SUFFICES ASSUME ListInit PROVE ListIInv
  OBVIOUS
<1>1. plist = <<>> /\ pool = {}
  BY DEF ListInit, Init
<1>2. plist \in Seq(Node) /\ Ascending(plist) /\ Range(plist) = pool
  BY <1>1, EmptySeq DEF Ascending, Range
<1> QED BY <1>2, InitInv DEF ListInit, ListIInv

LEMMA ListNextInv == ListIInv /\ [ListNext]_listVars => ListIInv'
<1> SUFFICES ASSUME ListIInv, [ListNext]_listVars PROVE ListIInv'
  OBVIOUS
<1>1. [Next]_vars
  BY DEF ListNext, Next, listVars
<1>2. IInv'
  BY <1>1, NextInv DEF ListIInv
<1>3. Holds(plist', pool')
  <2>1. CASE handle_dhcp /\ plist' = parse_msg(Head(req))
    BY <2>1, ListKnown, ListNew DEF handle_dhcp
  <2>2. CASE Tick /\ plist' = ListTick
    <3>1. pool' = dhcps_tmr
      BY <2>2 DEF Tick
    <3> QED BY <2>2, <3>1, ListTickLemma DEF Holds, ListIInv
  <2>3. CASE Restart /\ plist' = <<>>
    <3>1. plist' = <<>> /\ pool' = {}
      BY <2>3 DEF Restart
    <3>2. <<>> \in Seq(Node) /\ Ascending(<<>>) /\ Range(<<>>) = {}
      BY EmptySeq DEF Ascending, Range
    <3> QED BY <3>1, <3>2 DEF Holds
  <2>4. CASE UNCHANGED <<pool, plist>>
    BY <2>4 DEF Holds, ListIInv
  <2>5. ASSUME LoseRequest \/ LoseReply \/ \E c \in Client : ClientStep(c)
        PROVE  pool' = pool
    BY <2>5 DEF LoseRequest, LoseReply, ClientStep, Discover, Reboot, Inform,
       Renew, Release, Retry, GiveUp, TakeOffer, TakeAck, TakeNak, Decline,
       serverVars
  <2>6. UNCHANGED listVars => UNCHANGED <<pool, plist>>
    BY DEF listVars, vars
  <2> QED BY <2>1, <2>2, <2>3, <2>4, <2>5, <2>6 DEF ListNext
<1> QED BY <1>2, <1>3 DEF Holds, ListIInv

LEMMA ListInvariance == ListSpec => []ListIInv
BY ListInitInv, ListNextInv, PTL DEF ListSpec

\* The server with its linked list is the server Dhcp describes, so what is
\* proved of Dhcp holds for it too.
THEOREM ListImplementsPool == ListSpec => Spec
<1>1. ListInit => Init
  BY DEF ListInit
<1>2. [ListNext]_listVars => [Next]_vars
  BY DEF ListNext, Next, listVars
<1> QED BY <1>1, <1>2, PTL DEF ListSpec, Spec

\* After any number of insertions, removals and expiries plist is sorted and
\* holds exactly the nodes of pool.
THEOREM ListAlwaysAgrees == ListSpec => []ListAgrees
<1>1. ListIInv => ListAgrees
  <2> SUFFICES ASSUME ListIInv PROVE ListAgrees
    OBVIOUS
  <2>1. /\ Len(plist) \in Nat
        /\ \A i, j \in 1 .. Len(plist) : i < j => plist[i].ip < plist[j].ip
    BY NodesOf, OrderOf DEF ListIInv
  <2>2. \A i \in 1 .. Len(plist) - 1 : plist[i].ip < plist[i + 1].ip
    BY <2>1
  <2> QED BY <2>2 DEF ListAgrees, ListIInv
<1> QED BY <1>1, ListInvariance, PTL

\* The walk of client_address_plus and the search for the first unused address
\* find over the list what Dhcp's choice says they find in the set.
THEOREM LoopsAlwaysAgree == ListSpec => []LoopsAgree
<1>1. ListIInv => LoopsAgree
  <2> SUFFICES ASSUME ListIInv PROVE LoopsAgree
    OBVIOUS
  <2>1. ASSUME NEW c \in Client
        PROVE  WalkPlus(Before(c), plus) = Skip(plus, Passed(c))
    <3>1. plus \in 1 .. N + 1
      BY DEF ListIInv, IInv, TypeOK
    <3>2. /\ Before(c) \in Seq(Node) /\ Ascending(Before(c))
          /\ Range(Before(c)) = Passed(c)
      BY BeforeLemma
    <3> QED BY <3>1, <3>2, WalkLemma
  <2>2. FirstUnused(plist) = Skip(1, pool)
    BY FirstUnusedLemma DEF ListIInv
  <2> QED BY <2>1, <2>2 DEF LoopsAgree
<1> QED BY <1>1, ListInvariance, PTL
=============================================================================
