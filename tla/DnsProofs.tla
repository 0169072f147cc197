------------------------------- MODULE DnsProofs -------------------------------
(***************************************************************************)
(* Proofs about the DNS proxy, for any buffers, requests and queue length. *)
(***************************************************************************)
EXTENDS DnsProxy, DataLemmas

\* A step that puts one buffer into one place and moves no other.
LEMMA MoveLemma ==
  ASSUME NEW p \in Pbuf, NEW b \in Places,
         \A c \in Places : At(p, c)' <=> c = b,
         \A q \in Pbuf \ {p}, c \in Places : At(q, c)' <=> At(q, c),
         \A q \in Pbuf : OnePlace(q)
  PROVE  \A q \in Pbuf : OnePlace(q)'
<1> SUFFICES ASSUME NEW q \in Pbuf PROVE OnePlace(q)'
  OBVIOUS
<1>1. CASE q = p
  BY <1>1 DEF OnePlace
<1>2. CASE q # p
  <2>1. PICK d \in Places : \A c \in Places : At(q, c) <=> c = d
    BY DEF OnePlace
  <2> QED BY <1>2, <2>1 DEF OnePlace
<1> QED BY <1>1, <1>2

\* A buffer in one place is in no other.
LEMMA Apart ==
  ASSUME NEW p \in Pbuf, OnePlace(p), NEW a \in Places, At(p, a)
  PROVE  \A c \in Places : At(p, c) <=> c = a
BY DEF OnePlace

\* A step that moves no buffer.
LEMMA StayInv ==
  ASSUME Ownership, UNCHANGED <<free_chain, free_pbuf_q, others, core_p, dns_q, dns_p>>
  PROVE  Ownership'
BY DEF Ownership, OnePlace, At

\* Requesting the release of the buffer that pdns_recv, the thread or another
\* part of the bridge holds.
LEMMA ReleaseLemma ==
  ASSUME IInv, NEW p \in Pbuf, NEW a \in {"others", "pdns_recv", "thread"}, At(p, a),
         free_pbuf_q' = Append(free_pbuf_q, p),
         UNCHANGED <<free_chain, dns_q>>,
         others' = IF a = "others" THEN others \ {p} ELSE others,
         core_p' = IF a = "pdns_recv" THEN NoPbuf ELSE core_p,
         dns_p' = IF a = "thread" THEN NoPbuf ELSE dns_p
  PROVE  Ownership' /\ free_pbuf_q' \in Seq(Pbuf) /\ p \notin Range(dns_q)
<1>1. \A c \in Places : At(p, c) <=> c = a
  BY Apart DEF IInv, Ownership, Places
<1>2. p \notin Range(free_pbuf_q) /\ p \notin Range(dns_q)
  BY <1>1 DEF At, Places
<1>3. /\ free_pbuf_q' \in Seq(Pbuf) /\ IsInjective(free_pbuf_q')
      /\ Range(free_pbuf_q') = Range(free_pbuf_q) \cup {p}
  BY <1>2, PushLemma DEF IInv, TypeOK, Ownership
<1>4. \A c \in Places : At(p, c)' <=> c = "free_pbuf_q"
  BY <1>1, <1>3, DnsAssumption DEF At, Places
<1>5. \A q \in Pbuf \ {p}, c \in Places : At(q, c)' <=> At(q, c)
  <2> SUFFICES ASSUME NEW q \in Pbuf \ {p}, NEW c \in Places
               PROVE  At(q, c)' <=> At(q, c)
    OBVIOUS
  <2>1. q # NoPbuf /\ (a = "pdns_recv" => core_p = p) /\ (a = "thread" => dns_p = p)
    BY DnsAssumption DEF At
  <2> QED BY <1>3, <2>1 DEF At, Places
<1>6. \A q \in Pbuf : OnePlace(q)'
  BY <1>4, <1>5, MoveLemma DEF IInv, Ownership, Places
<1> QED BY <1>2, <1>3, <1>6 DEF IInv, Ownership

-----------------------------------------------------------------------------
(***************************************************************************)
(* pdns_recv                                                               *)
(***************************************************************************)
LEMMA RecvInv ==
  ASSUME IInv, NEW r \in Request, Recv(r)
  PROVE  IInv'
<1> USE DEF poolVars, queueVars, dnsVars
<1>1. TypeOK' /\ QueueCounted' /\ WakeupKept'
  BY DEF IInv, TypeOK, QueueCounted, WakeupKept, Recv
<1>2. Ownership'
  BY StayInv DEF IInv, Recv
<1>3. Holds'
  BY DEF IInv, Holds, Recv
<1> QED BY <1>1, <1>2, <1>3 DEF IInv

LEMMA AllocInv ==
  ASSUME IInv, Alloc
  PROVE  IInv'
<1> USE DEF poolVars, queueVars, dnsVars
<1>1. PICK p \in free_chain : free_chain' = free_chain \ {p} /\ core_p' = p
  BY DEF Alloc
<1>2. p \in Pbuf /\ p # NoPbuf /\ core_p = NoPbuf /\ core_pc = "alloc" /\ core_pc' = "decode"
  BY DnsAssumption DEF IInv, TypeOK, Holds, Alloc
<1>3. UNCHANGED <<free_pbuf_q, others, rec, dns_q, q_len, pending, core_req,
                  dns_pc, dns_p, query, answered>>
  BY DEF Alloc
<1>4. TypeOK' /\ QueueCounted' /\ WakeupKept'
  BY <1>1, <1>2, <1>3 DEF IInv, TypeOK, QueueCounted, WakeupKept
<1>5. Ownership'
  <2>1. \A c \in Places : At(p, c) <=> c = "free_chain"
    BY <1>2, Apart DEF IInv, Ownership, At, Places
  <2>2. \A c \in Places : At(p, c)' <=> c = "pdns_recv"
    BY <1>1, <1>2, <1>3, <2>1 DEF At, Places
  <2>3. \A q \in Pbuf \ {p}, c \in Places : At(q, c)' <=> At(q, c)
    BY <1>1, <1>2, <1>3, DnsAssumption DEF At, Places
  <2>4. \A q \in Pbuf : OnePlace(q)'
    BY <1>2, <2>2, <2>3, MoveLemma DEF IInv, Ownership, Places
  <2> QED BY <1>3, <2>4 DEF IInv, Ownership
<1>6. Holds'
  BY <1>1, <1>2, <1>3 DEF IInv, Holds
<1> QED BY <1>4, <1>5, <1>6 DEF IInv

LEMMA DecodeInv ==
  ASSUME IInv, Decode
  PROVE  IInv'
<1> USE DEF queueVars, dnsVars
<1>1. PICK p \in Pbuf : p = core_p /\ core_pc = "decode" /\ At(p, "pdns_recv")
  BY DEF IInv, TypeOK, Holds, Decode, At
<1>2. UNCHANGED <<dns_q, q_len, pending, dns_pc, dns_p, query, answered>>
  BY DEF Decode
<1>3. \A c \in Places : At(p, c) <=> c = "pdns_recv"
  BY <1>1, Apart DEF IInv, Ownership, Places
<1>4. p \notin Range(dns_q) /\ p # dns_p
  BY <1>3 DEF At, Places
<1>5. CASE /\ rec' = [rec EXCEPT ![core_p] = core_req] /\ core_pc' = "add"
           /\ UNCHANGED <<poolVars, core_p, core_req>>
  <2>1. TypeOK' /\ QueueCounted' /\ WakeupKept'
    BY <1>1, <1>2, <1>5 DEF IInv, TypeOK, QueueCounted, WakeupKept, poolVars
  <2>2. Ownership'
    BY <1>2, <1>5, StayInv DEF IInv, poolVars
  <2>3. rec'[p] = core_req /\ \A q \in Pbuf \ {p} : rec'[q] = rec[q]
    BY <1>1, <1>5 DEF IInv, TypeOK
  <2>4. dns_p \in Pbuf \/ dns_p = NoPbuf
    BY DEF IInv, TypeOK
  <2>5. \A i \in DOMAIN dns_q : dns_q[i] \in Pbuf \ {p}
    BY <1>4, ElementOfSeq, LenProperties DEF IInv, TypeOK, Range
  <2>6. Holds'
    BY <1>1, <1>2, <1>4, <1>5, <2>3, <2>4, <2>5 DEF IInv, Holds
  <2> QED BY <2>1, <2>2, <2>6 DEF IInv
<1>6. CASE /\ FreeRequest(core_p) /\ core_pc' = "idle" /\ core_p' = NoPbuf
           /\ core_req' = NoRec /\ UNCHANGED rec
  <2>1. Ownership' /\ free_pbuf_q' \in Seq(Pbuf)
    BY <1>1, <1>2, <1>6, ReleaseLemma DEF FreeRequest
  <2>2. TypeOK' /\ QueueCounted' /\ WakeupKept'
    BY <1>2, <1>6, <1>1, <2>1 DEF IInv, TypeOK, QueueCounted, WakeupKept, FreeRequest
  <2>3. Holds'
    BY <1>2, <1>6, DnsAssumption DEF IInv, Holds, NoRec
  <2> QED BY <2>1, <2>2, <2>3 DEF IInv
<1> QED BY <1>5, <1>6 DEF Decode

LEMMA AddInv ==
  ASSUME IInv, Add
  PROVE  IInv'
<1> USE DEF dnsVars
<1>1. PICK p \in Pbuf : p = core_p /\ core_pc = "add" /\ At(p, "pdns_recv")
  BY DEF IInv, TypeOK, Holds, Add, At
<1>2. /\ UNCHANGED <<rec, pending, core_req, dns_pc, dns_p, query, answered>>
      /\ core_pc' = "notify" /\ core_p' = NoPbuf
  BY DEF Add
<1>3. \A c \in Places : At(p, c) <=> c = "pdns_recv"
  BY <1>1, Apart DEF IInv, Ownership, Places
<1>4. p \notin Range(dns_q) /\ rec[p] \in Request
  BY <1>1, <1>3 DEF At, Places, IInv, Holds
<1>5. CASE /\ q_len < QMax /\ dns_q' = Append(dns_q, core_p) /\ q_len' = q_len + 1
           /\ UNCHANGED poolVars
  <2>1. /\ dns_q' \in Seq(Pbuf) /\ IsInjective(dns_q')
        /\ Range(dns_q') = Range(dns_q) \cup {p} /\ Len(dns_q') = Len(dns_q) + 1
    BY <1>1, <1>4, <1>5, PushLemma DEF IInv, TypeOK, Ownership
  <2>2. TypeOK' /\ QueueCounted' /\ WakeupKept'
    BY <1>2, <1>5, <2>1, DnsAssumption DEF IInv, TypeOK, QueueCounted, WakeupKept, poolVars
  <2>3. Ownership'
    <3>1. \A c \in Places : At(p, c)' <=> c = "dns_q"
      BY <1>1, <1>2, <1>3, <1>5, <2>1, DnsAssumption DEF At, Places, poolVars
    <3>2. \A q \in Pbuf \ {p}, c \in Places : At(q, c)' <=> At(q, c)
      BY <1>1, <1>2, <1>5, <2>1, DnsAssumption DEF At, Places, poolVars
    <3>3. \A q \in Pbuf : OnePlace(q)'
      BY <3>1, <3>2, MoveLemma DEF IInv, Ownership, Places
    <3> QED BY <1>5, <2>1, <3>3 DEF IInv, Ownership, poolVars
  <2>4. \A i \in DOMAIN dns_q' : rec[dns_q'[i]] \in Request
    <3>1. \A i \in DOMAIN dns_q' : dns_q'[i] \in Range(dns_q) \cup {p}
      BY <2>1 DEF Range
    <3>2. \A x \in Range(dns_q) : rec[x] \in Request
      BY DEF IInv, Holds, Range
    <3> QED BY <1>4, <3>1, <3>2
  <2>5. Holds'
    BY <1>1, <1>2, <2>4 DEF IInv, Holds
  <2> QED BY <2>2, <2>3, <2>5 DEF IInv
<1>6. CASE FreeRequest(core_p) /\ UNCHANGED queueVars
  <2>1. Ownership' /\ free_pbuf_q' \in Seq(Pbuf)
    BY <1>1, <1>2, <1>6, ReleaseLemma DEF FreeRequest, queueVars
  <2>2. TypeOK' /\ QueueCounted' /\ WakeupKept'
    BY <1>2, <1>6, <2>1 DEF IInv, TypeOK, QueueCounted, WakeupKept, FreeRequest, queueVars
  <2>3. Holds'
    BY <1>1, <1>2, <1>6 DEF IInv, Holds, queueVars
  <2> QED BY <2>1, <2>2, <2>3 DEF IInv
<1> QED BY <1>5, <1>6 DEF Add

LEMMA NotifyInv ==
  ASSUME IInv, Notify
  PROVE  IInv'
<1> USE DEF poolVars, queueVars, dnsVars
<1>1. TypeOK' /\ QueueCounted' /\ WakeupKept'
  BY DEF IInv, TypeOK, QueueCounted, WakeupKept, Notify
<1>2. Ownership'
  BY StayInv DEF IInv, Notify
<1>3. Holds'
  BY DnsAssumption DEF IInv, Holds, Notify, NoRec
<1> QED BY <1>1, <1>2, <1>3 DEF IInv
-----------------------------------------------------------------------------
(***************************************************************************)
(* dnsproxy_thread                                                         *)
(***************************************************************************)
LEMMA WaitInv ==
  ASSUME IInv, Wait
  PROVE  IInv'
<1> USE DEF poolVars, queueVars, coreVars
<1>1. TypeOK' /\ QueueCounted' /\ WakeupKept'
  BY DEF IInv, TypeOK, QueueCounted, WakeupKept, Wait
<1>2. Ownership'
  BY StayInv DEF IInv, Wait
<1>3. Holds'
  BY DEF IInv, Holds, Wait
<1> QED BY <1>1, <1>2, <1>3 DEF IInv

LEMMA GetInv ==
  ASSUME IInv, Get
  PROVE  IInv'
<1> USE DEF poolVars, coreVars
<1>1. UNCHANGED <<poolVars, rec, pending, coreVars, answered>> /\ dns_pc = "get" /\ dns_p = NoPbuf
  BY DEF Get, IInv, Holds
<1>2. CASE dns_q = <<>> /\ dns_pc' = "wait" /\ UNCHANGED <<queueVars, dns_p, query>>
  <2>1. TypeOK' /\ QueueCounted' /\ WakeupKept'
    BY <1>1, <1>2 DEF IInv, TypeOK, QueueCounted, WakeupKept, queueVars
  <2>2. Ownership'
    BY <1>1, <1>2, StayInv DEF IInv, queueVars
  <2>3. Holds'
    BY <1>1, <1>2 DEF IInv, Holds, queueVars
  <2> QED BY <2>1, <2>2, <2>3 DEF IInv
<1>3. CASE /\ dns_q # <<>> /\ dns_q' = Tail(dns_q) /\ q_len' = q_len - 1
           /\ dns_p' = Head(dns_q) /\ query' = rec[Head(dns_q)] /\ dns_pc' = "resolve"
  <2>1. PICK p \in Pbuf : p = Head(dns_q) /\ p \in Range(dns_q)
    BY <1>3, PopLemma DEF IInv, TypeOK, Ownership
  <2>2. /\ dns_q' \in Seq(Pbuf) /\ IsInjective(dns_q')
        /\ Range(dns_q') = Range(dns_q) \ {p}
        /\ Len(dns_q) \in Nat \ {0} /\ Len(dns_q') = Len(dns_q) - 1
    BY <1>3, <2>1, PopLemma DEF IInv, TypeOK, Ownership
  <2>3. \A x \in Range(dns_q) : rec[x] \in Request
    BY DEF IInv, Holds, Range
  <2>4. dns_p' = p /\ query' = rec[p] /\ rec[p] \in Request
    BY <1>3, <2>1, <2>3
  <2>5. TypeOK' /\ QueueCounted' /\ WakeupKept'
    BY <1>1, <1>3, <2>2, <2>4, DnsAssumption DEF IInv, TypeOK, QueueCounted, WakeupKept
  <2>6. Ownership'
    <3>1. \A c \in Places : At(p, c) <=> c = "dns_q"
      BY <2>1, Apart DEF IInv, Ownership, At, Places
    <3>2. \A c \in Places : At(p, c)' <=> c = "thread"
      BY <1>1, <2>2, <2>4, <3>1 DEF At, Places
    <3>3. \A q \in Pbuf \ {p}, c \in Places : At(q, c)' <=> At(q, c)
      BY <1>1, <2>2, <2>4, DnsAssumption DEF At, Places
    <3>4. \A q \in Pbuf : OnePlace(q)'
      BY <3>2, <3>3, MoveLemma DEF IInv, Ownership, Places
    <3> QED BY <1>1, <2>2, <3>4 DEF IInv, Ownership
  <2>7. \A i \in DOMAIN dns_q' : rec[dns_q'[i]] \in Request
    BY <2>2, <2>3 DEF Range
  <2>8. answered = NoAnswer
    BY <1>1 DEF IInv, Holds
  <2>9. Holds'
    BY <1>1, <1>3, <2>4, <2>7, <2>8, DnsAssumption DEF IInv, Holds
  <2> QED BY <2>5, <2>6, <2>9 DEF IInv
<1> QED BY <1>2, <1>3 DEF Get

LEMMA ResolveInv ==
  ASSUME IInv, Resolve
  PROVE  IInv'
<1> USE DEF poolVars, queueVars, coreVars
<1>1. dns_pc = "resolve" /\ dns_pc' \in {"send", "free"}
  BY DEF Resolve
<1>2. UNCHANGED <<poolVars, rec, queueVars, pending, coreVars, dns_p, query, answered>>
  BY DEF Resolve
<1>3. TypeOK' /\ QueueCounted' /\ WakeupKept'
  BY <1>1, <1>2 DEF IInv, TypeOK, QueueCounted, WakeupKept
<1>4. Ownership'
  BY <1>2, StayInv DEF IInv
<1>5. Holds'
  BY <1>1, <1>2 DEF IInv, Holds
<1> QED BY <1>3, <1>4, <1>5 DEF IInv

LEMMA SendInv ==
  ASSUME IInv, Send
  PROVE  IInv'
<1> USE DEF poolVars, queueVars, coreVars
<1>1. dns_p # NoPbuf /\ answered' = [to |-> query, about |-> query] /\ query \in Request
  BY DEF IInv, Holds, Send
<1>2. TypeOK' /\ QueueCounted' /\ WakeupKept'
  BY <1>1 DEF IInv, TypeOK, QueueCounted, WakeupKept, Send
<1>3. Ownership'
  BY StayInv DEF IInv, Send
<1>4. Holds'
  BY <1>1 DEF IInv, Holds, Send
<1> QED BY <1>2, <1>3, <1>4 DEF IInv

LEMMA FreeInv ==
  ASSUME IInv, Free
  PROVE  IInv'
<1> USE DEF queueVars, coreVars
<1>1. PICK p \in Pbuf : p = dns_p /\ At(p, "thread")
  BY DEF IInv, TypeOK, Holds, Free, At
<1>2. Ownership' /\ free_pbuf_q' \in Seq(Pbuf)
  BY <1>1, ReleaseLemma DEF Free, FreeRequest
<1>3. TypeOK' /\ QueueCounted' /\ WakeupKept'
  BY <1>2 DEF IInv, TypeOK, QueueCounted, WakeupKept, Free, FreeRequest, NoAnswer
<1>4. Holds'
  BY DEF IInv, Holds, Free, FreeRequest
<1> QED BY <1>2, <1>3, <1>4 DEF IInv

-----------------------------------------------------------------------------
(***************************************************************************)
(* The rest of the bridge, and the whole                                   *)
(***************************************************************************)
LEMMA FreeBlkInv ==
  ASSUME IInv, FreeBlk
  PROVE  IInv'
<1> USE DEF queueVars, coreVars, dnsVars
<1>1. PICK p \in Pbuf : p = Head(free_pbuf_q) /\ p \in Range(free_pbuf_q)
  BY PopLemma DEF IInv, TypeOK, Ownership, FreeBlk
<1>2. /\ free_pbuf_q' \in Seq(Pbuf) /\ IsInjective(free_pbuf_q')
      /\ Range(free_pbuf_q') = Range(free_pbuf_q) \ {p}
  BY <1>1, PopLemma DEF IInv, TypeOK, Ownership, FreeBlk
<1>3. /\ free_chain' = free_chain \cup {p} /\ rec' = [rec EXCEPT ![p] = NoRec]
      /\ UNCHANGED <<others, queueVars, pending, coreVars, dnsVars>>
  BY <1>1 DEF FreeBlk
<1>4. \A c \in Places : At(p, c) <=> c = "free_pbuf_q"
  BY <1>1, Apart DEF IInv, Ownership, At, Places
<1>5. p # core_p /\ p # dns_p /\ p \notin Range(dns_q)
  BY <1>4 DEF At, Places
<1>6. TypeOK' /\ QueueCounted' /\ WakeupKept'
  BY <1>2, <1>3 DEF IInv, TypeOK, QueueCounted, WakeupKept
<1>7. Ownership'
  <2>1. \A c \in Places : At(p, c)' <=> c = "free_chain"
    BY <1>2, <1>3, <1>4 DEF At, Places
  <2>2. \A q \in Pbuf \ {p}, c \in Places : At(q, c)' <=> At(q, c)
    BY <1>2, <1>3 DEF At, Places
  <2>3. \A q \in Pbuf : OnePlace(q)'
    BY <2>1, <2>2, MoveLemma DEF IInv, Ownership, Places
  <2> QED BY <1>2, <1>3, <2>3 DEF IInv, Ownership
<1>8. \A q \in Pbuf \ {p} : rec'[q] = rec[q]
  BY <1>3 DEF IInv, TypeOK
<1>9. \A i \in DOMAIN dns_q : dns_q[i] \in Pbuf \ {p}
  BY <1>5, ElementOfSeq, LenProperties DEF IInv, TypeOK, Range
<1>10. core_p \in Pbuf \cup {NoPbuf} /\ dns_p \in Pbuf \cup {NoPbuf}
  BY DEF IInv, TypeOK
<1>11. Holds'
  BY <1>3, <1>5, <1>8, <1>9, <1>10 DEF IInv, Holds
<1> QED BY <1>6, <1>7, <1>11 DEF IInv

LEMMA OtherAllocInv ==
  ASSUME IInv, OtherAlloc
  PROVE  IInv'
<1> USE DEF queueVars, coreVars, dnsVars
<1>1. PICK p \in free_chain : free_chain' = free_chain \ {p} /\ others' = others \cup {p}
  BY DEF OtherAlloc
<1>2. p \in Pbuf
  BY DEF IInv, TypeOK
<1>3. UNCHANGED <<free_pbuf_q, rec, queueVars, pending, coreVars, dnsVars>>
  BY DEF OtherAlloc
<1>4. TypeOK' /\ QueueCounted' /\ WakeupKept' /\ Holds'
  BY <1>1, <1>2, <1>3 DEF IInv, TypeOK, QueueCounted, WakeupKept, Holds
<1>5. \A c \in Places : At(p, c) <=> c = "free_chain"
  BY <1>2, Apart DEF IInv, Ownership, At, Places
<1>6. \A c \in Places : At(p, c)' <=> c = "others"
  BY <1>1, <1>3, <1>5 DEF At, Places
<1>7. \A q \in Pbuf \ {p}, c \in Places : At(q, c)' <=> At(q, c)
  BY <1>1, <1>3 DEF At, Places
<1>8. \A q \in Pbuf : OnePlace(q)'
  BY <1>2, <1>6, <1>7, MoveLemma DEF IInv, Ownership, Places
<1> QED BY <1>3, <1>4, <1>8 DEF IInv, Ownership

LEMMA OtherFreeInv ==
  ASSUME IInv, OtherFree
  PROVE  IInv'
<1> USE DEF queueVars, coreVars, dnsVars
<1>1. PICK p \in others : others' = others \ {p} /\ free_pbuf_q' = Append(free_pbuf_q, p)
  BY DEF OtherFree
<1>2. p \in Pbuf /\ At(p, "others")
  BY DEF IInv, TypeOK, At
<1>3. UNCHANGED <<free_chain, rec, queueVars, pending, coreVars, dnsVars>>
  BY DEF OtherFree
<1>4. Ownership' /\ free_pbuf_q' \in Seq(Pbuf)
  BY <1>1, <1>2, <1>3, ReleaseLemma
<1>5. TypeOK' /\ QueueCounted' /\ WakeupKept' /\ Holds'
  BY <1>1, <1>3, <1>4 DEF IInv, TypeOK, QueueCounted, WakeupKept, Holds
<1> QED BY <1>4, <1>5 DEF IInv

LEMMA InitInv == Init => IInv
<1> SUFFICES ASSUME Init PROVE IInv
  OBVIOUS
<1> USE DEF Init
<1>1. TypeOK /\ QueueCounted /\ WakeupKept
  <2>1. q_len \in 0 .. QMax /\ q_len = Len(<<>>)
    BY DnsAssumption
  <2>2. answered \in [to : Request \cup {NoRec}, about : Request \cup {NoRec}]
    BY DEF NoAnswer
  <2>3. free_pbuf_q \in Seq(Pbuf) /\ dns_q \in Seq(Pbuf)
    OBVIOUS
  <2>4. rec \in [Pbuf -> Request \cup {NoRec}]
    OBVIOUS
  <2>5. TypeOK
    BY <2>1, <2>2, <2>3, <2>4 DEF TypeOK
  <2> QED BY <2>1, <2>5 DEF QueueCounted, WakeupKept
<1>2. Range(<<>>) = {} /\ IsInjective(<<>>)
  BY DEF Range, IsInjective
<1>3. \A p \in Pbuf, c \in Places : At(p, c) <=> c = "free_chain"
  BY <1>2, DnsAssumption DEF At, Places
<1>4. Ownership
  BY <1>2, <1>3 DEF Ownership, OnePlace, Places
<1>5. Holds
  BY DnsAssumption DEF Holds, NoRec
<1> QED BY <1>1, <1>4, <1>5 DEF IInv

LEMMA StutterInv ==
  ASSUME IInv, UNCHANGED vars
  PROVE  IInv'
<1> USE DEF vars, poolVars, queueVars, coreVars, dnsVars
<1>1. TypeOK' /\ QueueCounted' /\ WakeupKept' /\ Holds'
  BY DEF IInv, TypeOK, QueueCounted, WakeupKept, Holds
<1>2. Ownership'
  BY StayInv DEF IInv
<1> QED BY <1>1, <1>2 DEF IInv

LEMMA Invariance == Spec => []IInv
<1>1. Init => IInv
  BY InitInv
<1>2. IInv /\ [Next]_vars => IInv'
  <2> SUFFICES ASSUME IInv, [Next]_vars PROVE IInv'
    OBVIOUS
  <2>1. CASE pdns_recv
    BY <2>1, RecvInv, AllocInv, DecodeInv, AddInv, NotifyInv DEF pdns_recv
  <2>2. CASE dnsproxy_thread
    BY <2>2, WaitInv, GetInv, ResolveInv, SendInv, FreeInv DEF dnsproxy_thread
  <2>3. CASE FreeBlk \/ OtherAlloc \/ OtherFree
    BY <2>3, FreeBlkInv, OtherAllocInv, OtherFreeInv
  <2>4. CASE UNCHANGED vars
    BY <2>4, StutterInv
  <2> QED BY <2>1, <2>2, <2>3, <2>4 DEF Next
<1> QED BY <1>1, <1>2, PTL DEF Spec

\* dns_q.q_len, the program counters and the handles of the two tasks stay in
\* their ranges.
THEOREM TypeCorrect == Spec => []TypeOK
<1>1. IInv => TypeOK
  BY DEF IInv
<1> QED BY <1>1, Invariance, PTL

\* On no path of pdns_recv, add_to_custom_queue or dnsproxy_thread is a buffer
\* of the shared pool leaked or released twice.
THEOREM OnePlaceEach == Spec => []Ownership
<1>1. IInv => Ownership
  BY DEF IInv
<1> QED BY <1>1, Invariance, PTL

\* The answer dnsproxy_thread sends goes to the client whose name it resolved.
THEOREM OwnAnswer == Spec => []AnswersOwn
<1>1. IInv => AnswersOwn
  BY DEF IInv, Holds, AnswersOwn, NoAnswer
<1> QED BY <1>1, Invariance, PTL

\* While a request is queued, dnsproxy_thread is at work or will be woken.
THEOREM NeverForgotten == Spec => []WakeupKept
<1>1. IInv => WakeupKept
  BY DEF IInv
<1> QED BY <1>1, Invariance, PTL

-----------------------------------------------------------------------------
(***************************************************************************)
(* Decoding a name and encoding it again                                   *)
(***************************************************************************)
\* g[pos] is what query_decode makes of the labels from byte pos on, if g says
\* so of the bytes behind.
From(q, g, pos) ==
  IF pos > Len(q) THEN Fail
  ELSE IF q[pos] = 0 THEN <<>>
  ELSE IF pos + q[pos] > Len(q) \/ pos + q[pos] >= NameSize THEN Fail
  ELSE IF g[pos + q[pos] + 1] = Fail THEN Fail
  ELSE SubSeq(q, pos + 1, pos + q[pos]) \o <<Dot>> \o g[pos + q[pos] + 1]

\* g decodes q from every byte on.
Decodes(g, q) == \A pos \in 1 .. Len(q) + 1 : g[pos] = From(q, g, pos)

\* One step of the decoding yields a sequence of bytes, or Fail.
LEMMA FromType ==
  ASSUME NEW q \in Seq(Nat), NEW pos \in 1 .. Len(q) + 1,
         NEW g \in [1 .. Len(q) + 1 -> Seq(Int)]
  PROVE  From(q, g, pos) \in Seq(Int)
<1>1. Len(q) \in Nat /\ \A i \in 1 .. Len(q) : q[i] \in Nat
  BY LenProperties, ElementOfSeq
<1>2. Fail \in Seq(Int) /\ <<>> \in Seq(Int) /\ <<Dot>> \in Seq(Int)
  BY DEF Fail, Dot
<1>3. CASE /\ pos <= Len(q) /\ q[pos] # 0 /\ pos + q[pos] <= Len(q)
           /\ g[pos + q[pos] + 1] # Fail
  <2>1. pos + q[pos] + 1 \in 1 .. Len(q) + 1
    BY <1>1, <1>3
  <2>2. \A i \in pos + 1 .. pos + q[pos] : q[i] \in Int
    BY <1>1, <1>3
  <2> DEFINE a == SubSeq(q, pos + 1, pos + q[pos])
             z == g[pos + q[pos] + 1]
             d == <<Dot>>
  <2>3. a \in Seq(Int)
    BY <1>1, <1>3, <2>2, SubSeqProperties
  <2>4. z \in Seq(Int) /\ d \in Seq(Int)
    BY <1>2, <2>1
  <2> HIDE DEF a, z, d
  <2>5. a \o d \o z \in Seq(Int)
    <3>1. a \o d \in Seq(Int)
      BY <2>3, <2>4, ConcatProperties
    <3> QED BY <2>4, <3>1, ConcatProperties
  <2>6. From(q, g, pos) = Fail \/ From(q, g, pos) = a \o d \o z
    BY <1>1, <1>3 DEF From, a, d, z
  <2> QED BY <1>2, <2>5, <2>6
<1>4. CASE ~(/\ pos <= Len(q) /\ q[pos] # 0 /\ pos + q[pos] <= Len(q)
             /\ g[pos + q[pos] + 1] # Fail)
  <2>1. CASE pos > Len(q) \/ q[pos] = 0
    BY <1>2, <2>1 DEF From
  <2>2. CASE ~(pos > Len(q)) /\ q[pos] # 0 /\ pos + q[pos] > Len(q)
    BY <1>2, <2>2 DEF From
  <2>3. CASE /\ ~(pos > Len(q)) /\ q[pos] # 0 /\ ~(pos + q[pos] > Len(q))
             /\ g[pos + q[pos] + 1] = Fail
    BY <1>2, <2>3 DEF From
  <2>4. pos > Len(q) <=> ~(pos <= Len(q))
    BY <1>1
  <2>5. pos <= Len(q) => (pos + q[pos] > Len(q) <=> ~(pos + q[pos] <= Len(q)))
    BY <1>1
  <2> QED BY ONLY <1>4, <2>1, <2>2, <2>3, <2>4, <2>5
<1> QED BY <1>3, <1>4

\* The recursion of query_decode has a solution: it fills in the bytes of q
\* from the last to the first.
LEMMA DecodesExists ==
  ASSUME NEW q \in Seq(Nat)
  PROVE  \E g \in [1 .. Len(q) + 1 -> Seq(Int)] : Decodes(g, q)
<1> DEFINE n == Len(q) + 1
           T == [1 .. n -> Seq(Int)]
           Turn(i, g) == [g EXCEPT ![n + 1 - i] = From(q, g, n + 1 - i)]
           F == [i \in 1 .. n |-> [g \in T |-> Turn(i, g)]]
           b == [pos \in 1 .. n |-> <<>>]
<1>1. n \in Nat /\ Len(q) \in Nat /\ \A i \in 1 .. Len(q) : q[i] \in Nat
  BY LenProperties, ElementOfSeq
<1>2. F \in Turns(n, T)
  <2>1. ASSUME NEW i \in 1 .. n, NEW g \in T PROVE Turn(i, g) \in T
    <3>1. n + 1 - i \in 1 .. n
      BY <1>1
    <3>2. From(q, g, n + 1 - i) \in Seq(Int)
      BY <3>1, FromType
    <3> QED BY <3>2
  <2> HIDE DEF n, T, Turn
  <2> QED BY <2>1 DEF Turns
<1>3. b \in T
  BY EmptySeq
<1> HIDE DEF n, T, b
<1>4. PICK h : IsHistory(h, n, T, b, F)
  <2> HIDE DEF F
  <2> QED BY ONLY <1>1, <1>2, <1>3, LoopHistory
<1>5. h \in [0 .. n -> T] /\ \A i \in 1 .. n : h[i] = Turn(i, h[i - 1])
  <2>1. h \in [0 .. n -> T] /\ \A i \in 1 .. n : h[i] = F[i][h[i - 1]]
    BY <1>4 DEF IsHistory
  <2>2. \A i \in 1 .. n : h[i - 1] \in T
    BY <1>1, <2>1
  <2> HIDE DEF Turn
  <2> QED BY <2>1, <2>2
\* Turn i writes position n + 1 - i and no other.
<1>6. ASSUME NEW i \in 1 .. n
      PROVE  /\ h[i][n + 1 - i] = From(q, h[i - 1], n + 1 - i)
             /\ \A pos \in 1 .. n : pos # n + 1 - i => h[i][pos] = h[i - 1][pos]
  <2>1. h[i] = Turn(i, h[i - 1]) /\ h[i - 1] \in T /\ n + 1 - i \in 1 .. n
    BY <1>1, <1>5
  <2> QED BY <2>1 DEF T
<1> HIDE DEF Turn, F
\* What was written stays.
<1>7. ASSUME NEW j \in 0 .. n
      PROVE  \A k \in 0 .. n - j :
               \A pos \in 1 .. n : pos >= n + 1 - j => h[j + k][pos] = h[j][pos]
  <2> DEFINE S == {k \in 0 .. n - j :
                     \A pos \in 1 .. n : pos >= n + 1 - j =>
                                           h[j + k][pos] = h[j][pos]}
  <2>1. 0 \in S /\ n - j \in Nat
    BY <1>1
  <2>2. ASSUME NEW k \in 1 .. n - j, k - 1 \in S PROVE k \in S
    <3>1. j + k \in 1 .. n /\ j + k - 1 = j + (k - 1) /\ n + 1 - (j + k) < n + 1 - j
      BY <1>1
    <3>2. \A pos \in 1 .. n : pos >= n + 1 - j => pos # n + 1 - (j + k)
      BY <1>1, <3>1
    <3>3. \A pos \in 1 .. n : pos >= n + 1 - j => h[j + k][pos] = h[j + (k - 1)][pos]
      BY <1>6, <3>1, <3>2
    <3> QED BY <1>1, <2>2, <3>3
  <2> HIDE DEF S
  <2>3. \A k \in 1 .. n - j : k - 1 \in S => k \in S
    BY <2>2
  <2>4. \A k \in 0 .. n - j : k \in S
    BY ONLY <2>1, <2>3, UpTo
  <2> QED BY <2>4 DEF S
<1>8. h[n] \in T
  BY <1>1, <1>5
<1>9. ASSUME NEW pos \in 1 .. n PROVE h[n][pos] = From(q, h[n], pos)
  <2> DEFINE i == n + 1 - pos
  <2>1. i \in 1 .. n /\ i - 1 \in 0 .. n /\ n + 1 - i = pos
    BY <1>1
  <2>2. h[n][pos] = h[i][pos]
    <3>1. i \in 0 .. n /\ n - i \in 0 .. n - i /\ i + (n - i) = n
      BY <1>1, <2>1
    <3>2. pos >= n + 1 - i
      BY <1>1, <2>1
    <3> HIDE DEF i
    <3> QED BY <1>7, <3>1, <3>2
  <2>3. h[i][pos] = From(q, h[i - 1], pos)
    BY <1>6, <2>1
  <2>4. \A p \in 1 .. n : p > pos => h[n][p] = h[i - 1][p]
    <3>1. /\ n - (i - 1) \in 0 .. n - (i - 1)
          /\ (i - 1) + (n - (i - 1)) = n
      BY <1>1, <2>1
    <3>2. \A p \in 1 .. n : p > pos => p >= n + 1 - (i - 1)
      BY <1>1, <2>1
    <3> HIDE DEF i
    <3> QED BY <1>7, <2>1, <3>1, <3>2
  <2>5. CASE pos > Len(q) \/ q[pos] = 0
    BY <2>2, <2>3, <2>5 DEF From
  <2>6. CASE ~(pos > Len(q)) /\ q[pos] # 0 /\ pos + q[pos] > Len(q)
    BY <2>2, <2>3, <2>6 DEF From
  <2>7. CASE ~(pos > Len(q)) /\ q[pos] # 0 /\ ~(pos + q[pos] > Len(q))
    <3>1. q[pos] \in Nat \ {0}
      BY <1>1, <2>7
    <3>2. pos + q[pos] + 1 \in 1 .. n /\ pos + q[pos] + 1 > pos
      BY <1>1, <2>7, <3>1 DEF n
    <3>3. h[n][pos + q[pos] + 1] = h[i - 1][pos + q[pos] + 1]
      BY <2>4, <3>2
    <3> HIDE DEF i
    <3> QED BY <2>2, <2>3, <3>3 DEF From
  <2> QED BY <2>5, <2>6, <2>7
<1> QED BY <1>8, <1>9 DEF Decodes, n, T

\* So the recursive function in Labels is one.
LEMMA LabelsDecodes ==
  ASSUME NEW q \in Seq(Nat)
  PROVE  \E f : Decodes(f, q) /\ Labels(q) = f[1]
<1> DEFINE n == Len(q) + 1
           f == CHOOSE g : g = [pos \in 1 .. n |-> From(q, g, pos)]
<1>1. PICK g \in [1 .. n -> Seq(Int)] : Decodes(g, q)
  BY DecodesExists
<1>2. g = [pos \in 1 .. n |-> From(q, g, pos)]
  BY <1>1 DEF Decodes
<1>3. f = [pos \in 1 .. n |-> From(q, f, pos)]
  <2> HIDE DEF n, From
  <2> QED BY <1>2
<1>4. Labels(q) = f[1]
  BY DEF Labels, From
<1>5. Decodes(f, q)
  <2> HIDE DEF f
  <2> QED BY <1>3 DEF Decodes
<1> QED BY <1>4, <1>5

-----------------------------------------------------------------------------
(***************************************************************************)
(* Names whose lengths stand at the positions B                            *)
(***************************************************************************)
\* s is the text of q behind byte pos: a dot for each length, and for the
\* final zero.
Text(q, B, pos, s) ==
  /\ s \in Seq(Nat) /\ Len(s) = Len(q) - pos
  /\ \A i \in 1 .. Len(s) : s[i] = IF pos + i \in B THEN Dot ELSE q[pos + i]

\* What Marks says of the length at byte i.
LEMMA LengthByte ==
  ASSUME NEW q \in Seq(Nat), NEW B \in SUBSET (1 .. Len(q)), Marks(q, B),
         NEW i \in B \ {Len(q)}
  PROVE  /\ Len(q) \in Nat /\ i \in 1 .. Len(q) - 1
         /\ \E m \in Nat \ {0} :
              /\ q[i] = m /\ i + m + 1 \in B /\ i + m + 1 \in 1 .. Len(q)
              /\ \A j \in i + 1 .. i + m : j \notin B
<1>1. Len(q) \in Nat /\ i \in 1 .. Len(q)
  BY LenProperties
<1>2. i \in 1 .. Len(q) - 1
  BY ONLY <1>1, i \in B \ {Len(q)}
<1>3. PICK m \in Nat : q[i] = m
  BY <1>1, ElementOfSeq
<1>4. m > 0 /\ i + m + 1 \in B /\ \A j \in i + 1 .. i + m : j \notin B
  BY <1>3 DEF Marks
<1> QED BY <1>1, <1>2, <1>3, <1>4

\* A label, its dot and the rest, byte by byte.
LEMMA ThreeParts ==
  ASSUME NEW a \in Seq(Nat), NEW x \in Nat, NEW z \in Seq(Nat)
  PROVE  /\ a \o <<x>> \o z \in Seq(Nat)
         /\ Len(a \o <<x>> \o z) = Len(a) + 1 + Len(z)
         /\ \A i \in 1 .. Len(a) : (a \o <<x>> \o z)[i] = a[i]
         /\ (a \o <<x>> \o z)[Len(a) + 1] = x
         /\ \A i \in 1 .. Len(z) : (a \o <<x>> \o z)[Len(a) + 1 + i] = z[i]
<1> DEFINE c == Append(a, x)
<1>1. /\ c \in Seq(Nat) /\ Len(c) = Len(a) + 1 /\ Len(a) \in Nat /\ Len(z) \in Nat
      /\ \A i \in 1 .. Len(a) : c[i] = a[i]
      /\ c[Len(a) + 1] = x
  BY AppendProperties, LenProperties
<1>2. a \o <<x>> = c
  BY AppendIsConcat
<1> HIDE DEF c
<1> DEFINE r == c \o z
<1>3. /\ r \in Seq(Nat) /\ Len(r) = Len(c) + Len(z)
      /\ \A i \in 1 .. Len(c) + Len(z) :
           r[i] = IF i <= Len(c) THEN c[i] ELSE z[i - Len(c)]
  BY ONLY <1>1, z \in Seq(Nat), ConcatProperties
<1> HIDE DEF r
<1>4. \A i \in 1 .. Len(a) + 1 : r[i] = c[i]
  BY ONLY <1>1, <1>3
<1>5. \A i \in 1 .. Len(z) : r[Len(a) + 1 + i] = z[i]
  <2> SUFFICES ASSUME NEW i \in 1 .. Len(z) PROVE r[Len(a) + 1 + i] = z[i]
    OBVIOUS
  <2>1. /\ Len(c) + i \in 1 .. Len(c) + Len(z) /\ ~(Len(c) + i <= Len(c))
        /\ Len(c) + i - Len(c) = i /\ Len(c) + i = Len(a) + 1 + i
    BY ONLY <1>1, i \in 1 .. Len(z)
  <2>2. r[Len(c) + i] = z[Len(c) + i - Len(c)]
    BY ONLY <1>3, <2>1
  <2> QED BY ONLY <2>1, <2>2
<1>6. (\A i \in 1 .. Len(a) : r[i] = a[i]) /\ r[Len(a) + 1] = x
  <2>1. Len(a) + 1 \in 1 .. Len(a) + 1 /\ \A i \in 1 .. Len(a) : i \in 1 .. Len(a) + 1
    BY ONLY <1>1
  <2>2. r[Len(a) + 1] = c[Len(a) + 1]
    BY ONLY <1>4, <2>1
  <2>3. \A i \in 1 .. Len(a) : r[i] = c[i]
    BY ONLY <1>4, <2>1
  <2> QED BY ONLY <1>1, <2>2, <2>3
<1>7. a \o <<x>> \o z = r
  BY <1>2 DEF r
<1>8. Len(r) = Len(a) + 1 + Len(z)
  BY ONLY <1>1, <1>3
<1> QED BY ONLY <1>3, <1>5, <1>6, <1>7, <1>8

\* One label of the decoding.
LEMMA LabelText ==
  ASSUME NEW q \in Seq(Nat), NEW B \in SUBSET (1 .. Len(q)), Marks(q, B),
         NEW pos \in B \ {Len(q)},
         NEW z, Text(q, B, pos + q[pos] + 1, z)
  PROVE  Text(q, B, pos, SubSeq(q, pos + 1, pos + q[pos]) \o <<Dot>> \o z)
<1>1. PICK n \in Nat : n = Len(q)
  BY LenProperties
<1>2. PICK m \in Nat \ {0} :
        /\ q[pos] = m /\ pos + m + 1 \in B /\ pos + m + 1 \in 1 .. n
        /\ \A j \in pos + 1 .. pos + m : j \notin B
  BY <1>1, LengthByte
<1>3. pos \in 1 .. n - 1
  BY <1>1, LengthByte
<1> DEFINE a == SubSeq(q, pos + 1, pos + m)
           s == a \o <<Dot>> \o z
<1>4. /\ a \in Seq(Nat) /\ Len(a) = m
      /\ \A i \in 1 .. m : a[i] = q[pos + i]
  <2>1. pos + 1 \in Int /\ pos + m \in Int /\ pos + 1 <= pos + m
    BY ONLY <1>2, <1>3
  <2>2. \A i \in pos + 1 .. pos + m : q[i] \in Nat
    <3>1. \A i \in pos + 1 .. pos + m : i \in 1 .. n
      BY ONLY <1>1, <1>2, <1>3
    <3> QED BY <1>1, <3>1, ElementOfSeq
  <2>3. /\ a \in Seq(Nat)
        /\ Len(a) = pos + m - (pos + 1) + 1
        /\ \A i \in 1 .. pos + m - (pos + 1) + 1 : a[i] = q[pos + 1 + i - 1]
    BY ONLY q \in Seq(Nat), <2>1, <2>2, SubSeqProperties
  <2> HIDE DEF a
  <2>4. pos + m - (pos + 1) + 1 = m /\ \A i \in 1 .. m : pos + 1 + i - 1 = pos + i
    BY ONLY <1>2, <1>3
  <2> QED BY ONLY <2>3, <2>4
<1>5. /\ z \in Seq(Nat) /\ Len(z) = n - (pos + m + 1)
      /\ \A i \in 1 .. Len(z) : z[i] = IF pos + m + 1 + i \in B
                                        THEN Dot ELSE q[pos + m + 1 + i]
  BY <1>1, <1>2 DEF Text
<1> HIDE DEF a
<1>6. /\ s \in Seq(Nat) /\ Len(s) = m + 1 + Len(z)
      /\ \A i \in 1 .. m : s[i] = a[i]
      /\ s[m + 1] = Dot
      /\ \A i \in 1 .. Len(z) : s[m + 1 + i] = z[i]
  <2>1. Dot \in Nat
    BY DEF Dot
  <2>2. /\ s \in Seq(Nat) /\ Len(s) = Len(a) + 1 + Len(z)
        /\ \A i \in 1 .. Len(a) : s[i] = a[i]
        /\ s[Len(a) + 1] = Dot
        /\ \A i \in 1 .. Len(z) : s[Len(a) + 1 + i] = z[i]
    <3>1. a \in Seq(Nat) /\ z \in Seq(Nat)
      BY ONLY <1>4, <1>5
    <3> QED BY ONLY <2>1, <3>1, ThreeParts
  <2> HIDE DEF s
  <2> QED BY ONLY <1>4, <2>2
<1> HIDE DEF s
<1>7. Len(s) = n - pos
  BY ONLY <1>1, <1>2, <1>3, <1>5, <1>6
<1>8. ASSUME NEW i \in 1 .. n - pos
      PROVE  s[i] = IF pos + i \in B THEN Dot ELSE q[pos + i]
  <2>1. CASE i <= m
    <3>1. i \in 1 .. m /\ pos + i \in pos + 1 .. pos + m
      BY ONLY <1>1, <1>2, <1>3, <2>1, i \in 1 .. n - pos
    <3> QED BY ONLY <1>2, <1>4, <1>6, <3>1
  <2>2. CASE i = m + 1
    <3>1. pos + i = pos + m + 1
      BY ONLY <1>2, <1>3, <2>2
    <3> QED BY ONLY <1>2, <1>6, <2>2, <3>1
  <2>3. CASE i > m + 1
    <3>1. PICK j \in 1 .. Len(z) : i = m + 1 + j /\ pos + i = pos + m + 1 + j
      <4>1. i - (m + 1) \in 1 .. Len(z)
        BY ONLY <1>1, <1>2, <1>3, <1>5, <2>3, i \in 1 .. n - pos
      <4>2. i = m + 1 + (i - (m + 1)) /\ pos + i = pos + m + 1 + (i - (m + 1))
        BY ONLY <1>1, <1>2, <1>3, i \in 1 .. n - pos
      <4> QED BY ONLY <4>1, <4>2
    <3> QED BY ONLY <1>5, <1>6, <3>1
  <2> QED BY ONLY <1>1, <1>2, <1>3, <2>1, <2>2, <2>3, i \in 1 .. n - pos
<1>9. Text(q, B, pos, s)
  BY ONLY <1>1, <1>6, <1>7, <1>8 DEF Text
<1> QED BY <1>2, <1>9 DEF s, a

\* query_decode from a length on: the text behind it, if it does not fail.
LEMMA DecodesText ==
  ASSUME NEW q \in Seq(Nat), NEW B \in SUBSET (1 .. Len(q)), Marks(q, B),
         NEW f, Decodes(f, q)
  PROVE  \A pos \in B : f[pos] = Fail \/ Text(q, B, pos, f[pos])
<1> DEFINE n == Len(q)
           P(pos) == f[pos] = Fail \/ Text(q, B, pos, f[pos])
           S == {k \in 0 .. n : \A pos \in B : n - pos <= k => P(pos)}
<1>1. n \in Nat /\ (\A i \in 1 .. n : q[i] \in Nat) /\ n \in B /\ n \in 1 .. n
  BY LenProperties, ElementOfSeq DEF Marks
<1>2. \A pos \in 1 .. n : f[pos] = From(q, f, pos)
  BY <1>1 DEF Decodes
<1>3. 0 \in S
  <2>1. P(n)
    <3>1. f[n] = <<>>
      BY <1>1, <1>2 DEF From, Marks
    <3> QED BY <1>1, <3>1 DEF Text
  <2>2. \A pos \in B : n - pos <= 0 => pos = n
    BY <1>1
  <2> HIDE DEF P
  <2> QED BY <1>1, <2>1, <2>2
<1>4. ASSUME NEW k \in 1 .. n, k - 1 \in S PROVE k \in S
  <2> SUFFICES ASSUME NEW pos \in B, n - pos = k PROVE P(pos)
    <3> HIDE DEF P
    <3>1. \A pos \in B : n - pos <= k => n - pos <= k - 1 \/ n - pos = k
      BY <1>1
    <3> QED BY <1>4, <3>1
  <2>1. pos \in B \ {n} /\ pos \in 1 .. n
    BY <1>1
  <2>2. q[pos] \in Nat \ {0} /\ pos + q[pos] + 1 \in B /\ pos + q[pos] + 1 \in 1 .. n
    <3>1. \E m \in Nat \ {0} : q[pos] = m /\ pos + m + 1 \in B /\ pos + m + 1 \in 1 .. n
      <4> HIDE DEF S, P
      <4> QED BY ONLY q \in Seq(Nat), B \in SUBSET (1 .. Len(q)), Marks(q, B), <2>1, LengthByte
    <3> QED BY ONLY <3>1
  <2>3. n - (pos + q[pos] + 1) <= k - 1
    BY <1>1, <2>1, <2>2
  <2>4. P(pos + q[pos] + 1)
    <3> HIDE DEF P
    <3> QED BY <1>4, <2>2, <2>3
  <2>5. \/ f[pos] = Fail
        \/ /\ f[pos + q[pos] + 1] # Fail
           /\ f[pos] = SubSeq(q, pos + 1, pos + q[pos]) \o <<Dot>> \o f[pos + q[pos] + 1]
    BY <1>1, <1>2, <2>1, <2>2 DEF From
  <2> QED BY <2>1, <2>4, <2>5, LabelText
<1> HIDE DEF S
<1>5. \A k \in 1 .. n : k - 1 \in S => k \in S
  BY <1>4
<1>6. \A k \in 0 .. n : k \in S
  BY ONLY <1>1, <1>3, <1>5, UpTo
<1>7. n \in S /\ \A pos \in B : n - pos <= n
  BY <1>1, <1>6
<1> HIDE DEF P
<1>8. \A pos \in B : P(pos)
  BY <1>7 DEF S
<1> QED BY <1>8 DEF P

\* rec->name: without the last dot, and no zero byte ends it early.
LEMMA NameText ==
  ASSUME NEW q \in Seq(Nat), NEW B \in SUBSET (1 .. Len(q)), Marks(q, B),
         query_decode(q) \notin {Fail, <<>>}
  PROVE  /\ Len(q) > 2
         /\ query_decode(q) \in Seq(Nat) /\ Len(query_decode(q)) = Len(q) - 2
         /\ \A i \in 1 .. Len(q) - 2 :
              query_decode(q)[i] = IF i + 1 \in B THEN Dot ELSE q[i + 1]
<1> DEFINE n == Len(q)
           l == Labels(q)
           s == Front(l)
<1>1. n \in Nat \ {0} /\ (\A i \in 1 .. n : q[i] \in Nat) /\ 1 \in B
  <2>1. n \in Nat /\ \A i \in 1 .. n : q[i] \in Nat
    BY LenProperties, ElementOfSeq
  <2>2. 1 \in B /\ 1 \in 1 .. n
    BY DEF Marks
  <2> QED BY <2>1, <2>2
<1>2. l \notin {Fail, <<>>} /\ query_decode(q) = CString(s)
  BY DEF query_decode
<1>3. Text(q, B, 1, l)
  <2>1. PICK f : Decodes(f, q) /\ l = f[1]
    BY LabelsDecodes
  <2>2. f[1] = Fail \/ Text(q, B, 1, f[1])
    BY <1>1, <2>1, DecodesText
  <2> HIDE DEF l
  <2> QED BY <1>2, <2>1, <2>2
<1>4. /\ l \in Seq(Nat) /\ Len(l) = n - 1
      /\ \A i \in 1 .. n - 1 : l[i] = IF 1 + i \in B THEN Dot ELSE q[1 + i]
  BY <1>3 DEF Text
<1> HIDE DEF l
<1>5. n > 1
  BY <1>1, <1>2, <1>4, EmptySeq
<1>6. /\ s \in Seq(Nat) /\ Len(s) = n - 2
      /\ \A i \in 1 .. n - 2 : s[i] = l[i]
  <2>1. \A i \in 1 .. n - 2 : l[i] \in Nat
    BY <1>1, <1>4, ElementOfSeq
  <2>2. s = SubSeq(l, 1, n - 2)
    BY <1>1, <1>4 DEF Front
  <2>3. /\ s \in Seq(Nat)
        /\ Len(s) = IF 1 <= n - 2 THEN n - 2 - 1 + 1 ELSE 0
        /\ \A i \in 1 .. n - 2 - 1 + 1 : s[i] = l[1 + i - 1]
    <3> HIDE DEF s
    <3>1. 1 \in Int /\ n - 2 \in Int
      BY <1>1
    <3> QED BY <2>1, <2>2, <3>1, SubSeqProperties
  <2> HIDE DEF s
  <2> QED BY <1>1, <1>4, <1>5, <2>3
<1>7. \A i \in 1 .. n - 2 : s[i] = IF i + 1 \in B THEN Dot ELSE q[i + 1]
  BY <1>1, <1>4, <1>6
<1> HIDE DEF s
<1>8. 0 \notin Range(s)
  <2> SUFFICES ASSUME NEW i \in 1 .. n - 2 PROVE s[i] # 0
    BY <1>6, LenProperties DEF Range
  <2>1. i + 1 \in 1 .. n
    BY <1>1
  <2>2. i + 1 \notin B => q[i + 1] # 0
    BY <2>1 DEF Marks
  <2> QED BY <1>7, <2>2 DEF Dot
<1>9. query_decode(q) = s
  BY <1>2, <1>8 DEF CString
\* The root has no name.
<1>10. n # 2
  <2> SUFFICES ASSUME n = 2 PROVE FALSE
    OBVIOUS
  <2>1. q[1] > 0 /\ 1 + q[1] + 1 \in B /\ q[1] \in Nat
    BY <1>1 DEF Marks
  <2>2. 1 + q[1] + 1 \in 1 .. 2
    BY <2>1
  <2> QED BY <2>1, <2>2
<1> QED BY <1>1, <1>5, <1>6, <1>7, <1>9, <1>10

\* dns_encode_name counts the bytes up to the next dot.
LEMMA LabelLength ==
  ASSUME NEW q \in Seq(Nat), NEW B \in SUBSET (1 .. Len(q)), Marks(q, B),
         NEW s \in Seq(Nat), Len(q) > 2, Len(s) = Len(q) - 2,
         \A i \in 1 .. Len(q) - 2 : s[i] = IF i + 1 \in B THEN Dot ELSE q[i + 1],
         NEW i \in B \ {Len(q)}
  PROVE  Label(s, i) = q[i]
<1>1. PICK n \in Nat : n = Len(q)
  BY LenProperties
<1>2. PICK m \in Nat \ {0} :
        /\ q[i] = m /\ i + m + 1 \in B /\ i + m + 1 \in 1 .. n
        /\ \A j \in i + 1 .. i + m : j \notin B
  BY <1>1, LengthByte
<1>3. i \in 1 .. n - 1 /\ m \in 0 .. n - 1 - i
  <2>1. i \in 1 .. n - 1
    BY <1>1, LengthByte
  <2> QED BY ONLY <1>1, <1>2, <2>1
<1> DEFINE Is(k) == /\ i + k = n - 1 \/ s[i + k] = Dot
                    /\ \A j \in i .. i + k - 1 : s[j] # Dot
<1>4. i + m = n - 1 \/ s[i + m] = Dot
  <2>1. i + m = n - 1 \/ i + m \in 1 .. n - 2
    BY ONLY <1>1, <1>2, <1>3
  <2> QED BY <1>1, <1>2, <2>1
<1>5. \A j \in i .. i + m - 1 : s[j] # Dot
  <2> SUFFICES ASSUME NEW j \in i .. i + m - 1 PROVE s[j] # Dot
    OBVIOUS
  <2>1. j \in 1 .. n - 2 /\ j + 1 \in i + 1 .. i + m /\ j + 1 \in 1 .. n
    BY ONLY <1>1, <1>2, <1>3, j \in i .. i + m - 1
  <2>2. j + 1 \notin B /\ s[j] = q[j + 1]
    BY <1>1, <1>2, <2>1
  <2> QED BY <1>1, <2>1, <2>2 DEF Marks
<1>6. ASSUME NEW k \in 0 .. n - 1 - i, Is(k) PROVE k = m
  <2>1. CASE k < m
    <3>1. i + k \in i .. i + m - 1 /\ i + k # n - 1
      BY <1>1, <1>3, <2>1
    <3> QED BY <1>5, <1>6, <3>1
  <2>2. CASE k > m
    <3>1. i + m \in i .. i + k - 1 /\ i + m # n - 1
      BY <1>1, <1>3, <2>2
    <3> QED BY <1>4, <1>6, <3>1
  <2> QED BY <1>3, <2>1, <2>2
<1>7. Is(m)
  BY <1>4, <1>5
<1>8. Label(s, i) = CHOOSE k \in 0 .. n - 1 - i : Is(k)
  <2>1. Len(s) + 1 = n - 1 /\ Len(s) + 1 - i = n - 1 - i
    BY <1>1, <1>3
  <2> QED BY <2>1 DEF Label
<1> HIDE DEF Is
<1>9. (CHOOSE k \in 0 .. n - 1 - i : Is(k)) = m
  BY <1>3, <1>6, <1>7
<1> QED BY <1>2, <1>8, <1>9

\* The encoding of the decoded name is the name.
LEMMA EncodeDecoded ==
  ASSUME NEW q \in Seq(Nat), WellFormed(q), query_decode(q) \notin {Fail, <<>>}
  PROVE  dns_encode_name(query_decode(q)) = q /\ Len(query_decode(q)) = Len(q) - 2
<1> DEFINE n == Len(q)
           s == query_decode(q)
           e == dns_encode_name(s)
<1>1. PICK B \in SUBSET (1 .. n) : Marks(q, B)
  BY DEF WellFormed
<1>2. /\ n > 2 /\ s \in Seq(Nat) /\ Len(s) = n - 2
      /\ \A i \in 1 .. n - 2 : s[i] = IF i + 1 \in B THEN Dot ELSE q[i + 1]
  BY <1>1, NameText
<1>3. n \in Nat /\ (\A i \in 1 .. n : q[i] \in Nat) /\ q = [i \in 1 .. n |-> q[i]]
  BY LenProperties, ElementOfSeq
<1> HIDE DEF s
<1>4. \A i \in B \ {n} : Label(s, i) = q[i]
  BY <1>1, <1>2, LabelLength
<1>5. Len(s) + 2 = n
  BY <1>2, <1>3
<1>6. e = [i \in 1 .. n |-> IF i = n THEN 0
                            ELSE IF i = 1 THEN Label(s, 1)
                            ELSE IF s[i - 1] = Dot THEN Label(s, i) ELSE s[i - 1]]
  BY <1>5 DEF dns_encode_name
<1> HIDE DEF e
<1>7. ASSUME NEW i \in 1 .. n PROVE e[i] = q[i]
  <2>1. CASE i = n
    BY <1>1, <1>6, <2>1 DEF Marks
  <2>2. CASE i = 1
    BY <1>1, <1>2, <1>4, <1>6, <2>2 DEF Marks
  <2>3. CASE i # n /\ i # 1 /\ i \in B
    <3>1. i - 1 \in 1 .. n - 2 /\ i - 1 + 1 = i
      BY <1>3, <2>3
    <3>2. s[i - 1] = Dot
      BY <1>2, <2>3, <3>1
    <3> QED BY <1>4, <1>6, <2>3, <3>2
  <2>4. CASE i # n /\ i # 1 /\ i \notin B
    <3>1. i - 1 \in 1 .. n - 2 /\ i - 1 + 1 = i
      BY <1>3, <2>4
    <3>2. s[i - 1] = q[i] /\ q[i] # Dot
      BY <1>1, <1>2, <2>4, <3>1 DEF Marks
    <3> QED BY <1>6, <2>4, <3>2
  <2> QED BY <2>1, <2>2, <2>3, <2>4
<1>8. e = q
  <2>1. DOMAIN e = 1 .. n /\ e = [i \in 1 .. n |-> e[i]]
    BY <1>6
  <2> QED BY <1>3, <1>7, <2>1
<1> QED BY <1>2, <1>8 DEF e, s

\* An answer that fits has the question's name and no length cut off.
LEMMA AnswerIsQuestion ==
  ASSUME NEW r \in Request, Name[r] \notin {Fail, <<>>},
         WellFormed(Question[r]), Fits(Name[r])
  PROVE  Answer(Name[r]) = [len  |-> Hdr + Len(Question[r]) + Rest,
                            name |-> Question[r]]
<1> DEFINE q == Question[r]
           s == Name[r]
           e == dns_encode_name(s)
<1>1. q \in Seq(Nat) /\ Len(q) \in Nat
  BY DnsAssumption, LenProperties
<1>2. s = query_decode(q)
  BY DEF Name
<1>3. e = q /\ Len(s) = Len(q) - 2
  <2>1. WellFormed(q) /\ query_decode(q) \notin {Fail, <<>>}
    BY <1>2
  <2> HIDE DEF q
  <2>2. dns_encode_name(query_decode(q)) = q /\ Len(query_decode(q)) = Len(q) - 2
    BY ONLY <1>1, <2>1, EncodeDecoded
  <2> HIDE DEF s
  <2> QED BY ONLY <1>2, <2>2 DEF e
<1>4. Hdr + Len(q) + Rest < W
  BY <1>1, <1>3 DEF Fits, Hdr, Rest
<1> HIDE DEF q, e
<1>5. Hdr + Len(q) + Rest \in Nat
  BY <1>1 DEF Hdr, Rest
<1>6. (Hdr + Len(q) + Rest) % W = Hdr + Len(q) + Rest
  <2>1. \A x, w \in Nat : x < w => x % w = x
    OBVIOUS
  <2> QED BY <1>4, <1>5, <2>1, DnsAssumption
<1>7. Answer(s) = [len |-> (Hdr + Len(e) + Rest) % W,
                   name |-> IF Hdr + Len(e) + Rest < W THEN e ELSE Fail]
  BY DEF Answer, e
<1> QED BY <1>3, <1>4, <1>6, <1>7 DEF q

-----------------------------------------------------------------------------
(***************************************************************************)
(* Only names that were decoded are answered                               *)
(***************************************************************************)
LEMMA RecvDecoded ==
  ASSUME IInv, Decoded, pdns_recv
  PROVE  Decoded'
<1> USE DEF dnsVars
<1>1. UNCHANGED dnsVars
  BY DEF pdns_recv, Recv, Alloc, Decode, Add, Notify
<1>2. CASE UNCHANGED rec
  BY <1>1, <1>2 DEF Decoded
<1>3. CASE Decode /\ Name[core_req] # Fail /\ rec' = [rec EXCEPT ![core_p] = core_req]
  <2>1. \A p \in Pbuf : rec'[p] = core_req \/ rec'[p] = rec[p]
    BY <1>3 DEF IInv, TypeOK
  <2> QED BY <1>1, <1>3, <2>1 DEF Decoded
<1> QED BY <1>2, <1>3 DEF pdns_recv, Recv, Alloc, Decode, Add, Notify

LEMMA ThreadDecoded ==
  ASSUME IInv, Decoded, dnsproxy_thread
  PROVE  Decoded'
<1>1. UNCHANGED rec
  BY DEF dnsproxy_thread, Wait, Get, Resolve, Send, Free
<1>2. \A p \in Pbuf : rec'[p] \in Request => Name[rec'[p]] # Fail
  BY <1>1 DEF Decoded
<1>3. CASE Wait
  BY <1>2, <1>3 DEF Wait, Decoded
<1>4. CASE Get
  <2>1. answered' = NoAnswer /\ dns_pc' # "send"
    BY <1>4 DEF Get, IInv, Holds
  <2> QED BY <1>2, <2>1 DEF Decoded
<1>5. CASE Resolve
  <2>1. dns_pc' = "send" => Name[query] # <<>>
    BY <1>5 DEF Resolve
  <2> QED BY <1>2, <1>5, <2>1 DEF Resolve, Decoded
<1>6. CASE Send
  BY <1>2, <1>6 DEF Send, Decoded
<1>7. CASE Free
  BY <1>2, <1>7 DEF Free, Decoded
<1> QED BY <1>3, <1>4, <1>5, <1>6, <1>7 DEF dnsproxy_thread

LEMMA OthersDecoded ==
  ASSUME IInv, Decoded, FreeBlk \/ OtherAlloc \/ OtherFree \/ UNCHANGED vars
  PROVE  Decoded'
<1> USE DEF vars, dnsVars
<1>1. UNCHANGED dnsVars
  BY DEF FreeBlk, OtherAlloc, OtherFree
<1>2. CASE UNCHANGED rec
  BY <1>1, <1>2 DEF Decoded
<1>3. CASE FreeBlk
  <2>1. \A p \in Pbuf : rec'[p] = NoRec \/ rec'[p] = rec[p]
    BY <1>3 DEF FreeBlk, IInv, TypeOK
  <2>2. NoRec \notin Request
    BY DnsAssumption DEF NoRec
  <2> QED BY <1>1, <2>1, <2>2 DEF Decoded
<1> QED BY <1>2, <1>3 DEF OtherAlloc, OtherFree

LEMMA DecodedInvariance == Spec => []Decoded
<1>1. Init => Decoded
  BY DnsAssumption DEF Init, Decoded, NoRec
<1>2. IInv /\ Decoded /\ [Next]_vars => Decoded'
  BY RecvDecoded, ThreadDecoded, OthersDecoded DEF Next
<1> QED BY <1>1, <1>2, Invariance, PTL DEF Spec

\* Whoever is answered by dnsproxy_thread finds the name of the question in the
\* answer byte for byte: what query_decode took apart dns_encode_name puts
\* together again, for every name as resolvers write it that fits into dpos.
THEOREM NameRepeated == Spec => []AnswersRepeat
<1>1. IInv /\ Decoded => AnswersRepeat
  <2> SUFFICES ASSUME IInv, Decoded, answered.to # NoRec,
                      WellFormed(Question[answered.to]), Fits(Name[answered.to])
               PROVE  Answer(Name[answered.to]) =
                        [len  |-> Hdr + Len(Question[answered.to]) + Rest,
                         name |-> Question[answered.to]]
    BY DEF AnswersRepeat
  <2>1. answered # NoAnswer
    BY DEF NoAnswer
  <2>2. answered = [to |-> query, about |-> query] /\ dns_p # NoPbuf
    BY <2>1 DEF IInv, Holds
  <2>3. answered.to = query /\ query \in Request /\ rec[dns_p] = query /\ dns_p \in Pbuf
    BY <2>2 DEF IInv, TypeOK, Holds
  <2>4. Name[query] \notin {Fail, <<>>}
    BY <2>1, <2>3 DEF Decoded
  <2> QED BY <2>3, <2>4, AnswerIsQuestion
<1> QED BY <1>1, Invariance, DecodedInvariance, PTL
=============================================================================
