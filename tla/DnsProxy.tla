------------------------------- MODULE DnsProxy -------------------------------
(***************************************************************************)
(* The DNS proxy (lwip/dnsproxy.c) with its queue (eth_queue.c).  The lwIP *)
(* task runs pdns_recv with the core lock held; between its calls into the *)
(* memory manager and the queue the resolver thread may run.  That thread  *)
(* runs dnsproxy_thread without the core lock and blocks in getaddrinfo.   *)
(* Both take buffers of the pool that the whole bridge shares: EthMem has  *)
(* its allocation and release in detail, here each is one step.  TNotify   *)
(* is used in the form of AtomicNotify.                                    *)
(***************************************************************************)
EXTENDS Integers, Sequences, SequencesExt

CONSTANTS Request,   \* the datagrams that arrive: source, port, id and question
          Question,  \* Question[r]: the bytes of r's name as the query has it
          Pbuf,      \* the buffers of the pool
          NoPbuf,
          QMax,      \* dns_q.q_len_max
          NameSize,  \* sizeof(rec->name)
          W          \* 2^8, the range of dpos

ASSUME DnsAssumption ==
  /\ Question \in [Request -> Seq(Nat)]
  /\ NoPbuf \notin Pbuf /\ "other" \notin Request
  /\ QMax \in Nat \ {0} /\ NameSize \in Nat /\ W \in Nat

Dot  == 46
Fail == <<-1>>   \* query_decode returns -1

-----------------------------------------------------------------------------
(***************************************************************************)
(* Names                                                                   *)
(***************************************************************************)
\* query_decode: the labels from byte pos on, each followed by a dot; Fail if
\* the section ends early or the name does not fit into rec->name (outpos is
\* pos - 1).
Labels(q) ==
  LET f[pos \in 1 .. Len(q) + 1] ==
        IF pos > Len(q) THEN Fail
        ELSE IF q[pos] = 0 THEN <<>>
        ELSE IF pos + q[pos] > Len(q) \/ pos + q[pos] >= NameSize THEN Fail
        ELSE LET rest == f[pos + q[pos] + 1] IN
             IF rest = Fail THEN Fail
             ELSE SubSeq(q, pos + 1, pos + q[pos]) \o <<Dot>> \o rest
  IN f[1]

\* What the readers of rec->name see of it: a zero byte ends a C string.
CString(s) ==
  IF 0 \notin Range(s) THEN s
  ELSE SubSeq(s, 1, (CHOOSE k \in DOMAIN s :
                       s[k] = 0 /\ \A j \in 1 .. k - 1 : s[j] # 0) - 1)

\* rec->name: the last dot is cut off.
query_decode(q) ==
  LET labels == Labels(q) IN
  IF labels \in {Fail, <<>>} THEN labels ELSE CString(Front(labels))

\* What pdns_recv makes of each request's name.
Name == [r \in Request |-> query_decode(Question[r])]

\* The length of the label that starts at s[i].
Label(s, i) ==
  CHOOSE n \in 0 .. Len(s) + 1 - i :
    /\ i + n = Len(s) + 1 \/ s[i + n] = Dot
    /\ \A k \in i .. i + n - 1 : s[k] # Dot

\* Mutant: the length of the last label is not written.
dns_encode_name_last(s) ==
  [i \in 1 .. Len(s) + 2 |->
     IF i = Len(s) + 2 \/ \A k \in i .. Len(s) : s[k] # Dot THEN 0
     ELSE IF i = 1 THEN Label(s, 1)
     ELSE IF s[i - 1] = Dot THEN Label(s, i) ELSE s[i - 1]]

\* dns_encode_name: a label's length goes where the dot before it was.
dns_encode_name(s) ==
  [i \in 1 .. Len(s) + 2 |->
     IF i = Len(s) + 2 THEN 0
     ELSE IF i = 1 THEN Label(s, 1)
     ELSE IF s[i - 1] = Dot THEN Label(s, i) ELSE s[i - 1]]

\* What an answer has before the name and behind it: the header; type and
\* class of the question, and the answer record.
Hdr  == 12
Rest == 16

\* The answer's length and its copy of the name.  dpos has eight bits: past
\* their range the rest is written over the start and the length is cut.
Answer(s) ==
  LET end == Hdr + Len(dns_encode_name(s)) IN
  [len  |-> (end + Rest) % W,
   name |-> IF end + Rest < W THEN dns_encode_name(s) ELSE Fail]

-----------------------------------------------------------------------------
(***************************************************************************)
(* The tasks                                                               *)
(***************************************************************************)
VARIABLES
  free_chain,  \* free buffers
  free_pbuf_q, \* buffers whose release was requested
  others,      \* buffers that carry other packets of the bridge
  rec,         \* rec[p]: the request in p's payload; other content: NoRec
  dns_q,       \* the queue, q_begin first
  q_len,
  pending,     \* a notification of dnsproxy_thread is pending
  core_pc,     \* where the lwIP task is in pdns_recv
  core_req, core_p,
  dns_pc,      \* where dnsproxy_thread is
  dns_p,       \* its buffer
  query,       \* the request whose name getaddrinfo was given
  answered     \* its answer: whom it went to and what it is about

poolVars  == <<free_chain, free_pbuf_q, others>>
queueVars == <<dns_q, q_len>>
coreVars  == <<core_pc, core_req, core_p>>
dnsVars   == <<dns_pc, dns_p, query, answered>>
vars == <<poolVars, rec, queueVars, pending, coreVars, dnsVars>>

NoRec == "other"
NoAnswer == [to |-> NoRec, about |-> NoRec]

TypeOK ==
  /\ free_chain \subseteq Pbuf /\ others \subseteq Pbuf
  /\ free_pbuf_q \in Seq(Pbuf)
  /\ rec \in [Pbuf -> Request \cup {NoRec}]
  /\ dns_q \in Seq(Pbuf) /\ q_len \in 0 .. QMax
  /\ pending \in BOOLEAN
  /\ core_pc \in {"idle", "alloc", "decode", "add", "notify"}
  /\ core_req \in Request \cup {NoRec}
  /\ core_p \in Pbuf \cup {NoPbuf}
  /\ dns_pc \in {"wait", "get", "resolve", "send", "free"}
  /\ dns_p \in Pbuf \cup {NoPbuf}
  /\ query \in Request \cup {NoRec}
  /\ answered \in [to : Request \cup {NoRec}, about : Request \cup {NoRec}]

Init ==
  /\ free_chain = Pbuf /\ free_pbuf_q = <<>> /\ others = {}
  /\ rec = [p \in Pbuf |-> NoRec]
  /\ dns_q = <<>> /\ q_len = 0
  /\ pending = FALSE
  /\ core_pc = "idle" /\ core_req = NoRec /\ core_p = NoPbuf
  /\ dns_pc = "wait" /\ dns_p = NoPbuf
  /\ query = NoRec /\ answered = NoAnswer

\* eth_pbuf_free_request.
FreeRequest(p) ==
  /\ free_pbuf_q' = Append(free_pbuf_q, p)
  /\ UNCHANGED <<free_chain, others>>

\* pdns_recv, called by lwIP for a datagram of a proper size; others are
\* dropped at once.
Recv(r) ==
  /\ core_pc = "idle"
  /\ core_pc' = "alloc" /\ core_req' = r
  /\ UNCHANGED <<poolVars, rec, queueVars, pending, core_p, dnsVars>>

\* eth_pbuf_alloc; what it does with an empty pool is left to EthMem.
Alloc ==
  /\ core_pc = "alloc"
  /\ \E p \in free_chain :
       /\ free_chain' = free_chain \ {p}
       /\ core_p' = p
  /\ core_pc' = "decode"
  /\ UNCHANGED <<free_pbuf_q, others, rec, queueVars, pending, core_req, dnsVars>>

\* The question is decoded into the buffer, or the buffer is released.
Decode ==
  /\ core_pc = "decode"
  /\ \/ /\ Name[core_req] # Fail
        /\ rec' = [rec EXCEPT ![core_p] = core_req]
        /\ core_pc' = "add"
        /\ UNCHANGED <<poolVars, core_p, core_req>>
     \/ /\ Name[core_req] = Fail
        /\ FreeRequest(core_p)
        /\ core_pc' = "idle" /\ core_p' = NoPbuf /\ core_req' = NoRec
        /\ UNCHANGED rec
  /\ UNCHANGED <<queueVars, pending, dnsVars>>

\* Mutants: a full queue drops the request and keeps its buffer; the queue is
\* full one request too late.
AddKeeps ==
  /\ core_pc = "add"
  /\ \/ /\ q_len < QMax
        /\ dns_q' = Append(dns_q, core_p) /\ q_len' = q_len + 1
        /\ UNCHANGED poolVars
     \/ /\ q_len >= QMax
        /\ UNCHANGED <<queueVars, poolVars>>
  /\ core_pc' = "notify" /\ core_p' = NoPbuf
  /\ UNCHANGED <<rec, pending, core_req, dnsVars>>

AddLate ==
  /\ core_pc = "add"
  /\ \/ /\ q_len <= QMax
        /\ dns_q' = Append(dns_q, core_p) /\ q_len' = q_len + 1
        /\ UNCHANGED poolVars
     \/ /\ q_len > QMax
        /\ FreeRequest(core_p)
        /\ UNCHANGED queueVars
  /\ core_pc' = "notify" /\ core_p' = NoPbuf
  /\ UNCHANGED <<rec, pending, core_req, dnsVars>>

\* add_to_custom_queue: a full queue drops the request.
Add ==
  /\ core_pc = "add"
  /\ \/ /\ q_len < QMax
        /\ dns_q' = Append(dns_q, core_p) /\ q_len' = q_len + 1
        /\ UNCHANGED poolVars
     \/ /\ q_len >= QMax
        /\ FreeRequest(core_p)
        /\ UNCHANGED queueVars
  /\ core_pc' = "notify" /\ core_p' = NoPbuf
  /\ UNCHANGED <<rec, pending, core_req, dnsVars>>

\* TNotifyAdd, whether or not the request was queued.
Notify ==
  /\ core_pc = "notify"
  /\ pending' = TRUE
  /\ core_pc' = "idle" /\ core_req' = NoRec
  /\ UNCHANGED <<poolVars, rec, queueVars, core_p, dnsVars>>

pdns_recv == (\E r \in Request : Recv(r)) \/ Alloc \/ Decode \/ Add \/ Notify

-----------------------------------------------------------------------------
\* TNotifyWait.
Wait ==
  /\ dns_pc = "wait" /\ pending
  /\ pending' = FALSE
  /\ dns_pc' = "get"
  /\ UNCHANGED <<poolVars, rec, queueVars, coreVars, dns_p, query, answered>>

\* get_from_custom_queue; with a request, getaddrinfo is called.
Get ==
  /\ dns_pc = "get"
  /\ \/ /\ dns_q = <<>>
        /\ dns_pc' = "wait"
        /\ UNCHANGED <<queueVars, dns_p, query>>
     \/ /\ dns_q # <<>>
        /\ dns_q' = Tail(dns_q) /\ q_len' = q_len - 1
        /\ dns_p' = Head(dns_q) /\ query' = rec[Head(dns_q)]
        /\ dns_pc' = "resolve"
  /\ UNCHANGED <<poolVars, rec, pending, coreVars, answered>>

\* Mutant: after an error the thread waits for the next notification.
ResolveWaits ==
  /\ dns_pc = "resolve"
  /\ dns_pc' \in {"wait"} \cup
       (IF Name[query] # <<>> THEN {"send"} ELSE {})
  /\ UNCHANGED <<poolVars, rec, queueVars, pending, coreVars, dns_p, query, answered>>

\* getaddrinfo returns.  There is no answer to the empty name, nor if lwIP has
\* no pbuf for it.
Resolve ==
  /\ dns_pc = "resolve"
  /\ dns_pc' \in {"free"} \cup
       (IF Name[query] # <<>> THEN {"send"} ELSE {})
  /\ UNCHANGED <<poolVars, rec, queueVars, pending, coreVars, dns_p, query, answered>>

\* Mutant: the answer goes to the sender of the datagram received last, whose
\* copy is in the static buffer.
SendLast ==
  /\ dns_pc = "send"
  /\ answered' = [to |-> core_req, about |-> query]
  /\ dns_pc' = "free"
  /\ UNCHANGED <<poolVars, rec, queueVars, pending, coreVars, dns_p, query>>

\* udp_sendto: address, id and name are read from the buffer again.
Send ==
  /\ dns_pc = "send"
  /\ answered' = [to |-> rec[dns_p], about |-> query]
  /\ dns_pc' = "free"
  /\ UNCHANGED <<poolVars, rec, queueVars, pending, coreVars, dns_p, query>>

\* Mutant: one request is worked off for each notification.
FreeOne ==
  /\ dns_pc = "free"
  /\ FreeRequest(dns_p)
  /\ dns_pc' = "wait" /\ dns_p' = NoPbuf
  /\ query' = NoRec /\ answered' = NoAnswer
  /\ UNCHANGED <<rec, queueVars, pending, coreVars>>

\* pbuf_free, and on to the next request.
Free ==
  /\ dns_pc = "free"
  /\ FreeRequest(dns_p)
  /\ dns_pc' = "get" /\ dns_p' = NoPbuf
  /\ query' = NoRec /\ answered' = NoAnswer
  /\ UNCHANGED <<rec, queueVars, pending, coreVars>>

dnsproxy_thread == Wait \/ Get \/ Resolve \/ Send \/ Free

-----------------------------------------------------------------------------
(***************************************************************************)
(* The rest of the bridge (see EthMem)                                     *)
(***************************************************************************)
\* The router's task puts a released buffer back; from then on its content is
\* of no use to anybody.
FreeBlk ==
  /\ free_pbuf_q # <<>>
  /\ free_chain' = free_chain \cup {Head(free_pbuf_q)}
  /\ free_pbuf_q' = Tail(free_pbuf_q)
  /\ rec' = [rec EXCEPT ![Head(free_pbuf_q)] = NoRec]
  /\ UNCHANGED <<others, queueVars, pending, coreVars, dnsVars>>

OtherAlloc ==
  /\ \E p \in free_chain :
       /\ free_chain' = free_chain \ {p}
       /\ others' = others \cup {p}
  /\ UNCHANGED <<free_pbuf_q, rec, queueVars, pending, coreVars, dnsVars>>

OtherFree ==
  /\ \E p \in others :
       /\ others' = others \ {p}
       /\ free_pbuf_q' = Append(free_pbuf_q, p)
  /\ UNCHANGED <<free_chain, rec, queueVars, pending, coreVars, dnsVars>>

Next == pdns_recv \/ dnsproxy_thread \/ FreeBlk \/ OtherAlloc \/ OtherFree

Spec == Init /\ [][Next]_vars

\* The tasks are threads of their own, and getaddrinfo returns.
FairSpec ==
  /\ Spec
  /\ WF_vars(Alloc \/ Decode \/ Add \/ Notify)
  /\ WF_vars(dnsproxy_thread)
  /\ WF_vars(FreeBlk)

-----------------------------------------------------------------------------
\* The places a buffer can be in.
Places == {"free_chain", "free_pbuf_q", "others", "pdns_recv", "dns_q", "thread"}

At(p, c) ==
  \/ c = "free_chain"  /\ p \in free_chain
  \/ c = "free_pbuf_q" /\ p \in Range(free_pbuf_q)
  \/ c = "others"      /\ p \in others
  \/ c = "pdns_recv"   /\ p = core_p
  \/ c = "dns_q"       /\ p \in Range(dns_q)
  \/ c = "thread"      /\ p = dns_p

\* p is in exactly one of them.
OnePlace(p) ==
  \E a \in Places : At(p, a) /\ \A b \in Places : At(p, b) => b = a

\* Over all paths of pdns_recv, the queue and the thread, a buffer of the
\* shared pool is in exactly one place and no queue holds it twice: none
\* leaks, none is released twice.
Ownership ==
  /\ \A p \in Pbuf : OnePlace(p)
  /\ IsInjective(free_pbuf_q) /\ IsInjective(dns_q)

\* Although the buffer stays with the thread while getaddrinfo blocks and the
\* pool is shared, the answer goes to the client that asked for this name.
AnswersOwn == answered.to = answered.about

\* A request in the queue has the thread at work or a notification on its way.
WakeupKept ==
  dns_q # <<>> => dns_pc # "wait" \/ pending \/ core_pc = "notify"

\* A name as resolvers write it: at the positions B the lengths of the labels
\* and the final zero, and between them neither a zero byte nor a dot, which
\* rec->name could not tell from the end and from the dots it has itself.
Marks(q, B) ==
  /\ {1, Len(q)} \subseteq B /\ q[Len(q)] = 0
  /\ \A i \in (1 .. Len(q)) \ B : q[i] \notin {0, Dot}
  /\ \A i \in B \ {Len(q)} :
       /\ q[i] > 0 /\ i + q[i] + 1 \in B
       /\ \A j \in i + 1 .. i + q[i] : j \notin B

WellFormed(q) == \E B \in SUBSET (1 .. Len(q)) : Marks(q, B)

\* Name and answer fit into dpos (225 characters).
Fits(s) == Hdr + Len(s) + 2 + Rest < W

\* An answer repeats the question's name byte for byte.
AnswersRepeat ==
  answered.to # NoRec =>
    LET q == Question[answered.to]
        s == Name[answered.to]
    IN  WellFormed(q) /\ Fits(s) =>
          Answer(s) = [len |-> Hdr + Len(q) + Rest, name |-> q]

\* The invariant behind these, for the proofs: each task holds a buffer
\* exactly where its program says so, and its content is what it was.
Holds ==
  /\ core_p # NoPbuf <=> core_pc \in {"decode", "add"}
  /\ core_req \in Request <=> core_pc # "idle"
  /\ dns_p # NoPbuf <=> dns_pc \in {"resolve", "send", "free"}
  /\ core_pc = "add" => rec[core_p] = core_req
  /\ \A i \in DOMAIN dns_q : rec[dns_q[i]] \in Request
  /\ dns_p # NoPbuf => rec[dns_p] = query /\ query \in Request
  /\ answered # NoAnswer => answered = [to |-> query, about |-> query] /\ dns_p # NoPbuf

QueueCounted == q_len = Len(dns_q)

IInv == TypeOK /\ Ownership /\ Holds /\ QueueCounted /\ WakeupKept

\* What AnswersRepeat rests on besides: only decoded names are queued, and the
\* empty one is never answered.
Decoded ==
  /\ \A p \in Pbuf :
       rec[p] \in Request => Name[rec[p]] # Fail
  /\ dns_pc = "send" \/ answered # NoAnswer =>
       Name[query] # <<>>

\* Every request that was queued is worked off, and its buffer returns to the
\* pool, whether or not getaddrinfo finds the name.
AcceptedEnds ==
  \A p \in Pbuf : p \in Range(dns_q) ~> p \in free_chain
=============================================================================
