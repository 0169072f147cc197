--------------------------------- MODULE Nat ---------------------------------
(***************************************************************************)
(* The NAT of the bridge (eth_nat.c).  The router diverts every packet for *)
(* a foreign address to a local TCP port (forward_nat, on EthQueueTask and *)
(* without a lock); lwIP accepts the connection there, and the table pairs *)
(* it with a socket to the real destination.  NAT_Task moves data from     *)
(* lwIP to the sockets, NAT_RX_Task from the sockets to lwIP.  Both hold   *)
(* the lwIP core lock except during select; the callbacks of lwIP run      *)
(* under it too.  What a task does between two selects is one action.      *)
(*                                                                         *)
(* Abstractions: an address, its port and the protocol are one value.  A   *)
(* UDP flow is one that never connects.  The times of the entries keep     *)
(* only their order.  A queue of pbufs keeps only whose data it holds: the *)
(* number of the socket that was opened for the connection.  pbufs are not *)
(* chained.  Which segments reach lwIP, and the sockets, are left open.    *)
(* backward_nat changes nothing but the packet and is left out.            *)
(***************************************************************************)
EXTENDS Naturals, Sequences, FiniteSets

CONSTANTS Flow,      \* <<source, destination>> of the packets to divert
          Pcb,       \* the TCP control blocks of lwIP (MEMP_NUM_TCP_PCB)
          Null,      \* no address, no pcb
          NTab,      \* NAT_TAB_SIZE
          QLen,      \* SNDQ_MAXLEN, one slot of which stays empty
          MaxSock,   \* number of descriptors the process can open
          PipeLen    \* capacity of a pipe

ASSUME NatAssumption ==
  /\ Null \notin Pcb /\ \A f \in Flow : Null \notin {f[1], f[2]}
  /\ NTab \in Nat \ {0} /\ QLen \in Nat \ {0, 1}
  /\ MaxSock \in Nat /\ PipeLen \in Nat \ {0}

VARIABLES
  nattab,     \* the table
  time,       \* nattab[i].time, as a rank
  fwd,        \* forward_nat: the flow and the entry chosen for it, or idle
  block,      \* block[c]: the peer of control block c, its callback argument
              \* (an entry) and the socket opened for it; NoBlock if free
  open,       \* open descriptors
  wfd, rfd,   \* sockets in the select of NAT_Task, of NAT_RX_Task
  nat_task_pipe, nat_rx_task_pipe,  \* bytes in the pipes
  fault       \* what stopped the process, if anything did

pipeVars == <<nat_task_pipe, nat_rx_task_pipe>>
vars == <<nattab, time, fwd, block, open, wfd, rfd, pipeVars, fault>>

Entry == 0 .. NTab - 1
Src   == {f[1] : f \in Flow}
Dst   == {f[2] : f \in Flow}
Sock  == 1 .. MaxSock
Now   == NTab   \* rank of the present millisecond, above every earlier one
Idle  == [flow |-> Null, entry |-> 0]
NoBlock == [peer |-> Null, arg |-> 0, socket |-> 0]

\* An entry of the table; p is the part of its ring between index_begin and
\* index_end, txbuf says that txbuf_len > 0.
NAT_TAB == [src : Src \cup {Null}, dst : Dst \cup {Null}, status : {0, 1},
            socket : Sock \cup {0}, pcb : Pcb \cup {Null}, p : Seq(Sock),
            offs : {0, 1}, txbuf : BOOLEAN]

TypeOK ==
  /\ nattab \in [Entry -> NAT_TAB]
  /\ \A i \in Entry : Len(nattab[i].p) < QLen
  /\ time \in [Entry -> 0 .. Now]
  /\ fwd \in [flow : Flow \cup {Null}, entry : Entry]
  /\ block \in [Pcb -> [peer : Src, arg : Entry, socket : Sock] \cup {NoBlock}]
  /\ open \subseteq Sock
  /\ wfd \subseteq Sock /\ rfd \subseteq Sock
  /\ nat_task_pipe \in 0 .. PipeLen /\ nat_rx_task_pipe \in 0 .. PipeLen
  /\ fault \in {"none", "no_pbuf", "pcb_not_match"}

Init ==
  /\ nattab = [i \in Entry |->
       [src |-> Null, dst |-> Null, status |-> 0, socket |-> 0, pcb |-> Null,
        p |-> <<>>, offs |-> 0, txbuf |-> FALSE]]
  /\ time = [i \in Entry |-> 0]
  /\ fwd = Idle
  /\ block = [c \in Pcb |-> NoBlock]
  /\ open = {} /\ wfd = {} /\ rfd = {}
  /\ nat_task_pipe = 0 /\ nat_rx_task_pipe = 0
  /\ fault = "none"

Running == fault = "none"
Active(i) == nattab[i].status = 1

\* write(pipe, "1", 1) on a non-blocking pipe: a full pipe drops the byte.
Written(pipe) == IF pipe < PipeLen THEN pipe + 1 ELSE pipe

-----------------------------------------------------------------------------
(***************************************************************************)
(* forward_nat, on EthQueueTask: look the flow up, else replace an entry.  *)
(***************************************************************************)
Match(f) == {i \in Entry : nattab[i].src = f[1] /\ nattab[i].dst = f[2]}

\* The loop over the table remembers the first of the oldest entries without
\* an active connection, and entry 0 if there is none older than this moment.
Old == {i \in Entry : nattab[i].status = 0 /\ time[i] < Now}
Oldest == {i \in Old : \A j \in Old :
             time[i] < time[j] \/ (time[i] = time[j] /\ i <= j)}
Victim == IF Old = {} THEN 0 ELSE CHOOSE i \in Oldest : TRUE

\* The packet's flow is in the table, or the entry to replace is chosen.
ForwardFind(f) ==
  /\ Running /\ fwd = Idle
  /\ IF Match(f) # {}
     THEN /\ time' = [time EXCEPT ![CHOOSE i \in Match(f) :
                                      \A j \in Match(f) : i <= j] = Now]
          /\ UNCHANGED fwd
     ELSE /\ fwd' = [flow |-> f, entry |-> Victim]
          /\ UNCHANGED time
  /\ UNCHANGED <<nattab, block, open, wfd, rfd, pipeVars, fault>>

\* The chosen entry is overwritten; its connection stays where it is.
ForwardWrite ==
  /\ Running /\ fwd # Idle
  /\ nattab' = [nattab EXCEPT ![fwd.entry].src = fwd.flow[1],
                              ![fwd.entry].dst = fwd.flow[2]]
  /\ time' = [time EXCEPT ![fwd.entry] = Now]
  /\ fwd' = Idle
  /\ UNCHANGED <<block, open, wfd, rfd, pipeVars, fault>>

\* xTaskGetTickCount advances: the present becomes the past, ranks close up.
Tick ==
  /\ Running
  /\ time' = [i \in Entry |-> Cardinality({time[j] : j \in
                                 {k \in Entry : time[k] < time[i]}})]
  /\ UNCHANGED <<nattab, fwd, block, open, wfd, rfd, pipeVars, fault>>

-----------------------------------------------------------------------------
(***************************************************************************)
(* Closing a connection.                                                   *)
(***************************************************************************)
\* Mutant: the descriptor is closed, as a commented-out line has it.
DescriptorsClosed(S) == open \ S

\* The open descriptors after nat_close_so_conn: the socket is shut down and
\* the descriptor stays.
Descriptors(S) == open

\* nat_close_so_conn
ClosedSo(e) == [e EXCEPT !.status = 0]

\* nat_close_lw_conn: with a control block, free the queue and the block.
ClosedLw(e) ==
  IF e.pcb = Null THEN [e EXCEPT !.txbuf = FALSE]
  ELSE [e EXCEPT !.txbuf = FALSE, !.p = <<>>, !.offs = 0, !.pcb = Null]

\* tcp_shutdown and tcp_abort leave none of the blocks in C.
Freed(C) == [c \in Pcb |-> IF c \in C THEN NoBlock ELSE block[c]]

\* nat_close_so_conn and nat_close_lw_conn for the entries in I, the other
\* entries being as in tab.  nat_tcp_err, which tcp_abort calls, finds the
\* entry closed already.
Close(tab, I) ==
  /\ nattab' = [i \in Entry |-> IF i \in I THEN ClosedLw(ClosedSo(tab[i]))
                                           ELSE tab[i]]
  /\ block' = Freed({nattab[i].pcb : i \in I})
  /\ open' = Descriptors({nattab[i].socket :
                            i \in {j \in I : Active(j)}})

-----------------------------------------------------------------------------
(***************************************************************************)
(* The callbacks of lwIP.                                                  *)
(***************************************************************************)
\* nat_find_match goes by the source alone.
FromSrc(s) == {i \in Entry : nattab[i].src = s}
Found(s) == CHOOSE i \in FromSrc(s) : \A j \in FromSrc(s) : i <= j

\* Mutant: the ring keeps what a former connection left in it.
AcceptKeepsRing(c, s) ==
  /\ Running /\ block[c] = NoBlock /\ s \notin {block[d].peer : d \in Pcb}
  /\ FromSrc(s) # {} /\ open # Sock
  /\ LET n == CHOOSE x \in Sock \ open : \A y \in Sock \ open : x <= y IN
       /\ nattab' = [nattab EXCEPT ![Found(s)] =
            [@ EXCEPT !.socket = n, !.status = 1, !.pcb = c]]
       /\ open' = open \cup {n}
       /\ block' = [block EXCEPT ![c] =
                      [peer |-> s, arg |-> Found(s), socket |-> n]]
  /\ nat_task_pipe' = Written(nat_task_pipe)
  /\ nat_rx_task_pipe' = Written(nat_rx_task_pipe)
  /\ UNCHANGED <<time, fwd, wfd, rfd, fault>>

\* nat_accept_fn, and lwIP's part: a control block for a peer that has none.
\* If the peer has no entry, or socket or connect fail, lwIP aborts the block
\* and nothing changes.  The lowest free descriptor is the one opened.
Accept(c, s) ==
  /\ Running /\ block[c] = NoBlock /\ s \notin {block[d].peer : d \in Pcb}
  /\ FromSrc(s) # {} /\ open # Sock
  /\ LET n == CHOOSE x \in Sock \ open : \A y \in Sock \ open : x <= y IN
       /\ nattab' = [nattab EXCEPT ![Found(s)] =
            [@ EXCEPT !.socket = n, !.status = 1, !.pcb = c, !.p = <<>>,
                      !.offs = 0]]
       /\ open' = open \cup {n}
       /\ block' = [block EXCEPT ![c] =
                      [peer |-> s, arg |-> Found(s), socket |-> n]]
  /\ nat_task_pipe' = Written(nat_task_pipe)
  /\ nat_rx_task_pipe' = Written(nat_rx_task_pipe)
  /\ UNCHANGED <<time, fwd, wfd, rfd, fault>>

\* Mutant: the ring is not tested for being full.
RecvUnlimited(c) ==
  /\ Running /\ block[c] # NoBlock
  /\ LET e == nattab[block[c].arg] IN
       /\ e.src = block[c].peer
       /\ IF e.pcb # c
          THEN /\ fault' = "pcb_not_match"
               /\ UNCHANGED <<nattab, nat_task_pipe>>
          ELSE /\ nattab' = [nattab EXCEPT ![block[c].arg].p = Append(@, block[c].socket)]
               /\ nat_task_pipe' = Written(nat_task_pipe)
               /\ UNCHANGED fault
  /\ UNCHANGED <<time, fwd, block, open, wfd, rfd, nat_rx_task_pipe>>

\* Mutant: the byte goes into the pipe of the other task.
RecvWakesRx(c) ==
  /\ Running /\ block[c] # NoBlock
  /\ LET e == nattab[block[c].arg] IN
       /\ e.src = block[c].peer /\ Len(e.p) < QLen - 1
       /\ IF e.pcb # c
          THEN /\ fault' = "pcb_not_match"
               /\ UNCHANGED <<nattab, nat_rx_task_pipe>>
          ELSE /\ nattab' = [nattab EXCEPT ![block[c].arg].p = Append(@, block[c].socket)]
               /\ nat_rx_task_pipe' = Written(nat_rx_task_pipe)
               /\ UNCHANGED fault
  /\ UNCHANGED <<time, fwd, block, open, wfd, rfd, nat_task_pipe>>

\* nat_tcp_recv with data: dropped if the entry is now another peer's or its
\* ring is full; endless loop if it is another connection's; else queued.
Recv(c) ==
  /\ Running /\ block[c] # NoBlock
  /\ LET e == nattab[block[c].arg] IN
       /\ e.src = block[c].peer /\ Len(e.p) < QLen - 1
       /\ IF e.pcb # c
          THEN /\ fault' = "pcb_not_match"
               /\ UNCHANGED <<nattab, nat_task_pipe>>
          ELSE /\ nattab' = [nattab EXCEPT ![block[c].arg].p = Append(@, block[c].socket)]
               /\ nat_task_pipe' = Written(nat_task_pipe)
               /\ UNCHANGED fault
  /\ UNCHANGED <<time, fwd, block, open, wfd, rfd, nat_rx_task_pipe>>

\* nat_tcp_recv without data: the peer closed its side.
RecvFin(c) ==
  /\ Running /\ block[c] # NoBlock
  /\ Close(nattab, {block[c].arg})
  /\ UNCHANGED <<time, fwd, wfd, rfd, pipeVars, fault>>

\* nat_tcp_sent only wakes NAT_Task.
Sent(c) ==
  /\ Running /\ block[c] # NoBlock
  /\ nat_task_pipe' = Written(nat_task_pipe)
  /\ UNCHANGED <<nattab, time, fwd, block, open, wfd, rfd, nat_rx_task_pipe,
                 fault>>

\* Mutant: the entry stays active.
TcpErrActive(c) ==
  /\ Running /\ block[c] # NoBlock
  /\ nattab' = [nattab EXCEPT ![block[c].arg].pcb = Null]
  /\ open' = open
  /\ block' = Freed({c})
  /\ UNCHANGED <<time, fwd, wfd, rfd, pipeVars, fault>>

\* nat_tcp_err: lwIP has freed the block (reset by the peer, timeout).  The
\* queue of the entry and txbuf are left as they are.
TcpErr(c) ==
  /\ Running /\ block[c] # NoBlock
  /\ LET i == block[c].arg IN
       /\ nattab' = [nattab EXCEPT ![i] = [ClosedSo(@) EXCEPT !.pcb = Null]]
       /\ open' = IF Active(i) THEN Descriptors({nattab[i].socket}) ELSE open
  /\ block' = Freed({c})
  /\ UNCHANGED <<time, fwd, wfd, rfd, pipeVars, fault>>

-----------------------------------------------------------------------------
(***************************************************************************)
(* NAT_Task.  A turn starts when select returned and the core is locked    *)
(* again; it serves the sockets reported ready and ends by building the    *)
(* set for the next select.  An interrupted select reports nothing.        *)
(***************************************************************************)
\* What send may do: take all, take a part, take nothing, fail.
SendResult == {"all", "part", "again", "error"}

\* The packet at the head of the ring is sent, in whole or in part.
Served(e, res) ==
  CASE res = "all"  -> [e EXCEPT !.p = Tail(@), !.offs = 0]
    [] res = "part" -> [e EXCEPT !.offs = 1]
    [] OTHER        -> e

WriteSet(tab) ==
  {tab[i].socket : i \in {j \in Entry : tab[j].status = 1 /\ tab[j].p # <<>>}}

\* One byte is read from a pipe that select reported readable.
ReadPipe(pipe, rd) == IF rd /\ pipe > 0 THEN pipe - 1 ELSE pipe

TaskTurn(I, rd, res) ==
  /\ Running
  /\ nat_task_pipe' = ReadPipe(nat_task_pipe, rd)
  /\ IF \E i \in I : nattab[i].p = <<>>
     THEN /\ fault' = "no_pbuf"
          /\ UNCHANGED <<nattab, block, open, wfd>>
     ELSE /\ Close([i \in Entry |-> IF i \in I THEN Served(nattab[i], res[i])
                                               ELSE nattab[i]],
                   {i \in I : res[i] = "error"})
          /\ wfd' = WriteSet(nattab')
          /\ UNCHANGED fault
  /\ UNCHANGED <<time, fwd, rfd, nat_rx_task_pipe>>

\* The active entries whose socket is in a set that select watched.
Watched(fds) == {i \in Entry : Active(i) /\ nattab[i].socket \in fds}

NAT_Task ==
  \E I \in SUBSET Watched(wfd), rd \in BOOLEAN :
    \E res \in [I -> SendResult] : TaskTurn(I, rd, res)

-----------------------------------------------------------------------------
(***************************************************************************)
(* NAT_RX_Task.  For a readable socket it reads and passes on until the    *)
(* socket is empty or lwIP takes no more (txbuf stays full), or closes.    *)
(***************************************************************************)
\* Everything read went to lwIP; lwIP refused the last buffer; the socket
\* failed or was closed.
RecvResult == {"passed", "refused", "closed"}

ReadSet(tab) == {tab[i].socket : i \in {j \in Entry : tab[j].status = 1}}

RxTurn(I, rd, res) ==
  /\ Running
  /\ nat_rx_task_pipe' = ReadPipe(nat_rx_task_pipe, rd)
  /\ Close([i \in Entry |->
              IF i \in I THEN [nattab[i] EXCEPT !.txbuf = res[i] = "refused"]
                         ELSE nattab[i]],
           {i \in I : res[i] = "closed"})
  /\ rfd' = ReadSet(nattab')
  /\ UNCHANGED <<time, fwd, wfd, nat_task_pipe, fault>>

NAT_RX_Task ==
  \E I \in SUBSET Watched(rfd), rd \in BOOLEAN :
    \E res \in [I -> RecvResult] : RxTurn(I, rd, res)

-----------------------------------------------------------------------------
\* After a crash, or in the endless loop of nat_tcp_recv, nothing moves.
Stopped == ~Running /\ UNCHANGED vars

Next ==
  \/ \E f \in Flow : ForwardFind(f)
  \/ ForwardWrite
  \/ Tick
  \/ \E c \in Pcb : \E s \in Src : Accept(c, s)
  \/ \E c \in Pcb : Recv(c) \/ RecvFin(c) \/ Sent(c) \/ TcpErr(c)
  \/ NAT_Task
  \/ NAT_RX_Task
  \/ Stopped

Spec == Init /\ [][Next]_vars

-----------------------------------------------------------------------------
(***************************************************************************)
(* Properties                                                              *)
(***************************************************************************)
\* NAT_Task sends through a socket only data of the connection the socket was
\* opened for, and never finds the ring empty: although it serves the sockets
\* it collected before select, and the table may have changed meanwhile.
SendsOwnData ==
  /\ fault # "no_pbuf"
  /\ \A i \in Entry : Active(i) =>
       \A k \in DOMAIN nattab[i].p : nattab[i].p[k] = nattab[i].socket

\* An active entry has a control block, which lwIP has not freed, whose
\* callbacks come back to this entry, and whose socket no other entry has:
\* both tasks use the block of every active entry without a test.
ActiveHasPcb ==
  \A i \in Entry : Active(i) =>
    /\ nattab[i].pcb \in Pcb
    /\ block[nattab[i].pcb] # NoBlock
    /\ block[nattab[i].pcb].arg = i
    /\ block[nattab[i].pcb].socket = nattab[i].socket
    /\ \A j \in Entry \ {i} : Active(j) => nattab[j].socket # nattab[i].socket

\* No wakeup is lost: a connection with data, or one with a socket to read
\* from, that the pending select does not watch has left a byte in the pipe,
\* which the select does watch.
PipeWakes ==
  \A i \in Entry : Active(i) =>
    /\ nattab[i].p # <<>> /\ nattab[i].socket \notin wfd => nat_task_pipe > 0
    /\ nattab[i].socket \notin rfd => nat_rx_task_pipe > 0

\* forward_nat never replaces an entry whose connection is active.
EvictsIdleOnly ==
  [][\A i \in Entry : Active(i) => nattab'[i].src = nattab[i].src]_vars
=============================================================================
