------------------------------ MODULE NatProofs ------------------------------
(***************************************************************************)
(* Proofs about the NAT, for any flows, control blocks, table size, ring   *)
(* length, number of descriptors and capacity of the pipes.                *)
(***************************************************************************)
EXTENDS Nat, DataLemmas

\* What the properties rest on.  An entry has a control block exactly while it
\* is active; the sockets of active entries, and those that NAT_Task watches,
\* are open, so that a new descriptor is none of them; a watched ring has data.
PcbWhileActive == \A i \in Entry : Active(i) \/ nattab[i].pcb = Null
SocketsOpen ==
  /\ \A i \in Entry : Active(i) => nattab[i].socket \in open
  /\ wfd \subseteq open
RingWatched ==
  \A i \in Entry :
    Active(i) /\ nattab[i].socket \in wfd => nattab[i].p # <<>>

TableInv ==
  /\ ActiveHasPcb /\ PcbWhileActive /\ SocketsOpen /\ RingWatched
  /\ SendsOwnData /\ PipeWakes

\* An entry is chosen for a flow.
ChosenForFlow == fwd = Idle \/ fwd.flow \in Flow

IInv == TypeOK /\ ChosenForFlow /\ TableInv

-----------------------------------------------------------------------------
(***************************************************************************)
(* Choices                                                                 *)
(***************************************************************************)
LEMMA EntryLemma == NTab \in Nat \ {0} /\ Entry \subseteq Nat /\ 0 \in Entry
BY NatAssumption DEF Entry

\* A set of entries or descriptors has a lowest one.
LEMMA LowestLemma ==
  ASSUME NEW S \in SUBSET Nat, S # {}
  PROVE  (CHOOSE i \in S : \A j \in S : i <= j) \in S
<1>1. \E i \in S : \A j \in S : i <= j
  BY MinExists
<1> QED BY <1>1

\* The entry that forward_nat replaces is one of the table.
LEMMA VictimLemma ==
  ASSUME time \in [Entry -> 0 .. Now]
  PROVE  Victim \in Entry
<1>1. CASE Old = {}
  BY <1>1, EntryLemma DEF Victim
<1>2. CASE Old # {}
  <2> DEFINE T == {time[j] : j \in Old}
  <2>1. /\ Old \subseteq Entry
        /\ \A j \in Old : time[j] \in Nat
    BY EntryLemma DEF Old, Now
  <2>2. T \in SUBSET Nat /\ T # {}
    BY <1>2, <2>1
  <2>3. PICK t \in T : \A u \in T : t <= u
    BY <2>2, MinExists
  <2> DEFINE S == {i \in Old : time[i] = t}
  <2>4. S \in SUBSET Nat /\ S # {}
    BY <2>1, <2>3, EntryLemma
  <2>5. PICK m \in S : \A k \in S : m <= k
    BY <2>4, MinExists
  <2>6. ASSUME NEW j \in Old
        PROVE  time[m] < time[j] \/ (time[m] = time[j] /\ m <= j)
    <3>1. time[m] = t /\ t \in Nat /\ time[j] \in Nat /\ t <= time[j]
      BY <2>1, <2>2, <2>3, <2>5
    <3>2. CASE time[j] = t
      BY <2>5, <3>1, <3>2
    <3>3. CASE time[j] # t
      BY <3>1, <3>3
    <3> QED BY <3>2, <3>3
  <2>7. m \in Oldest
    BY <2>5, <2>6 DEF Oldest
  <2>8. Victim \in Oldest
    BY <1>2, <2>7 DEF Victim
  <2> QED BY <2>1, <2>8 DEF Oldest
<1> QED BY <1>1, <1>2

\* An entry has at most as many ranks below it as the table has entries.
LEMMA RankLemma ==
  ASSUME time \in [Entry -> 0 .. Now], NEW i \in Entry
  PROVE  Cardinality({time[j] : j \in {k \in Entry : time[k] < time[i]}})
           \in 0 .. Now
<1> DEFINE K == {k \in Entry : time[k] < time[i]}
           T == {time[j] : j \in K}
           f == [j \in K |-> time[j]]
<1>1. IsFiniteSet(Entry) /\ Cardinality(Entry) = NTab
  <2>1. 0 \in Int /\ NTab - 1 \in Int /\ ~(0 > NTab - 1)
        /\ (NTab - 1) - 0 + 1 = NTab
    BY EntryLemma
  <2> QED BY <2>1, FS_Interval DEF Entry
<1>2. K \in SUBSET Entry
  OBVIOUS
<1>3. IsFiniteSet(K) /\ Cardinality(K) <= NTab
  BY <1>1, <1>2, FS_Subset
<1>4. f \in Surjection(K, T)
  BY DEF Surjection
<1>5. IsFiniteSet(T) /\ Cardinality(T) <= Cardinality(K)
  BY <1>3, <1>4, FS_Surjection
<1>6. Cardinality(T) \in Nat /\ Cardinality(K) \in Nat
  BY <1>3, <1>5, FS_CardinalityType
<1>7. Cardinality(T) \in 0 .. NTab
  BY <1>3, <1>5, <1>6, EntryLemma
<1> QED BY <1>7 DEF Now

\* A full pipe still holds a byte.
LEMMA PipeLemma ==
  ASSUME NEW pipe \in 0 .. PipeLen
  PROVE  /\ Written(pipe) \in 0 .. PipeLen /\ Written(pipe) > 0
         /\ \A rd \in BOOLEAN : ReadPipe(pipe, rd) \in 0 .. PipeLen
BY NatAssumption DEF Written, ReadPipe

-----------------------------------------------------------------------------
(***************************************************************************)
(* Closing                                                                 *)
(***************************************************************************)
\* A closed entry is free: neither active nor with a control block.
LEMMA ClosedLemma ==
  ASSUME NEW e \in NAT_TAB, Len(e.p) < QLen
  PROVE  /\ ClosedLw(ClosedSo(e)) \in NAT_TAB
         /\ ClosedLw(ClosedSo(e)).status = 0
         /\ ClosedLw(ClosedSo(e)).pcb = Null
         /\ Len(ClosedLw(ClosedSo(e)).p) < QLen
<1> DEFINE d == [e EXCEPT !.status = 0]
<1>1. d \in NAT_TAB /\ d.status = 0 /\ d.pcb = e.pcb /\ d.p = e.p
  BY DEF NAT_TAB
<1>2. ClosedSo(e) = d
  BY DEF ClosedSo
<1> HIDE DEF d
<1>3. CASE d.pcb = Null
  <2>1. ClosedLw(d) = [d EXCEPT !.txbuf = FALSE]
    BY <1>3 DEF ClosedLw
  <2>2. [d EXCEPT !.txbuf = FALSE] \in NAT_TAB
    BY <1>1 DEF NAT_TAB
  <2>3. /\ [d EXCEPT !.txbuf = FALSE].status = 0
        /\ [d EXCEPT !.txbuf = FALSE].pcb = Null
        /\ [d EXCEPT !.txbuf = FALSE].p = e.p
    BY <1>1, <1>3 DEF NAT_TAB
  <2> QED BY <1>2, <2>1, <2>2, <2>3
<1>4. CASE d.pcb # Null
  <2> DEFINE c == [d EXCEPT !.txbuf = FALSE, !.p = <<>>, !.offs = 0,
                            !.pcb = Null]
  <2>1. ClosedLw(d) = c
    BY <1>4 DEF ClosedLw
  <2>2. c.status = 0 /\ c.pcb = Null /\ c.p = <<>>
    BY <1>1 DEF NAT_TAB
  <2>3. c \in NAT_TAB
    <3>1. <<>> \in Seq(Sock) /\ FALSE \in BOOLEAN
      OBVIOUS
    <3>2. [d EXCEPT !.txbuf = FALSE] \in NAT_TAB
      BY <1>1, <3>1 DEF NAT_TAB
    <3>3. \A b \in NAT_TAB : [b EXCEPT !.p = <<>>, !.offs = 0, !.pcb = Null]
                              \in NAT_TAB
      BY <3>1 DEF NAT_TAB
    <3>4. c = [[d EXCEPT !.txbuf = FALSE] EXCEPT !.p = <<>>, !.offs = 0,
                                                 !.pcb = Null]
      OBVIOUS
    <3> QED BY <3>2, <3>3, <3>4
  <2>4. Len(<<>>) = 0 /\ QLen \in Nat \ {0, 1}
    BY NatAssumption
  <2> HIDE DEF c
  <2> QED BY <1>2, <2>1, <2>2, <2>3, <2>4
<1> QED BY <1>3, <1>4

\* A table that agrees with the present one in status, socket and control
\* block.
Agrees(tab) ==
  /\ tab \in [Entry -> NAT_TAB]
  /\ \A i \in Entry : /\ tab[i].status = nattab[i].status
                      /\ tab[i].socket = nattab[i].socket
                      /\ tab[i].pcb = nattab[i].pcb
                      /\ Len(tab[i].p) < QLen

\* What Close does to such a table.
LEMMA CloseLemma ==
  ASSUME TypeOK, PcbWhileActive, ActiveHasPcb, NEW I, I \subseteq Entry,
         NEW tab, Agrees(tab), Close(tab, I)
  PROVE  /\ nattab' \in [Entry -> NAT_TAB]
         /\ \A i \in Entry : Len(nattab'[i].p) < QLen
         /\ block' \in [Pcb -> [peer : Src, arg : Entry, socket : Sock]
                               \cup {NoBlock}]
         /\ open' = open
         /\ PcbWhileActive' /\ ActiveHasPcb'
         /\ \A i \in Entry : nattab'[i].status = 1 =>
              i \notin I /\ Active(i) /\ nattab'[i] = tab[i]
<1>0. /\ tab \in [Entry -> NAT_TAB]
      /\ \A i \in Entry : /\ tab[i].status = nattab[i].status
                          /\ tab[i].socket = nattab[i].socket
                          /\ tab[i].pcb = nattab[i].pcb
                          /\ Len(tab[i].p) < QLen
  BY DEF Agrees
<1>1. \A i \in Entry : nattab'[i] = IF i \in I THEN ClosedLw(ClosedSo(tab[i]))
                                    ELSE tab[i]
  BY DEF Close
<1>2. ASSUME NEW i \in I
      PROVE  /\ nattab'[i] \in NAT_TAB
             /\ nattab'[i].status = 0 /\ nattab'[i].pcb = Null
             /\ Len(nattab'[i].p) < QLen
  <2>1. tab[i] \in NAT_TAB /\ Len(tab[i].p) < QLen
    BY <1>0
  <2>2. nattab'[i] = ClosedLw(ClosedSo(tab[i]))
    BY <1>1
  <2> QED BY <2>1, <2>2, ClosedLemma
<1>3. nattab' = [i \in Entry |-> IF i \in I THEN ClosedLw(ClosedSo(tab[i]))
                                 ELSE tab[i]]
  BY DEF Close
<1>4. nattab' \in [Entry -> NAT_TAB]
  BY <1>0, <1>1, <1>2, <1>3
<1>5. \A i \in Entry : Len(nattab'[i].p) < QLen
  BY <1>0, <1>1, <1>2
<1>6. \A i \in Entry : nattab'[i].status = 1 =>
        i \notin I /\ Active(i) /\ nattab'[i] = tab[i]
  BY <1>0, <1>1, <1>2 DEF Active
<1>7. PcbWhileActive'
  BY <1>0, <1>1, <1>2 DEF PcbWhileActive, Active
<1>8. block' = Freed({nattab[i].pcb : i \in I})
  BY DEF Close
<1>9. block' \in [Pcb -> [peer : Src, arg : Entry, socket : Sock]
                         \cup {NoBlock}]
  BY <1>8 DEF Freed, TypeOK
<1>10. ActiveHasPcb'
  <2> SUFFICES ASSUME NEW i \in Entry, nattab'[i].status = 1
               PROVE  /\ nattab'[i].pcb \in Pcb
                      /\ block'[nattab'[i].pcb] # NoBlock
                      /\ block'[nattab'[i].pcb].arg = i
                      /\ block'[nattab'[i].pcb].socket = nattab'[i].socket
                      /\ \A j \in Entry \ {i} : nattab'[j].status = 1 =>
                           nattab'[j].socket # nattab'[i].socket
    BY DEF ActiveHasPcb, Active
  <2>1. /\ i \notin I /\ Active(i)
        /\ nattab'[i].pcb = nattab[i].pcb
        /\ nattab'[i].socket = nattab[i].socket
    BY <1>0, <1>6
  <2>2. /\ nattab[i].pcb \in Pcb
        /\ block[nattab[i].pcb] # NoBlock
        /\ block[nattab[i].pcb].arg = i
        /\ block[nattab[i].pcb].socket = nattab[i].socket
        /\ \A j \in Entry \ {i} : Active(j) =>
             nattab[j].socket # nattab[i].socket
    BY <2>1 DEF ActiveHasPcb
  <2>3. ASSUME NEW j \in I, nattab[j].pcb = nattab[i].pcb PROVE FALSE
    <3>1. j \in Entry /\ j # i
      BY <2>1
    <3>2. CASE Active(j)
      BY <2>2, <2>3, <3>1, <3>2 DEF ActiveHasPcb
    <3>3. CASE ~Active(j)
      BY <2>2, <2>3, <3>1, <3>3, NatAssumption DEF PcbWhileActive
    <3> QED BY <3>2, <3>3
  <2>4. block'[nattab[i].pcb] = block[nattab[i].pcb]
    BY <1>8, <2>2, <2>3 DEF Freed
  <2>5. \A j \in Entry \ {i} : nattab'[j].status = 1 =>
          nattab'[j].socket # nattab'[i].socket
    BY <1>0, <1>6, <2>1, <2>2
  <2> QED BY <2>1, <2>2, <2>4, <2>5
<1>11. open' = open
  BY DEF Close, Descriptors
<1> QED BY <1>4, <1>5, <1>6, <1>7, <1>9, <1>10, <1>11

-----------------------------------------------------------------------------
(***************************************************************************)
(* The steps                                                               *)
(***************************************************************************)
\* The thread of the router writes addresses and times only.
LEMMA ForwardNext ==
  ASSUME IInv, (\E f \in Flow : ForwardFind(f)) \/ ForwardWrite \/ Tick
  PROVE  IInv'
<1>1. TypeOK /\ ChosenForFlow /\ TableInv
  BY DEF IInv
<1>2. ASSUME NEW f \in Flow, ForwardFind(f) PROVE IInv'
  <2>1. time' \in [Entry -> 0 .. Now]
    <3>1. Now \in 0 .. Now
      BY EntryLemma DEF Now
    <3>2. CASE Match(f) # {}
      BY <1>1, <1>2, <3>1, <3>2 DEF ForwardFind, TypeOK
    <3>3. CASE Match(f) = {}
      BY <1>1, <1>2, <3>3 DEF ForwardFind, TypeOK
    <3> QED BY <3>2, <3>3
  <2>2. fwd' \in [flow : Flow \cup {Null}, entry : Entry]
    BY <1>1, <1>2, VictimLemma DEF ForwardFind, TypeOK
  <2>3. UNCHANGED <<nattab, block, open, wfd, rfd, pipeVars, fault>>
    BY <1>2 DEF ForwardFind
  <2>4. TypeOK'
    BY <1>1, <2>1, <2>2, <2>3 DEF TypeOK, pipeVars
  <2>5. TableInv'
    BY <1>1, <2>3 DEF TableInv, ActiveHasPcb, PcbWhileActive, SocketsOpen,
                      RingWatched, SendsOwnData, PipeWakes, Active, pipeVars
  <2>6. ChosenForFlow'
    BY <1>1, <1>2 DEF ForwardFind, ChosenForFlow
  <2> QED BY <2>4, <2>5, <2>6 DEF IInv
<1>3. CASE ForwardWrite
  <2> DEFINE n == fwd.entry
  <2>1. /\ n \in Entry /\ fwd.flow \in Flow
        /\ fwd.flow[1] \in Src /\ fwd.flow[2] \in Dst
    BY <1>1, <1>3 DEF ForwardWrite, TypeOK, Src, Dst, ChosenForFlow
  <2>2. /\ nattab' \in [Entry -> NAT_TAB]
        /\ \A i \in Entry : /\ nattab'[i].status = nattab[i].status
                            /\ nattab'[i].socket = nattab[i].socket
                            /\ nattab'[i].pcb = nattab[i].pcb
                            /\ nattab'[i].p = nattab[i].p
    <3>1. nattab[n] \in NAT_TAB
      BY <1>1, <2>1 DEF TypeOK
    <3> DEFINE e == [nattab[n] EXCEPT !.src = fwd.flow[1],
                                      !.dst = fwd.flow[2]]
    <3>2. /\ e \in NAT_TAB
          /\ e.status = nattab[n].status /\ e.socket = nattab[n].socket
          /\ e.pcb = nattab[n].pcb /\ e.p = nattab[n].p
      BY <2>1, <3>1 DEF NAT_TAB
    <3>3. nattab' = [nattab EXCEPT ![n] = e]
      BY <1>1, <1>3, <2>1 DEF ForwardWrite, TypeOK
    <3> HIDE DEF e
    <3> QED BY <1>1, <2>1, <3>2, <3>3 DEF TypeOK
  <2>3. time' \in [Entry -> 0 .. Now]
    BY <1>1, <1>3, EntryLemma DEF ForwardWrite, TypeOK, Now
  <2>4. fwd' \in [flow : Flow \cup {Null}, entry : Entry]
    BY <1>3, EntryLemma DEF ForwardWrite, Idle
  <2>5. UNCHANGED <<block, open, wfd, rfd, pipeVars, fault>>
    BY <1>3 DEF ForwardWrite
  <2>6. TypeOK'
    BY <1>1, <2>2, <2>3, <2>4, <2>5 DEF TypeOK, pipeVars
  <2>7. TableInv'
    BY <1>1, <2>2, <2>5 DEF TableInv, ActiveHasPcb, PcbWhileActive,
                      SocketsOpen, RingWatched, SendsOwnData, PipeWakes, Active,
                      pipeVars
  <2>8. ChosenForFlow'
    BY <1>3 DEF ForwardWrite, ChosenForFlow
  <2> QED BY <2>6, <2>7, <2>8 DEF IInv
<1>4. CASE Tick
  <2>1. time' \in [Entry -> 0 .. Now]
    BY <1>1, <1>4, RankLemma DEF Tick, TypeOK
  <2>2. UNCHANGED <<nattab, fwd, block, open, wfd, rfd, pipeVars, fault>>
    BY <1>4 DEF Tick
  <2>3. TypeOK'
    BY <1>1, <2>1, <2>2 DEF TypeOK, pipeVars
  <2>4. TableInv'
    BY <1>1, <2>2 DEF TableInv, ActiveHasPcb, PcbWhileActive, SocketsOpen,
                      RingWatched, SendsOwnData, PipeWakes, Active, pipeVars
  <2> QED BY <1>1, <2>2, <2>3, <2>4 DEF IInv, ChosenForFlow
<1> QED BY <1>2, <1>3, <1>4

\* A new connection: its descriptor is new, its ring empty and its control
\* block known to nobody.
LEMMA AcceptNext ==
  ASSUME IInv, NEW c \in Pcb, NEW s \in Src, Accept(c, s)
  PROVE  IInv'
<1> DEFINE m == Found(s)
           n == CHOOSE x \in Sock \ open : \A y \in Sock \ open : x <= y
<1>1. TypeOK /\ ChosenForFlow /\ TableInv
  BY DEF IInv
<1>2. m \in Entry
  <2>1. FromSrc(s) \in SUBSET Nat /\ FromSrc(s) # {} /\ FromSrc(s) \subseteq Entry
    BY EntryLemma DEF Accept, FromSrc
  <2> QED BY <2>1, LowestLemma DEF Found
<1>3. n \in Sock /\ n \notin open
  <2>1. Sock \ open \in SUBSET Nat /\ Sock \ open # {}
    <3>1. Sock \subseteq Nat
      BY NatAssumption DEF Sock
    <3> QED BY <1>1, <3>1 DEF Accept, TypeOK
  <2>2. n \in Sock \ open
    BY <2>1, LowestLemma
  <2> QED BY <2>2
<1>4. /\ nattab' = [nattab EXCEPT ![m] =
           [@ EXCEPT !.socket = n, !.status = 1, !.pcb = c, !.p = <<>>,
                     !.offs = 0]]
      /\ open' = open \cup {n}
      /\ block' = [block EXCEPT ![c] = [peer |-> s, arg |-> m, socket |-> n]]
      /\ nat_task_pipe' = Written(nat_task_pipe)
      /\ nat_rx_task_pipe' = Written(nat_rx_task_pipe)
      /\ UNCHANGED <<time, fwd, wfd, rfd, fault>>
      /\ block[c] = NoBlock
  BY DEF Accept
<1> HIDE DEF m, n
<1>5. /\ nattab'[m] \in NAT_TAB /\ nattab'[m].socket = n
      /\ nattab'[m].status = 1 /\ nattab'[m].pcb = c /\ nattab'[m].p = <<>>
  <2>1. nattab[m] \in NAT_TAB /\ <<>> \in Seq(Sock)
    BY <1>1, <1>2 DEF TypeOK
  <2> QED BY <1>1, <1>2, <1>3, <1>4, <2>1 DEF TypeOK, NAT_TAB
<1>6. /\ \A i \in Entry \ {m} : nattab'[i] = nattab[i]
      /\ nattab' \in [Entry -> NAT_TAB]
  BY <1>1, <1>2, <1>4, <1>5 DEF TypeOK
<1>7. /\ block'[c] = [peer |-> s, arg |-> m, socket |-> n]
      /\ block'[c] # NoBlock /\ block'[c].arg = m /\ block'[c].socket = n
      /\ \A d \in Pcb \ {c} : block'[d] = block[d]
      /\ block' \in [Pcb -> [peer : Src, arg : Entry, socket : Sock]
                            \cup {NoBlock}]
  <2>1. /\ [peer |-> s, arg |-> m, socket |-> n]
             \in [peer : Src, arg : Entry, socket : Sock]
        /\ [peer |-> s, arg |-> m, socket |-> n] # NoBlock
    BY <1>2, <1>3 DEF NoBlock, Sock
  <2> QED BY <1>1, <1>4, <2>1 DEF TypeOK
<1>8. /\ nat_task_pipe' \in 0 .. PipeLen /\ nat_task_pipe' > 0
      /\ nat_rx_task_pipe' \in 0 .. PipeLen /\ nat_rx_task_pipe' > 0
  BY <1>1, <1>4, PipeLemma DEF TypeOK
<1>9. TypeOK'
  <2>1. \A i \in Entry : Len(nattab'[i].p) < QLen
    <3>1. Len(<<>>) = 0 /\ QLen \in Nat \ {0, 1}
      BY NatAssumption
    <3> QED BY <1>1, <1>5, <1>6, <3>1 DEF TypeOK
  <2>2. open' \subseteq Sock
    BY <1>1, <1>3, <1>4 DEF TypeOK
  <2> QED BY <1>1, <1>4, <1>6, <1>7, <1>8, <2>1, <2>2 DEF TypeOK
<1>10. ASSUME NEW i \in Entry \ {m}, Active(i)
       PROVE  nattab[i].pcb \in Pcb \ {c} /\ nattab[i].socket # n
  BY <1>1, <1>3, <1>4, <1>10 DEF TableInv, ActiveHasPcb, SocketsOpen
<1>11. ActiveHasPcb'
  <2> SUFFICES ASSUME NEW i \in Entry, nattab'[i].status = 1
               PROVE  /\ nattab'[i].pcb \in Pcb
                      /\ block'[nattab'[i].pcb] # NoBlock
                      /\ block'[nattab'[i].pcb].arg = i
                      /\ block'[nattab'[i].pcb].socket = nattab'[i].socket
                      /\ \A j \in Entry \ {i} : nattab'[j].status = 1 =>
                           nattab'[j].socket # nattab'[i].socket
    BY DEF ActiveHasPcb, Active
  <2>1. CASE i = m
    BY <1>5, <1>6, <1>7, <1>10, <2>1 DEF Active
  <2>2. CASE i # m
    <3>1. /\ Active(i) /\ nattab'[i] = nattab[i]
          /\ nattab[i].pcb \in Pcb \ {c} /\ nattab[i].socket # n
      BY <1>6, <1>10, <2>2 DEF Active
    <3>2. /\ block[nattab[i].pcb] # NoBlock
          /\ block[nattab[i].pcb].arg = i
          /\ block[nattab[i].pcb].socket = nattab[i].socket
          /\ \A j \in Entry \ {i} : Active(j) =>
               nattab[j].socket # nattab[i].socket
      BY <1>1, <3>1 DEF TableInv, ActiveHasPcb
    <3>3. block'[nattab[i].pcb] = block[nattab[i].pcb]
      BY <1>7, <3>1
    <3>4. ASSUME NEW j \in Entry \ {i}, nattab'[j].status = 1
          PROVE  nattab'[j].socket # nattab'[i].socket
      BY <1>5, <1>6, <3>1, <3>2, <3>4 DEF Active
    <3> QED BY <3>1, <3>2, <3>3, <3>4
  <2> QED BY <2>1, <2>2
<1>12. PcbWhileActive'
  BY <1>1, <1>5, <1>6 DEF TableInv, PcbWhileActive, Active
<1>13. SocketsOpen'
  BY <1>1, <1>4, <1>5, <1>6 DEF TableInv, SocketsOpen, Active
<1>14. RingWatched'
  <2>1. n \notin wfd'
    BY <1>1, <1>3, <1>4 DEF TableInv, SocketsOpen
  <2> QED BY <1>1, <1>4, <1>5, <1>6, <2>1 DEF TableInv, RingWatched, Active
<1>15. SendsOwnData'
  <2>1. DOMAIN <<>> = {}
    OBVIOUS
  <2> QED BY <1>1, <1>4, <1>5, <1>6, <2>1 DEF TableInv, SendsOwnData, Active
<1>16. PipeWakes'
  BY <1>8 DEF PipeWakes
<1> QED BY <1>1, <1>4, <1>9, <1>11, <1>12, <1>13, <1>14, <1>15, <1>16
        DEF IInv, TableInv, ChosenForFlow

\* Data of a connection joins the ring of its entry if that is still its own;
\* otherwise the callback loops for ever.
LEMMA RecvNext ==
  ASSUME IInv, NEW c \in Pcb, Recv(c)
  PROVE  IInv'
<1> DEFINE m == block[c].arg
           q == Append(nattab[m].p, block[c].socket)
<1>1. TypeOK /\ ChosenForFlow /\ TableInv
  BY DEF IInv
<1>2. m \in Entry /\ block[c].socket \in Sock
  BY <1>1 DEF TypeOK, Recv
<1>3. UNCHANGED <<time, fwd, block, open, wfd, rfd, nat_rx_task_pipe>>
  BY DEF Recv
<1>4. CASE nattab[m].pcb # c
  <2>1. UNCHANGED <<nattab, nat_task_pipe>> /\ fault' = "pcb_not_match"
    BY <1>4 DEF Recv
  <2>2. TypeOK' /\ ChosenForFlow'
    BY <1>1, <1>3, <2>1 DEF TypeOK, ChosenForFlow
  <2>3. TableInv'
    BY <1>1, <1>3, <2>1
    DEF TableInv, ActiveHasPcb, PcbWhileActive, SocketsOpen, RingWatched,
        SendsOwnData, PipeWakes, Active
  <2> QED BY <2>2, <2>3 DEF IInv
<1>5. CASE nattab[m].pcb = c
  <2>1. /\ nattab' = [nattab EXCEPT ![m].p = q]
        /\ nat_task_pipe' = Written(nat_task_pipe)
        /\ UNCHANGED fault
        /\ Len(nattab[m].p) < QLen - 1
    BY <1>5 DEF Recv
  <2>2. /\ nattab[m] \in NAT_TAB /\ nattab[m].p \in Seq(Sock)
        /\ QLen \in Nat \ {0, 1}
    BY <1>1, <1>2, NatAssumption DEF TypeOK, NAT_TAB
  <2>3. /\ q \in Seq(Sock) /\ Len(q) = Len(nattab[m].p) + 1 /\ Len(q) < QLen
        /\ q # <<>>
        /\ DOMAIN q = 1 .. Len(nattab[m].p) + 1
        /\ DOMAIN nattab[m].p = 1 .. Len(nattab[m].p)
        /\ q[Len(nattab[m].p) + 1] = block[c].socket
        /\ \A k \in 1 .. Len(nattab[m].p) : q[k] = nattab[m].p[k]
    <3>1. /\ q \in Seq(Sock) /\ Len(q) = Len(nattab[m].p) + 1
          /\ q[Len(nattab[m].p) + 1] = block[c].socket
          /\ \A k \in 1 .. Len(nattab[m].p) : q[k] = nattab[m].p[k]
      BY <1>2, <2>2, AppendProperties, SMTT(30)
    <3>2. /\ Len(nattab[m].p) \in Nat
          /\ DOMAIN nattab[m].p = 1 .. Len(nattab[m].p)
          /\ DOMAIN q = 1 .. Len(q)
      BY <2>2, <3>1, LenProperties
    <3> HIDE DEF q
    <3>3. Len(<<>>) = 0
      OBVIOUS
    <3> QED BY <2>1, <2>2, <3>1, <3>2, <3>3
  <2>4. Active(m) /\ block[c].socket = nattab[m].socket
    <3>1. Active(m)
      BY <1>1, <1>2, <1>5, NatAssumption DEF TableInv, PcbWhileActive
    <3> QED BY <1>1, <1>2, <1>5, <3>1 DEF TableInv, ActiveHasPcb
  <2> HIDE DEF q, m
  <2>5. /\ nattab'[m] \in NAT_TAB /\ nattab'[m].p = q
        /\ nattab'[m].status = nattab[m].status
        /\ nattab'[m].socket = nattab[m].socket
        /\ nattab'[m].pcb = nattab[m].pcb
    BY <1>1, <1>2, <2>1, <2>2, <2>3 DEF TypeOK, NAT_TAB
  <2>6. /\ \A i \in Entry \ {m} : nattab'[i] = nattab[i]
        /\ nattab' \in [Entry -> NAT_TAB]
    BY <1>1, <1>2, <2>1, <2>5 DEF TypeOK
  <2>7. nat_task_pipe' \in 0 .. PipeLen /\ nat_task_pipe' > 0
    BY <1>1, <2>1, PipeLemma DEF TypeOK
  <2>8. TypeOK' /\ ChosenForFlow'
    <3>1. \A i \in Entry : Len(nattab'[i].p) < QLen
      BY <1>1, <2>3, <2>5, <2>6 DEF TypeOK
    <3> QED BY <1>1, <1>3, <2>1, <2>6, <2>7, <3>1 DEF TypeOK, ChosenForFlow
  <2>9. ActiveHasPcb' /\ PcbWhileActive' /\ SocketsOpen'
    BY <1>1, <1>2, <1>3, <2>5, <2>6
    DEF TableInv, ActiveHasPcb, PcbWhileActive, SocketsOpen, Active
  <2>10. RingWatched'
    BY <1>1, <1>3, <2>3, <2>5, <2>6 DEF TableInv, RingWatched, Active
  <2>11. SendsOwnData'
    <3>1. \A k \in DOMAIN q : q[k] = nattab[m].socket
      <4>1. \A k \in 1 .. Len(nattab[m].p) : nattab[m].p[k] = nattab[m].socket
        BY <1>1, <1>2, <2>3, <2>4 DEF TableInv, SendsOwnData
      <4>2. Len(nattab[m].p) \in Nat
        BY <2>2, LenProperties
      <4> QED BY <2>3, <2>4, <4>1, <4>2
    <3>2. fault' # "no_pbuf"
      BY <1>1, <2>1 DEF TableInv, SendsOwnData
    <3> QED BY <1>1, <2>5, <2>6, <3>1, <3>2 DEF TableInv, SendsOwnData, Active
  <2>12. PipeWakes'
    BY <1>1, <1>3, <2>5, <2>6, <2>7 DEF TableInv, PipeWakes, Active
  <2> QED BY <2>8, <2>9, <2>10, <2>11, <2>12 DEF IInv, TableInv
<1> QED BY <1>4, <1>5

\* A pbuf that lwIP gave back wakes NAT_Task; nothing else changes.
LEMMA SentNext ==
  ASSUME IInv, NEW c \in Pcb, Sent(c)
  PROVE  IInv'
<1>1. TypeOK /\ ChosenForFlow /\ TableInv
  BY DEF IInv
<1>2. nat_task_pipe' \in 0 .. PipeLen /\ nat_task_pipe' > 0
  BY <1>1, PipeLemma DEF TypeOK, Sent
<1>3. UNCHANGED <<nattab, time, fwd, block, open, wfd, rfd, nat_rx_task_pipe,
                  fault>>
  BY DEF Sent
<1>4. TypeOK' /\ ChosenForFlow'
  BY <1>1, <1>2, <1>3 DEF TypeOK, ChosenForFlow
<1>5. TableInv'
  BY <1>1, <1>2, <1>3
  DEF TableInv, ActiveHasPcb, PcbWhileActive, SocketsOpen, RingWatched,
      SendsOwnData, PipeWakes, Active
<1> QED BY <1>4, <1>5 DEF IInv

\* The far end closes: the entry its block points to is closed.
LEMMA RecvFinNext ==
  ASSUME IInv, NEW c \in Pcb, RecvFin(c)
  PROVE  IInv'
<1> DEFINE I == {block[c].arg}
<1>1. TypeOK /\ ChosenForFlow /\ TableInv
  BY DEF IInv
<1>2. UNCHANGED <<time, fwd, wfd, rfd, pipeVars, fault>> /\ Close(nattab, I)
  BY DEF RecvFin
<1>3. I \in SUBSET Entry
  BY <1>1 DEF RecvFin, TypeOK
<1> HIDE DEF I
<1>4. /\ nattab' \in [Entry -> NAT_TAB]
      /\ \A i \in Entry : Len(nattab'[i].p) < QLen
      /\ block' \in [Pcb -> [peer : Src, arg : Entry, socket : Sock]
                            \cup {NoBlock}]
      /\ open' = open
      /\ PcbWhileActive' /\ ActiveHasPcb'
      /\ \A i \in Entry : nattab'[i].status = 1 =>
           i \notin I /\ Active(i) /\ nattab'[i] = nattab[i]
  <2>1. Agrees(nattab)
    BY <1>1 DEF TypeOK, Agrees
  <2>2. PcbWhileActive /\ ActiveHasPcb
    BY <1>1 DEF TableInv
  <2> QED BY <1>1, <1>2, <1>3, <2>1, <2>2, CloseLemma
<1>5. TypeOK' /\ ChosenForFlow'
  BY <1>1, <1>2, <1>4 DEF TypeOK, ChosenForFlow, pipeVars
<1>6. SocketsOpen' /\ RingWatched' /\ SendsOwnData' /\ PipeWakes'
  BY <1>1, <1>2, <1>4
  DEF TableInv, SocketsOpen, RingWatched, SendsOwnData, PipeWakes, Active,
      pipeVars
<1> QED BY <1>4, <1>5, <1>6 DEF IInv, TableInv

\* lwIP has freed the block: its entry forgets it and is no longer active.
LEMMA TcpErrNext ==
  ASSUME IInv, NEW c \in Pcb, TcpErr(c)
  PROVE  IInv'
<1> DEFINE m == block[c].arg
<1>1. TypeOK /\ ChosenForFlow /\ TableInv
  BY DEF IInv
<1>2. /\ nattab' = [nattab EXCEPT ![m] = [ClosedSo(@) EXCEPT !.pcb = Null]]
      /\ open' = open
      /\ block' = Freed({c})
      /\ UNCHANGED <<time, fwd, wfd, rfd, pipeVars, fault>>
  BY DEF TcpErr, Descriptors
<1>3. m \in Entry
  BY <1>1 DEF TcpErr, TypeOK
<1> HIDE DEF m
<1>4. /\ nattab'[m] \in NAT_TAB
      /\ nattab'[m].status = 0 /\ nattab'[m].pcb = Null
      /\ nattab'[m].p = nattab[m].p
  <2>1. nattab[m] \in NAT_TAB
    BY <1>1, <1>3 DEF TypeOK
  <2> QED BY <1>1, <1>2, <1>3, <2>1 DEF TypeOK, ClosedSo, NAT_TAB
<1>5. /\ \A i \in Entry \ {m} : nattab'[i] = nattab[i]
      /\ nattab' \in [Entry -> NAT_TAB]
  BY <1>1, <1>2, <1>3, <1>4 DEF TypeOK
<1>6. TypeOK' /\ ChosenForFlow'
  <2>1. block' \in [Pcb -> [peer : Src, arg : Entry, socket : Sock]
                           \cup {NoBlock}]
    BY <1>1, <1>2 DEF TypeOK, Freed
  <2>2. \A i \in Entry : Len(nattab'[i].p) < QLen
    BY <1>1, <1>4, <1>5 DEF TypeOK
  <2> QED BY <1>1, <1>2, <1>5, <2>1, <2>2 DEF TypeOK, ChosenForFlow, pipeVars
<1>7. ASSUME NEW i \in Entry, nattab'[i].status = 1
      PROVE  /\ i # m /\ Active(i) /\ nattab'[i] = nattab[i]
             /\ nattab[i].pcb \in Pcb
             /\ block'[nattab[i].pcb] = block[nattab[i].pcb]
  <2>1. i # m /\ Active(i) /\ nattab'[i] = nattab[i]
    BY <1>4, <1>5, <1>7 DEF Active
  <2>2. nattab[i].pcb \in Pcb /\ nattab[i].pcb # c
    BY <1>1, <2>1 DEF TableInv, ActiveHasPcb, m
  <2> QED BY <1>2, <2>1, <2>2 DEF Freed
<1>8. ActiveHasPcb'
  BY <1>1, <1>7 DEF TableInv, ActiveHasPcb, Active
<1>9. PcbWhileActive'
  BY <1>1, <1>4, <1>5 DEF TableInv, PcbWhileActive, Active
<1>10. SocketsOpen' /\ RingWatched' /\ SendsOwnData' /\ PipeWakes'
  BY <1>1, <1>2, <1>7
  DEF TableInv, SocketsOpen, RingWatched, SendsOwnData, PipeWakes, Active,
      pipeVars
<1> QED BY <1>6, <1>8, <1>9, <1>10 DEF IInv, TableInv

\* What NAT_Task does to an entry when it sends: the ring loses its first
\* packet or nothing.
LEMMA ServedLemma ==
  ASSUME NEW e \in NAT_TAB, NEW r \in SendResult, e.p # <<>>, Len(e.p) < QLen
  PROVE  /\ Served(e, r) \in NAT_TAB
         /\ Served(e, r).status = e.status
         /\ Served(e, r).socket = e.socket
         /\ Served(e, r).pcb = e.pcb
         /\ Len(Served(e, r).p) < QLen
         /\ \A s : (\A k \in DOMAIN e.p : e.p[k] = s) =>
              \A k \in DOMAIN Served(e, r).p : Served(e, r).p[k] = s
<1>1. /\ e.p \in Seq(Sock) /\ Tail(e.p) \in Seq(Sock)
      /\ Len(e.p) \in Nat \ {0}
      /\ Len(Tail(e.p)) = Len(e.p) - 1
      /\ DOMAIN e.p = 1 .. Len(e.p)
      /\ DOMAIN Tail(e.p) = 1 .. Len(e.p) - 1
      /\ \A k \in 1 .. Len(e.p) - 1 : Tail(e.p)[k] = e.p[k + 1]
  <2>1. e.p \in Seq(Sock)
    BY DEF NAT_TAB
  <2> QED BY <2>1, HeadTailProperties, LenProperties, EmptySeq
<1>2. QLen \in Nat
  BY NatAssumption
<1>3. CASE r = "all"
  <2> DEFINE d == [e EXCEPT !.p = Tail(e.p), !.offs = 0]
  <2>1. Served(e, r) = d
    BY <1>3 DEF Served
  <2>2. /\ d \in NAT_TAB /\ d.status = e.status /\ d.socket = e.socket
        /\ d.pcb = e.pcb /\ d.p = Tail(e.p)
    BY <1>1 DEF NAT_TAB
  <2>3. Len(d.p) < QLen
    BY <1>1, <1>2, <2>2
  <2>4. ASSUME NEW s, \A k \in DOMAIN e.p : e.p[k] = s
        PROVE  \A k \in DOMAIN d.p : d.p[k] = s
    <3> SUFFICES ASSUME NEW k \in 1 .. Len(e.p) - 1 PROVE Tail(e.p)[k] = s
      BY <1>1, <2>2
    <3>1. k + 1 \in DOMAIN e.p
      BY <1>1
    <3> QED BY <1>1, <2>4, <3>1
  <2> HIDE DEF d
  <2> QED BY <2>1, <2>2, <2>3, <2>4
<1>4. CASE r = "part"
  <2> DEFINE d == [e EXCEPT !.offs = 1]
  <2>1. Served(e, r) = d
    BY <1>4 DEF Served
  <2>2. /\ d \in NAT_TAB /\ d.status = e.status /\ d.socket = e.socket
        /\ d.pcb = e.pcb /\ d.p = e.p
    BY DEF NAT_TAB
  <2> HIDE DEF d
  <2> QED BY <2>1, <2>2
<1>5. CASE r # "all" /\ r # "part"
  <2>1. Served(e, r) = e
    BY <1>5 DEF Served
  <2> QED BY <2>1
<1> QED BY <1>3, <1>4, <1>5

\* A turn of NAT_Task: the sockets it collected before select still belong to
\* entries with data, whatever happened meanwhile, and the next select watches
\* every socket for which there is data.
LEMMA TaskNext ==
  ASSUME IInv, NEW I \in SUBSET Watched(wfd), NEW rd \in BOOLEAN,
         NEW res \in [I -> SendResult], TaskTurn(I, rd, res)
  PROVE  IInv'
<1>0. PICK tab, J :
        /\ tab = [i \in Entry |-> IF i \in I THEN Served(nattab[i], res[i])
                                              ELSE nattab[i]]
        /\ J = {i \in I : res[i] = "error"}
  OBVIOUS
<1>1. TypeOK /\ ChosenForFlow /\ TableInv
  BY DEF IInv
<1>2. /\ I \subseteq Entry
      /\ \A i \in I : Active(i) /\ nattab[i].p # <<>>
  BY <1>1 DEF Watched, TableInv, RingWatched
<1>3. /\ Close(tab, J)
      /\ wfd' = WriteSet(nattab')
      /\ UNCHANGED <<fault, time, fwd, rfd, nat_rx_task_pipe>>
      /\ nat_task_pipe' = ReadPipe(nat_task_pipe, rd)
  BY <1>0, <1>2 DEF TaskTurn
<1>4. /\ tab \in [Entry -> NAT_TAB]
      /\ \A i \in Entry : /\ tab[i].status = nattab[i].status
                          /\ tab[i].socket = nattab[i].socket
                          /\ tab[i].pcb = nattab[i].pcb
                          /\ Len(tab[i].p) < QLen
  <2>1. /\ nattab \in [Entry -> NAT_TAB]
        /\ \A i \in Entry : Len(nattab[i].p) < QLen
    BY <1>1 DEF TypeOK
  <2> QED BY <1>0, <1>2, <2>1, ServedLemma
<1>5. ASSUME NEW i \in Entry, Active(i)
      PROVE  \A k \in DOMAIN tab[i].p : tab[i].p[k] = nattab[i].socket
  <2>1. /\ nattab[i] \in NAT_TAB /\ Len(nattab[i].p) < QLen
        /\ \A k \in DOMAIN nattab[i].p : nattab[i].p[k] = nattab[i].socket
    BY <1>1, <1>5 DEF TypeOK, TableInv, SendsOwnData
  <2>2. CASE i \in I
    <3>1. tab[i] = Served(nattab[i], res[i]) /\ res[i] \in SendResult
      BY <1>0, <2>2
    <3>2. nattab[i].p # <<>>
      BY <1>2, <2>2
    <3>3. \A s : (\A k \in DOMAIN nattab[i].p : nattab[i].p[k] = s) =>
            \A k \in DOMAIN Served(nattab[i], res[i]).p :
              Served(nattab[i], res[i]).p[k] = s
      BY <2>1, <3>1, <3>2, ServedLemma
    <3> QED BY <2>1, <3>1, <3>3
  <2>3. CASE i \notin I
    BY <1>0, <2>1, <2>3
  <2> QED BY <2>2, <2>3
<1>6. J \in SUBSET Entry /\ PcbWhileActive /\ ActiveHasPcb
  BY <1>0, <1>1, <1>2 DEF TableInv
<1>7. /\ nattab' \in [Entry -> NAT_TAB]
      /\ \A i \in Entry : Len(nattab'[i].p) < QLen
      /\ block' \in [Pcb -> [peer : Src, arg : Entry, socket : Sock]
                            \cup {NoBlock}]
      /\ open' = open
      /\ PcbWhileActive' /\ ActiveHasPcb'
      /\ \A i \in Entry : nattab'[i].status = 1 =>
           i \notin J /\ Active(i) /\ nattab'[i] = tab[i]
  <2>1. Close(tab, J)
    BY <1>3
  <2>2. TypeOK
    BY <1>1
  <2>3. Agrees(tab)
    BY <1>4 DEF Agrees
  <2> QED BY <1>6, <2>1, <2>2, <2>3, CloseLemma
<1>8. wfd' = {nattab'[i].socket : i \in {j \in Entry : nattab'[j].status = 1 /\ nattab'[j].p # <<>>}}
  BY <1>3 DEF WriteSet
<1>9. SocketsOpen'
  BY <1>1, <1>4, <1>7, <1>8 DEF TableInv, SocketsOpen, Active
<1>10. TypeOK' /\ ChosenForFlow'
  <2>1. wfd' \subseteq Sock
    BY <1>1, <1>7, <1>9 DEF SocketsOpen, TypeOK
  <2>2. nat_task_pipe' \in 0 .. PipeLen
    BY <1>1, <1>3, PipeLemma DEF TypeOK
  <2> QED BY <1>1, <1>3, <1>7, <2>1, <2>2 DEF TypeOK, ChosenForFlow
<1>11. RingWatched'
  <2> SUFFICES ASSUME NEW i \in Entry, nattab'[i].status = 1,
                      nattab'[i].socket \in wfd'
               PROVE  nattab'[i].p # <<>>
    BY DEF RingWatched, Active
  <2>1. PICK j \in Entry : /\ nattab'[j].status = 1 /\ nattab'[j].p # <<>>
                           /\ nattab'[j].socket = nattab'[i].socket
    BY <1>8
  <2>2. j = i
    BY <1>7, <2>1 DEF ActiveHasPcb, Active
  <2> QED BY <2>1, <2>2
<1>12. SendsOwnData'
  BY <1>1, <1>3, <1>4, <1>5, <1>7 DEF TableInv, SendsOwnData, Active
<1>13. PipeWakes'
  BY <1>1, <1>3, <1>4, <1>7, <1>8 DEF TableInv, PipeWakes, Active
<1> QED BY <1>7, <1>9, <1>10, <1>11, <1>12, <1>13 DEF IInv, TableInv

\* A turn of NAT_RX_Task: the next select watches every socket.
LEMMA RxNext ==
  ASSUME IInv, NEW I \in SUBSET Watched(rfd), NEW rd \in BOOLEAN,
         NEW res \in [I -> RecvResult], RxTurn(I, rd, res)
  PROVE  IInv'
<1>0. PICK tab, J :
        /\ tab = [i \in Entry |->
                    IF i \in I
                    THEN [nattab[i] EXCEPT !.txbuf = res[i] = "refused"]
                    ELSE nattab[i]]
        /\ J = {i \in I : res[i] = "closed"}
  OBVIOUS
<1>1. TypeOK /\ ChosenForFlow /\ TableInv
  BY DEF IInv
<1>2. I \subseteq Entry
  BY DEF Watched
<1>3. /\ Close(tab, J)
      /\ rfd' = ReadSet(nattab')
      /\ UNCHANGED <<fault, time, fwd, wfd, nat_task_pipe>>
      /\ nat_rx_task_pipe' = ReadPipe(nat_rx_task_pipe, rd)
  BY <1>0 DEF RxTurn
<1>4. ASSUME NEW i \in Entry
      PROVE  /\ tab[i] \in NAT_TAB
             /\ tab[i].status = nattab[i].status
             /\ tab[i].socket = nattab[i].socket
             /\ tab[i].pcb = nattab[i].pcb
             /\ tab[i].p = nattab[i].p
             /\ Len(tab[i].p) < QLen
  <2>1. nattab[i] \in NAT_TAB /\ Len(nattab[i].p) < QLen
    BY <1>1 DEF TypeOK
  <2>2. ASSUME NEW b \in BOOLEAN
        PROVE  /\ [nattab[i] EXCEPT !.txbuf = b] \in NAT_TAB
               /\ [nattab[i] EXCEPT !.txbuf = b].status = nattab[i].status
               /\ [nattab[i] EXCEPT !.txbuf = b].socket = nattab[i].socket
               /\ [nattab[i] EXCEPT !.txbuf = b].pcb = nattab[i].pcb
               /\ [nattab[i] EXCEPT !.txbuf = b].p = nattab[i].p
    BY <2>1 DEF NAT_TAB
  <2>3. (res[i] = "refused") \in BOOLEAN
    OBVIOUS
  <2>4. CASE i \in I
    <3>1. tab[i] = [nattab[i] EXCEPT !.txbuf = res[i] = "refused"]
      BY <1>0, <2>4
    <3> QED BY <2>1, <2>2, <2>3, <3>1
  <2>5. CASE i \notin I
    BY <1>0, <2>1, <2>5
  <2> QED BY <2>4, <2>5
<1>5. tab = [i \in Entry |-> tab[i]]
  BY <1>0
<1>6. J \in SUBSET Entry /\ PcbWhileActive /\ ActiveHasPcb
  BY <1>0, <1>1, <1>2 DEF TableInv
<1>7. tab \in [Entry -> NAT_TAB]
  BY <1>4, <1>5
<1>8. /\ nattab' \in [Entry -> NAT_TAB]
      /\ \A i \in Entry : Len(nattab'[i].p) < QLen
      /\ block' \in [Pcb -> [peer : Src, arg : Entry, socket : Sock]
                            \cup {NoBlock}]
      /\ open' = open
      /\ PcbWhileActive' /\ ActiveHasPcb'
      /\ \A i \in Entry : nattab'[i].status = 1 =>
           i \notin J /\ Active(i) /\ nattab'[i] = tab[i]
  <2>1. Close(tab, J)
    BY <1>3
  <2>2. TypeOK
    BY <1>1
  <2>3. Agrees(tab)
    BY <1>4, <1>7 DEF Agrees
  <2> QED BY <1>6, <2>1, <2>2, <2>3, CloseLemma
<1>9. rfd' = {nattab'[i].socket : i \in {j \in Entry : nattab'[j].status = 1}}
  BY <1>3 DEF ReadSet
<1>10. \A i \in Entry : nattab'[i].status = 1 =>
         /\ Active(i) /\ nattab'[i].socket = nattab[i].socket
         /\ nattab'[i].p = nattab[i].p
  BY <1>4, <1>8
<1>11. SocketsOpen' /\ RingWatched' /\ SendsOwnData'
  BY <1>1, <1>3, <1>8, <1>10
  DEF TableInv, SocketsOpen, RingWatched, SendsOwnData, Active
<1>12. TypeOK' /\ ChosenForFlow'
  <2>1. rfd' \subseteq Sock
    BY <1>1, <1>9, <1>10 DEF TableInv, SocketsOpen, TypeOK
  <2>2. nat_rx_task_pipe' \in 0 .. PipeLen
    BY <1>1, <1>3, PipeLemma DEF TypeOK
  <2> QED BY <1>1, <1>3, <1>8, <2>1, <2>2 DEF TypeOK, ChosenForFlow
<1>13. PipeWakes'
  BY <1>1, <1>3, <1>9, <1>10 DEF TableInv, PipeWakes, Active
<1> QED BY <1>8, <1>11, <1>12, <1>13 DEF IInv, TableInv

-----------------------------------------------------------------------------
(***************************************************************************)
(* Theorems                                                                *)
(***************************************************************************)
LEMMA NatInit == Init => IInv
<1> SUFFICES ASSUME Init PROVE IInv
  OBVIOUS
<1>1. /\ NTab \in Nat \ {0} /\ 0 \in Entry /\ PipeLen \in Nat \ {0}
      /\ QLen \in Nat \ {0, 1} /\ Len(<<>>) = 0 /\ <<>> \in Seq(Sock)
  BY NatAssumption, EntryLemma
<1>2. \A i \in Entry : /\ nattab[i].status = 0 /\ nattab[i].pcb = Null
                       /\ nattab[i].p = <<>>
  BY DEF Init
<1>3. nattab \in [Entry -> NAT_TAB]
  BY <1>1 DEF Init, NAT_TAB
<1>4. /\ time \in [Entry -> 0 .. Now]
      /\ fwd \in [flow : Flow \cup {Null}, entry : Entry]
      /\ block \in [Pcb -> [peer : Src, arg : Entry, socket : Sock]
                           \cup {NoBlock}]
      /\ open = {} /\ wfd = {} /\ rfd = {}
      /\ nat_task_pipe \in 0 .. PipeLen /\ nat_rx_task_pipe \in 0 .. PipeLen
      /\ fault = "none" /\ fwd = Idle
  BY <1>1 DEF Init, Now, Idle
<1>5. TypeOK
  BY <1>1, <1>2, <1>3, <1>4 DEF TypeOK
<1>6. TableInv
  BY <1>2, <1>4 DEF TableInv, ActiveHasPcb, PcbWhileActive, SocketsOpen,
                    RingWatched, SendsOwnData, PipeWakes, Active
<1> QED BY <1>4, <1>5, <1>6 DEF IInv, ChosenForFlow

LEMMA NatNext ==
  ASSUME IInv, [Next]_vars
  PROVE  IInv'
<1>1. CASE UNCHANGED vars
  <2>1. TypeOK' /\ ChosenForFlow'
    BY <1>1 DEF IInv, TypeOK, ChosenForFlow, vars, pipeVars
  <2>2. TableInv'
    BY <1>1 DEF IInv, TableInv, ActiveHasPcb, PcbWhileActive, SocketsOpen,
                RingWatched, SendsOwnData, PipeWakes, Active, vars, pipeVars
  <2> QED BY <2>1, <2>2 DEF IInv
<1>2. CASE (\E f \in Flow : ForwardFind(f)) \/ ForwardWrite \/ Tick
  BY <1>2, ForwardNext
<1>3. CASE \E c \in Pcb : \E s \in Src : Accept(c, s)
  BY <1>3, AcceptNext
<1>4. CASE \E c \in Pcb : Recv(c) \/ RecvFin(c) \/ Sent(c) \/ TcpErr(c)
  BY <1>4, RecvNext, RecvFinNext, SentNext, TcpErrNext
<1>5. CASE NAT_Task
  <2>1. PICK I \in SUBSET Watched(wfd), rd \in BOOLEAN :
          \E res \in [I -> SendResult] : TaskTurn(I, rd, res)
    BY <1>5 DEF NAT_Task
  <2>2. PICK res \in [I -> SendResult] : TaskTurn(I, rd, res)
    BY <2>1
  <2> QED BY <2>2, TaskNext
<1>6. CASE NAT_RX_Task
  <2>1. PICK I \in SUBSET Watched(rfd), rd \in BOOLEAN :
          \E res \in [I -> RecvResult] : RxTurn(I, rd, res)
    BY <1>6 DEF NAT_RX_Task
  <2>2. PICK res \in [I -> RecvResult] : RxTurn(I, rd, res)
    BY <2>1
  <2> QED BY <2>2, RxNext
<1> QED BY <1>1, <1>2, <1>3, <1>4, <1>5, <1>6 DEF Next, Stopped

LEMMA NatInvariance == Spec => []IInv
BY NatInit, NatNext, PTL DEF Spec

\* Table, control blocks and pipes stay within their types, and no ring ever
\* holds more than the code has room for.
THEOREM TypeCorrect == Spec => []TypeOK
<1>1. IInv => TypeOK
  BY DEF IInv
<1> QED BY <1>1, NatInvariance, PTL

\* NAT_Task sends through a socket only data of its own connection and never
\* finds a ring empty, however stale the set of sockets it collected is.
THEOREM OwnDataOnly == Spec => []SendsOwnData
<1>1. IInv => SendsOwnData
  BY DEF IInv, TableInv
<1> QED BY <1>1, NatInvariance, PTL

\* Both tasks may use the control block of every active entry: lwIP has not
\* freed it, and its callbacks come back to the entry.
THEOREM BlockInUse == Spec => []ActiveHasPcb
<1>1. IInv => ActiveHasPcb
  BY DEF IInv, TableInv
<1> QED BY <1>1, NatInvariance, PTL

\* A connection that the pending select of a task does not watch, though there
\* is data for it or a socket to read, has left a byte in the task's pipe.
THEOREM SelectWoken == Spec => []PipeWakes
<1>1. IInv => PipeWakes
  BY DEF IInv, TableInv
<1> QED BY <1>1, NatInvariance, PTL
=============================================================================
