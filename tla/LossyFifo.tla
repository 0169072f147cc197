------------------------------ MODULE LossyFifo ------------------------------
(***************************************************************************)
(* What the bridge promises its drivers: for every source interface a      *)
(* channel that may lose packets but never reorders, duplicates or invents *)
(* any, and at most one packet handed to the receiving driver at a time.   *)
(***************************************************************************)
EXTENDS Naturals, SequencesExt

CONSTANTS Source,   \* the interfaces packets come from
          Packet,   \* the packets
          NoPacket  \* "the driver holds nothing"

VARIABLES chan,  \* chan[n]: the packets of source n on their way, oldest first
          rcvd   \* rcvd[n]: the packet of source n its receiver holds

Init ==
  /\ chan = [n \in Source |-> <<>>]
  /\ rcvd = [n \in Source |-> NoPacket]

Send(n, p) ==
  /\ p \notin Range(chan[n]) /\ p # rcvd[n]
  /\ chan' = [chan EXCEPT ![n] = Append(@, p)]
  /\ UNCHANGED rcvd

\* The oldest packet goes to a receiver that holds none.
Deliver(n) ==
  /\ chan[n] # <<>> /\ rcvd[n] = NoPacket
  /\ rcvd' = [rcvd EXCEPT ![n] = Head(chan[n])]
  /\ chan' = [chan EXCEPT ![n] = Tail(@)]

Release(n) ==
  /\ rcvd[n] # NoPacket
  /\ rcvd' = [rcvd EXCEPT ![n] = NoPacket]
  /\ UNCHANGED chan

\* Any packet on its way may be lost; the others keep their order.
Lose(n, i) ==
  /\ i \in DOMAIN chan[n]
  /\ chan' = [chan EXCEPT ![n] = RemoveAt(@, i)]
  /\ UNCHANGED rcvd

Next ==
  \E n \in Source :
    \/ Deliver(n) \/ Release(n)
    \/ \E p \in Packet : Send(n, p)
    \/ \E i \in DOMAIN chan[n] : Lose(n, i)

Spec == Init /\ [][Next]_<<chan, rcvd>>
=============================================================================
