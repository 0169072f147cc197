--------------------------- MODULE TNotifyProofs ---------------------------
(***************************************************************************)
(* Task notifications lose no wakeup, for any number of threads and bits   *)
(* and any limit of the semaphore.                                         *)
(***************************************************************************)
EXTENDS TNotify, TLAPS

\* BitsHaveWakeup is inductive together with the types of the variables.
LEMMA NotifyNext ==
  ASSUME NotifyInv, [Next]_vars
  PROVE  NotifyInv'
<1> USE MaxSemAssumption DEF NotifyInv, TypeOK, BitsHaveWakeup
<1>1. ASSUME NEW a \in Adder, AddOr(a) PROVE NotifyInv'
  BY <1>1 DEF AddOr
<1>2. ASSUME NEW a \in Adder, AddPost(a) PROVE NotifyInv'
  <2>1. TypeOK'
    BY <1>2 DEF AddPost
  <2>2. sem' > 0
    BY <1>2 DEF AddPost
  <2> QED BY <2>1, <2>2
<1>3. CASE WaitSem
  BY <1>3 DEF WaitSem
<1>4. CASE WaitExchange
  BY <1>4 DEF WaitExchange
<1>5. CASE Work
  BY <1>5 DEF Work
<1>6. CASE UNCHANGED vars
  BY <1>6 DEF vars
<1> QED BY <1>1, <1>2, <1>3, <1>4, <1>5, <1>6 DEF Next

\* The types and the invariant hold in every reachable state.
THEOREM NotifyInvariance == Spec => []NotifyInv
<1>1. Init => NotifyInv
  BY MaxSemAssumption DEF Init, NotifyInv, TypeOK, BitsHaveWakeup
<1> QED BY <1>1, NotifyNext, PTL DEF Spec

\* The semaphore stays within its limit, however many additions meet.
THEOREM TypeCorrect == Spec => []TypeOK
<1>1. NotifyInv => TypeOK
  BY DEF NotifyInv
<1> QED BY <1>1, NotifyInvariance, PTL

\* Bits that TNotifyAdd has set always have a wakeup of the waiting task on
\* the way.
THEOREM WakeupNotLost == Spec => []BitsHaveWakeup
<1>1. NotifyInv => BitsHaveWakeup
  BY DEF NotifyInv
<1> QED BY <1>1, NotifyInvariance, PTL

\* The two-step TNotifyAdd and TNotifyWait implement the safety half of the
\* atomic notification: an atomic_fetch_or is an addition, an exchange that
\* finds bits takes them, every other step is invisible.
THEOREM AtomicRefinement == Spec => AtomicSafety
<1>1. Init => Atomic!Init
  BY DEF Init, Atomic!Init
<1>2. [Next]_vars => [Atomic!Next]_val
  <2> SUFFICES ASSUME [Next]_vars PROVE [Atomic!Next]_val
    OBVIOUS
  <2> USE DEF Atomic!Next
  <2>1. ASSUME NEW a \in Adder, AddOr(a) PROVE Atomic!Add
    BY <2>1 DEF AddOr, Atomic!Add
  <2>2. CASE WaitExchange
    BY <2>2 DEF WaitExchange, Atomic!Take
  <2>3. ASSUME UNCHANGED val PROVE [Atomic!Next]_val
    BY <2>3
  <2> QED BY <2>1, <2>2, <2>3 DEF Next, AddPost, WaitSem, Work, vars
<1> QED BY <1>1, <1>2, PTL DEF Spec, AtomicSafety, Atomic!Safety
=============================================================================
