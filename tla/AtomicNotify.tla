---------------------------- MODULE AtomicNotify ----------------------------
(***************************************************************************)
(* What TNotifyAdd and TNotifyWait promise the tasks of this program: the  *)
(* bits of an addition become pending in one step, and a task that waits   *)
(* takes everything that is pending in one step, sooner or later.  EthMem, *)
(* LwipIf and BleTx use  notifications in this form.                      *)
(***************************************************************************)
CONSTANT Bits

VARIABLE pending

Init == pending = {}

Add == \E v \in SUBSET Bits \ {{}} : pending' = pending \cup v

Take == pending # {} /\ pending' = {}

Next == Add \/ Take

\* The safety half, and the promise that nothing stays pending untaken.
Safety == Init /\ [][Next]_pending
Spec   == Safety /\ WF_pending(Take)
=============================================================================
