------------------------------- MODULE TNotify -------------------------------
(***************************************************************************)
(* Task notifications (xlib.c), the replacement for the FreeRTOS task      *)
(* notifications of the original firmware: an atomic word of bits and a    *)
(* POSIX semaphore.  TNotifyAdd sets bits and then posts; TNotifyWait      *)
(* waits on the semaphore and then exchanges the word with 0.  The two     *)
(* halves of either call are separate steps.                               *)
(***************************************************************************)
EXTENDS Naturals

CONSTANTS Adder,   \* the threads that call TNotifyAdd
          Bits,    \* the bits of the word
          MaxSem   \* SEM_VALUE_MAX: sem_post at this value fails, unnoticed

ASSUME MaxSemAssumption == MaxSem \in Nat \ {0}

VARIABLES val,      \* NHandle_t.val
          sem,      \* NHandle_t.sem
          add_pc,   \* add_pc[a]: position of adder a in TNotifyAdd
          wait_pc,  \* position of the task in its loop
          res       \* what TNotifyWait returned last

vars == <<val, sem, add_pc, wait_pc, res>>

TypeOK ==
  /\ val \subseteq Bits
  /\ sem \in 0 .. MaxSem
  /\ add_pc \in [Adder -> {"idle", "post"}]
  /\ wait_pc \in {"work", "wait", "exchange"}
  /\ res \subseteq Bits

\* TNotifyCreate.
Init ==
  /\ val = {}
  /\ sem = 0
  /\ add_pc = [a \in Adder |-> "idle"]
  /\ wait_pc = "wait"
  /\ res = {}

\* Mutants: a store instead of the fetch_or; a post only for a sleeping task.
AddStore(a) ==
  /\ add_pc[a] = "idle"
  /\ \E v \in SUBSET Bits \ {{}} : val' = v
  /\ add_pc' = [add_pc EXCEPT ![a] = "post"]
  /\ UNCHANGED <<sem, wait_pc, res>>

AddOrAsleep(a) ==
  /\ add_pc[a] = "idle"
  /\ \E v \in SUBSET Bits \ {{}} : val' = val \cup v
  /\ add_pc' = [add_pc EXCEPT ![a] = IF wait_pc = "wait" THEN "post" ELSE "idle"]
  /\ UNCHANGED <<sem, wait_pc, res>>

\* TNotifyAdd: atomic_fetch_or, then sem_post.
AddOr(a) ==
  /\ add_pc[a] = "idle"
  /\ \E v \in SUBSET Bits \ {{}} : val' = val \cup v
  /\ add_pc' = [add_pc EXCEPT ![a] = "post"]
  /\ UNCHANGED <<sem, wait_pc, res>>

\* Mutant: the semaphore counts without limit.
AddPostUnbounded(a) ==
  /\ add_pc[a] = "post"
  /\ sem' = sem + 1
  /\ add_pc' = [add_pc EXCEPT ![a] = "idle"]
  /\ UNCHANGED <<val, wait_pc, res>>

AddPost(a) ==
  /\ add_pc[a] = "post"
  /\ sem' = IF sem < MaxSem THEN sem + 1 ELSE sem
  /\ add_pc' = [add_pc EXCEPT ![a] = "idle"]
  /\ UNCHANGED <<val, wait_pc, res>>

\* TNotifyWait: sem_wait, then atomic_exchange.  The exchange can find the
\* word empty, when an earlier wait took the bits of two additions.
WaitSem ==
  /\ wait_pc = "wait" /\ sem > 0
  /\ sem' = sem - 1
  /\ wait_pc' = "exchange"
  /\ UNCHANGED <<val, add_pc, res>>

WaitExchange ==
  /\ wait_pc = "exchange"
  /\ res' = val
  /\ val' = {}
  /\ wait_pc' = "work"
  /\ UNCHANGED <<sem, add_pc>>

\* The task has handled the bits and waits again.
Work ==
  /\ wait_pc = "work"
  /\ wait_pc' = "wait"
  /\ UNCHANGED <<val, sem, add_pc, res>>

Next ==
  \/ \E a \in Adder : AddOr(a) \/ AddPost(a)
  \/ WaitSem \/ WaitExchange \/ Work

Spec == Init /\ [][Next]_vars

\* The task keeps running, and so does an adder inside TNotifyAdd.  Nobody
\* has to call TNotifyAdd.
FairSpec ==
  /\ Spec
  /\ WF_vars(WaitSem) /\ WF_vars(WaitExchange) /\ WF_vars(Work)
  /\ \A a \in Adder : WF_vars(AddPost(a))

-----------------------------------------------------------------------------
\* Bits that are set always have a wakeup on the way: the semaphore is
\* positive, an adder is about to post, or the task is about to exchange.  So
\* no bit is stranded although setting and posting are two steps, and although
\* sem_post may fail at SEM_VALUE_MAX.
BitsHaveWakeup ==
  val # {} => \/ sem > 0
              \/ \E a \in Adder : add_pc[a] = "post"
              \/ wait_pc = "exchange"

\* The two-step calls implement the atomic notification the tasks rely on:
\* no bit is invented, dropped or delivered twice, and all are delivered.
Atomic == INSTANCE AtomicNotify WITH pending <- val
ImplementsAtomic == Atomic!Spec

\* The part of it that is proved.
AtomicSafety == Atomic!Safety

NotifyInv == TypeOK /\ BitsHaveWakeup
=============================================================================
