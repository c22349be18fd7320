-------------------------- MODULE Supervision_proofs --------------------------
(***************************************************************************)
(* What the promise a pool makes of its slots amounts to, for every set of *)
(* slots and every limit.  WorkerPool (unscaled) and Server implement      *)
(* Supervision, so the same holds of them.                                 *)
(***************************************************************************)
EXTENDS Supervision, TLAPS

SlotTypeOK ==
    /\ life \in [Slot -> Life]
    /\ strikes \in [Slot -> Nat]
    /\ alive \subseteq Slot

\* A process belongs to a boot under way or to the worker its boot left: none
\* outlives its slot, and none is there when the next boot begins.
Owned == \A s \in alive : life[s] \in {"boot", "up"}

\* A slot over the limit is given up for good, and a slot is given up for no other
\* reason than that or the end of its context.
GivenUp ==
    /\ \A s \in Slot : Over(strikes[s]) => life[s] = "off"
    /\ \A s \in Slot : life[s] = "off" => s \in done \/ Over(strikes[s])
    /\ stopped \subseteq done

SlotInv == SlotTypeOK /\ Owned /\ GivenUp

\* A slot that was given up has no process, and is never booted again.
OffForGood == [][\A s \in Slot : life[s] = "off" => life'[s] = "off" /\ s \notin alive']_supervisionVars

-----------------------------------------------------------------------------

LEMMA StrikeCounts ==
  ASSUME SlotTypeOK, NEW s \in Slot, NEW n \in 1..(strikes[s] + 1)
  PROVE  n \in Nat
BY DEF SlotTypeOK

\* A slot whose last strike or restart is told here: its process is gone.
LEMMA StruckKeeps ==
  ASSUME SlotInv, Limit \in Nat, NEW s \in Slot, Struck(s) \/ Restarted(s),
         life[s] \in {"boot", "up"}, alive' = alive \ {s}, UNCHANGED <<done, stopped>>
  PROVE  SlotInv'
<1> USE DEF SlotInv, SlotTypeOK, Owned, GivenUp, Becomes, Life
<1>1. CASE Struck(s)
  <2>1. PICK n \in 1..(strikes[s] + 1) :
           /\ strikes' = [strikes EXCEPT ![s] = n]
           /\ life' = [life EXCEPT ![s] = IF Over(n) THEN "off" ELSE "due"]
    BY <1>1 DEF Struck
  <2>2. n \in Nat
    BY <2>1, StrikeCounts
  <2>3. SlotTypeOK' /\ Owned'
    BY <2>1, <2>2
  <2>4. GivenUp'
    BY <2>1, <2>2 DEF Over
  <2> QED
    BY <2>3, <2>4
<1>2. CASE Restarted(s)
  BY <1>2 DEF Restarted, Over
<1> QED
  BY <1>1, <1>2

LEMMA SlotStepKeeps ==
  ASSUME SlotInv, Limit \in Nat, NEW s \in Slot, SlotStep(s)
  PROVE  SlotInv'
<1> USE DEF SlotInv, SlotTypeOK, Owned, GivenUp, Becomes, Life, Over
<1>1. CASE Begins(s) \/ Spawned(s) \/ Installed(s)
  BY <1>1 DEF Begins, Spawned, Installed
<1>2. CASE Failed(s)
  BY <1>2, StruckKeeps DEF Failed
<1>3. CASE Abandoned(s) \/ Quits(s)
  BY <1>3 DEF Abandoned, Quits
<1>4. CASE Ended(s)
  <2>1. CASE Struck(s) \/ Restarted(s)
    <3>1. alive' = alive \ {s} /\ life[s] = "up" /\ UNCHANGED <<done, stopped>>
      BY <1>4 DEF Ended
    <3> QED
      BY <2>1, <3>1, StruckKeeps
  <2>2. CASE s \in stopped /\ Becomes(s, "off") /\ UNCHANGED strikes
    BY <1>4, <2>2 DEF Ended
  <2> QED
    BY <1>4, <2>1, <2>2 DEF Ended
<1> QED
  BY <1>1, <1>2, <1>3, <1>4 DEF SlotStep

LEMMA SlotsKeep == ASSUME SlotInv, Limit \in Nat, [Next]_supervisionVars PROVE SlotInv'
<1> USE DEF SlotInv, SlotTypeOK, Owned, GivenUp, Life, Over
<1>1. ASSUME NEW S \in SUBSET Slot, Dies \/ Cancelled(S) \/ Stopped(S) PROVE SlotInv'
  BY <1>1 DEF Dies, Cancelled, Stopped
<1>2. ASSUME NEW S \in SUBSET Slot, Asked(S) PROVE SlotInv'
  BY <1>2 DEF Asked
<1>3. CASE UNCHANGED supervisionVars
  BY <1>3 DEF supervisionVars
<1> QED
  BY <1>1, <1>2, <1>3, SlotStepKeeps DEF Next

\* No process outlives its slot, and a slot is given up exactly when its restarts
\* are used up or its context has ended (bootSlot, monitor and scheduleRestart).
THEOREM SlotsSound == ASSUME Limit \in Nat PROVE Spec => []SlotInv
<1>1. ASSUME Init PROVE SlotInv
  BY <1>1 DEF Init, SlotInv, SlotTypeOK, Owned, GivenUp, Life, Over
<1> QED
  BY <1>1, SlotsKeep, PTL DEF Spec

LEMMA SlotStepOffForGood ==
  ASSUME SlotInv, NEW s \in Slot, SlotStep(s), NEW v \in Slot, life[v] = "off"
  PROVE  life'[v] = "off" /\ v \notin alive'
<1>1. v \notin alive /\ life \in [Slot -> Life]
  BY DEF SlotInv, SlotTypeOK, Owned
<1>2. CASE v = s
  <2>1. Abandoned(s) \/ Ended(s) => FALSE
    BY <1>2 DEF Abandoned, Ended
  <2> QED
    BY <1>2, <2>1 DEF SlotStep, Begins, Spawned, Installed, Failed, Quits
<1>3. CASE v # s
  <2>1. life'[v] = life[v]
    BY <1>1, <1>3 DEF SlotStep, Begins, Spawned, Installed, Failed, Abandoned, Quits, Ended,
       Struck, Restarted, Becomes
  <2>2. v \in alive' => v \in alive
    BY <1>3 DEF SlotStep, Begins, Spawned, Installed, Failed, Abandoned, Quits, Ended
  <2> QED
    BY <1>1, <2>1, <2>2
<1> QED
  BY <1>2, <1>3

\* A slot that was given up stays so: no late boot, monitor or restart timer
\* brings it back, and no process appears in it (monitor and scheduleRestart).
THEOREM NeverBack == ASSUME Limit \in Nat PROVE Spec => OffForGood
<1>1. ASSUME SlotInv, [Next]_supervisionVars, NEW v \in Slot, life[v] = "off"
      PROVE  life'[v] = "off" /\ v \notin alive'
  <2>1. v \notin alive
    BY <1>1 DEF SlotInv, Owned
  <2>2. ASSUME NEW S \in SUBSET Slot, Dies \/ Asked(S) \/ Cancelled(S) \/ Stopped(S)
        PROVE  life'[v] = "off" /\ v \notin alive'
    BY <1>1, <2>1, <2>2 DEF Dies, Asked, Cancelled, Stopped
  <2>3. CASE UNCHANGED supervisionVars
    BY <1>1, <2>1, <2>3 DEF supervisionVars
  <2> QED
    BY <1>1, <2>1, <2>2, <2>3, SlotStepOffForGood DEF Next
<1>2. SlotInv /\ [Next]_supervisionVars
      => [\A s \in Slot : life[s] = "off" => life'[s] = "off" /\ s \notin alive']_supervisionVars
  BY <1>1
<1> QED
  BY <1>2, SlotsSound, PTL DEF Spec, OffForGood

=============================================================================
