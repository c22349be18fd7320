------------------------- MODULE Reconciler_proofs --------------------------
(***************************************************************************)
(* What the control loop keeps for every workload, machine, backlog and    *)
(* timing.  The argument: every strategy ends in ClampDesired, whose       *)
(* result is within the envelope (ClampFits); the hysteresis returns that  *)
(* result or the size it returned before; and the age of the last request  *)
(* for less never exceeds the age of the last growth, which is what keeps  *)
(* a shrink DownIdle away from a growth.                                   *)
(***************************************************************************)
EXTENDS Reconciler, TLAPS

Sane(s) == s \in SpecType /\ s.min <= s.max

LEMMA BoundedRange ==
  ASSUME NEW s, Sane(s), NEW n \in Int
  PROVE  /\ Bounded(n, s) \in Nat
         /\ s.min <= Bounded(n, s)
         /\ s.max > 0 => Bounded(n, s) <= s.max
         /\ Bounded(n, s) > s.min => Bounded(n, s) <= n
         /\ s.min <= n /\ (s.max > 0 => n <= s.max) => Bounded(n, s) = n
<1>1. s.min \in Nat /\ s.max \in Nat /\ s.min <= s.max
  BY DEF Sane, SpecType
<1> QED
  BY <1>1 DEF Bounded, AtLeast, AtMost

\* The quotient of the memory by what a worker needs is what fits.
LEMMA QuotientFits ==
  ASSUME NEW n \in Int, NEW a \in Nat, NEW b \in Nat \ {0}, n <= a \div b
  PROVE  n * b <= a
<1>1. a \div b \in Int /\ b * (a \div b) <= a
  OBVIOUS
<1>2. n * b <= (a \div b) * b
  BY <1>1
<1> QED
  BY <1>1, <1>2

LEMMA FewerFit ==
  ASSUME NEW s, Sane(s), NEW m \in RuntimeType, NEW n \in Int, NEW k \in Int,
         k <= n, FitsMemory(n, s, m)
  PROVE  FitsMemory(k, s, m)
<1>1. s.memory \in Nat /\ m.memory \in Nat
  BY DEF Sane, SpecType, RuntimeType
<1>2. k * s.memory <= n * s.memory
  BY <1>1
<1> QED
  BY <1>1, <1>2 DEF FitsMemory

LEMMA ResourceClampFits ==
  ASSUME NEW s, Sane(s), NEW m \in RuntimeType, NEW n \in Int
  PROVE  /\ ResourceClamp(n, s, m) \in Int
         /\ FitsMemory(ResourceClamp(n, s, m), s, m)
<1>1. s.memory \in Nat /\ m.memory \in Nat /\ m.cpus \in Nat
  BY DEF Sane, SpecType, RuntimeType
<1>2. CASE n <= 0
  <2>1. n * s.memory <= 0
    BY <1>1, <1>2
  <2> QED
    BY <1>1, <1>2, <2>1 DEF ResourceClamp, FitsMemory
<1>3. CASE n > 0
  <2> DEFINE k == MemoryClamp(n, s, m)
  <2>1. k \in Int /\ FitsMemory(k, s, m)
    <3>1. CASE s.memory > 0 /\ m.memory > 0
      <4>1. k \in Int /\ k <= m.memory \div s.memory
        BY <1>1, <3>1 DEF MemoryClamp, AtMost
      <4> HIDE DEF k
      <4> QED
        BY <1>1, <3>1, <4>1, QuotientFits DEF FitsMemory
    <3>2. CASE ~(s.memory > 0 /\ m.memory > 0)
      BY <3>2 DEF MemoryClamp, FitsMemory
    <3> QED
      BY <3>1, <3>2
  <2> HIDE DEF k
  <2>2. ForCPUs(m.cpus, s.class) \in Int
    BY <1>1 DEF ForCPUs, CeilDiv, PerCPU
  <2>3. CPUClamp(k, s, m) \in Int /\ CPUClamp(k, s, m) <= k
    BY <1>1, <2>1, <2>2 DEF CPUClamp, AtMost, AtLeast
  <2>4. ResourceClamp(n, s, m) = CPUClamp(k, s, m)
    BY <1>3 DEF ResourceClamp, k
  <2> QED
    BY <2>1, <2>3, <2>4, FewerFit
<1> QED
  BY <1>2, <1>3

\* A size the pool may have: within the bounds, and within the memory unless it
\* is the least size.
Envelope(n, s, m) ==
    /\ n \in Nat /\ s.min <= n
    /\ s.max > 0 => n <= s.max
    /\ n > s.min => FitsMemory(n, s, m)

LEMMA ClampFits ==
  ASSUME NEW s, Sane(s), NEW m \in RuntimeType, NEW n \in Int
  PROVE  Envelope(ClampDesired(n, s, m), s, m)
<1> DEFINE a == Bounded(n, s)
           b == ResourceClamp(a, s, m)
<1>1. a \in Int
  BY BoundedRange
<1> HIDE DEF a
<1>2. b \in Int /\ FitsMemory(b, s, m)
  BY <1>1, ResourceClampFits
<1>3. ClampDesired(n, s, m) = Bounded(b, s)
  BY DEF ClampDesired, a
<1> HIDE DEF b
<1>4. /\ Bounded(b, s) \in Nat /\ s.min <= Bounded(b, s)
      /\ s.max > 0 => Bounded(b, s) <= s.max
      /\ Bounded(b, s) > s.min => Bounded(b, s) <= b
  BY <1>2, BoundedRange
<1>5. Bounded(b, s) > s.min => FitsMemory(Bounded(b, s), s, m)
  BY <1>2, <1>4, FewerFit
<1> QED
  BY <1>3, <1>4, <1>5 DEF Envelope

LEMMA StrategyFits ==
  ASSUME NEW s, Sane(s), NEW m \in RuntimeType, NEW q \in Nat \cup {NoData}
  PROVE  Envelope(DesiredWorkers(s, q, m), s, m)
<1>1. /\ s.min \in Nat /\ s.max \in Nat /\ s.avg \in Nat /\ s.drain \in Nat \ {0}
      /\ m.cpus \in Nat /\ m.logical \in Nat /\ q \in Int
  BY DEF Sane, SpecType, RuntimeType, NoData
<1>2. Envelope(Fixed(s, m), s, m)
  <2>1. AtLeast(s.max, s.min) \in Int
    BY <1>1 DEF AtLeast
  <2> QED
    BY <2>1, ClampFits DEF Fixed
<1>3. Envelope(Backlog(s, q, m), s, m)
  <2> DEFINE n == IF q = NoData THEN s.min ELSE CeilDiv(q * s.avg, s.drain)
  <2>1. CeilDiv(q * s.avg, s.drain) \in Int
    BY <1>1 DEF CeilDiv
  <2>2. n \in Int
    BY <1>1, <2>1
  <2>3. Backlog(s, q, m) = ClampDesired(n, s, m)
    BY DEF Backlog
  <2> QED
    BY <2>2, <2>3, ClampFits
<1>4. Envelope(Resources(s, m), s, m)
  <2> DEFINE cpus == IF m.cpus > 0 THEN m.cpus ELSE AtLeast(m.logical, 2)
  <2>1. cpus \in Int
    BY <1>1 DEF AtLeast
  <2> HIDE DEF cpus
  <2>2. ForCPUs(cpus, s.class) \in Int
    BY <2>1 DEF ForCPUs, CeilDiv, PerCPU
  <2>3. Resources(s, m) = ClampDesired(ForCPUs(cpus, s.class), s, m)
    BY DEF Resources, cpus
  <2> QED
    BY <2>2, <2>3, ClampFits
<1> QED
  BY <1>2, <1>3, <1>4 DEF DesiredWorkers

-----------------------------------------------------------------------------

\* The inductive invariant: the size is in the envelope and is what the
\* hysteresis believes, and no request for less is older than the last growth.
LoopInv == /\ TypeOK
           /\ Envelope(desired, spec, rt)
           /\ BeliefIsPool
           /\ down # Absent => down <= up

LEMMA InitLoop == ASSUME Init PROVE LoopInv
<1>1. Sane(spec) /\ rt \in RuntimeType
  BY ReconcilerAssumption DEF Init, Sane, ReconcilerAssumption
<1>2. desired = spec.min /\ spec.min \in Nat /\ spec.min <= spec.max /\ spec.max \in Nat
  BY <1>1 DEF Init, FirstDesired, Sane, SpecType
<1>3. Envelope(desired, spec, rt)
  BY <1>2 DEF Envelope
<1> QED
  BY <1>2, <1>3, ReconcilerAssumption
     DEF Init, LoopInv, TypeOK, BeliefIsPool, ReconcilerAssumption, Absent, NoData

\* What a pass of the loop does to the size, and to the two ages.
LEMMA PassKeeps ==
  ASSUME LoopInv, NEW gap \in 1..MaxGap, ReconcileOnce(gap)
  PROVE  /\ LoopInv'
         /\ desired' < desired => up' >= DownIdle
<1>1. /\ Sane(spec) /\ rt \in RuntimeType /\ UNCHANGED <<spec, rt, backlog>>
      /\ backlog \in Nat \cup {NoData} /\ gap \in Nat
      /\ UpCooldown \in Nat /\ DownIdle \in Nat \ {0} /\ Horizon \in Nat
      /\ DownIdle <= Horizon
  BY ReconcilerAssumption
     DEF LoopInv, TypeOK, Sane, ReconcilerAssumption, ReconcileOnce
<1>2. Envelope(Raw, spec, rt) /\ Raw \in Nat
  BY <1>1, StrategyFits DEF Raw, Envelope
<1>3. Prev = desired /\ desired \in Nat /\ Envelope(desired, spec, rt)
  BY DEF LoopInv, BeliefIsPool, Prev, Envelope
<1>4. up \in 0..Horizon /\ down \in {Absent} \cup 0..Horizon /\ (down # Absent => down <= up)
  BY DEF LoopInv, TypeOK
<1>5. /\ Older(up, gap) \in 0..Horizon
      /\ down # Absent => Older(down, gap) \in 0..Horizon /\ Older(down, gap) <= Older(up, gap)
  BY <1>1, <1>4 DEF Older, AtMost, Absent
<1> HIDE DEF LoopInv
<1>6. /\ last' \in {Raw, desired}
      /\ up' \in 0..Horizon /\ down' \in {Absent} \cup 0..Horizon
      /\ down' # Absent => down' <= up'
      /\ last' < desired => up' >= DownIdle
  <2>1. CASE ScaleUp(gap)
    BY <1>1, <1>2, <1>3, <1>4, <1>5, <2>1 DEF ScaleUp, Absent
  <2>2. CASE ScaleDown(gap)
    BY <1>1, <1>2, <1>3, <1>4, <1>5, <2>2 DEF ScaleDown, Absent
  <2>3. CASE Stay(gap)
    BY <1>1, <1>2, <1>3, <1>4, <1>5, <2>3 DEF Stay, Absent
  <2> QED
    BY <2>1, <2>2, <2>3 DEF ReconcileOnce
<1>7. last' \in Nat /\ Envelope(last', spec, rt)
  BY <1>2, <1>3, <1>6
<1>8. Bounded(last', spec) = last'
  BY <1>1, <1>7, BoundedRange DEF Envelope
<1>9. desired' = last'
  BY <1>8 DEF ReconcileOnce, Apply
<1>10. TypeOK'
  BY <1>1, <1>6, <1>7, <1>9 DEF LoopInv, TypeOK
<1>11. Envelope(desired, spec, rt)' /\ BeliefIsPool'
  BY <1>1, <1>7, <1>9 DEF BeliefIsPool
<1> QED
  BY <1>6, <1>9, <1>10, <1>11 DEF LoopInv

LEMMA StepLoop ==
  ASSUME LoopInv, [Next]_vars
  PROVE  LoopInv' /\ (desired' < desired => up' >= DownIdle)
<1>1. CASE BacklogChanges
  <2>1. desired \in Nat
    BY DEF LoopInv, TypeOK
  <2> QED
    BY <1>1, <2>1 DEF BacklogChanges, LoopInv, TypeOK, BeliefIsPool, Envelope
<1>2. CASE UNCHANGED vars
  <2>1. desired \in Nat
    BY DEF LoopInv, TypeOK
  <2> QED
    BY <1>2, <2>1 DEF vars, LoopInv, TypeOK, BeliefIsPool, Envelope
<1> QED
  BY <1>1, <1>2, PassKeeps DEF Next

LEMMA Loop == Spec => []LoopInv
  BY InitLoop, StepLoop, PTL DEF Spec

\* Sizes, ages and map entries keep their types (hysteresis.go, reconciler.go).
THEOREM LoopTyping == Spec => []TypeOK
<1>1. LoopInv => TypeOK
  BY DEF LoopInv
<1> QED
  BY <1>1, Loop, PTL

\* Whatever strategies, backlogs and machines: the pool's size is within
\* workers.min and workers.max, and above workers.min it fits the memory.
THEOREM SizeWithinEnvelope == Spec => []WithinEnvelope
<1>1. LoopInv => WithinEnvelope
  BY DEF LoopInv, Envelope, WithinEnvelope
<1> QED
  BY <1>1, Loop, PTL

\* The size the hysteresis compares with is always the pool's.
THEOREM BeliefRight == Spec => []BeliefIsPool
<1>1. LoopInv => BeliefIsPool
  BY DEF LoopInv
<1> QED
  BY <1>1, Loop, PTL

\* For every cooldown and delay, the pool never shrinks within
\* scale_down_idle_for of a growth.
THEOREM NeverFlaps == Spec => NoFlapping
<1>1. LoopInv /\ [Next]_vars => [desired' < desired => up' >= DownIdle]_vars
  BY StepLoop
<1> QED
  BY <1>1, Loop, PTL DEF Spec, NoFlapping

-----------------------------------------------------------------------------
(* How long a size that is asked for has to wait                           *)

\* The time the pool can still differ from what the strategy asks: what is left
\* of the cooldown, or of the delay, which the first pass that asks for less
\* starts.
TimeLeft ==
    IF Raw = desired THEN 0
    ELSE IF Raw > desired THEN 1 + AtLeast(UpCooldown - up, 0)
    ELSE IF down = Absent THEN 2 + DownIdle ELSE 1 + AtLeast(DownIdle - down, 0)

Nearer ==
    /\ TimeLeft \in 0..(AtLeast(UpCooldown, DownIdle + 1) + 1)
    /\ Raw' = Raw => TimeLeft' <= TimeLeft
    /\ \A gap \in 1..MaxGap :
          ReconcileOnce(gap) => TimeLeft' = 0 \/ TimeLeft' <= TimeLeft - 1

LEMMA TimeLeftBounded ==
  ASSUME LoopInv
  PROVE  TimeLeft \in 0..(AtLeast(UpCooldown, DownIdle + 1) + 1)
<1>1. /\ UpCooldown \in Nat \ {0} /\ DownIdle \in Nat \ {0} /\ up \in Nat
      /\ down \in {Absent} \cup Nat
  BY ReconcilerAssumption DEF ReconcilerAssumption, LoopInv, TypeOK
<1> QED
  BY <1>1 DEF TimeLeft, AtLeast, Absent

LEMMA PassNears ==
  ASSUME LoopInv, NEW gap \in 1..MaxGap, ReconcileOnce(gap)
  PROVE  /\ TimeLeft' = 0 \/ TimeLeft' <= TimeLeft - 1
         /\ TimeLeft' <= TimeLeft
<1>1. /\ Raw' = Raw /\ gap \in Nat \ {0}
      /\ UpCooldown \in Nat /\ DownIdle \in Nat /\ Horizon \in Nat
      /\ DownIdle <= Horizon /\ UpCooldown <= Horizon
  BY ReconcilerAssumption DEF ReconcilerAssumption, ReconcileOnce, Raw
<1>2. LoopInv'
  BY PassKeeps
<1>3. /\ Sane(spec) /\ rt \in RuntimeType /\ backlog \in Nat \cup {NoData}
  BY ReconcilerAssumption DEF LoopInv, TypeOK, Sane, ReconcilerAssumption
<1>4. Raw \in Nat /\ desired \in Nat /\ desired' \in Nat
  BY <1>2, <1>3, StrategyFits DEF Raw, Envelope, LoopInv, TypeOK
<1>5. Prev = desired /\ (last' \in Nat => desired' = last')
  BY <1>2 DEF LoopInv, BeliefIsPool, Prev, Absent
<1>6. up \in 0..Horizon /\ down \in {Absent} \cup 0..Horizon
  BY DEF LoopInv, TypeOK
<1>7. CASE ScaleUp(gap)
  BY <1>1, <1>4, <1>5, <1>6, <1>7 DEF ScaleUp, TimeLeft, Older, AtMost, AtLeast, Absent
<1>8. CASE ScaleDown(gap)
  BY <1>1, <1>4, <1>5, <1>6, <1>8 DEF ScaleDown, TimeLeft, Older, AtMost, AtLeast, Absent
<1>9. CASE Stay(gap)
  BY <1>1, <1>4, <1>5, <1>9 DEF Stay, TimeLeft
<1> QED
  BY <1>7, <1>8, <1>9 DEF ReconcileOnce

LEMMA StepNears == ASSUME LoopInv, [Next]_vars PROVE Nearer
<1>1. TimeLeft \in Nat
  BY TimeLeftBounded, ReconcilerAssumption DEF ReconcilerAssumption, AtLeast
<1>2. CASE BacklogChanges \/ UNCHANGED vars
  <2>1. UNCHANGED <<desired, up, down>>
    BY <1>2 DEF BacklogChanges, vars
  <2>2. Raw' = Raw => TimeLeft' = TimeLeft
    BY <2>1 DEF TimeLeft
  <2> QED
    BY <1>1, <2>2, TimeLeftBounded, PassNears DEF Nearer
<1>3. ASSUME NEW gap \in 1..MaxGap, ReconcileOnce(gap) PROVE Nearer
  BY <1>3, TimeLeftBounded, PassNears DEF Nearer
<1> QED
  BY <1>2, <1>3 DEF Next

\* The pool reaches a size that the strategy goes on asking for, and how soon
\* (hysteresis.go, both branches): whatever the backlog does in between, as long
\* as the answer is the same each pass either sets it or takes at least one unit
\* from a delay that is never above the cooldown, or scale_down_idle_for, by more
\* than the passes that start and end it.
THEOREM SizeNears == Spec => [][Nearer]_vars
<1>1. LoopInv /\ [Next]_vars => [Nearer]_vars
  BY StepNears
<1> QED
  BY <1>1, Loop, PTL DEF Spec

=============================================================================
