----------------------------- MODULE Reconciler -----------------------------
(***************************************************************************)
(* The control loop of one workload: the reconciler's pass                 *)
(* (src/internal/reconciler/reconciler.go) asks the workload's strategy    *)
(* through a Hysteresis of its own (src/internal/scaling/hysteresis.go)    *)
(* and passes what comes out to the pool.                                  *)
(*                                                                         *)
(* Only the reconciler writes the pool's desired, so a pass is one step;   *)
(* it stops before the pool does.  Times are kept as ages, counted up to   *)
(* Horizon, beyond which the code cannot tell them apart: "never" is an    *)
(* age of Horizon.  Between two passes any time from 1 to MaxGap goes by   *)
(* (the ticker drops ticks while a pass is late).                          *)
(***************************************************************************)
EXTENDS Scaling

CONSTANTS
    Specs, Runtimes,        \* the workloads and machines considered
    UpCooldown, DownIdle,   \* scale_up_cooldown, scale_down_idle_for
    Horizon,                \* bound: ages above it are equal
    MaxBacklog, MaxGap      \* bounds: jobs waiting, time between two passes

SpecType == [strategy : Strategies, class : Classes, min : Nat, max : Nat,
             memory : Nat, avg : Nat \ {0}, drain : Nat \ {0}]
RuntimeType == [memory : Nat, cpus : Nat, logical : Nat]

\* Resolve refuses max < min; a zero cooldown becomes its default.
ASSUME ReconcilerAssumption ==
    /\ Specs \subseteq {s \in SpecType : s.min <= s.max}
    /\ Runtimes \subseteq RuntimeType
    /\ UpCooldown \in Nat \ {0} /\ DownIdle \in Nat \ {0} /\ Horizon \in Nat
    /\ UpCooldown <= Horizon /\ DownIdle <= Horizon
    /\ MaxBacklog \in Nat /\ MaxGap \in Nat

Absent == -1   \* no entry in the map

VARIABLES
    spec, rt,    \* the workload and the machine: chosen once
    backlog,     \* what the BacklogProvider answers
    desired,     \* the pool's
    last,        \* lastDesired[spec.Name]
    up,          \* age of lastScaleUp
    down         \* age of scaleDownSince[spec.Name]

vars == <<spec, rt, backlog, desired, last, up, down>>

Raw == DesiredWorkers(spec, backlog, rt)
\* The first pass starts from the pool's size; no worker runs in a pool of zero.
Prev == IF last = Absent THEN desired ELSE last
Older(age, gap) == AtMost(age + gap, Horizon)

Init ==
    /\ spec \in Specs /\ rt \in Runtimes
    /\ backlog = NoData
    /\ desired = FirstDesired(spec)
    /\ last = Absent /\ up = Horizon /\ down = Absent

BacklogChanges ==
    /\ backlog' \in (0..MaxBacklog \cup {NoData}) \ {backlog}
    /\ UNCHANGED <<spec, rt, desired, last, up, down>>

\* Mutant: an increase does not forget since when less was asked.
ScaleUpKeepingDown(gap) ==
    /\ Raw > Prev
    /\ IF Older(up, gap) < UpCooldown
       THEN last' = Prev /\ up' = Older(up, gap)
       ELSE last' = Raw /\ up' = 0
    /\ down' = IF down = Absent THEN Absent ELSE Older(down, gap)

\* Hysteresis.DesiredWorkers in its three branches: each says what is returned
\* and what the map and lastScaleUp become, gap after the pass before.
ScaleUp(gap) ==
    /\ Raw > Prev
    /\ IF Older(up, gap) < UpCooldown
       THEN /\ last' = Prev /\ up' = Older(up, gap)
            /\ down' = IF down = Absent THEN Absent ELSE Older(down, gap)
       ELSE last' = Raw /\ up' = 0 /\ down' = Absent

\* Mutant: every pass that asks for less starts the delay again.
ScaleDownRestarting(gap) ==
    /\ Raw < Prev
    /\ up' = Older(up, gap)
    /\ IF down # Absent /\ gap >= DownIdle
       THEN last' = Raw /\ down' = Absent
       ELSE last' = Prev /\ down' = 0

ScaleDown(gap) ==
    /\ Raw < Prev
    /\ up' = Older(up, gap)
    /\ IF down = Absent THEN last' = Prev /\ down' = 0
       ELSE IF Older(down, gap) < DownIdle
       THEN last' = Prev /\ down' = Older(down, gap)
       ELSE last' = Raw /\ down' = Absent

Stay(gap) ==
    /\ Raw = Prev
    /\ last' = Prev /\ up' = Older(up, gap) /\ down' = Absent

\* What the hysteresis returns goes to Pool.SetDesired unless it is the pool's
\* size already.
Apply == desired' = IF last' # desired THEN Bounded(last', spec) ELSE desired

ReconcileOnce(gap) ==
    /\ ScaleUp(gap) \/ ScaleDown(gap) \/ Stay(gap)
    /\ Apply
    /\ UNCHANGED <<spec, rt, backlog>>

Next == BacklogChanges \/ \E gap \in 1..MaxGap : ReconcileOnce(gap)

Spec == Init /\ [][Next]_vars

\* The ticker ticks for as long as the reconciler runs.
FairSpec == Spec /\ WF_vars(\E gap \in 1..MaxGap : ReconcileOnce(gap))

-----------------------------------------------------------------------------

TypeOK ==
    /\ spec \in Specs /\ rt \in Runtimes
    /\ backlog \in 0..MaxBacklog \cup {NoData}
    /\ desired \in Nat /\ last \in Nat \cup {Absent}
    /\ up \in 0..Horizon /\ down \in {Absent} \cup 0..Horizon

\* The pool's size stays within workers.min and workers.max, whatever memory and
\* CPUs the machine has, and above workers.min it fits the machine's memory.
WithinEnvelope ==
    /\ spec.min <= desired
    /\ spec.max > 0 => desired <= spec.max
    /\ desired > spec.min => FitsMemory(desired, spec, rt)

\* What the hysteresis believes the size to be is the pool's size.
BeliefIsPool == last # Absent => desired = last

\* scale-up fast, scale-down slow: the pool never shrinks within DownIdle of a
\* growth, whatever the strategy asked in between.
NoFlapping == [][desired' < desired => up' >= DownIdle]_vars

\* Once the strategy's answer stays what it is, the pool gets that size.
Sizes == UNION {s.min..s.max : s \in Specs}
Converges == \A n \in Sizes : <>[](Raw = n) => <>[](desired = n)

=============================================================================
