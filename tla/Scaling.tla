------------------------------- MODULE Scaling ------------------------------
(***************************************************************************)
(* How many workers a workload should have (src/internal/scaling/          *)
(* strategy.go): the three strategies and the clamp they all end in.       *)
(*                                                                         *)
(* A spec is a resolved workload, rt the resources found at the start.     *)
(* CPUs are fractions in the code; here they are counted in halves, which  *)
(* keeps every rounding case.  memory is in any unit, 0 for "not declared" *)
(* in a spec and "not known" in rt.                                        *)
(***************************************************************************)
EXTENDS Integers

Strategies == {"fixed", "backlog", "resources"}
Classes == {"io", "cpu", "balanced"}
NoData == -1     \* no BacklogProvider, or it knows nothing of the workload

CeilDiv(a, b) == (a + b - 1) \div b
AtLeast(n, low) == IF n < low THEN low ELSE n
AtMost(n, high) == IF n > high THEN high ELSE n

PerCPU(class) == CASE class = "cpu" -> 1 [] class = "io" -> 4 [] OTHER -> 2

ForCPUs(halves, class) == CeilDiv(halves * PerCPU(class), 2)

\* applyResourceClamp: memory first, then the CPU ceiling, which is never zero.
FitsMemory(n, spec, rt) ==
    spec.memory > 0 /\ rt.memory > 0 => n * spec.memory <= rt.memory
MemoryClamp(n, spec, rt) ==
    IF spec.memory > 0 /\ rt.memory > 0 THEN AtMost(n, rt.memory \div spec.memory) ELSE n
CPUClamp(n, spec, rt) ==
    IF rt.cpus > 0 THEN AtMost(n, AtLeast(ForCPUs(rt.cpus, spec.class), 1)) ELSE n

\* Mutant: the memory the workload declares is not looked at.
ResourceClampCPUOnly(n, spec, rt) ==
    IF n <= 0 THEN n ELSE CPUClamp(n, spec, rt)

ResourceClamp(n, spec, rt) ==
    IF n <= 0 THEN n ELSE CPUClamp(MemoryClamp(n, spec, rt), spec, rt)

\* workers.max = 0 is no bound.
Bounded(n, spec) ==
    LET low == AtLeast(n, spec.min) IN
    IF spec.max > 0 THEN AtMost(low, spec.max) ELSE low

\* Mutant: the bounds are not applied again after the resources.
ClampDesiredOnce(n, spec, rt) == ResourceClamp(Bounded(n, spec), spec, rt)

\* workers.min wins over the resources: the bounds are applied again.
ClampDesired(n, spec, rt) ==
    Bounded(ResourceClamp(Bounded(n, spec), spec, rt), spec)

Fixed(spec, rt) == ClampDesired(AtLeast(spec.max, spec.min), spec, rt)

\* Enough workers to drain the backlog in TargetDrainTime.
Backlog(spec, backlog, rt) ==
    ClampDesired(IF backlog = NoData THEN spec.min
                 ELSE CeilDiv(backlog * spec.avg, spec.drain), spec, rt)

\* When the CPUs available are not known, the logical ones (one at least).
Resources(spec, rt) ==
    LET cpus == IF rt.cpus > 0 THEN rt.cpus ELSE AtLeast(rt.logical, 2)
    IN ClampDesired(ForCPUs(cpus, spec.class), spec, rt)

\* Registry.For(spec.strategy).DesiredWorkers
DesiredWorkers(spec, backlog, rt) ==
    CASE spec.strategy = "backlog" -> Backlog(spec, backlog, rt)
      [] spec.strategy = "resources" -> Resources(spec, rt)
      [] OTHER -> Fixed(spec, rt)

\* The first size of a workload's pool (Manager.Ensure, then NewWorkloadPool):
\* workers.max is taken only where workers.min is the same.
FirstDesired(spec) == spec.min

=============================================================================
