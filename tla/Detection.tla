------------------------------ MODULE Detection -----------------------------
(***************************************************************************)
(* What Eregion finds out about its machine (src/internal/resources) and   *)
(* what it advises from it (src/internal/sizing).                          *)
(*                                                                         *)
(* CPUs are counted in tenths.  A machine is what can be read on it:       *)
(*   self      /proc/self/cgroup: for the unified hierarchy and for each   *)
(*             v1 controller the directory the process is in, or NoPath    *)
(*   quota, cpuset, memory                                                 *)
(*             per cgroup version, the number in the file of the process's *)
(*             own directory and in the one of the root, or Unknown        *)
(*   logical, gomaxprocs                                                   *)
(* Unknown stands for a file that is absent, unreadable, malformed, or     *)
(* says there is no limit: the parsers tell their callers no more.         *)
(***************************************************************************)
EXTENDS Integers

CPU == 10          \* one CPU
Unknown == -1

\* Directories a line of /proc/self/cgroup names: its own below the root of the
\* hierarchy, the root, or one with ".." in it.
NoPath == "none"
Paths == {"own", "root", "escape"}
Controllers == {"cpu", "memory", "cpuset", "other"}

\* ParseSelfCgroup: a unified entry wins over any v1 entry.
Version(self) ==
    CASE self.unified # NoPath -> 2
      [] self.unified = NoPath /\ (\E c \in Controllers : self[c] # NoPath) -> 1
      [] OTHER -> 0

\* A controller without an entry of its own is taken to be where cpu is.
PathOf(self, controller) ==
    CASE Version(self) = 2 -> self.unified
      [] Version(self) # 2 /\ self[controller] # NoPath -> self[controller]
      [] OTHER -> self.cpu

\* Mutant: the root comes first.
RootThenOwn(dir, path) ==
    IF dir.root # Unknown \/ path # "own" THEN dir.root ELSE dir.own

\* ResolveCgroupPath refuses an escape; what is not in the process's own
\* directory is looked up in the root.
OwnThenRoot(dir, path) ==
    IF path = "own" /\ dir.own # Unknown THEN dir.own ELSE dir.root

EitherRoot(files) ==
    IF files[2].root # Unknown THEN files[2].root ELSE files[1].root

\* A quota that is not positive counts as none (readV2CPUAt, readV1CPUAt).
Positive(n) == IF n > 0 THEN n ELSE Unknown
Quotas(machine) ==
    [v \in 1..2 |-> [own |-> Positive(machine.quota[v].own),
                     root |-> Positive(machine.quota[v].root)]]

ProcessQuota(machine) ==
    LET self == machine.self
        files == Quotas(machine)
    IN CASE Version(self) = 2 -> OwnThenRoot(files[2], self.unified)
         [] Version(self) = 1 /\ self.cpu # NoPath -> OwnThenRoot(files[1], self.cpu)
         [] OTHER -> EitherRoot(files)

ProcessLimit(files, self, controller) ==
    IF Version(self) = 0 THEN EitherRoot(files)
    ELSE OwnThenRoot(files[Version(self)], PathOf(self, controller))

MinPositive(a, b) ==
    IF a > 0 /\ b > 0 THEN IF a < b THEN a ELSE b
    ELSE IF a > 0 THEN a ELSE b

\* applyCPUFallbacks
Fallback(gomaxprocs, logical) ==
    CASE gomaxprocs > 0 -> gomaxprocs * CPU
      [] gomaxprocs <= 0 /\ logical > 0 -> logical * CPU
      [] OTHER -> CPU

\* SystemDetector.Detect on Linux.
Detect(machine) ==
    LET quota == ProcessQuota(machine)
        cpuset == ProcessLimit(machine.cpuset, machine.self, "cpuset")
        limit == MinPositive(quota, cpuset)
    IN [cpus |-> IF limit > 0 THEN limit ELSE Fallback(machine.gomaxprocs, machine.logical),
        quotaDetected |-> quota # Unknown,
        cpusetDetected |-> cpuset # Unknown,
        memory |-> ProcessLimit(machine.memory, machine.self, "memory")]

-----------------------------------------------------------------------------
(* The advisor, for a positive number of CPUs, which is all Detect returns. *)

\* Mutant: rounded up by adding one, also when nothing is left to round.
OneMoreWorker(tenths) == 1 + tenths \div CPU

CeilWorkers(tenths) ==
    IF tenths <= 0 THEN 1 ELSE (tenths + CPU - 1) \div CPU

\* Classify: workers per CPU against 1, 2, 4 and 8.
Classify(workers, cpus) ==
    CASE workers * CPU <= cpus -> "cpu_conservative"
      [] workers * CPU > cpus /\ workers * CPU <= 2 * cpus -> "balanced"
      [] workers * CPU > 2 * cpus /\ workers * CPU <= 4 * cpus -> "io_optimized"
      [] workers * CPU > 4 * cpus /\ workers * CPU <= 8 * cpus -> "high_oversubscription"
      [] OTHER -> "extreme_oversubscription"

Analyze(cpus, configured) ==
    LET workers == IF configured < 1 THEN 1 ELSE configured
    IN [workers |-> workers,
        min |-> CeilWorkers(cpus), rec |-> CeilWorkers(2 * cpus), max |-> CeilWorkers(4 * cpus),
        class |-> Classify(workers, cpus),
        warning |-> workers * CPU > 8 * cpus]

=============================================================================
