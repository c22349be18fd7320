------------------------------- MODULE Startup ------------------------------
(***************************************************************************)
(* `eregion serve' from its command line to a server that is ready to run: *)
(* cmdServe (src/cmd/eregion/main.go), New (src/internal/server/server.go) *)
(* and Manager.Ensure (src/internal/worker/manager.go), over the           *)
(* operators of Configuration and Detection.                               *)
(*                                                                         *)
(* What the program reads (file, workers, machine) is chosen at the start. *)
(* Two choices are left to the program: both loops of New go over Go maps, *)
(* in any order.                                                           *)
(***************************************************************************)
EXTENDS Configuration, Detection

CONSTANTS Inputs,  \* the <<file, command line, machine>> considered
          NoFile   \* in place of a file: there is none

\* The program's integers and paths; a zero workers flag is one not given.
Counts(x, fields) == \A f \in fields : x[f] \in Int \cup {Unset}
CountsOf(entries) ==
    entries = Unset \/ \A n \in DOMAIN entries : Counts(entries[n], {"min", "max"})

IsPath(p) == p = Unset \/ p \in Seq(STRING)
Readings == [1..2 -> [own : Int, root : Int]]

\* What is not given is no setting.
ASSUME UnsetAssumption == Unset \notin Int /\ Unset \notin Classes

ASSUME StartupAssumption ==
    \A i \in Inputs :
      /\ i.machine.logical \in Nat \ {0} /\ i.machine.gomaxprocs \in Nat \ {0}
      /\ i.machine.quota \in Readings /\ i.machine.cpuset \in Readings
      /\ i.machine.memory \in Readings
      /\ i.workers \in Int
      /\ i.file = NoFile
         \/ /\ Counts(i.file, {"count", "minReady", "capacity"})
            /\ IsPath(i.file.prefix) /\ \A e \in Endpoints : IsPath(i.file.path[e])
            /\ CountsOf(i.file.templates) /\ CountsOf(i.file.workloads)

VARIABLES
    input,     \* what is read: the file, the flags, the machine
    phase,     \* how far it has come
    cfg,       \* the configuration
    specs,     \* the workloads New resolved, and what is in the registry
    found,     \* the resources, or Unset
    advice,    \* the sizing, or Unset
    pools      \* name -> the pool Ensure made

vars == <<input, phase, cfg, specs, found, advice, pools>>

Phases == {"load", "override", "new", "advise", "ensure", "built", "refused"}

Init ==
    /\ input \in Inputs
    /\ phase = "load" /\ cfg = Default(input.machine.logical)
    /\ specs = {} /\ found = Unset /\ advice = Unset /\ pools = NoEntries

-----------------------------------------------------------------------------

\* loadConfig: a file that does not exist leaves the defaults.
Read == IF input.file = NoFile THEN cfg ELSE ApplyFile(cfg, input.file)
Sound == input.file # NoFile => input.file.sound

\* Every validation resolves the endpoints again.
Validated(c) == Valid(ResolveEndpoints(c))

Load ==
    /\ phase = "load"
    /\ Sound /\ Validated(Read)
    /\ cfg' = ResolveEndpoints(Read)
    /\ phase' = "override"
    /\ UNCHANGED <<input, specs, found, advice, pools>>

Override ==
    /\ phase = "override"
    /\ LET c == ApplyCLIOverrides(cfg, input.workers) IN
       /\ input.sound /\ Validated(c)
       /\ cfg' = ResolveEndpoints(c)
    /\ phase' = "new"
    /\ UNCHANGED <<input, specs, found, advice, pools>>

\* "config error": the program exits.
Refuse ==
    /\ \/ phase = "load" /\ ~ (Sound /\ Validated(Read))
       \/ phase = "override" /\ ~ (input.sound /\ Validated(ApplyCLIOverrides(cfg, input.workers)))
    /\ phase' = "refused"
    /\ UNCHANGED <<input, cfg, specs, found, advice, pools>>

\* New: the workloads are resolved, then the machine is looked at.
ResolveAndDetect ==
    /\ phase = "new"
    /\ specs' = Workloads(cfg)
    /\ found' = Detect(input.machine)
    /\ phase' = "advise"
    /\ UNCHANGED <<input, cfg, advice, pools>>

HTTPSpecs == {s \in specs : s.mode = "http"}

\* The first HTTP workload in the list is the one the advice is about.
Advise ==
    /\ phase = "advise"
    /\ \/ \E s \in HTTPSpecs : advice' = Analyze(found.cpus, AtLeast(s.max, s.min))
       \/ HTTPSpecs = {} /\ advice' = Analyze(found.cpus, cfg.count)
    /\ phase' = "ensure"
    /\ UNCHANGED <<input, cfg, specs, found, pools>>

\* Mutant: min_ready is not limited to the workers there will be.
PoolUnlimited(s) ==
    [mode |-> s.mode, desired |-> FirstDesired(s), min |-> s.min, max |-> s.max,
     minReady |-> cfg.minReady, memory |-> s.memory]

\* Manager.Ensure for a workload without a pool.
Pool(s) ==
    [mode |-> s.mode, desired |-> FirstDesired(s), min |-> s.min, max |-> s.max,
     minReady |-> IF s.mode = "http" THEN AtMost(cfg.minReady, FirstDesired(s)) ELSE 0,
     memory |-> IF s.memory > 0 THEN s.memory ELSE cfg.memory]

Ensure(s) ==
    /\ phase = "ensure"
    /\ s \in specs /\ s.name \notin DOMAIN pools
    /\ pools' = [n \in DOMAIN pools \cup {s.name} |->
                    IF n = s.name THEN Pool(s) ELSE pools[n]]
    /\ UNCHANGED <<input, phase, cfg, specs, found, advice>>

\* The rest of New: handlers are put together.
Wire ==
    /\ phase = "ensure" /\ DOMAIN pools = {s.name : s \in specs}
    /\ phase' = "built"
    /\ UNCHANGED <<input, cfg, specs, found, advice, pools>>

Next == Load \/ Override \/ Refuse \/ ResolveAndDetect \/ Advise \/ Wire
        \/ (\E s \in specs : Ensure(s))

Spec == Init /\ [][Next]_vars

-----------------------------------------------------------------------------
(* Properties *)

Past(p) == phase \notin {"load", "refused"} \cup p

FirstGiven(choices) ==
    choices[CHOOSE i \in DOMAIN choices :
                choices[i] # Unset /\ \A j \in 1..i - 1 : choices[j] = Unset]

\* Type invariant.
TypeOK ==
    /\ phase \in Phases
    /\ cfg.count \in Int /\ cfg.capacity \in Int /\ cfg.derived \in BOOLEAN
    /\ specs # {} \/ phase \in {"load", "override", "new", "refused"}
    /\ DOMAIN pools \subseteq {s.name : s \in specs}

\* README.md:100 "--workers recomputes derived queue.capacity (count * 8) when
\* capacity was not set explicitly in YAML": however the count came about, by
\* default, file or flag, the queue has the capacity the file gives or eight
\* places for each worker there is.
QueueFollowsWorkers ==
    Past({}) =>
      cfg.capacity = IF input.file # NoFile /\ input.file.capacity # Unset
                     THEN input.file.capacity ELSE 8 * cfg.count

\* What a workload says itself comes before its template, and that before the
\* default, setting by setting: one setting of its own does not cost it the
\* others it inherits.  A workload's memory of 0 is one that is not given.
Precedence ==
    \A s \in {t \in specs : t.name \in DOMAIN cfg.workloads} :
      LET w == cfg.workloads[s.name]
          Own(f) == IF f = "memory" /\ w[f] # Unset /\ ~(w[f] > 0) THEN Unset ELSE w[f]
          Template(f) == IF w.template = Unset THEN Unset ELSE cfg.templates[w.template][f]
          Otherwise == [min |-> 1, max |-> 1, class |-> "balanced", memory |-> 0]
      IN \A f \in DOMAIN Otherwise :
            s[f] = FirstGiven(<<Own(f), Template(f), Otherwise[f]>>)

\* The same of the scaling policy; resolve.go:25 and docs/workloads-spec.md:171
\* say that overrides take precedence over the template, model.go:77 that a
\* section that is not there is inherited.
ScalingInherited ==
    \A s \in {t \in specs : t.name \in DOMAIN cfg.workloads} :
      LET w == cfg.workloads[s.name]
          Own(x) == IF x.scaling = Unset THEN Unset ELSE x.scaling.strategy
          Template == IF w.template = Unset THEN Unset ELSE Own(cfg.templates[w.template])
      IN s.scaling.strategy = FirstGiven(<<Own(w), Template, "fixed">>)

\* The endpoints a server is built with do not take each other's requests.  If the
\* prefix is written as path.Clean would write it they lie below it, and are where
\* the last validation saw them: the rounds of resolving, at the file and at the
\* flags, settle, whatever the paths are, "/ops/../x" below /ops too.  (Any other
\* prefix, /a//b or /a/., is put before them again at each validation.)
EndpointsApart ==
    phase = "built" =>
      /\ \A d, e \in {f \in Endpoints : cfg.on[f]} : cfg.path[d] = cfg.path[e] => d = e
      /\ Clean(cfg.prefix) = cfg.prefix =>
            /\ \A e \in Endpoints : IsPrefix(cfg.prefix, cfg.path[e])
            /\ ResolveEndpoints(cfg) = cfg

\* Each pool starts inside its bounds, the bounds are in order, as the
\* reconciler's loop requires, and an HTTP pool's Start waits for no more
\* workers than it boots.
PoolsInEnvelope ==
    \A n \in DOMAIN pools :
      LET p == pools[n] IN
      /\ 0 <= p.min /\ p.min <= p.desired /\ p.desired <= p.max
      /\ 0 <= p.minReady /\ p.minReady <= p.desired
      /\ p.mode = "consumer" => p.minReady = 0

\* Without a workloads section the readiness handler, which compares with
\* workers.min_ready itself, can be satisfied by the pool, also after --workers
\* made the pool smaller than the file said.
ReadinessReachable ==
    phase = "built" /\ ~ cfg.explicit =>
      /\ DOMAIN pools = {"http"}
      /\ cfg.minReady <= pools["http"].max
      /\ pools["http"].desired = cfg.count

\* Each controller's limit in the directory /proc/self/cgroup names for it.
OwnLimits ==
    LET m == input.machine
        In(files, c) == {files[v].own : v \in {n \in 1..2 :
                            (IF n = 1 THEN m.self[c] ELSE m.self.unified) = "own"}}
    IN {l \in In(m.quota, "cpu") \cup In(m.cpuset, "cpuset") : l > 0}
AllLimits ==
    LET m == input.machine IN
    {l \in UNION {{m.quota[v].own, m.quota[v].root, m.cpuset[v].own, m.cpuset[v].root} :
                     v \in 1..2} : l > 0}

OneHierarchy ==
    LET self == input.machine.self IN
    self.unified = NoPath \/ \A c \in Controllers : self[c] = NoPath

OwnMemory ==
    LET m == input.machine
    IN {m.memory[v].own : v \in {n \in 1..2 :
          (IF n = 1 THEN m.self["memory"] ELSE m.self.unified) = "own"}} \ {Unknown}

\* The CPUs Eregion believes in never exceed a quota or cpuset of its own
\* cgroup, are a limit of the machine if it has one in reach, GOMAXPROCS
\* otherwise, and are never zero; nor does the memory exceed its cgroup's.  Not
\* so where v1 controllers are mounted beside a unified hierarchy: the v1 limits
\* are not looked at there.
LimitsRespected ==
    found # Unset /\ OneHierarchy =>
      /\ \A l \in OwnLimits : found.cpus <= l
      /\ found.cpus \in AllLimits \cup {input.machine.gomaxprocs * CPU}
      /\ OwnLimits # {} => found.quotaDetected \/ found.cpusetDetected
      /\ found.cpus > 0
      /\ \A l \in OwnMemory : found.memory # Unknown /\ found.memory <= l

\* The advice names the least counts with one, two and four workers for a CPU,
\* and who follows it is not warned, unless there is less than an eighth of a
\* CPU: then even one worker is too many.
AdviceFits ==
    advice # Unset =>
      LET Least(n, k) == n * CPU >= k * found.cpus /\ (n = 1 \/ (n - 1) * CPU < k * found.cpus)
      IN /\ Least(advice.min, 1) /\ Least(advice.rec, 2) /\ Least(advice.max, 4)
         /\ 8 * found.cpus >= CPU =>
               \A n \in advice.min..advice.max : ~ Analyze(found.cpus, n).warning

=============================================================================
