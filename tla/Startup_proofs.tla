---------------------------- MODULE Startup_proofs ----------------------------
(***************************************************************************)
(* What startup makes of every file, command line and machine.  The        *)
(* argument: past validation the counts are integers in the order Validate *)
(* demands (Checked), where they come from does not depend on the order in *)
(* which they were set (Derived), and every workload that resolves has     *)
(* workers.min below workers.max, which is all a pool's bounds rest on.    *)
(***************************************************************************)
EXTENDS Startup, SequenceTheorems, FiniteSetTheorems, TLAPS

Fields == {"count", "minReady", "memory", "capacity", "derived", "prefix", "on",
           "path", "templates", "workloads", "explicit"}

\* The configuration has the counts of the program's types.
Typed(c) ==
    /\ DOMAIN c = Fields
    /\ c.count \in Int /\ c.minReady \in Int
    /\ \A n \in DOMAIN c.templates : Counts(c.templates[n], {"min", "max"})
    /\ \A n \in DOMAIN c.workloads : Counts(c.workloads[n], {"min", "max"})

\* The capacity is the file's, or derived from the count.
GivenCapacity == input.file # NoFile /\ input.file.capacity # Unset
Derived(c) ==
    /\ c.derived = ~ GivenCapacity
    /\ c.capacity = IF GivenCapacity THEN input.file.capacity
                    ELSE DerivedQueueCapacity(c.count)

Checked(c) == c.count >= 1 /\ c.minReady \in 0..c.count /\ WorkloadsResolve(c)

ConfigInv ==
    /\ input \in Inputs
    /\ phase \in Phases
    /\ Typed(cfg)
    /\ phase = "load" => cfg = Default(input.machine.logical)
    /\ Past({}) => Derived(cfg) /\ Checked(cfg)

\* A workload's bounds are in order.
Ordered(s) == s.mode \in Modes /\ s.min \in Nat /\ s.max \in Nat /\ s.min <= s.max
Fits(p) ==
    /\ 0 <= p.min /\ p.min <= p.desired /\ p.desired <= p.max
    /\ 0 <= p.minReady /\ p.minReady <= p.desired
    /\ p.mode = "consumer" => p.minReady = 0

PoolInv ==
    /\ phase \in {"load", "override", "new", "refused"} => specs = {}
    /\ phase \notin {"ensure", "built"} => DOMAIN pools = {}
    /\ \A s \in specs : Ordered(s)
    /\ \A n \in DOMAIN pools : Fits(pools[n])

-----------------------------------------------------------------------------
(* The operators of Configuration *)

LEMMA GivenCount ==
  ASSUME NEW x \in Int \cup {Unset}, NEW d \in Int
  PROVE  Given(x, d) \in Int
BY DEF Given

LEMMA DefaultTyped ==
  ASSUME NEW n \in Nat \ {0}
  PROVE  /\ Typed(Default(n))
         /\ Default(n).derived = TRUE
         /\ Default(n).capacity = DerivedQueueCapacity(Default(n).count)
<1>1. AtLeast(AtMost(n, 8), 1) \in Int
  BY DEF AtLeast, AtMost
<1>2. DOMAIN NoEntries = {}
  BY DEF NoEntries
<1> QED
  BY <1>1, <1>2 DEF Default, Typed, Fields

\* Resolving the endpoints touches nothing but the paths.
LEMMA EndpointsOnly ==
  ASSUME NEW c, Typed(c)
  PROVE  /\ DOMAIN ResolveEndpoints(c) = Fields
         /\ \A f \in Fields \ {"path"} : ResolveEndpoints(c)[f] = c[f]
BY DEF ResolveEndpoints, Typed, Fields

\* A workload that resolves has its bounds in order.
LEMMA ResolvedOrdered ==
  ASSUME NEW c, Typed(c), NEW n \in DOMAIN c.workloads,
         Resolvable(n, c.workloads[n], c.templates)
  PROVE  Ordered(Resolve(n, c.workloads[n], c.templates))
<1> DEFINE w == c.workloads[n]
           base == Base(w, c.templates)
           r == Resolve(n, w, c.templates)
<1>1. w.min \in Int \cup {Unset} /\ w.max \in Int \cup {Unset}
  BY DEF Typed, Counts
<1>2. base.min \in Int /\ base.max \in Int
  <2>1. CASE w.template = Unset
    BY <2>1 DEF Base, Bare
  <2>2. CASE w.template # Unset
    <3> DEFINE t == c.templates[w.template]
    <3>1. w.template \in DOMAIN c.templates
      BY <2>2 DEF Resolvable
    <3>2. t.min \in Int \cup {Unset} /\ t.max \in Int \cup {Unset}
      BY <3>1 DEF Typed, Counts
    <3>3. base.min = Given(t.min, 1) /\ base.max = Given(t.max, 1)
      BY <2>2 DEF Base, ConvertTemplate
    <3> HIDE DEF t, base
    <3>4. Given(t.min, 1) \in Int /\ Given(t.max, 1) \in Int
      BY <3>2 DEF Given
    <3> QED
      BY <3>3, <3>4
  <2> QED
    BY <2>1, <2>2
<1>3. r.min = Given(w.min, base.min) /\ r.max = Given(w.max, base.max)
  BY DEF Resolve
<1>4. r.min \in Int /\ r.max \in Int
  BY <1>1, <1>2, <1>3, GivenCount
<1>5. r.mode \in Modes /\ r.min <= r.max /\ r.min >= 0
  BY DEF Resolvable
<1> HIDE DEF r
<1> QED
  BY <1>4, <1>5 DEF Ordered, r

LEMMA WorkloadsOrdered ==
  ASSUME NEW c, Typed(c), Checked(c)
  PROVE  \A s \in Workloads(c) : Ordered(s)
<1>1. \A n \in DOMAIN c.workloads : Ordered(Resolve(n, c.workloads[n], c.templates))
  BY ResolvedOrdered DEF Checked, WorkloadsResolve
<1>2. Ordered(LegacyHTTP(c))
  BY DEF Ordered, LegacyHTTP, Modes, Checked, Typed
<1> QED
  BY <1>1, <1>2 DEF Workloads

\* Whatever workload a pool is for, Ensure makes one that fits.
LEMMA PoolFits ==
  ASSUME NEW s, Ordered(s), Typed(cfg), Checked(cfg)
  PROVE  Fits(Pool(s))
<1>1. cfg.minReady \in Int /\ 0 <= cfg.minReady
  BY DEF Typed, Checked
<1>2. s.min \in Nat /\ s.max \in Nat /\ s.min <= s.max
  BY DEF Ordered
<1> QED
  BY <1>1, <1>2 DEF Fits, Pool, FirstDesired, AtMost

\* What the file says and what it leaves alone.
LEMMA FileTyped ==
  ASSUME NEW c, Typed(c), NEW f, Counts(f, {"count", "minReady"}),
         CountsOf(f.templates), CountsOf(f.workloads)
  PROVE  Typed(ApplyFile(c, f))
<1> DEFINE a == ApplyFile(c, f)
<1>1. /\ DOMAIN a = Fields
      /\ a.count = Given(f.count, c.count) /\ a.minReady = Given(f.minReady, c.minReady)
      /\ a.templates = Given(f.templates, c.templates)
      /\ a.workloads = Given(f.workloads, c.workloads)
  BY DEF ApplyFile, Typed, Fields
<1> HIDE DEF a
<1>2. a.count \in Int /\ a.minReady \in Int
  <2>1. f.count \in Int \cup {Unset} /\ f.minReady \in Int \cup {Unset}
    BY DEF Counts
  <2>2. c.count \in Int /\ c.minReady \in Int
    BY DEF Typed
  <2> QED
    BY <1>1, <2>1, <2>2, GivenCount
<1>3. \A n \in DOMAIN a.templates : Counts(a.templates[n], {"min", "max"})
  BY <1>1 DEF Given, CountsOf, Typed
<1>4. \A n \in DOMAIN a.workloads : Counts(a.workloads[n], {"min", "max"})
  BY <1>1 DEF Given, CountsOf, Typed
<1> QED
  BY <1>1, <1>2, <1>3, <1>4 DEF Typed, a

\* Validation lets nothing through that is not Checked.
LEMMA ValidChecked ==
  ASSUME NEW c, Typed(c), Validated(c)
  PROVE  /\ Typed(ResolveEndpoints(c)) /\ Checked(ResolveEndpoints(c))
         /\ Derived(c) => Derived(ResolveEndpoints(c))
<1> DEFINE r == ResolveEndpoints(c)
<1>1. Valid(r)
  BY DEF Validated
<1>2. /\ DOMAIN r = Fields
      /\ \A f \in Fields \ {"path"} : r[f] = c[f]
  BY EndpointsOnly
<1> HIDE DEF r
<1>3. /\ r.count = c.count /\ r.minReady = c.minReady /\ r.templates = c.templates
      /\ r.workloads = c.workloads /\ r.derived = c.derived /\ r.capacity = c.capacity
  BY <1>2 DEF Fields
<1>4. Typed(r)
  BY <1>2, <1>3 DEF Typed
<1>5. Checked(r)
  BY <1>1 DEF Valid, Checked
<1>6. Derived(c) => Derived(r)
  BY <1>3 DEF Derived
<1> QED
  BY <1>4, <1>5, <1>6 DEF r

-----------------------------------------------------------------------------
(* The configuration *)

LEMMA ConfigInitial == Init => ConfigInv
<1> SUFFICES ASSUME Init PROVE ConfigInv
  OBVIOUS
<1>1. input.machine.logical \in Nat \ {0}
  BY StartupAssumption DEF Init
<1> QED
  BY <1>1, DefaultTyped DEF Init, ConfigInv, Past, Phases

\* Load reads the file over the defaults.
LEMMA LoadKeepsConfig ==
  ASSUME ConfigInv, Load
  PROVE  ConfigInv'
<1>1. /\ cfg = Default(input.machine.logical) /\ input \in Inputs
      /\ Typed(cfg) /\ Validated(Read)
  BY DEF ConfigInv, Load
<1>2. Typed(Read) /\ Derived(Read)
  <2>1. /\ cfg.derived = TRUE /\ cfg.capacity = DerivedQueueCapacity(cfg.count)
    BY <1>1, StartupAssumption, DefaultTyped
  <2>2. CASE input.file = NoFile
    BY <1>1, <2>1, <2>2 DEF Read, Derived, GivenCapacity
  <2>3. CASE input.file # NoFile
    <3>1. Read = ApplyFile(cfg, input.file)
      BY <2>3 DEF Read
    <3>2. Typed(Read)
      <4>1. Counts(input.file, {"count", "minReady"})
        BY <1>1, <2>3, StartupAssumption DEF Counts
      <4> QED
        BY <1>1, <2>3, <3>1, <4>1, StartupAssumption, FileTyped
    <3>3. /\ Read.count = Given(input.file.count, cfg.count)
          /\ Read.capacity =
               Given(input.file.capacity,
                     IF input.file.count = Unset THEN cfg.capacity
                     ELSE DerivedQueueCapacity(input.file.count))
          /\ Read.derived = (input.file.capacity = Unset
                               /\ (input.file.count # Unset \/ cfg.derived))
      BY <1>1, <3>1 DEF ApplyFile, Typed, Fields
    <3>4. Derived(Read)
      BY <2>1, <2>3, <3>3 DEF Derived, GivenCapacity, Given
    <3> QED
      BY <3>2, <3>4
  <2> QED
    BY <2>2, <2>3
<1>3. /\ cfg' = ResolveEndpoints(Read) /\ phase' = "override" /\ input' = input
  BY DEF Load
<1>4. Typed(cfg') /\ Checked(cfg') /\ Derived(cfg')
  BY <1>1, <1>2, <1>3, ValidChecked
<1>5. Derived(cfg)'
  BY <1>3, <1>4 DEF Derived, GivenCapacity
<1> QED
  BY <1>1, <1>3, <1>4, <1>5 DEF ConfigInv, Phases

\* The flag changes the count and a derived capacity with it.
LEMMA OverrideKeepsConfig ==
  ASSUME ConfigInv, Override
  PROVE  ConfigInv'
<1> DEFINE c == ApplyCLIOverrides(cfg, input.workers)
<1>1. /\ input \in Inputs /\ Typed(cfg) /\ Derived(cfg) /\ Validated(c)
  BY DEF ConfigInv, Override, Past
<1>2. input.workers \in Int
  BY <1>1, StartupAssumption
<1>3. Typed(c) /\ Derived(c)
  <2>1. CASE input.workers <= 0
    BY <1>1, <2>1 DEF ApplyCLIOverrides
  <2>2. CASE ~(input.workers <= 0)
    <3>1. /\ DOMAIN c = Fields
          /\ c.count = input.workers /\ c.minReady = cfg.minReady
          /\ c.templates = cfg.templates /\ c.workloads = cfg.workloads
          /\ c.derived = cfg.derived
          /\ c.capacity = IF cfg.derived THEN DerivedQueueCapacity(input.workers)
                          ELSE cfg.capacity
      BY <1>1, <2>2 DEF ApplyCLIOverrides, Typed, Fields
    <3> HIDE DEF c
    <3>2. Typed(c)
      BY <1>1, <1>2, <3>1 DEF Typed
    <3>3. Derived(c)
      BY <1>1, <3>1 DEF Derived
    <3> QED
      BY <3>2, <3>3
  <2> QED
    BY <2>1, <2>2
<1>4. /\ cfg' = ResolveEndpoints(c) /\ phase' = "new" /\ input' = input
  BY DEF Override
<1> HIDE DEF c
<1>5. Typed(cfg') /\ Checked(cfg') /\ Derived(cfg')
  BY <1>1, <1>3, <1>4, ValidChecked
<1>6. Derived(cfg)'
  BY <1>4, <1>5 DEF Derived, GivenCapacity
<1> QED
  BY <1>1, <1>4, <1>5, <1>6 DEF ConfigInv, Phases

LEMMA ConfigStep == ConfigInv /\ [Next]_vars => ConfigInv'
<1> SUFFICES ASSUME ConfigInv, [Next]_vars PROVE ConfigInv'
  OBVIOUS
<1>1. CASE Load
  BY <1>1, LoadKeepsConfig
<1>2. CASE Override
  BY <1>2, OverrideKeepsConfig
<1>3. CASE Refuse
  BY <1>3 DEF Refuse, ConfigInv, Past, Phases
<1>4. CASE ResolveAndDetect \/ Advise \/ Wire \/ (\E s \in specs : Ensure(s))
  <2>1. /\ cfg' = cfg /\ input' = input
        /\ phase \notin {"load", "refused"} /\ phase' \in Phases \ {"load", "refused"}
    BY <1>4 DEF ResolveAndDetect, Advise, Wire, Ensure, Phases, ConfigInv
  <2> QED
    BY <2>1 DEF ConfigInv, Past, Derived, GivenCapacity
<1>5. CASE UNCHANGED vars
  BY <1>5 DEF vars, ConfigInv, Past, Derived, GivenCapacity
<1> QED
  BY <1>1, <1>2, <1>3, <1>4, <1>5 DEF Next

\* The queue's capacity (README.md:100, resolve.go): the file's if it gives one,
\* otherwise eight for each worker there is, whoever set their number.
THEOREM QueueRight == Spec => []QueueFollowsWorkers
<1>1. ConfigInv => QueueFollowsWorkers
  <2> SUFFICES ASSUME ConfigInv, Past({}) PROVE
        cfg.capacity = IF GivenCapacity THEN input.file.capacity ELSE 8 * cfg.count
    BY DEF QueueFollowsWorkers, GivenCapacity
  <2>1. cfg.count \in Int /\ cfg.count >= 1 /\ Derived(cfg)
    BY DEF ConfigInv, Typed, Checked
  <2>2. DerivedQueueCapacity(cfg.count) = 8 * cfg.count
    BY <2>1 DEF DerivedQueueCapacity, AtLeast
  <2> QED
    BY <2>1, <2>2 DEF Derived
<1> QED
  BY <1>1, ConfigInitial, ConfigStep, PTL DEF Spec

-----------------------------------------------------------------------------
(* The pools *)

LEMMA PoolInitial == Init => PoolInv
BY DEF Init, PoolInv, NoEntries

LEMMA PoolStep == ConfigInv /\ PoolInv /\ [Next]_vars => PoolInv'
<1> SUFFICES ASSUME ConfigInv, PoolInv, [Next]_vars PROVE PoolInv'
  OBVIOUS
<1>1. CASE Load \/ Override \/ Refuse
  BY <1>1 DEF Load, Override, Refuse, PoolInv
<1>2. CASE ResolveAndDetect
  <2>1. Typed(cfg) /\ Checked(cfg)
    BY <1>2 DEF ResolveAndDetect, ConfigInv, Past
  <2>2. \A s \in Workloads(cfg) : Ordered(s)
    BY <2>1, WorkloadsOrdered
  <2> QED
    BY <1>2, <2>2 DEF ResolveAndDetect, PoolInv
<1>3. CASE Advise
  BY <1>3 DEF Advise, PoolInv
<1>4. ASSUME NEW s \in specs, Ensure(s) PROVE PoolInv'
  <2>1. Typed(cfg) /\ Checked(cfg) /\ Ordered(s)
    BY <1>4 DEF Ensure, ConfigInv, PoolInv, Past
  <2>2. Fits(Pool(s))
    BY <2>1, PoolFits
  <2>3. \A n \in DOMAIN pools' : Fits(pools'[n])
    BY <1>4, <2>2 DEF Ensure, PoolInv
  <2> QED
    BY <1>4, <2>3 DEF Ensure, PoolInv
<1>5. CASE Wire
  BY <1>5 DEF Wire, PoolInv
<1>6. CASE UNCHANGED vars
  BY <1>6 DEF vars, PoolInv
<1> QED
  BY <1>1, <1>2, <1>3, <1>4, <1>5, <1>6 DEF Next

\* Each pool Manager.Ensure makes starts inside its bounds, and its Start waits
\* for no more workers than it boots, whatever the templates and overrides.
THEOREM PoolsRight == Spec => []PoolsInEnvelope
<1>1. PoolInv => PoolsInEnvelope
  BY DEF PoolInv, Fits, PoolsInEnvelope
<1> QED
  BY <1>1, ConfigInitial, ConfigStep, PoolInitial, PoolStep, PTL DEF Spec

-----------------------------------------------------------------------------
(* The types, and what the pools are made from                             *)

\* Without a workloads section the one workload is the legacy one; each pool is
\* the one Ensure makes for a workload of its name.
LegacyOnly(c) == ~c.explicit => DOMAIN c.workloads = {}
Origin ==
    /\ cfg.capacity \in Int /\ cfg.derived \in BOOLEAN
    /\ LegacyOnly(cfg)
    /\ phase \in {"advise", "ensure", "built"} => specs = Workloads(cfg)
    /\ \A n \in DOMAIN pools : \E s \in specs : s.name = n /\ pools[n] = Pool(s)
    /\ phase = "built" => DOMAIN pools = {s.name : s \in specs}

LEMMA ResolvingLegacy ==
  ASSUME NEW c, Typed(c), LegacyOnly(c)
  PROVE  LegacyOnly(ResolveEndpoints(c))
BY EndpointsOnly DEF LegacyOnly, Fields

LEMMA OverridingLegacy ==
  ASSUME NEW c, Typed(c), LegacyOnly(c), NEW n \in Int
  PROVE  LegacyOnly(ApplyCLIOverrides(c, n))
BY DEF LegacyOnly, ApplyCLIOverrides, Typed, Fields

LEMMA FileLegacy ==
  ASSUME NEW c, Typed(c), DOMAIN c.workloads = {}, NEW f
  PROVE  LegacyOnly(ApplyFile(c, f))
<1>1. /\ ApplyFile(c, f).explicit = (f.workloads # Unset)
      /\ ApplyFile(c, f).workloads = Given(f.workloads, c.workloads)
  BY DEF ApplyFile, Typed, Fields
<1> QED
  BY <1>1 DEF LegacyOnly, Given

LEMMA DefaultLegacy ==
  ASSUME NEW n \in Nat \ {0}
  PROVE  LegacyOnly(Default(n)) /\ DOMAIN Default(n).workloads = {}
BY DEF Default, LegacyOnly, NoEntries

LEMMA DerivedInt == ASSUME NEW n \in Int PROVE DerivedQueueCapacity(n) \in Int
BY DEF DerivedQueueCapacity, AtLeast

\* Past Load the capacity is an integer because the file's is, or the count.
LEMMA CapacityInt ==
  ASSUME ConfigInv, Past({})
  PROVE  cfg.capacity \in Int /\ cfg.derived \in BOOLEAN
<1>1. Derived(cfg) /\ cfg.count \in Int /\ input \in Inputs
  BY DEF ConfigInv, Typed
<1>2. GivenCapacity => input.file.capacity \in Int
  BY <1>1, StartupAssumption DEF GivenCapacity, Counts
<1> QED
  BY <1>1, <1>2, DerivedInt DEF Derived

LEMMA OriginInitial == Init => Origin
<1> SUFFICES ASSUME Init PROVE Origin
  OBVIOUS
<1>1. input.machine.logical \in Nat \ {0} /\ cfg = Default(input.machine.logical)
  BY StartupAssumption DEF Init
<1>2. cfg.capacity = DerivedQueueCapacity(cfg.count) /\ cfg.derived = TRUE /\ cfg.count \in Int
  BY <1>1, DefaultTyped DEF Typed
<1> QED
  BY <1>1, <1>2, DerivedInt, DefaultLegacy DEF Init, Origin, NoEntries

LEMMA OriginStep ==
  ConfigInv /\ ConfigInv' /\ PoolInv /\ Origin /\ [Next]_vars => Origin'
<1> SUFFICES ASSUME ConfigInv, ConfigInv', PoolInv, Origin, [Next]_vars PROVE Origin'
  OBVIOUS
<1>1. CASE Load
  <2>1. /\ cfg = Default(input.machine.logical) /\ input \in Inputs /\ Typed(cfg)
        /\ cfg' = ResolveEndpoints(Read)
        /\ phase' = "override" /\ pools' = pools /\ DOMAIN pools = {}
    BY <1>1 DEF ConfigInv, Load, PoolInv
  <2>2. DOMAIN cfg.workloads = {} /\ LegacyOnly(cfg)
    BY <2>1, StartupAssumption, DefaultLegacy
  <2>3. Typed(Read) /\ LegacyOnly(Read)
    <3>1. CASE input.file = NoFile
      BY <2>1, <2>2, <3>1 DEF Read
    <3>2. CASE input.file # NoFile
      BY <2>1, <2>2, <3>2, StartupAssumption, FileTyped, FileLegacy DEF Read, Counts
    <3> QED
      BY <3>1, <3>2
  <2>4. LegacyOnly(cfg')
    BY <2>1, <2>3, ResolvingLegacy
  <2>5. Past({})'
    BY <2>1 DEF Past
  <2>6. cfg'.capacity \in Int /\ cfg'.derived \in BOOLEAN
    <3>1. Derived(cfg)' /\ cfg'.count \in Int /\ input' \in Inputs
      BY <2>5 DEF ConfigInv, Typed
    <3>2. GivenCapacity' => input'.file.capacity \in Int
      BY <3>1, StartupAssumption DEF GivenCapacity, Counts
    <3> QED
      BY <3>1, <3>2, DerivedInt DEF Derived
  <2> QED
    BY <2>1, <2>4, <2>6 DEF Origin, LegacyOnly
<1>2. CASE Override
  <2> DEFINE c == ApplyCLIOverrides(cfg, input.workers)
  <2>1. /\ input \in Inputs /\ Typed(cfg) /\ cfg' = ResolveEndpoints(c)
        /\ phase' = "new" /\ pools' = pools /\ DOMAIN pools = {}
        /\ cfg.capacity \in Int /\ cfg.derived \in BOOLEAN /\ LegacyOnly(cfg)
    BY <1>2 DEF ConfigInv, Override, PoolInv, Origin
  <2>2. input.workers \in Int
    BY <2>1, StartupAssumption
  <2>3. Typed(c) /\ LegacyOnly(c) /\ c.capacity \in Int /\ c.derived \in BOOLEAN
    <3>1. LegacyOnly(c)
      BY <2>1, <2>2, OverridingLegacy
    <3>2. CASE input.workers <= 0
      BY <2>1, <3>1, <3>2 DEF ApplyCLIOverrides
    <3>3. CASE ~(input.workers <= 0)
      <4>1. /\ DOMAIN c = Fields
            /\ c.count = input.workers /\ c.minReady = cfg.minReady
            /\ c.templates = cfg.templates /\ c.workloads = cfg.workloads
            /\ c.derived = cfg.derived
            /\ c.capacity = IF cfg.derived THEN DerivedQueueCapacity(input.workers)
                            ELSE cfg.capacity
        BY <2>1, <3>3 DEF ApplyCLIOverrides, Typed, Fields
      <4> HIDE DEF c
      <4>2. DerivedQueueCapacity(input.workers) \in Int
        BY <2>2, DerivedInt
      <4> QED
        BY <2>1, <2>2, <3>1, <4>1, <4>2 DEF Typed
    <3> QED
      BY <3>2, <3>3
  <2> HIDE DEF c
  <2>4. LegacyOnly(cfg') /\ cfg'.capacity = c.capacity /\ cfg'.derived = c.derived
    BY <2>1, <2>3, ResolvingLegacy, EndpointsOnly DEF Fields
  <2> QED
    BY <2>1, <2>3, <2>4 DEF Origin, LegacyOnly
<1>3. CASE Refuse
  BY <1>3 DEF Refuse, Origin, LegacyOnly, Pool
<1>4. CASE ResolveAndDetect
  BY <1>4 DEF ResolveAndDetect, Origin, LegacyOnly, PoolInv
<1>5. CASE Advise
  BY <1>5 DEF Advise, Origin, LegacyOnly, Pool
<1>6. ASSUME NEW s \in specs, Ensure(s) PROVE Origin'
  <2>1. /\ UNCHANGED <<cfg, specs, phase>> /\ phase = "ensure"
        /\ pools' = [n \in DOMAIN pools \cup {s.name} |->
                        IF n = s.name THEN Pool(s) ELSE pools[n]]
    BY <1>6 DEF Ensure
  <2>2. ASSUME NEW n \in DOMAIN pools' PROVE \E t \in specs : t.name = n /\ pools'[n] = Pool(t)
    BY <2>1, <2>2 DEF Origin
  <2>3. \A t \in specs : Pool(t)' = Pool(t)
    BY <2>1 DEF Pool
  <2> QED
    BY <2>1, <2>2, <2>3 DEF Origin, LegacyOnly
<1>7. CASE Wire
  <2>1. /\ UNCHANGED <<cfg, specs, pools>> /\ phase = "ensure"
        /\ DOMAIN pools = {s.name : s \in specs}
    BY <1>7 DEF Wire
  <2>2. \A t \in specs : Pool(t)' = Pool(t)
    BY <2>1 DEF Pool
  <2>3. \A n \in DOMAIN pools' : \E t \in specs' : t.name = n /\ pools'[n] = Pool(t)'
    BY <2>1, <2>2 DEF Origin
  <2>4. specs' = Workloads(cfg')
    BY <2>1 DEF Origin
  <2> QED
    BY <2>1, <2>3, <2>4 DEF Origin, LegacyOnly
<1>8. CASE UNCHANGED vars
  BY <1>8 DEF vars, Origin, LegacyOnly, Pool
<1> QED
  BY <1>1, <1>2, <1>3, <1>4, <1>5, <1>6, <1>7, <1>8 DEF Next

\* The phases and the configuration keep their types, there is a workload to
\* serve once they are resolved, and each pool is a workload's.
THEOREM StartupTyping == Spec => []TypeOK
<1> DEFINE Some == specs # {} \/ phase \in {"load", "override", "new", "refused"}
<1>1. Init => Some
  BY DEF Init
<1>2. ConfigInv /\ Some /\ [Next]_vars => Some'
  <2> SUFFICES ASSUME ConfigInv, Some, [Next]_vars PROVE Some'
    OBVIOUS
  <2>1. CASE ResolveAndDetect
    <3>1. WorkloadsResolve(cfg) /\ specs' = Workloads(cfg)
      BY <2>1 DEF ResolveAndDetect, ConfigInv, Past, Checked
    <3>2. Workloads(cfg) # {}
      BY <3>1 DEF Workloads, WorkloadsResolve
    <3> QED
      BY <3>1, <3>2
  <2> QED
    BY <2>1 DEF Next, Load, Override, Refuse, Advise, Ensure, Wire, vars
<1>3. ConfigInv /\ Origin /\ Some => TypeOK
  BY DEF ConfigInv, Typed, Origin, TypeOK
<1> HIDE DEF Some
<1> QED
  BY <1>1, <1>2, <1>3, ConfigInitial, ConfigStep, PoolInitial, PoolStep,
     OriginInitial, OriginStep, PTL DEF Spec

\* Without a workloads section the readiness handler asks for no more workers
\* than the http pool may have, whatever the file and --workers say
\* (metrics.go's ReadyHandler compares with workers.min_ready itself).
THEOREM ReadinessRight == Spec => []ReadinessReachable
<1>1. ConfigInv /\ Origin => ReadinessReachable
  <2> SUFFICES ASSUME ConfigInv, Origin, phase = "built", ~cfg.explicit
               PROVE  /\ DOMAIN pools = {"http"}
                      /\ cfg.minReady <= pools["http"].max
                      /\ pools["http"].desired = cfg.count
    BY DEF ReadinessReachable
  <2>1. specs = {LegacyHTTP(cfg)}
    BY DEF Origin, LegacyOnly, Workloads
  <2>2. LegacyHTTP(cfg).name = "http" /\ LegacyHTTP(cfg).min = cfg.count
        /\ LegacyHTTP(cfg).max = cfg.count
    BY DEF LegacyHTTP
  <2>3. DOMAIN pools = {"http"}
    BY <2>1, <2>2 DEF Origin
  <2>4. pools["http"] = Pool(LegacyHTTP(cfg))
    BY <2>1, <2>3 DEF Origin
  <2>5. pools["http"].max = cfg.count /\ pools["http"].desired = cfg.count
    BY <2>2, <2>4 DEF Pool, FirstDesired
  <2>6. cfg.minReady <= cfg.count
    BY DEF ConfigInv, Past, Checked, Typed
  <2> QED
    BY <2>3, <2>5, <2>6
<1> QED
  BY <1>1, ConfigInitial, ConfigStep, PoolInitial, PoolStep, OriginInitial,
     OriginStep, PTL DEF Spec

-----------------------------------------------------------------------------
(* Where a workload's settings come from                                   *)

Settled == specs = {} \/ specs = Workloads(cfg)

LEMMA SettledStep == PoolInv /\ Settled /\ [Next]_vars => Settled'
<1> SUFFICES ASSUME PoolInv, Settled, [Next]_vars PROVE Settled'
  OBVIOUS
<1>1. CASE Load \/ Override
  BY <1>1 DEF Load, Override, PoolInv, Settled
<1>2. CASE ResolveAndDetect
  BY <1>2 DEF ResolveAndDetect, Settled
<1>3. CASE Refuse \/ Advise \/ Wire \/ (\E s \in specs : Ensure(s)) \/ UNCHANGED vars
  BY <1>3 DEF Refuse, Advise, Wire, Ensure, vars, Settled
<1> QED
  BY <1>1, <1>2, <1>3 DEF Next

\* The first of three choices, the last of which is given.
LEMMA FirstOfThree ==
  ASSUME NEW a, NEW b, NEW c, c # Unset
  PROVE  FirstGiven(<<a, b, c>>) = Given(a, Given(b, c))
<1> DEFINE choices == <<a, b, c>>
           first(i) == choices[i] # Unset /\ \A j \in 1..i - 1 : choices[j] = Unset
           i0 == IF a # Unset THEN 1 ELSE IF b # Unset THEN 2 ELSE 3
<1>1. DOMAIN choices = 1..3 /\ choices[1] = a /\ choices[2] = b /\ choices[3] = c
  OBVIOUS
<1>2. i0 \in DOMAIN choices /\ first(i0)
  BY <1>1
<1>3. \A i \in DOMAIN choices : first(i) => i = i0
  BY <1>1
<1>4. (CHOOSE i \in DOMAIN choices : first(i)) = i0
  BY <1>2, <1>3
<1>5. choices[i0] = Given(a, Given(b, c))
  BY <1>1 DEF Given
<1> QED
  BY <1>4, <1>5 DEF FirstGiven

\* A setting a workload gives is its own; one it leaves out is its template's; one
\* that leaves out too is the default, whatever else either of them gives.
THEOREM PrecedenceRight == Spec => []Precedence
<1>1. Origin /\ Settled => Precedence
  <2> SUFFICES ASSUME Origin, Settled, NEW s \in specs, s.name \in DOMAIN cfg.workloads
               PROVE  LET w == cfg.workloads[s.name]
                          Own(f) == IF f = "memory" /\ w[f] # Unset /\ ~(w[f] > 0)
                                    THEN Unset ELSE w[f]
                          Template(f) == IF w.template = Unset THEN Unset
                                         ELSE cfg.templates[w.template][f]
                          Otherwise == [min |-> 1, max |-> 1, class |-> "balanced",
                                        memory |-> 0]
                      IN \A f \in DOMAIN Otherwise :
                            s[f] = FirstGiven(<<Own(f), Template(f), Otherwise[f]>>)
    BY DEF Precedence
  <2> DEFINE w == cfg.workloads[s.name]
             own(f) == IF f = "memory" /\ w[f] # Unset /\ ~(w[f] > 0) THEN Unset ELSE w[f]
             tpl(f) == IF w.template = Unset THEN Unset ELSE cfg.templates[w.template][f]
             otherwise == [min |-> 1, max |-> 1, class |-> "balanced", memory |-> 0]
  <2>1. s = Resolve(s.name, w, cfg.templates)
    <3>1. PICK n \in DOMAIN cfg.workloads : s = Resolve(n, cfg.workloads[n], cfg.templates)
      BY DEF Origin, LegacyOnly, Settled, Workloads
    <3>2. s.name = n
      BY <3>1 DEF Resolve
    <3> QED
      BY <3>1, <3>2
  <2>2. LET b == Base(w, cfg.templates)
        IN  /\ s.min = Given(w.min, b.min) /\ s.max = Given(w.max, b.max)
            /\ s.class = Given(w.class, b.class)
            /\ s.memory = IF w.memory # Unset /\ w.memory > 0 THEN w.memory ELSE b.memory
    BY <2>1 DEF Resolve
  <2>3. LET b == Base(w, cfg.templates)
        IN  /\ b.min = Given(tpl("min"), 1) /\ b.max = Given(tpl("max"), 1)
            /\ b.class = Given(tpl("class"), "balanced")
            /\ b.memory = Given(tpl("memory"), 0)
    <3>1. CASE w.template = Unset
      BY <3>1 DEF Base, Bare, Given
    <3>2. CASE w.template # Unset
      BY <3>2 DEF Base, ConvertTemplate
    <3> QED
      BY <3>1, <3>2
  <2>4. \A f \in {"min", "max", "class"} : own(f) = w[f]
    OBVIOUS
  <2>5. s.memory = Given(own("memory"), Base(w, cfg.templates).memory)
    BY <2>2 DEF Given
  <2>6. 0 # Unset /\ 1 # Unset /\ "balanced" # Unset
    BY UnsetAssumption DEF Classes
  <2>7. /\ s.min = FirstGiven(<<own("min"), tpl("min"), 1>>)
        /\ s.max = FirstGiven(<<own("max"), tpl("max"), 1>>)
        /\ s.class = FirstGiven(<<own("class"), tpl("class"), "balanced">>)
        /\ s.memory = FirstGiven(<<own("memory"), tpl("memory"), 0>>)
    <3> HIDE DEF own, tpl, w
    <3> QED
      BY <2>2, <2>3, <2>4, <2>5, <2>6, FirstOfThree
  <2> QED
    BY <2>7
<1>2. Init => Settled
  BY DEF Init, Settled
<1> QED
  BY <1>1, <1>2, SettledStep, ConfigInitial, ConfigStep, PoolInitial, PoolStep,
     OriginInitial, OriginStep, PTL DEF Spec

-----------------------------------------------------------------------------
(* The endpoints                                                           *)

\* The segments of a file's paths and of the default ones.
Segment == STRING \cup {"_eregion"} \cup Endpoints
Name == {s \in Segment : IsName(s)}
PathsTyped(c) ==
    c.prefix \in Seq(Segment) /\ \A e \in Endpoints : c.path[e] \in Seq(Segment)

\* What one validation leaves of the endpoints, and what two do.
Cleaned(c) == ~Collision(c) /\ \A e \in Endpoints : c.path[e] \in Seq(Name)
Apart(c) ==
    /\ ~Collision(c)
    /\ Clean(c.prefix) = c.prefix =>
          /\ \A e \in Endpoints : IsPrefix(c.prefix, c.path[e])
          /\ ResolveEndpoints(c) = c

PathInv ==
    /\ PathsTyped(cfg)
    /\ Past({}) => Cleaned(cfg)
    /\ Past({"override"}) => Apart(cfg)

\* A finite set of positions has an n-th: to count those up to each of them maps
\* it one to one into 1..Cardinality, hence onto it.
LEMMA NthIsThere ==
  ASSUME NEW K \in SUBSET Nat, IsFiniteSet(K), NEW n \in 1..Cardinality(K)
  PROVE  Nth(K, n) \in K /\ Cardinality(Upto(K, Nth(K, n))) = n
<1> DEFINE rank == [i \in K |-> Cardinality(Upto(K, i))]
           c == Cardinality(K)
<1>1. c \in Nat /\ IsFiniteSet(1..c) /\ Cardinality(1..c) = c /\ Cardinality(K) = c
  BY FS_CardinalityType, FS_Interval
<1>2. \A i \in K : /\ IsFiniteSet(Upto(K, i)) /\ Upto(K, i) # {}
                   /\ Cardinality(Upto(K, i)) \in Nat /\ Cardinality(Upto(K, i)) <= c
  <2> TAKE i \in K
  <2>1. Upto(K, i) \in SUBSET K /\ i \in Upto(K, i)
    BY DEF Upto
  <2> QED
    BY <2>1, FS_Subset, FS_CardinalityType
<1>3. ASSUME NEW i \in K, NEW j \in K, i < j
      PROVE  Upto(K, i) \in SUBSET Upto(K, j) /\ Upto(K, i) # Upto(K, j)
  <2>1. \A k \in K : k \in Nat
    OBVIOUS
  <2>2. j \in Upto(K, j) /\ j \notin Upto(K, i)
    BY <1>3, <2>1 DEF Upto
  <2>3. \A k \in K : k <= i => k <= j
    BY <1>3, <2>1
  <2> QED
    BY <2>2, <2>3 DEF Upto
<1> HIDE DEF c
<1>4. \A i \in K : rank[i] = Cardinality(Upto(K, i)) /\ rank[i] \in 1..c
  <2> TAKE i \in K
  <2>1. Cardinality(Upto(K, i)) # 0
    BY <1>2, FS_EmptySet
  <2> QED
    BY <1>1, <1>2, <2>1
<1>5. \A i, j \in K : rank[i] = rank[j] => i = j
  <2> TAKE i, j \in K
  <2>1. i < j \/ j < i \/ i = j
    <3>1. i \in Nat /\ j \in Nat
      OBVIOUS
    <3> QED
      BY <3>1
  <2>2. ASSUME NEW k \in K, NEW l \in K, k < l PROVE rank[k] # rank[l]
    BY <1>2, <1>3, <1>4, <2>2, FS_Subset
  <2> QED
    BY <2>1, <2>2
<1>6. rank \in [K -> 1..c]
  BY <1>4
<1> HIDE DEF rank
<1>7. rank \in Injection(K, 1..c)
  BY <1>5, <1>6 DEF Injection, IsInjective
<1>8. rank \in Surjection(K, 1..c)
  <2> DEFINE ranks == 1..c
  <2>1. IsFiniteSet(ranks) /\ Cardinality(ranks) = Cardinality(K) /\ rank \in Injection(K, ranks)
    BY <1>1, <1>7
  <2> HIDE DEF ranks
  <2>2. rank \in Surjection(K, ranks)
    BY <2>1, FS_Injection
  <2> QED
    BY <2>2 DEF ranks
<1>9. \E i \in K : rank[i] = n
  BY <1>8 DEF Surjection, c
<1>10. \E i \in K : Cardinality(Upto(K, i)) = n
  BY <1>9 DEF rank
<1> QED
  BY <1>10 DEF Nth

LEMMA KeptFinite ==
  ASSUME NEW p \in Seq(Segment)
  PROVE  /\ Kept(p) \in SUBSET Nat /\ Kept(p) \subseteq 1..Len(p)
         /\ IsFiniteSet(Kept(p)) /\ Cardinality(Kept(p)) \in Nat
<1>1. DOMAIN p = 1..Len(p) /\ Len(p) \in Nat
  OBVIOUS
<1>2. Kept(p) \in SUBSET (1..Len(p))
  BY <1>1 DEF Kept
<1>3. IsFiniteSet(Kept(p))
  <2>1. IsFiniteSet(1..Len(p))
    BY <1>1, FS_Interval
  <2> QED
    BY <1>2, <2>1, FS_Subset
<1> QED
  BY <1>1, <1>2, <1>3, FS_CardinalityType

\* What path.Clean leaves are names, whatever it is given.
LEMMA CleanIsNames == ASSUME NEW p \in Seq(Segment) PROVE Clean(p) \in Seq(Name)
<1> DEFINE K == Kept(p)
<1>1. \A n \in 1..Cardinality(K) : p[Nth(K, n)] \in Name
  <2> TAKE n \in 1..Cardinality(K)
  <2>1. Nth(K, n) \in Kept(p)
    BY KeptFinite, NthIsThere
  <2>2. IsName(p[Nth(K, n)]) /\ p[Nth(K, n)] \in Segment
    BY <2>1, KeptFinite DEF Kept
  <2> QED
    BY <2>2 DEF Name
<1>2. Cardinality(K) \in Nat
  BY KeptFinite
<1> HIDE DEF K
<1>3. [n \in 1..Cardinality(K) |-> p[Nth(K, n)]] \in Seq(Name)
  BY <1>1, <1>2
<1> QED
  BY <1>3 DEF Clean, K

\* It leaves names alone.
LEMMA CleanOfNames == ASSUME NEW p \in Seq(Name) PROVE Clean(p) = p
<1>0. p \in Seq(Segment) /\ Len(p) \in Nat /\ DOMAIN p = 1..Len(p)
  <2>1. Name \subseteq Segment
    BY DEF Name
  <2> QED
    BY <2>1, SeqMonotonic
<1>1. Kept(p) = 1..Len(p)
  <2>1. ASSUME NEW i \in 1..Len(p), NEW j \in i..Len(p)
        PROVE  Cardinality({k \in i..j : p[k] = ".."}) < Cardinality({k \in i..j : IsName(p[k])})
    <3>1. \A k \in i..j : p[k] \in Name
      BY <1>0, <2>1
    <3>2. {k \in i..j : p[k] = ".."} = {} /\ {k \in i..j : IsName(p[k])} = i..j
      BY <3>1 DEF Name, IsName
    <3>3. Cardinality(i..j) = j - i + 1 /\ j - i + 1 > 0
      BY <1>0, <2>1, FS_Interval
    <3> QED
      BY <3>2, <3>3, FS_EmptySet
  <2>2. \A i \in 1..Len(p) : IsName(p[i])
    BY DEF Name
  <2> QED
    BY <1>0, <2>1, <2>2 DEF Kept
<1>2. Cardinality(1..Len(p)) = Len(p)
  BY <1>0, FS_Interval
<1>3. ASSUME NEW n \in 1..Len(p) PROVE Nth(1..Len(p), n) = n
  <2> DEFINE K == 1..Len(p)
             m == Nth(K, n)
  <2>0. K \in SUBSET Nat /\ IsFiniteSet(K) /\ n \in 1..Cardinality(K)
    <3>1. 1 \in Int /\ Len(p) \in Int
      BY <1>0
    <3>2. IsFiniteSet(1..Len(p))
      BY <3>1, FS_Interval
    <3> QED
      BY <1>2, <3>2
  <2> HIDE DEF K
  <2>1. m \in K /\ Cardinality(Upto(K, m)) = n
    BY <2>0, NthIsThere
  <2> HIDE DEF m
  <2>2. Upto(K, m) = 1..m
    BY <1>0, <2>1 DEF Upto, K
  <2>3. Cardinality(1..m) = m
    BY <1>0, <2>1, FS_Interval DEF K
  <2> QED
    BY <2>1, <2>2, <2>3 DEF m, K
<1>4. Clean(p) = [n \in 1..Len(p) |-> p[n]]
  BY <1>1, <1>2, <1>3 DEF Clean
<1> QED
  BY <1>0, <1>4

\* A resolved path is made of names.
LEMMA PathResolved ==
  ASSUME NEW p \in Seq(Segment), NEW q \in Seq(Segment)
  PROVE  ResolveOperationPath(p, q) \in Seq(Name)
<1>1. p \o q \in Seq(Segment)
  OBVIOUS
<1> QED
  BY <1>1, CleanIsNames DEF ResolveOperationPath

\* Made of names, it has a prefix that is, and is left alone when it is resolved
\* again.
LEMMA PathSettles ==
  ASSUME NEW p \in Seq(Name), NEW q \in Seq(Name)
  PROVE  /\ IsPrefix(p, ResolveOperationPath(p, q))
         /\ ResolveOperationPath(p, ResolveOperationPath(p, q)) = ResolveOperationPath(p, q)
<1> DEFINE r == ResolveOperationPath(p, q)
<1>1. r \in Seq(Name) /\ IsPrefix(p, r)
  <2>1. CASE IsPrefix(p, q)
    BY <2>1, CleanOfNames DEF ResolveOperationPath
  <2>2. CASE ~IsPrefix(p, q)
    <3> DEFINE j == p \o q
    <3>1. j \in Seq(Name) /\ Len(j) = Len(p) + Len(q) /\ Len(p) \in Nat /\ Len(q) \in Nat
      OBVIOUS
    <3>2. \A i \in 1..Len(p) : j[i] = p[i]
      OBVIOUS
    <3>3. r = Clean(j)
      BY <2>2 DEF ResolveOperationPath
    <3> HIDE DEF j, r
    <3>4. SubSeq(p, 1, Len(p)) = SubSeq(j, 1, Len(p))
      BY <3>1, <3>2
    <3>5. IsPrefix(p, j)
      BY <3>1, <3>4 DEF IsPrefix
    <3> QED
      BY <3>1, <3>3, <3>5, CleanOfNames
  <2> QED
    BY <2>1, <2>2
<1> HIDE DEF r
<1>2. ResolveOperationPath(p, r) = r
  BY <1>1, CleanOfNames DEF ResolveOperationPath
<1> QED
  BY <1>1, <1>2 DEF r

LEMMA ResolvingCleans ==
  ASSUME NEW c, Typed(c), PathsTyped(c)
  PROVE  /\ PathsTyped(ResolveEndpoints(c))
         /\ Validated(c) => Cleaned(ResolveEndpoints(c))
<1> DEFINE r == ResolveEndpoints(c)
<1>1. /\ r.prefix = c.prefix
      /\ r.path = [e \in Endpoints |-> ResolveOperationPath(c.prefix, c.path[e])]
  BY DEF ResolveEndpoints, Typed, Fields
<1>2. Validated(c) => ~Collision(r)
  BY DEF Validated, Valid
<1> HIDE DEF r
<1>3. \A e \in Endpoints : r.path[e] \in Seq(Name)
  BY <1>1, PathResolved DEF PathsTyped
<1>4. \A e \in Endpoints : r.path[e] \in Seq(Segment)
  <2>1. Name \subseteq Segment
    BY DEF Name
  <2> QED
    BY <1>3, <2>1, SeqMonotonic
<1> QED
  BY <1>1, <1>2, <1>3, <1>4 DEF PathsTyped, Cleaned, r

LEMMA ResolvingSettles ==
  ASSUME NEW c, Typed(c), PathsTyped(c), Cleaned(c), Validated(c)
  PROVE  Apart(ResolveEndpoints(c))
<1> DEFINE r == ResolveEndpoints(c)
<1>1. /\ r.prefix = c.prefix /\ DOMAIN r = Fields
      /\ r.path = [e \in Endpoints |-> ResolveOperationPath(c.prefix, c.path[e])]
  BY DEF ResolveEndpoints, Typed, Fields
<1>2. ~Collision(r)
  BY DEF Validated, Valid
<1>3. r = [f \in DOMAIN c |-> IF f = "path" THEN r.path ELSE c[f]]
  BY <1>1 DEF ResolveEndpoints, Typed, Fields
<1>4. ASSUME Clean(r.prefix) = r.prefix
      PROVE  /\ \A e \in Endpoints : IsPrefix(r.prefix, r.path[e])
             /\ ResolveEndpoints(r) = r
  <2> HIDE DEF r
  <2>1. r.prefix \in Seq(Name)
    BY <1>1, <1>4, CleanIsNames DEF PathsTyped
  <2>2. \A e \in Endpoints : /\ IsPrefix(r.prefix, r.path[e])
                             /\ ResolveOperationPath(r.prefix, r.path[e]) = r.path[e]
    BY <1>1, <2>1, PathSettles DEF Cleaned
  <2>3. [e \in Endpoints |-> ResolveOperationPath(r.prefix, r.path[e])] = r.path
    BY <1>1, <2>2
  <2>4. ResolveEndpoints(r) = [r EXCEPT !.path = r.path]
    BY <2>3 DEF ResolveEndpoints
  <2>5. [r EXCEPT !.path = r.path] = r
    BY <1>3
  <2> QED
    BY <2>2, <2>4, <2>5
<1> HIDE DEF r
<1> QED
  BY <1>2, <1>4 DEF Apart, r

LEMMA FilePaths == ASSUME NEW p, IsPath(p) PROVE p = Unset \/ p \in Seq(Segment)
<1>1. STRING \subseteq Segment
  BY DEF Segment
<1> QED
  BY <1>1, SeqMonotonic DEF IsPath

LEMMA DefaultPaths == ASSUME NEW n PROVE PathsTyped(Default(n))
<1>1. /\ Default(n).prefix = <<"_eregion">>
      /\ Default(n).path = [e \in Endpoints |-> <<"_eregion", e>>]
  BY DEF Default
<1>2. "_eregion" \in Segment /\ \A e \in Endpoints : e \in Segment
  BY DEF Segment
<1>3. <<"_eregion">> \in Seq(Segment) /\ \A e \in Endpoints : <<"_eregion", e>> \in Seq(Segment)
  BY <1>2
<1> QED
  BY <1>1, <1>3 DEF PathsTyped

LEMMA PathInitial == Init => PathInv
BY DefaultPaths DEF Init, PathInv, Past

LEMMA PathStep == ConfigInv /\ PathInv /\ [Next]_vars => PathInv'
<1> SUFFICES ASSUME ConfigInv, PathInv, [Next]_vars PROVE PathInv'
  OBVIOUS
<1>1. CASE Load
  <2>1. /\ cfg = Default(input.machine.logical) /\ input \in Inputs
        /\ Typed(cfg) /\ PathsTyped(cfg) /\ Validated(Read)
        /\ cfg' = ResolveEndpoints(Read)
    BY <1>1 DEF ConfigInv, PathInv, Load
  <2>2. Typed(Read) /\ PathsTyped(Read)
    <3>1. CASE input.file = NoFile
      BY <2>1, <3>1 DEF Read
    <3>2. CASE input.file # NoFile
      <4> DEFINE f == input.file
      <4>1. /\ Counts(f, {"count", "minReady"}) /\ CountsOf(f.templates) /\ CountsOf(f.workloads)
            /\ IsPath(f.prefix) /\ \A e \in Endpoints : IsPath(f.path[e])
        BY <2>1, <3>2, StartupAssumption DEF Counts
      <4>2. Typed(ApplyFile(cfg, f))
        BY <2>1, <4>1, FileTyped
      <4>3. /\ ApplyFile(cfg, f).prefix = Given(f.prefix, cfg.prefix)
            /\ ApplyFile(cfg, f).path = [e \in Endpoints |-> Given(f.path[e], cfg.path[e])]
        BY <2>1 DEF ApplyFile, Typed, Fields
      <4>4. PathsTyped(ApplyFile(cfg, f))
        BY <2>1, <4>1, <4>3, FilePaths DEF PathsTyped, Given
      <4> QED
        BY <3>2, <4>2, <4>4 DEF Read
    <3> QED
      BY <3>1, <3>2
  <2> QED
    <3>1. phase' = "override"
      BY <1>1 DEF Load
    <3> QED
      BY <2>1, <2>2, <3>1, ResolvingCleans DEF PathInv, Past
<1>2. CASE Override
  <2> DEFINE c == ApplyCLIOverrides(cfg, input.workers)
  <2>1. /\ input \in Inputs /\ Typed(cfg) /\ PathsTyped(cfg) /\ Cleaned(cfg)
        /\ Validated(c) /\ cfg' = ResolveEndpoints(c)
    BY <1>2 DEF ConfigInv, PathInv, Override, Past
  <2>2. Typed(c) /\ PathsTyped(c) /\ Cleaned(c)
    <3>1. CASE input.workers <= 0
      BY <2>1, <3>1 DEF ApplyCLIOverrides
    <3>2. CASE ~(input.workers <= 0)
      <4>1. /\ DOMAIN c = Fields
            /\ c.count = input.workers /\ c.minReady = cfg.minReady
            /\ c.templates = cfg.templates /\ c.workloads = cfg.workloads
            /\ c.prefix = cfg.prefix /\ c.path = cfg.path /\ c.on = cfg.on
        BY <2>1, <3>2 DEF ApplyCLIOverrides, Typed, Fields
      <4>2. input.workers \in Int
        BY <2>1, StartupAssumption
      <4> HIDE DEF c
      <4> QED
        BY <2>1, <4>1, <4>2 DEF Typed, PathsTyped, Cleaned, Collision
    <3> QED
      BY <3>1, <3>2
  <2> HIDE DEF c
  <2> QED
    BY <2>1, <2>2, ResolvingCleans, ResolvingSettles DEF PathInv
<1>3. CASE Refuse
  BY <1>3 DEF Refuse, PathInv, Past, PathsTyped
<1>4. CASE ResolveAndDetect \/ Advise \/ Wire \/ (\E s \in specs : Ensure(s))
  <2>1. cfg' = cfg /\ phase \notin {"load", "override", "refused"}
    BY <1>4 DEF ResolveAndDetect, Advise, Wire, Ensure
  <2> QED
    BY <2>1 DEF PathInv, Past
<1>5. CASE UNCHANGED vars
  BY <1>5 DEF vars, PathInv, Past
<1> QED
  BY <1>1, <1>2, <1>3, <1>4, <1>5 DEF Next

\* No two enabled endpoints have one path; below a prefix path.Clean leaves alone
\* they all lie, and the rounds of resolving, at the file and at the flags, have
\* settled, whatever the paths were (ResolveEndpoints and Validate in
\* internal/config).
THEOREM EndpointsRight == Spec => []EndpointsApart
<1>1. PathInv => EndpointsApart
  BY DEF PathInv, Past, Apart, Collision, EndpointsApart
<1> QED
  BY <1>1, ConfigInitial, ConfigStep, PathInitial, PathStep, PTL DEF Spec

-----------------------------------------------------------------------------
(* The machine and the advice                                              *)

MachineTyped(m) ==
    /\ m.quota \in Readings /\ m.cpuset \in Readings /\ m.memory \in Readings
    /\ m.gomaxprocs \in Nat \ {0}

\* What was found is what Detect finds, and the advice is one about it.
MachineInv ==
    /\ input \in Inputs
    /\ found # Unset => found = Detect(input.machine)
    /\ phase \in {"advise", "ensure", "built"} => found = Detect(input.machine)
    /\ phase \notin {"ensure", "built"} => advice = Unset
    /\ advice # Unset => \E n : advice = Analyze(found.cpus, n)

OwnOrRoot(files) == {files[v].own : v \in 1..2} \cup {files[v].root : v \in 1..2}

\* A reading is taken as it stands, or is no reading.
LEMMA LimitRead ==
  ASSUME NEW m, MachineTyped(m)
  PROVE  /\ ProcessQuota(m) \in {-1} \cup {l \in OwnOrRoot(m.quota) : l > 0}
         /\ ProcessLimit(m.cpuset, m.self, "cpuset") \in OwnOrRoot(m.cpuset)
<1>1. \A v \in 1..2 : /\ m.quota[v].own \in Int /\ m.quota[v].root \in Int
                      /\ m.cpuset[v].own \in Int /\ m.cpuset[v].root \in Int
  BY DEF MachineTyped, Readings
<1>2. \A v \in 1..2 : /\ Quotas(m)[v].own = Positive(m.quota[v].own)
                      /\ Quotas(m)[v].root = Positive(m.quota[v].root)
  BY DEF Quotas
<1>3. \E v \in 1..2 : ProcessQuota(m) \in {Quotas(m)[v].own, Quotas(m)[v].root}
  BY DEF ProcessQuota, OwnThenRoot, EitherRoot, Version
<1>4. \E v \in 1..2 : ProcessLimit(m.cpuset, m.self, "cpuset")
                         \in {m.cpuset[v].own, m.cpuset[v].root}
  <2>1. Version(m.self) \in {0, 1, 2}
    BY DEF Version
  <2> QED
    BY <2>1 DEF ProcessLimit, OwnThenRoot, EitherRoot
<1> QED
  BY <1>1, <1>2, <1>3, <1>4 DEF OwnOrRoot, Positive, Unknown

\* The CPUs found: the lesser of the two readings that are positive.
LEMMA CPUsFound ==
  ASSUME NEW m, MachineTyped(m)
  PROVE  LET quota == ProcessQuota(m)
             cpuset == ProcessLimit(m.cpuset, m.self, "cpuset")
             d == Detect(m)
         IN /\ quota \in Int /\ cpuset \in Int
            /\ d.cpus \in Int /\ d.cpus > 0
            /\ quota > 0 => d.cpus <= quota /\ d.quotaDetected
            /\ cpuset > 0 => d.cpus <= cpuset /\ d.cpusetDetected
            /\ d.cpus \in {l \in {quota, cpuset} : l > 0} \cup {m.gomaxprocs * CPU}
<1> DEFINE quota == ProcessQuota(m)
           cpuset == ProcessLimit(m.cpuset, m.self, "cpuset")
           d == Detect(m)
<1>1. quota \in Int /\ cpuset \in Int
  <2>1. OwnOrRoot(m.quota) \subseteq Int /\ OwnOrRoot(m.cpuset) \subseteq Int
    BY DEF MachineTyped, Readings, OwnOrRoot
  <2> QED
    BY <2>1, LimitRead
<1>2. /\ d.cpus = IF MinPositive(quota, cpuset) > 0 THEN MinPositive(quota, cpuset)
                  ELSE Fallback(m.gomaxprocs, m.logical)
      /\ d.quotaDetected = (quota # Unknown)
      /\ d.cpusetDetected = (cpuset # Unknown)
  BY DEF Detect
<1>3. m.gomaxprocs \in Nat \ {0} /\ Fallback(m.gomaxprocs, m.logical) = m.gomaxprocs * CPU
  BY DEF MachineTyped, Fallback
<1> HIDE DEF quota, cpuset, d
<1>4. /\ d.cpus \in Int /\ d.cpus > 0
      /\ quota > 0 => d.cpus <= quota
      /\ cpuset > 0 => d.cpus <= cpuset
      /\ d.cpus \in {l \in {quota, cpuset} : l > 0} \cup {m.gomaxprocs * CPU}
  BY <1>1, <1>2, <1>3 DEF MinPositive, CPU
<1>5. /\ quota > 0 => d.quotaDetected
      /\ cpuset > 0 => d.cpusetDetected
  <2>1. (quota > 0 => quota # Unknown) /\ (cpuset > 0 => cpuset # Unknown)
    BY <1>1 DEF Unknown
  <2> QED
    BY <1>2, <2>1, Zenon
<1> QED
  BY <1>1, <1>4, <1>5 DEF quota, cpuset, d

\* A limit of the process's own directory is the one that is read.
LEMMA OwnLimitRead ==
  ASSUME NEW m, MachineTyped(m), NEW v \in 1..2,
         m.self.unified = NoPath \/ \A c \in Controllers : m.self[c] = NoPath
  PROVE  /\ (IF v = 1 THEN m.self["cpu"] ELSE m.self.unified) = "own"
              /\ m.quota[v].own > 0
                 => ProcessQuota(m) = m.quota[v].own
         /\ (IF v = 1 THEN m.self["cpuset"] ELSE m.self.unified) = "own"
              /\ m.cpuset[v].own > 0
                 => ProcessLimit(m.cpuset, m.self, "cpuset") = m.cpuset[v].own
<1> DEFINE self == m.self
<1>1. Quotas(m)[v].own = Positive(m.quota[v].own) /\ m.quota[v].own \in Int
      /\ m.cpuset[v].own \in Int
  BY DEF Quotas, MachineTyped, Readings
<1>2. v = 1 \/ v = 2
  OBVIOUS
<1>3. "cpu" \in Controllers /\ "cpuset" \in Controllers
  BY DEF Controllers
<1>4. ASSUME v = 1, self["cpu"] = "own", m.quota[v].own > 0
      PROVE  ProcessQuota(m) = m.quota[v].own
  <2>1. self.cpu # NoPath /\ self.unified = NoPath
    BY <1>3, <1>4 DEF NoPath
  <2>2. Version(self) = 1
    BY <1>3, <2>1 DEF Version
  <2>3. ProcessQuota(m) = OwnThenRoot(Quotas(m)[1], self.cpu)
    BY <2>1, <2>2 DEF ProcessQuota
  <2> QED
    BY <1>1, <1>4, <2>3 DEF OwnThenRoot, Positive, Unknown
<1>5. ASSUME v = 2, self.unified = "own"
      PROVE  Version(self) = 2
  BY <1>5 DEF Version, NoPath
<1>6. ASSUME v = 2, self.unified = "own", m.quota[v].own > 0
      PROVE  ProcessQuota(m) = m.quota[v].own
  <2>1. ProcessQuota(m) = OwnThenRoot(Quotas(m)[2], self.unified)
    BY <1>5, <1>6 DEF ProcessQuota
  <2> QED
    BY <1>1, <1>6, <2>1 DEF OwnThenRoot, Positive, Unknown
<1>7. ASSUME v = 1, self["cpuset"] = "own", m.cpuset[v].own > 0
      PROVE  ProcessLimit(m.cpuset, self, "cpuset") = m.cpuset[v].own
  <2>1. self["cpuset"] # NoPath /\ self.unified = NoPath
    BY <1>3, <1>7 DEF NoPath
  <2>2. Version(self) = 1
    BY <1>3, <2>1 DEF Version
  <2>3. PathOf(self, "cpuset") = "own"
    BY <1>7, <2>1, <2>2 DEF PathOf
  <2> QED
    BY <1>1, <1>7, <2>2, <2>3 DEF ProcessLimit, OwnThenRoot, Unknown
<1>8. ASSUME v = 2, self.unified = "own", m.cpuset[v].own > 0
      PROVE  ProcessLimit(m.cpuset, self, "cpuset") = m.cpuset[v].own
  <2>1. Version(self) = 2
    BY <1>5, <1>8
  <2>2. PathOf(self, "cpuset") = "own"
    BY <1>8, <2>1 DEF PathOf
  <2> QED
    BY <1>1, <1>8, <2>1, <2>2 DEF ProcessLimit, OwnThenRoot, Unknown
<1> QED
  BY <1>2, <1>4, <1>6, <1>7, <1>8

\* What a controller's file in the process's own directory says is what is read.
LEMMA OwnReading ==
  ASSUME NEW m, NEW v \in 1..2, NEW files \in Readings, NEW c \in Controllers,
         m.self.unified = NoPath \/ \A d \in Controllers : m.self[d] = NoPath,
         (IF v = 1 THEN m.self[c] ELSE m.self.unified) = "own",
         files[v].own # Unknown
  PROVE  ProcessLimit(files, m.self, c) = files[v].own
<1> DEFINE self == m.self
<1>1. v = 1 \/ v = 2
  OBVIOUS
<1>2. CASE v = 1
  <2>1. self[c] # NoPath /\ self.unified = NoPath
    BY <1>2 DEF NoPath
  <2>2. Version(self) = 1
    BY <2>1 DEF Version
  <2>3. PathOf(self, c) = "own"
    BY <1>2, <2>1, <2>2 DEF PathOf
  <2> QED
    BY <1>2, <2>2, <2>3 DEF ProcessLimit, OwnThenRoot
<1>3. CASE v = 2
  <2>1. Version(self) = 2
    BY <1>3 DEF Version, NoPath
  <2>2. PathOf(self, c) = "own"
    BY <1>3, <2>1 DEF PathOf
  <2> QED
    BY <1>3, <2>1, <2>2 DEF ProcessLimit, OwnThenRoot
<1> QED
  BY <1>1, <1>2, <1>3

LEMMA InputMachine == ASSUME NEW i \in Inputs PROVE MachineTyped(i.machine)
BY StartupAssumption DEF MachineTyped

LEMMA MachineInitial == Init => MachineInv
BY DEF Init, MachineInv

LEMMA MachineStep == MachineInv /\ [Next]_vars => MachineInv'
<1> SUFFICES ASSUME MachineInv, [Next]_vars PROVE MachineInv'
  OBVIOUS
<1>1. CASE ResolveAndDetect
  BY <1>1 DEF ResolveAndDetect, MachineInv
<1>2. CASE Advise
  BY <1>2 DEF Advise, MachineInv
<1>3. CASE Load \/ Override \/ Refuse \/ Wire \/ (\E s \in specs : Ensure(s))
  BY <1>3 DEF Load, Override, Refuse, Wire, Ensure, MachineInv
<1>4. CASE UNCHANGED vars
  BY <1>4 DEF vars, MachineInv
<1> QED
  BY <1>1, <1>2, <1>3, <1>4 DEF Next

\* Where v1 controllers are not mounted beside a unified hierarchy, the CPUs and
\* the memory Eregion believes in never exceed a limit of its own cgroup, and the
\* CPUs are never zero, whatever the files of the machine say (internal/resources,
\* the cgroup readers and the fallbacks).
THEOREM LimitsRight == Spec => []LimitsRespected
<1>1. MachineInv => LimitsRespected
  <2> SUFFICES ASSUME MachineInv, found # Unset, OneHierarchy
               PROVE  /\ \A l \in OwnLimits : found.cpus <= l
                      /\ found.cpus \in AllLimits \cup {input.machine.gomaxprocs * CPU}
                      /\ OwnLimits # {} => found.quotaDetected \/ found.cpusetDetected
                      /\ found.cpus > 0
                      /\ \A l \in OwnMemory : found.memory # Unknown /\ found.memory <= l
    BY DEF LimitsRespected
  <2> DEFINE m == input.machine
             quota == ProcessQuota(m)
             cpuset == ProcessLimit(m.cpuset, m.self, "cpuset")
  <2>1. MachineTyped(m) /\ found = Detect(m)
    BY InputMachine DEF MachineInv
  <2>2. m.self.unified = NoPath \/ \A c \in Controllers : m.self[c] = NoPath
    BY DEF OneHierarchy
  <2>3. /\ quota \in Int /\ cpuset \in Int
        /\ found.cpus \in Int /\ found.cpus > 0
        /\ quota > 0 => found.cpus <= quota /\ found.quotaDetected
        /\ cpuset > 0 => found.cpus <= cpuset /\ found.cpusetDetected
        /\ found.cpus \in {l \in {quota, cpuset} : l > 0} \cup {m.gomaxprocs * CPU}
    BY <2>1, CPUsFound
  <2>4. ASSUME NEW l \in OwnLimits PROVE l > 0 /\ (l = quota \/ l = cpuset)
    <3>1. CASE \E v \in 1..2 : /\ (IF v = 1 THEN m.self["cpu"] ELSE m.self.unified) = "own"
                                /\ l = m.quota[v].own /\ l > 0
      BY <2>1, <2>2, <3>1, OwnLimitRead
    <3>2. CASE \E v \in 1..2 : /\ (IF v = 1 THEN m.self["cpuset"] ELSE m.self.unified) = "own"
                                /\ l = m.cpuset[v].own /\ l > 0
      BY <2>1, <2>2, <3>2, OwnLimitRead
    <3> QED
      BY <3>1, <3>2 DEF OwnLimits
  <2>5. \A l \in {quota, cpuset} : l > 0 => l \in AllLimits
    <3>1. /\ quota \in {-1} \cup {l \in OwnOrRoot(m.quota) : l > 0}
          /\ cpuset \in OwnOrRoot(m.cpuset)
      BY <2>1, LimitRead
    <3> HIDE DEF quota, cpuset
    <3> QED
      BY <3>1 DEF AllLimits, OwnOrRoot
  <2>6. ASSUME NEW l \in OwnMemory PROVE found.memory # Unknown /\ found.memory <= l
    <3>1. PICK v \in 1..2 : /\ (IF v = 1 THEN m.self["memory"] ELSE m.self.unified) = "own"
                            /\ l = m.memory[v].own /\ l # Unknown
      BY DEF OwnMemory
    <3>2. m.memory \in Readings /\ "memory" \in Controllers
      BY <2>1 DEF MachineTyped, Controllers
    <3>3. ProcessLimit(m.memory, m.self, "memory") = l
      BY <2>2, <3>1, <3>2, OwnReading
    <3>4. found.memory = l
      BY <2>1, <3>3 DEF Detect
    <3>5. l \in Int
      BY <3>1, <3>2 DEF Readings
    <3> QED
      BY <3>1, <3>4, <3>5
  <2> HIDE DEF quota, cpuset
  <2> QED
    BY <2>3, <2>4, <2>5, <2>6
<1> QED
  BY <1>1, MachineInitial, MachineStep, PTL DEF Spec

\* The least number of workers with n workers' worth of CPUs, rounded up.
LEMMA CeilLeast ==
  ASSUME NEW c \in Int, c > 0
  PROVE  /\ CeilWorkers(c) \in Int /\ CeilWorkers(c) >= 1
         /\ CeilWorkers(c) * CPU >= c
         /\ (CeilWorkers(c) - 1) * CPU < c
BY DEF CeilWorkers, CPU

\* Who follows the advice is not warned by it (internal/sizing), unless there is
\* less than an eighth of a CPU.
THEOREM AdviceRight == Spec => []AdviceFits
<1>1. MachineInv => AdviceFits
  <2> SUFFICES ASSUME MachineInv, advice # Unset PROVE AdviceFits
    BY DEF AdviceFits
  <2> DEFINE c == found.cpus
  <2>1. found = Detect(input.machine) /\ MachineTyped(input.machine)
    BY InputMachine DEF MachineInv
  <2>2. c \in Int /\ c > 0
    BY <2>1, CPUsFound
  <2>3. /\ advice.min = CeilWorkers(c) /\ advice.rec = CeilWorkers(2 * c)
        /\ advice.max = CeilWorkers(4 * c)
    BY DEF MachineInv, Analyze
  <2> HIDE DEF c
  <2>4. /\ advice.min \in Int /\ advice.min >= 1
        /\ advice.min * CPU >= c /\ (advice.min - 1) * CPU < c
    BY <2>2, <2>3, CeilLeast
  <2>5. /\ advice.rec \in Int /\ advice.rec * CPU >= 2 * c /\ (advice.rec - 1) * CPU < 2 * c
    <3>1. 2 * c \in Int /\ 2 * c > 0
      BY <2>2
    <3> QED
      BY <2>3, <3>1, CeilLeast
  <2>6. /\ advice.max \in Int /\ advice.max * CPU >= 4 * c /\ (advice.max - 1) * CPU < 4 * c
    <3>1. 4 * c \in Int /\ 4 * c > 0
      BY <2>2
    <3> QED
      BY <2>3, <3>1, CeilLeast
  <2>7. ASSUME NEW n \in advice.min..advice.max, 8 * c >= CPU
        PROVE  ~Analyze(c, n).warning
    <3>1. n \in Int /\ n >= 1 /\ n <= advice.max
      BY <2>4, <2>6
    <3>2. Analyze(c, n).warning = (n * CPU > 8 * c)
      BY <3>1 DEF Analyze
    <3>3. ~(n * CPU > 8 * c)
      BY <2>2, <2>6, <2>7, <3>1 DEF CPU
    <3> QED
      BY <3>2, <3>3
  <2> QED
    BY <2>2, <2>4, <2>5, <2>6, <2>7 DEF AdviceFits, c
<1> QED
  BY <1>1, MachineInitial, MachineStep, PTL DEF Spec

=============================================================================
