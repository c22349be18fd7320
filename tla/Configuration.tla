---------------------------- MODULE Configuration ---------------------------
(***************************************************************************)
(* From defaults, the YAML file and the command line to the workloads to   *)
(* run (src/internal/config, src/internal/workload).                       *)
(*                                                                         *)
(* A file is a record whose fields may be Unset; so is a template or a     *)
(* workload in it.  Fields that are copied and checked on their own (host, *)
(* timeouts, permissions, ...) are one flag, sound: FALSE says one of them *)
(* does not parse or is out of range.  A policy's four durations are one,  *)
(* cooldown.  A path is the sequence of its segments, which may be empty,  *)
(* "." or ".."; the root is <<>>.  Of a prefix or a path it is what        *)
(* TrimSpace and, of a prefix, TrimSuffix leave.                           *)
(***************************************************************************)
EXTENDS Scaling, Sequences, SequencesExt

CONSTANT Unset

Endpoints == {"metrics", "health", "ready", "live"}
Modes == {"http", "consumer"}
Given(x, otherwise) == IF x = Unset THEN otherwise ELSE x

DerivedQueueCapacity(workers) == 8 * AtLeast(workers, 1)

-----------------------------------------------------------------------------
(* Paths *)

IsName(segment) == segment \notin {"", ".", ".."}

\* The segments path.Clean keeps: the names no ".." after them takes away.  (Of a
\* ".." that finds no name, it is at the root, nothing is left either.)
Kept(path) ==
    {i \in DOMAIN path :
        /\ IsName(path[i])
        /\ \A j \in i..Len(path) : Cardinality({k \in i..j : path[k] = ".."})
                                     < Cardinality({k \in i..j : IsName(path[k])})}

\* The n-th of a set of positions.
Upto(places, i) == {k \in places : k <= i}
Nth(places, n) == CHOOSE i \in places : Cardinality(Upto(places, i)) = n

\* path.Clean of a path that starts at the root.
Clean(path) == [n \in 1..Cardinality(Kept(path)) |-> path[Nth(Kept(path), n)]]

\* Mutant: the prefix is put before every path.
ResolvePrepended(prefix, path) == Clean(prefix \o path)

\* A path that has the prefix already, letter by letter, gets it no more.  What
\* results is cleaned, the prefix is not.
ResolveOperationPath(prefix, path) ==
    Clean(IF IsPrefix(prefix, path) THEN path ELSE prefix \o path)

ResolveEndpoints(cfg) ==
    [cfg EXCEPT !.path = [e \in Endpoints |-> ResolveOperationPath(cfg.prefix, @[e])]]

Collision(cfg) ==
    \E d, e \in Endpoints : d # e /\ cfg.on[d] /\ cfg.on[e] /\ cfg.path[d] = cfg.path[e]

-----------------------------------------------------------------------------
(* Templates and workloads *)

DefaultScaling == [strategy |-> "fixed", cooldown |-> 1]

\* What a scaling section says; what it leaves out is the default.
ConvertScaling(section) ==
    [strategy |-> Given(section.strategy, DefaultScaling.strategy),
     cooldown |-> Given(section.cooldown, DefaultScaling.cooldown)]

MergeScaling(base, over) ==
    [strategy |-> over.strategy,
     cooldown |-> IF over.cooldown > 0 THEN over.cooldown ELSE base.cooldown]

\* What a workload has before its own settings: the defaults, or a template.
Bare == [mode |-> Unset, min |-> 1, max |-> 1, class |-> "balanced", memory |-> 0,
         scaling |-> DefaultScaling]

ConvertTemplate(tpl) ==
    [mode |-> tpl.mode, min |-> Given(tpl.min, 1), max |-> Given(tpl.max, 1),
     class |-> Given(tpl.class, "balanced"), memory |-> Given(tpl.memory, 0),
     scaling |-> IF tpl.scaling = Unset THEN DefaultScaling
                 ELSE MergeScaling(DefaultScaling, ConvertScaling(tpl.scaling))]

Base(w, templates) ==
    IF w.template = Unset THEN Bare ELSE ConvertTemplate(templates[w.template])

\* Mutant: a workers section replaces the template's as a whole.
ResolveSections(name, w, templates) ==
    LET base == Base(w, templates)
        own == w.min # Unset \/ w.max # Unset
    IN [name |-> name, mode |-> Given(w.mode, base.mode),
        min |-> Given(w.min, IF own THEN 1 ELSE base.min),
        max |-> Given(w.max, IF own THEN 1 ELSE base.max),
        class |-> Given(w.class, base.class),
        memory |-> IF w.memory # Unset /\ w.memory > 0 THEN w.memory ELSE base.memory,
        scaling |-> base.scaling]

\* convertWorkload and Resolve.
Resolve(name, w, templates) ==
    LET base == Base(w, templates) IN
    [name |-> name, mode |-> Given(w.mode, base.mode),
     min |-> Given(w.min, base.min), max |-> Given(w.max, base.max),
     class |-> Given(w.class, base.class),
     memory |-> IF w.memory # Unset /\ w.memory > 0 THEN w.memory ELSE base.memory,
     scaling |-> IF w.scaling = Unset THEN base.scaling
                 ELSE MergeScaling(base.scaling, ConvertScaling(w.scaling))]

\* Resolve returns no error.
Resolvable(name, w, templates) ==
    /\ w.template # Unset => w.template \in DOMAIN templates
    /\ LET r == Resolve(name, w, templates) IN
       /\ r.mode \in Modes
       /\ r.min <= r.max /\ r.min >= 0
       /\ r.mode = "consumer" => w.command
       /\ r.class \in Classes /\ r.scaling.strategy \in Strategies

\* AdaptLegacyHTTP
LegacyHTTP(cfg) ==
    [name |-> "http", mode |-> "http", min |-> cfg.count, max |-> cfg.count,
     class |-> "balanced", memory |-> cfg.memory, scaling |-> DefaultScaling]

\* BuildFromConfig: an explicit workloads section replaces the legacy workload.
Workloads(cfg) ==
    {Resolve(n, cfg.workloads[n], cfg.templates) : n \in DOMAIN cfg.workloads}
    \cup (IF cfg.explicit THEN {} ELSE {LegacyHTTP(cfg)})

\* Mutant: a workloads section may be empty.
WorkloadsResolveEmpty(cfg) ==
    \A n \in DOMAIN cfg.workloads : Resolvable(n, cfg.workloads[n], cfg.templates)

WorkloadsResolve(cfg) ==
    /\ \A n \in DOMAIN cfg.workloads : Resolvable(n, cfg.workloads[n], cfg.templates)
    /\ cfg.explicit => DOMAIN cfg.workloads # {}

-----------------------------------------------------------------------------
(* The configuration *)

NoEntries == [n \in {} |-> Unset]

Default(cpus) ==
    LET count == AtLeast(AtMost(cpus, 8), 1) IN
    [count |-> count, minReady |-> 1, memory |-> 256,
     capacity |-> DerivedQueueCapacity(count), derived |-> TRUE,
     prefix |-> <<"_eregion">>, on |-> [e \in Endpoints |-> TRUE],
     path |-> [e \in Endpoints |-> <<"_eregion", e>>],
     templates |-> NoEntries, workloads |-> NoEntries, explicit |-> FALSE]

\* Mutant: a capacity the file gives is still taken for a derived one.
ApplyFileDerived(cfg, file) ==
    [cfg EXCEPT !.count = Given(file.count, @), !.capacity = Given(file.capacity, @)]

\* applyFile.  A capacity is derived again when only the count is given.
ApplyFile(cfg, file) ==
    [cfg EXCEPT
        !.count = Given(file.count, @), !.minReady = Given(file.minReady, @),
        !.memory = Given(file.memory, @),
        !.capacity = Given(file.capacity,
                         IF file.count = Unset THEN @ ELSE DerivedQueueCapacity(file.count)),
        !.derived = file.capacity = Unset /\ (file.count # Unset \/ @),
        !.prefix = Given(file.prefix, @),
        !.on = [e \in Endpoints |-> Given(file.on[e], @[e])],
        !.path = [e \in Endpoints |-> Given(file.path[e], @[e])],
        !.templates = Given(file.templates, @),
        !.workloads = Given(file.workloads, @),
        !.explicit = file.workloads # Unset]

\* ApplyCLIOverrides; 0 is a flag that is not given.
ApplyCLIOverrides(cfg, workers) ==
    IF workers <= 0 THEN cfg
    ELSE [cfg EXCEPT !.count = workers,
                     !.capacity = IF cfg.derived THEN DerivedQueueCapacity(workers) ELSE @]

\* Mutant: neither min_ready nor the paths are checked against anything else.
ValidLoose(cfg) ==
    cfg.count >= 1 /\ cfg.minReady >= 0 /\ cfg.capacity >= 0 /\ WorkloadsResolve(cfg)

\* Validate of a configuration whose endpoints are resolved.
Valid(cfg) ==
    /\ cfg.count >= 1
    /\ cfg.minReady \in 0..cfg.count
    /\ cfg.memory >= 0 /\ cfg.capacity >= 0
    /\ ~ Collision(cfg)
    /\ WorkloadsResolve(cfg)

=============================================================================
