------------------------------ MODULE MCStartup -----------------------------
(* Startup for TLC.  The inputs are four slices: in each, one part of what  *)
(* is read varies and the others are plain.                                 *)
EXTENDS Startup

Nothing == [e \in Endpoints |-> Unset]
EmptyFile ==
    [sound |-> TRUE, count |-> Unset, minReady |-> Unset, memory |-> Unset,
     capacity |-> Unset, prefix |-> Unset, on |-> Nothing, path |-> Nothing,
     templates |-> Unset, workloads |-> Unset]

NoLimits == [v \in 1..2 |-> [own |-> Unknown, root |-> Unknown]]
NoCgroup == [unified |-> NoPath, cpu |-> NoPath, memory |-> NoPath, cpuset |-> NoPath,
             other |-> NoPath]
PlainMachine == [self |-> NoCgroup, quota |-> NoLimits, cpuset |-> NoLimits,
                 memory |-> NoLimits, logical |-> 2, gomaxprocs |-> 2]

Input(file, workers, machine) ==
    [file |-> file, workers |-> workers, sound |-> TRUE, machine |-> machine]

\* Counts, flags and the queue, on machines with one, two and nine CPUs.
Counting ==
    {Input([EmptyFile EXCEPT !.count = c, !.minReady = r, !.capacity = q], w,
           [PlainMachine EXCEPT !.logical = n, !.gomaxprocs = n]) :
        c \in {Unset, 0, 1, 3}, r \in {Unset, 0, 2}, q \in {Unset, 0, 5},
        w \in {0, 1, 2}, n \in {1, 2, 9}}
    \cup {Input(NoFile, w, PlainMachine) : w \in {0, 1}}
    \cup {[Input(NoFile, 1, PlainMachine) EXCEPT !.sound = FALSE],
          Input([EmptyFile EXCEPT !.sound = FALSE], 0, PlainMachine)}

\* path.Clean as it is written in Go's library, a stack of names.
Stacked(done, segment) ==
    CASE IsName(segment) -> Append(done, segment)
      [] segment = ".." /\ done # <<>> -> Front(done)
      [] OTHER -> done
ASSUME CleanIsAStack ==
    \A n \in 0..5 : \A p \in [1..n -> {"a", "b", "", ".", ".."}] :
        Clean(p) = FoldLeft(Stacked, <<>>, p)

\* Paths with and without the prefix, moved ones, two on one place; prefixes and
\* paths with something to clean.
Placing ==
    {Input([EmptyFile EXCEPT !.prefix = p, !.path["metrics"] = m, !.path["health"] = h,
                             !.on["health"] = o], 0, PlainMachine) :
        p \in {Unset, <<>>, <<"ops">>, <<"ops", "", "x">>, <<"ops", ".">>, <<"ops", "..">>},
        m \in {Unset, <<"metrics">>, <<"_eregion", "m">>, <<"ops", "health">>,
               <<"ops", "..", "ops", "health">>, <<"", "metrics">>, <<"ops", "", "x", "m">>},
        h \in {Unset, <<"health">>, <<"metrics">>, <<"ops", ".", "metrics">>},
        o \in {Unset, FALSE}}

\* A template and one workload, alone or beside an HTTP one.
Policy(strategy, cooldown) == [strategy |-> strategy, cooldown |-> cooldown]
Templates ==
    [mode : {Unset, "consumer"}, min : {Unset, 0, 2}, max : {Unset, 3},
     class : {"io"}, memory : {Unset, 64}, scaling : {Unset, Policy("backlog", Unset)}]
Jobs(template) ==
    [template : {template}, mode : {Unset, "http", "consumer"}, command : {TRUE},
     min : {Unset, 1}, max : {Unset, 6}, class : {Unset}, memory : {Unset, 0, 32},
     scaling : {Unset, Policy(Unset, 2)}]
OneHTTP ==
    [template |-> Unset, mode |-> "http", command |-> FALSE, min |-> Unset, max |-> 2,
     class |-> "cpu", memory |-> Unset, scaling |-> Policy("resources", 3)]
Declared(t, workloads) ==
    Input([EmptyFile EXCEPT !.templates = [n \in {"t"} |-> t], !.workloads = workloads],
          0, PlainMachine)
Plain == [OneHTTP EXCEPT !.class = "io"]
Declaring ==
    {Declared(t, [n \in {"jobs"} |-> j]) : t \in Templates, j \in Jobs("t")}
    \cup {Declared(Plain, [n \in {"jobs"} |-> j]) : j \in Jobs(Unset) \cup Jobs("missing")}
    \cup {Declared(Plain, [n \in {"jobs", "http"} |-> IF n = "http" THEN OneHTTP ELSE j]) :
            j \in Jobs("t")}
    \cup {Declared(Plain, NoEntries),
          Declared(Plain, [n \in {"jobs"} |-> [OneHTTP EXCEPT !.mode = "consumer"]])}

\* Limits below a CPU and above the CPUs there are, in any of the places.
Selves ==
    {[NoCgroup EXCEPT !.unified = u] : u \in {NoPath, "own", "root", "escape"}}
    \cup [unified : {NoPath}, cpu : {NoPath, "own", "escape"}, memory : {NoPath, "own"},
          cpuset : {NoPath, "own"}, other : {"own"}]
In(v, own, root) == [NoLimits EXCEPT ![v] = [own |-> own, root |-> root]]
Limiting ==
    {Input(NoFile, 0, [PlainMachine EXCEPT !.self = s, !.quota = In(v, q, r),
                                           !.cpuset = In(v, c, d), !.memory = In(v, m, 8)]) :
        s \in Selves, v \in 1..2, q \in {Unknown, 0, 1, 15}, r \in {Unknown, 5},
        c \in {Unknown, 10}, d \in {Unknown, 20}, m \in {Unknown, 0}}

MCInputs == Counting \cup Placing \cup Declaring \cup Limiting
MCDeclared == Declaring

=============================================================================
