---------------------------- MODULE MCReconciler ----------------------------
(* Reconciler for TLC: workloads of every strategy and class, on machines  *)
(* with more and less memory and CPU than they ask for.                    *)
EXTENDS Reconciler

Sized(strategy, class, min, max, memory) ==
    [strategy |-> strategy, class |-> class, min |-> min, max |-> max,
     memory |-> memory, avg |-> 2, drain |-> 3]

\* Backlog-driven sizes, with and without a memory envelope, down to zero.
MCSpecs ==
    {Sized("backlog", "io", min, 4, memory) : min \in {0, 2}, memory \in {0, 2}}
    \cup {Sized(strategy, class, 1, 3, 2) :
             strategy \in {"fixed", "resources"}, class \in {"io", "cpu", "balanced"}}

\* Memory unknown, for one worker, for three; half a CPU, one and a half, unknown.
MCRuntimes == [memory : {0, 3, 6}, cpus : {0, 1, 3}, logical : {4}]

=============================================================================
