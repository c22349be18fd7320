# A TLA+ model of Eregion

Eregion is a process supervisor and HTTP front end for PHP workers. It starts
one *pool* of operating system processes per *workload*, hands HTTP requests to
the idle processes of the `http` workload over a unix socket, restarts what
crashes, changes the size of a pool as a scaling strategy asks, and stops
everything at SIGTERM. This directory holds TLA+ modules translated from the Go
code under `src/`, TLC configurations that check them on small instances, and
proofs that TLAPS checks for every size. `PROJECT.json` maps each definition to
the lines it stands for.

## 1. Inventory

| part | source | state | operations |
| --- | --- | --- | --- |
| worker pool | `internal/worker/pool.go`, `state.go` | `p.mu`: desired, stopping, slots (generation, worker, plannedExit, retired, crash times), the channel `p.idle`, `p.ctx`, `p.wg`; per worker a state behind a mutex of its own | Start, bootSlot, monitor, purgeIdle, scheduleRestart, SetDesired, TryAcquire, Acquire, Release, Discard, Shutdown |
| worker process | `internal/worker/process.go`, `dial.go`, `env.go` | an OS process, its socket connection | Start (HTTP, consumer), waitForSocket, dialUnix, Client.Send, terminateProcess, terminateWorker |
| restart backoff | `internal/worker/backoff.go` | current delay | Next, Reset |
| pool manager | `internal/worker/manager.go` | map of pools | Ensure, StartAll, ShutdownAll, Remove |
| dispatcher | `internal/dispatcher/dispatcher.go` | waiting counter, request numbers | ServeHTTP, tryEnterQueue, leaveQueue |
| protocol EREGION/1 | `internal/protocol` | one connection per worker generation | SendRequest, PerformHandshake, ReadFrame, WriteFrame, Validate* |
| strategies | `internal/scaling/strategy.go` | none | Fixed, Backlog, Resources, ClampDesired |
| hysteresis | `internal/scaling/hysteresis.go` | lastDesired, lastScaleUp, scaleDownSince | DesiredWorkers |
| reconciler | `internal/reconciler/reconciler.go` | one Hysteresis per workload | Run, ReconcileOnce |
| server | `internal/server/server.go`, `internal/lifecycle` | shuttingDown | New, Run, shutdown |
| telemetry | `internal/telemetry/metrics.go` | counters | Handler, HealthHandler, ReadyHandler |
| workloads | `internal/workload` | registry map | Resolve, Upsert, Update, Remove |
| configuration | `internal/config` | none | Load, Validate, ResolveWorkloads, ApplyCLIOverrides |
| resource detection | `internal/resources` | none | Detect and the cgroup readers |
| sizing advisor | `internal/sizing` | none | Analyze, Classify |
| sockets | `internal/socket` | the socket files, in a directory per workload | Prepare, Remove, CleanupDir |
| craft, logging, command line | `internal/craft`, `internal/logging`, `cmd/eregion` | files | |

How they interact. `Server.Run` starts the pools, then one goroutine runs the
reconciler and one the HTTP server. Each HTTP request is a goroutine in
`Dispatcher.ServeHTTP`: it takes a worker from the pool's channel (or waits in
`Acquire`, counted against `queue.capacity`), exchanges one pair of frames with
it, and gives it back with `Release` or `Discard`. Each worker has a monitor
goroutine in `cmd.Wait`; an exit leads to a restart timer, itself a goroutine.
The reconciler calls `SetDesired`, which drains workers and boots slots in more
goroutines. At the signal the reconciler stops, `http.Shutdown` waits for the
requests and `ShutdownAll` stops the pools. All of them meet on `p.mu`, on the
channel (used with and without `p.mu`) and on the workers' states (a lock each).

What is hard: work done between two critical sections (a spawn, a push, a state
set after the unlock); a process that exits at any moment, noticed later by
another goroutine; SIGTERM that is ignored; a generation that replaces another
while handlers still hold the old one; the bounded channel; goroutines Shutdown
does or does not wait for; answers that come after their timeout. `PROJECT.json`
lists the hazards at their lines.

What makes each part correct:

* pool: a worker is in one hand at a time; a slot is one process; a serving
  worker is left alone; no slot is forgotten and a failed one stays down; nothing
  starts once Shutdown began and nothing is left when it returns; drains,
  requests and Shutdown end;
* dispatcher: the counters are right on every path, no worker is kept, no answer
  of one request is left for the next, every request is answered;
* scaling: the size stays in bounds and memory, does not flap, and converges;
* server and worker start: requests in progress are drained before pools stop; a
  process that runs is always somebody's; when Run ends once the pools are up, by
  the signal or an error, no process and no socket is left (of pools that keep
  their size: section 4); SIGKILL comes only after SIGTERM and the grace, or the
  deadline the pools share; a program that crashed is not mistaken for this one;
* configuration, workloads: precedence of defaults, templates and overrides, each
  setting by itself; capacities derived from the final counts; endpoints apart;
  pools that start within their bounds;
* resources: no limit of the process's own cgroup is overlooked; advice that
  agrees with its own warning.

## 2. Modules

    WorkerLease            what a pool promises its users
      ^ refined by   ^ used by
    WorkerPool      Dispatcher            Scaling
      MCWorkerPool    Dispatcher_proofs     Reconciler
      WorkerPool_proofs                       MCReconciler
        FixedPool_proofs                      Reconciler_proofs
          PoolSupervision_proofs
    Supervision            what a pool promises of its slots
      Supervision_proofs
      ^ refined by WorkerPool, when it is not scaled, and by Server
    WorkerStart            one worker process comes up and goes down
      Server               the program from its start to its end
        MCServer
        Server_proofs
    Scaling     Detection
      Configuration /
        Startup              from the command line to a server ready to run
          MCStartup
          Startup_proofs

**WorkerPool** is `pool.go` in full with the process life cycle of `process.go`.
A worker is `<<slot, generation>>`. One critical section of `p.mu` is one action;
what the code does outside the lock is an action of its own:

| code | actions |
| --- | --- |
| `Start` | `Init` (one boot asked for per slot), `StartReturns` |
| `bootSlot`, the restart timer | `BootBegin`, `BootRefused`, `BootFails`, `BootInstalls`, `BootTooLate` + `BootReaps`, `BootPush` |
| `monitor` | `MonitorStale`, `MonitorExit` (what it read under the lock decides), `MonitorPurges`, `MonitorRecords` |
| `purgeIdle` | `PurgeBegins`, `PurgePop`, `PurgePush`: it holds `p.mu` over several channel operations, so `purge` is also the lock; every action that needs the lock has the guard `LockFree` |
| `TryAcquire`, `Acquire` | `Pop`, `Check`, `MarkBusy`, `TryMisses`, `AcquireEnds` |
| `Release`, `Discard` | `Release` + `PutBack`, `Discard` + `DiscardEnds` |
| `SetDesired` | `SetDesired`, then `ScaleDrains` per worker, then `ScaleBoots` |
| `terminateWorker` | `TermSignals`, `TermEnds` |
| `Shutdown` | `Stop`, `StopIdle`, `StopRest`, `StopKills`, `StopDone` |
| the signal context | `Cancel` |
| the process | `ProcExit` |

`s.retired || s.index > p.desired` is `Retired(s)`: both are assigned together in
SetDesired only. A crash window is abstracted to how many crashes are still in
it: each new crash may find any of the older ones expired. Timers fire at any
time. A request is a handler that may be in the pool again and again. Two steps
the code separates are merged, neither visible to anything else: the spawn with
the section before it, and the monitor's `wg.Add` with the installation.

**WorkerLease** is the contract: issued once, on offer, lent to one request, gone.
`ImplementsLease` says WorkerPool implements it with `offered` = in the channel,
in purgeIdle's hand or about to be pushed by bootSlot, and `owner` = held.

**Supervision** is the other contract, of the slots: without locks, channels,
generations or signals, a slot is due for a boot, in one, up, or off; it has a
process or none; it has strikes. One process comes after the other, a crash is a
strike, and a slot goes off when its context has ended or its restarts are used up,
never to come back. `Supervises` says it of both detailed modules, each under a
mapping of its own: in WorkerPool a slot is *due* while boots of it are asked for
(`pending`), in a *boot* from BootBegin to BootInstalls, or to the end of BootReaps,
and *up* until its monitor has decided what follows; in Server it is *due* while
its timer runs, in a *boot* through the steps of WorkerStart, and *up* until
MonitorSees. The two differ in what they leave out (WorkerPool the steps of a start,
Server generations and planned exits), so they meet in this one. The refinement
does not hold of a pool that is scaled: a double boot (section 4) begins a boot
of a slot that has a process.

**Dispatcher** is `ServeHTTP` over that contract: its acquisitions, releases and
discards are `Lease!Take`, `Lease!Return`, `Lease!Forfeit`, and the pool is free
to issue and withdraw. A connection is two sequences of frames of which only ids
matter; a worker answers late, or not, and a *sloppy* one answers twice or with a
frame the protocol refuses. Response headers, statuses and logs are left out.

**WorkerStart** is how one process comes up and goes down: `Starter.Start` and
`ConsumerStarter.Start` with the socket manager, `waitForSocket`, `dialUnix`,
`PerformHandshake` and `terminateProcess`. The process is its environment
(`Binds`, `ListensAt`, `Greets`, `Exits`): it may be slow, greet wrongly, ignore
SIGTERM or exit with its socket file left behind. A path may also hold the socket
of a program that crashed, with a process behind it that still answers. Each
worker has one clock, in ticks: Start waits for one thing at a time.

**Server** puts the pools on top of it, and Run on top of the pools:

| code | actions |
| --- | --- |
| `Run` | `Listen`, `ServeFails`, `StartFails`, `Drain` (the signal is seen), `DrainEnds` (`http.Shutdown` returns), `Stops`, `Leave` |
| `StartAll`, `ShutdownAll` | `PoolStarts`, `PoolStarted`; `StopPool`, one pool after the other |
| `Pool.Shutdown` | `StopIdle` and `StopIdleEnds` per idle worker, `StopRest`, then `StopTells` per worker (the goroutine that terminates it; until then the worker is in `owed`), `StopKills` (the deadline has passed, be it before any of these goroutines ran), `StopDone` (with `CleanupDir`) |
| `bootSlot`, `scheduleRestart` | `BootBegins`, `Starts` (a step of WorkerStart), `Installs`, `BootTooLate`, `BootFailed`; `TimerFires`, `TimerQuits` |
| `monitor`, `recordCrashLocked`, `terminateProcess` | `MonitorSees`; `Recorded` (one crash more, any of the older ones may have left `restart_window`); `Terminated` in whoever calls it, `GraceEnds` |
| requests | `Arrives`, `Takes`, `GivesUp`, `Refused`, `Answered`, `Fails`, `DiscardEnds` |
| SIGTERM, time | `Signal`; `Tick`, only when the program can do nothing but wait |

What is WorkerPool's is not repeated here: the races on the idle channel and planned
recycling. Nor are the reconciler and its boots: Server is the program whose pools keep
the size they start with, for which the reconciler never calls SetDesired
(`reconciler.go:92`), and `CleanEnd`, `NoStrayProcess`, `SignalEnds` and `Supervises` are
claimed of that program only. Once a pool is scaled the first two are false, as
`pool_orphan` and `pool_double_boot` show of the pool alone (section 4), and the third
may be. Start does not look at whether the stale file at a path could be removed
(`process.go:221`); here it always can. Backoff, `acquire_timeout` and
`request_timeout` end at any time. A request comes once. What a process does when
the program is gone is left out.

**Scaling** holds the strategies as operators; CPUs are counted in halves.
**Reconciler** composes them with the hysteresis and with `SetDesired` as the
only writer of the size. Times are ages up to `Horizon`; a pass comes `1..MaxGap`
after the one before.

**Configuration** is `internal/config` and `internal/workload` as operators:
`Default`, `ApplyFile`, `ApplyCLIOverrides`, `ResolveEndpoints`, `Valid`, and for
workloads `ConvertTemplate`, `Resolve`, `Resolvable`, `LegacyHTTP`. A file is a
record with fields that may be `Unset`; a path is the sequence of what stands between
its slashes, and `Clean` is `path.Clean` on it, where an empty segment, `.` and `..` mean
what they do. Blanks around a path and one slash at the end of a prefix, which
ResolveOperationPath takes off first, are left out. Fields that are copied and checked
on their own are the flag `sound`.

**Detection** is `internal/resources` (which of the cgroup files decides, and the
fallbacks) and `internal/sizing`. What the parsers refuse, or call unlimited, is
`Unknown`; CPUs are counted in tenths.

**Startup** is the sequence that uses both, one action per stage:

| code | action |
| --- | --- |
| `loadConfig`, `config.Load` | `Load` (defaults, file, endpoints, validation) |
| `ApplyCLIOverrides` and `Validate` in `cmdServe` | `Override` |
| "config error" | `Refuse` |
| `server.New`: ResolveWorkloads, Detect, Analyze | `ResolveAndDetect`, `Advise` (of any HTTP workload: the list comes from a map) |
| `Manager.Ensure` per workload | `Ensure` |
| the rest of `New` | `Wire` |

## 3. Runs

| run | instance | shows |
| --- | --- | --- |
| `pool_fixed` | HTTP, 2 slots, 3 boots, two of the first slot, 1 request, no scaling | types; one process per slot; nobody disturbs a serving worker; a slot over its crash limit stays down; Shutdown leaves nothing; nothing begins after it began; the pool implements the supervision |
| `pool_scaled` | HTTP, 1 slot, 2 generations, 3 scalings, 2 requests | no worker in two hands; no slot forgotten; the pool implements the lease |
| `pool_liveness` | HTTP, 1 slot, 3 scalings, 1 request, fairness | requests and drains end; Shutdown does, unless it waits for a process a double boot orphaned |
| `server` | an HTTP pool of one worker and a consumer pool of one, 1 request, every timeout one tick, fairness | no stray process; sockets of one's own; a clean end; requests spared; the grace given; the signal ends the program; readiness comes back or boots go on being tried; the program implements the supervision |
| `dispatcher` | 3 handlers, queue of 1, 2 workers, one sloppy, fairness | counters, no worker kept, no answer inherited, every request answered |
| `reconcile` | 10 workloads on 9 machines, fairness | envelope, belief, no flapping, convergence |
| `startup` | four slices of inputs: counts and flags, paths, templates and workloads, cgroup limits | queue capacity, precedence, endpoints, pool bounds, readiness, limits, advice |
| `pool_double_boot`, `pool_busy_drained`, `pool_lost_idle`, `pool_orphan`, `startup_scaling` | violations | section 4 |

Why these bounds are enough. Hazards of the pool need a generation and its
successor (`MaxGen` 2), a slot and a neighbour for the channel (2 slots), a crash
over the limit (`RestartLimit` 1), up, down and up again (`MaxScale` 3), and two
requests for one worker. No single run has all of them: two slots with scaling
and two requests exceed a few million states, so the runs divide the questions by
what each needs. `MaxBoots` counts boots of all slots together; when it is spent
a boot that is asked for stays pending, which is a slow timer. `FirstSlotAgain` keeps
of two slots the first as the one that boots again in `pool_fixed`: nothing but
their numbers tells the slots of an unscaled pool apart, and `NeighbourHolds` lets the
other slot's worker end only while no request is inside, or when the pool stops
(with the first alone the run passes on 1.6 million states, without both on 3.1).
`ScaledOrCrowded` keeps the third scaling of `pool_scaled` from two requests at a time
(without it: 1.6 million states). In `pool_liveness` the third scaling is the one that
may boot a slot twice; `ThirdAlone` keeps it from a request, so that the run is one of
150,000 states. That it reaches the orphan is known from `StopEnds` without its second
half, which TLC finds violated there. `LeaseExclusive`,
`NoSlotForgotten`, `StopFreezes`, `ImplementsLease` and, without scaling, the other
safety properties of the pool and `Supervises` do not depend on their runs' bounds:
they are proved.
In `server` (`OneTrouble`) a behaviour has requests or crashes of the consumer, not
both: the pools share nothing but the order Run stops them in (397,000 states). Two pools are enough for their order and the deadline they share, and
one worker in each for every pair of its boot, timer, monitor, handler
and Shutdown; a timeout of one tick may pass before, at or after any other, as
every other step may come before or after the tick (a wait is over when its clock is
at its bound or beyond it, as a deadline in the code); `RestartLimit` 1 lets a slot
crash, restart and fail, or never fail because its crashes leave the window. `SignalEnds` and `ReadyAgain` are of the form `[]<>P`: as
nothing undoes a signal or the end of the program, the first says the same as
"signalled leads to gone". The safety properties and the refinement are proved for all sizes. In
`dispatcher`, `MaxSeq` 3
lets a connection be used three times, enough for a late answer, its successor
and one more; a third handler makes the queue full while another waits. In
`reconcile`, the cooldown and the idle time are 2 and 3 passes, `Horizon` is
beyond both, and `MaxGap` 2 is a pass that came late. In `startup` each slice of
inputs varies one of four parts of the program that meet only in `New` and keeps
the others plain: counts below, at and above the limits that Validate and the
default of at most 8 workers set; paths with the prefix, without it, on one
place, and under a prefix with an empty, a `.` or a `..` segment (what `Clean` makes of
every path of the run is checked to be what a stack of segments would be); every setting given by the template, the workload, both or neither; a
quota of no CPU, a tenth, one and a half, in either directory of either version, and a
limit on the memory in each.

The mutants in the modules (definitions commented "Mutant:") are plausible bugs;
each property is violated when its mutant replaces the definition it follows.

## 4. Where code and text disagree

* `pool_double_boot`. `SetDesired` (`pool.go:529-534`) boots every slot without a
  worker, also one whose restart timer is pending. Both boots spawn; the second
  replaces the first in the slot, and the first process is the pool's no more:
  nobody stops it. In the shipped server this needs a crash between Start and the
  reconciler's first change of size. (`OneProcessPerSlot` holds in `pool_fixed`, where nothing
  scales; this run is where the hazard is met.)
* `pool_busy_drained`. A worker is marked busy after the lock was given up
  (`pool.go:591`), and a scale-down in between drains it. (So with
  `ServingUndisturbed`: without scaling it holds.)
* `pool_lost_idle`. bootSlot pushes after its unlock; pushed after its own purge, a
  dead worker takes the place of the next one, whose push is dropped.
* `pool_orphan`. The boots of SetDesired are not in `p.wg`, so Shutdown may return
  before the process one of them spawned is terminated.
* `startup_scaling`. `convertScaling` (`workloads.go:123`) starts from the default
  policy, so a workload that sets one knob of `scaling` loses the strategy and the
  other knobs of its template, which `mergeScaling` is written to keep.

Scope. `server.New` passes no BacklogProvider (`server.go:102`), so in the shipped
wiring a pool's target is constant and SetDesired is called upwards only.
`pool_busy_drained` needs a call downwards, which the pool's API and its tests
make (`pool_workload_test.go:78-225`); the others do not.

Seen while reading, not claimed by a run:

* pool: a recycled worker gets SIGTERM and never Kill; failed boots are never
  waited for by `cmd.Wait`; a slot over its crash limit stays down when the window
  has passed; a client that disconnects gets its worker terminated, and the exit
  counts as a crash;
* hysteresis: a growth refused for its cooldown does not reset the scale-down
  timer (`hysteresis.go:61`), so that less need not be asked for throughout
  `scale_down_idle_for`; this needs a BacklogProvider;
* server: `StartAll` failing leaves processes and sockets behind (`CleanEnd` leaves
  that way out aside), and `lifecycle.Cleanup` finds nothing to remove, as the
  sockets are in directories below the one it looks at; all pools share one
  deadline of `workers.shutdown_timeout` and a second (`manager.go:141`,
  `server.go:217`) and are stopped one after the other, their idle workers too, so
  a stubborn one leaves a later pool less than the grace `pool.go:823` speaks of. Once
  the deadline has passed, that pool's Shutdown may kill its workers before the
  goroutines that send SIGTERM have run (`pool.go:861-885`), so that they get no
  SIGTERM at all (`GraceGiven` admits it of that pool, then). Boots that take longer
  to fail than `restart_window` allows are retried for ever, with no slot ever failed
  (`ReadyAgain` admits them). A process that the double boot orphaned makes Shutdown
  wait for as long as it lives (`StopEnds` admits it); the signal ends the pools'
  context before the requests are drained; the HTTP pool is looked up by the name
  `http`, not by its mode; an explicit `http` workload smaller than
  `workers.min_ready` is never ready;
* configuration: a `--config` that names no file is the defaults; a prefix that is
  changed without the paths yields `/ops/_eregion/metrics`; under a prefix that
  `path.Clean` would change, such as `/a//b`, a path that was resolved does not start
  with the prefix any more (`paths.go:31-39`), and each
  validation (`validation.go:114`; one follows the file, one the flags) prepends the
  prefix again, whatever `README.md:97` says of absolute paths (`EndpointsApart` claims being below the prefix,
  and settling, of clean prefixes only); a prefix and an
  endpoint of `/` both take the dispatcher's mux pattern;
* resources: where v1 controllers are mounted beside a unified hierarchy, their
  limits are not looked at (`LimitsRespected` is about one hierarchy); fewer than
  an eighth of a CPU makes even the recommended size a warning.

## 5. Fairness

`FairSpec` of WorkerPool: goroutines that can run do (one weak fairness condition
per goroutine: boot or timer, monitor, purge, Shutdown, SetDesired, termination,
handler). A handler's fairness includes the end of every wait because each has a
timeout in the code (`acquire_timeout`, `request_timeout`, the grace before Kill).
Nothing is assumed of requests, processes, SetDesired, or the signal: a process
may run for ever unless it is killed. Dispatcher: weak fairness of each handler,
none of pool, workers or clients. Reconciler: the ticker goes on ticking.
Server: Run goes on when it can, and so do the goroutines of each slot (its boot, its
restart timer, its monitor and who terminates its process) and each handler; time
goes on passing while anybody waits. Time passes only when the program has nothing to
do but wait (`Tick`), so a step that is due is not overtaken by a deadline. A backoff
that is over and a context that is done meet in one `select`
(`scheduleRestart`), which picks either; nothing asks that the context win. Nothing is
assumed of processes, requests and signals.

## 6. Proofs

All for every value of the constants, from the named assumptions only (and what a
theorem about the unscaled pool states as its own):
`PoolAssumption`, `DispatcherAssumption`, `ReconcilerAssumption`,
`StartAssumption`, `ServerAssumption` (timeouts and limits are natural numbers, each
worker has a pool, there is one (`build.go:37`), the workers of the HTTP pool are the
ones with a socket),
`UnsetAssumption` (a setting that is not given is no value of one) and
`StartupAssumption` (the counts in a file and the readings of the machine are
integers, paths are sequences of strings, there is a CPU).

* `WorkerPool_proofs`. `Typing`: `TypeOK` is inductive, one lemma per group of
  actions. `Exclusive`: `LeaseExclusive` is not inductive. A worker about to be
  pushed must not be in the channel already, so one that is not installed was
  never offered or held; that needs its boot to be the only way to install it and
  its generation not to have begun before. `LeaseInv` adds these facts
  (`NoneOut`, `UninstalledNone`, `BootBegun`, `MonitorOut`, `SlotOut`).
  `PoolImplementsLease` is the refinement: under `LeaseInv` each action of the pool is
  one step of the lease or a stutter, with `LeaseExclusive` as what makes a pop a
  `Take` of a worker nobody has. `SlotsRemembered`: `NoSlotForgotten` is inductive
  once it is known that a pool that stops has its context done. `Freezes` is an
  action property, case by case.
* `FixedPool_proofs`. The four properties scaling breaks (section 4), each as
  `ASSUME MaxScale = 0 PROVE Spec => ...`: nobody calls SetDesired, which is a pool
  that starts with the size its strategy asks for, as the legacy one (min = max), for
  the reconciler calls it only to change the size (`reconciler.go:92`). In it a slot is
  under way once, as a boot asked for, a boot in progress or a worker whose monitor
  waits, and each step hands this one duty to the next (`OneDuty`, `InHand`, `Spent`):
  hence `OneProcess` and `FailedStaysDown`. Once Start has returned, each holder of a
  duty is counted by `p.wg` (`Counted`), so that Shutdown waits for all there is
  (`StopIsClean`). Who was sent SIGTERM is draining, and only Shutdown drains a
  busy worker (`ServingIsUndisturbed`).
* `Supervision_proofs`. What the contract amounts to: `SlotsSound` (a process belongs
  to a boot or to the worker it left; a slot over the limit is off; a slot is off for
  no other reason than that or the end of its context) and `NeverBack` (a slot that is
  off has no process and stays off).
* `PoolSupervision_proofs`. `PoolSupervises`: under `SoloInv` each step of the unscaled
  pool is one step of the supervision or a stutter. Which one is a matter of what the
  slot has: `OneDuty` of `FixedPool_proofs` makes the boot or the monitor that moves
  the only one of its slot, so the slot's place in the contract is read off its
  boots, monitors and pending timers without ambiguity. `Steady` adds that the
  size never moves, that slots beyond it have no boot, monitor or timer, and that a
  boot that is too late and a monitor that gives up are those of a pool that stops
  (for only then may a slot go off without a strike). `PoolKeepsPromise` then takes `SlotsSound` and
  `NeverBack` over from the contract.
* `Server_proofs`. One invariant, in parts: a slot is under way once, as a boot, a
  timer or a worker (`OneDuty`), which makes the processes that run somebody's
  (`Kept`, for `NobodyStrays`); a worker of a stopped pool cannot wake (`Asleep`) and
  Run's phases fit together (`Phases`), for `EndsClean`, which says of a program whose
  pools keep their size that it leaves nothing; a clock runs only in a wait, whoever's
  clock runs was sent SIGTERM, and Shutdown's goroutines tell only workers of the pool
  it waits for (`Calm`, `Told`, `Due`), for `GraceIsGiven`; a
  busy worker has one handler (`OneHolder`) and HTTP is drained before a pool
  stops (`Drained`), for `ServingIsSpared`; a path is freed before its process
  exists (`Owned`), for `SocketOwned`. `ServerSupervises` is the refinement. It
  needs more than the safety theorems did: a slot whose restarts are used up has
  no timer, boot or worker, a pool that was not started has no strikes, and a boot is
  too late only for a pool that stops (`Counts`), for the code looks at the limit only after a crash or a failed boot
  and the contract allows no boot beyond it. `ServerKeepsPromise` is `SlotsSound` and
  `NeverBack` of the slots of every pool.
* `Dispatcher_proofs`. `Typing`, `CountersRight`, `WorkersGivenUp` come from one
  invariant, `CountInv`: the types need the counters (a gauge that is decremented
  is positive because its handler is inside), and the counters are cardinalities
  that change by one as a handler moves. `NothingInherited`: a clean connection is
  handed over by the pool, not the handler, so `QuietWire` follows the worker
  through offer, handler and exchange, and `OneHand` (a worker has one handler)
  keeps other handlers off its connection.
* `Reconciler_proofs`. `SizeWithinEnvelope` rests on lemmas about the clamps,
  `BeliefRight` on the clamp being idempotent, `NeverFlaps` on the scale-down timer
  being no older than the last growth.
* `Startup_proofs`. `QueueRight` rests on `Derived`: the flag `derived` says exactly
  that the file gives no capacity, so each later change of the count changes the
  capacity as well. `PoolsRight` on `Checked`, what validation leaves of a
  configuration, and `ResolvedOrdered`: a workload that resolves has its bounds in
  order whatever its template. `StartupTyping` and `ReadinessRight` add `Origin`: each
  pool is the one Ensure makes of a workload, and without a `workloads` section
  there is one. `EndpointsRight` rests on what `Clean` is (`CleanIsNames`: it leaves
  names only; `CleanOfNames`: and leaves those alone): the first resolving makes the
  paths names, so that the second, with the flags, puts them below a clean prefix and
  a third would change nothing (`PathSettles`). `LimitsRight` (CPUs and
  memory, of one cgroup hierarchy) and `AdviceRight` follow from what detection leaves
  (`MachineInv`) and from `CeilLeast`, which says that rounding up gives the least
  count. `PrecedenceRight` rests on `FirstOfThree`: the
  first of three choices that is given is what `Given` inside `Given` picks.

What liveness rests on. That something happens in the end is out of the prover's
reach, as fairness is; but each of these properties holds because nothing is stuck and
because what is left to do gets less, and these are facts about states and steps. They
are proved, so that fairness alone is left to TLC:

| property | proved for every size |
| --- | --- |
| `SignalEnds` | `WaitsTimed`: every wait has its clock. `NoWaitIsForever`: Run can go on, or its deadline runs, or it waits for slots each of which can go on or has a deadline that runs. `StoppingGoesDown`: what a slot of a stopping pool has left (`Remaining`) only gets less. `RunGoesOn`: no step takes Run or Shutdown back, and each of theirs takes them on. All in `Server_proofs` |
| `StopEnds` | its first half: `StoppingGoesDown` of `WorkerPool_proofs`, scaling and double boots included: once Shutdown began each boot and monitor only gets nearer to its end, and a boot is asked for only by one that ended or by the SetDesired that still hands out its own. `ShutdownNeverStuck` of `FixedPool_proofs`: a monitor Shutdown waits for has an exit to take or somebody who will kill its process. That one is for `MaxScale = 0`: the process a double boot orphaned (section 4) is one nobody ends |
| `DrainEnds` | `PickedNeverForgotten`: a worker that was picked stays in somebody's hands until its process is gone |
| `RequestEnds` | `ServingGoesOn`: a handler with a worker has at most four steps left, and purgeIdle, which holds `p.mu`, ends |
| `RequestAnswered` | `HandlersGoOn`: at most eight steps, none goes back, nobody else moves a handler |
| `Converges` | `SizeNears`: a pass takes at least one unit off a delay that is bounded by the cooldown and `scale_down_idle_for` |

`ReadyAgain` has no such theorem: `NoSlotForgotten` is its safety half in WorkerPool
(`SlotsRemembered`), and in Server the contract of `ServerSupervises`: a slot is off
only for its limit or the end of its context.

Model-checked only: the liveness properties themselves (`RequestEnds`, `StopEnds`,
`DrainEnds`, `RequestAnswered`, `Converges`, `SignalEnds`, `ReadyAgain`), on their runs'
instances. Every other property of a passing run is a theorem.

## 7. Not modelled

Formatting, logs, metrics other than the in-flight gauge, HTTP headers, file
permissions, command lines and environments; the bytes of a frame; Windows signals;
`monitorDone` (a channel that is closed and never read; the double boot could close
it twice); the delays of the backoff, on which nothing else depends; the registry's
Update and Remove and the manager's Remove, which only tests call; YAML parsing; the
texts the parsers of `/proc` and cgroup files accept; craft, the
other commands and the logger.

## 8. Plan

1. done: WorkerLease, WorkerPool, Dispatcher, Scaling, Reconciler, Configuration,
   Detection, Startup, WorkerStart, Server, with their runs and the proofs above,
   the refinements of WorkerLease and Supervision among them.
2. done as far as it goes: the safety half of the liveness properties (section 6).
   What is left to TLC is fairness.
3. should the code change: `pool_double_boot`, `pool_busy_drained`, `pool_lost_idle`,
   `pool_orphan` and `startup_scaling` turn into passing runs when what they show is
   repaired; a BacklogProvider makes the size of a pool move, and then Server should
   take WorkerPool's scaling in.
