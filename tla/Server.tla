-------------------------------- MODULE Server --------------------------------
(***************************************************************************)
(* The life of the program: Server.Run and shutdown                        *)
(* (src/internal/server/server.go), StartAll and ShutdownAll               *)
(* (src/internal/worker/manager.go), Start, bootSlot, monitor and Shutdown *)
(* of the pools (src/internal/worker/pool.go), the handlers http.Shutdown  *)
(* waits for, the signal (src/cmd/eregion/main.go), and under them every   *)
(* process as WorkerStart has it.                                          *)
(*                                                                         *)
(* The pools are seen from outside here: the idle channel and its races,   *)
(* scaling and planned recycling are WorkerPool's.  What is added is time, *)
(* several pools, and the order Run does things in.                        *)
(*                                                                         *)
(* Scope: a program whose pools keep the size they start with, as one with *)
(* equal bounds does: the reconciler Run starts (server.go:177) calls      *)
(* SetDesired only to change a size (reconciler.go:92), and only           *)
(* SetDesired boots outside the wait group of the pool.  What is said here *)
(* of the end of the program is not so once pools are scaled: MCWorkerPool *)
(* with PoolOrphan.cfg shows a process that is left.                       *)
(***************************************************************************)
EXTENDS WorkerStart

CONSTANTS
    Pools, HttpPool,
    PoolOf,         \* the pool of each worker
    MinReady,       \* per pool: how many Start needs
    RestartLimit,   \* workers.restart_limit; 0: no limit
    HttpTimeout,    \* server.shutdown_timeout
    Slack,          \* the second ShutdownAll gets beyond workers.shutdown_timeout
    Requests, NoWorker, NoPool

ASSUME ServerAssumption ==
    /\ NoWorker \notin Worker /\ NoPool \notin Pools
    /\ PoolOf \in [Worker -> Pools] /\ MinReady \in [Pools -> Nat]
    /\ Http = {w \in Worker : PoolOf[w] = HttpPool}
    /\ RestartLimit \in Nat /\ HttpTimeout \in Nat /\ Slack \in Nat
    /\ Pools # {} /\ IsFiniteSet(Pools) /\ IsFiniteSet(Requests)

VARIABLES
    main,        \* where Run is
    why,         \* what made it stop
    signalled,   \* the context of Run, hence of every pool, is done
    cur,         \* the pool StartAll or ShutdownAll is at
    begun,       \* pools whose Start was called
    stopping,    \* pools whose Shutdown was called
    first,       \* slots whose boot in Start has not returned
    timer,       \* slots with a restart scheduled
    after,       \* slots whose restart, due or under way, follows a crash (afterCrash)
    crashes,     \* per slot: recorded crashes
    work,        \* per slot: the state of its worker, none if it has none
    stage,       \* where Shutdown of cur is
    hand,        \* the idle worker it is terminating
    owed,        \* those whose goroutine in Shutdown has yet to terminate them
    httpLeft, poolLeft,   \* ticks to the deadlines of http.Shutdown, ShutdownAll
    at,          \* per request: where its handler is
    on           \* and its worker, until the slot has lost it

runVars == <<main, why, signalled, cur, begun>>
slotVars == <<first, timer, after, crashes, work>>
stopVars == <<stopping, stage, hand, owed, httpLeft, poolLeft>>
reqVars == <<at, on>>
vars == <<startVars, runVars, slotVars, stopVars, reqVars>>

Main == {"starting", "listen", "serving", "draining", "stopping", "gone"}
Why == {"nothing", "start", "error", "signal"}
Work == {"none", "idle", "busy", "draining", "stopped"}
\* queued: until the handler has a worker; discard: terminating the one it had.
ReqAt == {"off", "queued", "serving", "discard", "done"}
Inside == {r \in Requests : at[r] \in {"queued", "serving", "discard"}}

Of(p) == {w \in Worker : PoolOf[w] = p}
Running(p) == {w \in Of(p) : work[w] # "none"}
\* A pool with nothing to boot asks for nothing.
Enough(p) == Of(p) = {} \/ Cardinality(Running(p)) >= MinReady[p]
CtxDone(w) == signalled \/ PoolOf[w] \in stopping
Exceeded(n) == RestartLimit > 0 /\ n > RestartLimit
Up == main # "gone"

Init ==
    /\ InitStart
    /\ main = "starting" /\ why = "nothing" /\ signalled = FALSE
    /\ cur = NoPool /\ begun = {}
    /\ stopping = {} /\ stage = "idle" /\ hand = NoWorker /\ owed = {}
    /\ httpLeft = Off /\ poolLeft = Off
    /\ first = {} /\ timer = {} /\ after = {}
    /\ crashes = [w \in Worker |-> 0]
    /\ work = [w \in Worker |-> "none"]
    /\ at = [r \in Requests |-> "off"]
    /\ on = [r \in Requests |-> NoWorker]

-----------------------------------------------------------------------------
(* A slot: bootSlot, scheduleRestart and monitor                           *)

\* The pool is looked at under the lock, Start is called after it.
BootBegins(w) ==
    /\ Up /\ boot[w] = "begin"
    /\ IF PoolOf[w] \in stopping
       THEN At(w, "off") /\ first' = first \ {w} /\ after' = after \ {w}
       ELSE At(w, "spawn") /\ UNCHANGED <<first, after>>
    /\ UNCHANGED <<proc, file, litter, clock, runVars, timer, crashes, work,
                   stopVars, reqVars>>

Starts(w) ==
    /\ Up /\ StartStep(w, CtxDone(w))
    /\ UNCHANGED <<runVars, slotVars, stopVars, reqVars>>

\* The slot gets its worker, or terminates it because the pool stops.
Installs(w) ==
    /\ Up /\ boot[w] = "started"
    /\ IF PoolOf[w] \in stopping
       THEN Reaps(w, "late") /\ UNCHANGED <<first, work>>
       ELSE /\ work' = [work EXCEPT ![w] = "idle"]
            /\ At(w, "off") /\ first' = first \ {w} /\ UNCHANGED <<proc, clock>>
    /\ after' = after \ {w}
    /\ UNCHANGED <<file, litter, runVars, timer, crashes, stopVars, reqVars>>

BootTooLate(w) ==
    /\ Up /\ boot[w] = "late" /\ Reaped(w, "off")
    /\ first' = first \ {w}
    /\ UNCHANGED <<file, litter, runVars, timer, after, crashes, work, stopVars, reqVars>>

\* recordCrashLocked: one more, less those restart_window has passed since.
Recorded(w) == \E n \in 1..(crashes[w] + 1) : crashes' = [crashes EXCEPT ![w] = n]

\* Mutant: no restart after a boot that failed.
BootFailedForGood(w) ==
    /\ Up /\ boot[w] = "failed"
    /\ At(w, "off") /\ first' = first \ {w}
    /\ IF w \in after THEN Recorded(w) ELSE UNCHANGED crashes
    /\ UNCHANGED <<proc, file, litter, clock, runVars, timer, after, work, stopVars, reqVars>>

\* A failed restart counts as a crash unless it follows a planned exit; a failed
\* first boot does not.
BootFailed(w) ==
    /\ Up /\ boot[w] = "failed"
    /\ At(w, "off") /\ first' = first \ {w}
    /\ IF w \in after THEN Recorded(w) ELSE UNCHANGED crashes
    /\ IF Exceeded(crashes'[w]) THEN after' = after \ {w} /\ UNCHANGED timer
       ELSE timer' = timer \cup {w} /\ after' = after \cup {w}
    /\ UNCHANGED <<proc, file, litter, clock, runVars, work, stopVars, reqVars>>

\* The backoff is over.
TimerFires(w) ==
    /\ Up /\ w \in timer
    /\ timer' = timer \ {w}
    /\ IF PoolOf[w] \in stopping THEN after' = after \ {w} /\ UNCHANGED boot
                                 ELSE At(w, "begin") /\ UNCHANGED after
    /\ UNCHANGED <<proc, file, litter, clock, runVars, first, crashes, work,
                   stopVars, reqVars>>

TimerQuits(w) ==
    /\ Up /\ w \in timer /\ CtxDone(w)
    /\ timer' = timer \ {w} /\ after' = after \ {w}
    /\ UNCHANGED <<startVars, runVars, first, crashes, work, stopVars, reqVars>>

\* The process is gone.  A worker that was told to go, and exited with 0, is
\* booted again at once; any other exit is a crash.
MonitorSees(w) ==
    /\ Up /\ work[w] # "none" /\ ~Alive(w)
    /\ work' = [work EXCEPT ![w] = "none"]
    /\ clock' = [clock EXCEPT ![w] = Off]
    /\ file' = [file EXCEPT ![w] = "no"]
    /\ \/ PoolOf[w] \in stopping /\ UNCHANGED <<timer, after, crashes>>
       \/ /\ PoolOf[w] \notin stopping /\ work[w] = "draining" /\ proc[w] = "exited"
          /\ timer' = timer \cup {w} /\ after' = after \ {w} /\ UNCHANGED crashes
       \/ /\ PoolOf[w] \notin stopping
          /\ Recorded(w)
          /\ IF Exceeded(crashes'[w]) THEN UNCHANGED <<timer, after>>
             ELSE timer' = timer \cup {w} /\ after' = after \cup {w}
    /\ on' = [r \in Requests |-> IF on[r] = w THEN NoWorker ELSE on[r]]
    /\ UNCHANGED <<proc, boot, litter, runVars, first, stopVars, at>>

\* SIGTERM with a deadline; a call that is under way keeps its own.
Terminated(w) ==
    /\ proc' = [proc EXCEPT ![w] = Signalled(w)]
    /\ clock' = [clock EXCEPT ![w] = IF @ = Off THEN 0 ELSE @]

\* terminateProcess: the grace is over.
GraceEnds(w) ==
    /\ Up /\ work[w] # "none" /\ clock[w] >= Grace /\ Alive(w)
    /\ proc' = [proc EXCEPT ![w] = Killed(w)]
    /\ UNCHANGED <<boot, file, litter, clock, runVars, slotVars, stopVars, reqVars>>

SlotStep(w) == \/ BootBegins(w) \/ Starts(w) \/ Installs(w) \/ BootTooLate(w)
               \/ BootFailed(w) \/ TimerQuits(w) \/ MonitorSees(w) \/ GraceEnds(w)

-----------------------------------------------------------------------------
(* Run                                                                     *)

PoolStarts(p) ==
    /\ main = "starting" /\ cur = NoPool /\ p \in Pools \ begun
    /\ cur' = p /\ begun' = begun \cup {p}
    /\ first' = Of(p)
    /\ boot' = [w \in Worker |-> IF w \in Of(p) THEN "begin" ELSE boot[w]]
    /\ UNCHANGED <<proc, file, litter, clock, main, why, signalled, timer,
                   after, crashes, work, stopVars, reqVars>>

\* The boots of Start have returned and enough workers run.  The reconciler that
\* starts with the last pool finds each at the size it wants.
PoolStarted ==
    /\ main = "starting" /\ cur # NoPool /\ first = {}
    /\ Enough(cur)
    /\ cur' = NoPool
    /\ main' = IF begun = Pools THEN "listen" ELSE main
    /\ UNCHANGED <<startVars, why, signalled, begun, slotVars, stopVars, reqVars>>

\* Too few do, or the socket directory cannot be made: Run returns, and what
\* was started is left to itself.
StartFails ==
    /\ main = "starting"
    /\ \/ cur # NoPool /\ first = {} /\ ~Enough(cur)
       \/ cur = NoPool /\ HttpPool \in Pools \ begun
    /\ main' = "gone" /\ why' = "start"
    /\ UNCHANGED <<startVars, signalled, cur, begun, slotVars, stopVars, reqVars>>

\* ShutdownAll begins; Off is context.Background.
Stops(reason, left) ==
    /\ main' = "stopping" /\ why' = reason /\ poolLeft' = left
    /\ UNCHANGED <<startVars, signalled, cur, begun, slotVars, stopping, stage,
                   hand, owed, httpLeft, reqVars>>

Listen ==
    /\ main = "listen"
    /\ \/ /\ main' = "serving"
          /\ UNCHANGED <<startVars, why, signalled, cur, begun, slotVars, stopVars, reqVars>>
       \/ Stops("error", Off)

ServeFails == main = "serving" /\ Stops("error", Off)

\* The signal is seen: shuttingDown, and the listener is closed.
Drain ==
    /\ main = "serving" /\ signalled
    /\ main' = "draining" /\ why' = "signal" /\ httpLeft' = HttpTimeout
    /\ UNCHANGED <<startVars, signalled, cur, begun, slotVars, stopping, stage,
                   hand, owed, poolLeft, reqVars>>

\* Mutant: the pools are stopped without waiting for the handlers.
DrainEndsAtOnce == main = "draining" /\ Stops("signal", Grace + Slack)

\* http.Shutdown returns.
DrainEnds ==
    /\ main = "draining" /\ (Inside = {} \/ httpLeft = 0)
    /\ Stops("signal", Grace + Slack)

-----------------------------------------------------------------------------
(* Pool.Shutdown                                                           *)

StopPool(p) ==
    /\ main = "stopping" /\ cur = NoPool /\ p \in Pools \ stopping
    /\ cur' = p /\ stopping' = stopping \cup {p} /\ stage' = "idle"
    /\ UNCHANGED <<startVars, main, why, signalled, begun, slotVars, hand,
                   owed, httpLeft, poolLeft, reqVars>>

\* Workers in the idle channel go one after the other.
StopIdle(w) ==
    /\ main = "stopping" /\ stage = "idle" /\ hand = NoWorker
    /\ w \in Http \cap Of(cur) /\ work[w] = "idle"
    /\ hand' = w /\ work' = [work EXCEPT ![w] = "stopped"]
    /\ Terminated(w)
    /\ UNCHANGED <<boot, file, litter, runVars, first, timer, after, crashes, stopping,
                   stage, owed, httpLeft, poolLeft, reqVars>>

StopIdleEnds ==
    /\ hand # NoWorker /\ ~Alive(hand)
    /\ hand' = NoWorker
    /\ UNCHANGED <<startVars, runVars, slotVars, stopping, stage, owed,
                   httpLeft, poolLeft, reqVars>>

\* The others go together, each in a goroutine.
StopRest ==
    /\ main = "stopping" /\ cur # NoPool /\ stage = "idle" /\ hand = NoWorker
    /\ \A w \in Http \cap Of(cur) : work[w] # "idle"
    /\ work' = [w \in Worker |-> IF w \in Running(cur) /\ work[w] # "stopped"
                                 THEN "draining" ELSE work[w]]
    /\ owed' = Running(cur)
    /\ stage' = "wait"
    /\ UNCHANGED <<startVars, runVars, first, timer, after, crashes, stopping,
                   hand, httpLeft, poolLeft, reqVars>>

\* Such a goroutine comes to terminateWorker, which does nothing to a process
\* that was waited for.
StopTells(w) ==
    /\ w \in owed /\ owed' = owed \ {w}
    /\ IF work[w] = "none" THEN UNCHANGED <<proc, clock>> ELSE Terminated(w)
    /\ UNCHANGED <<boot, file, litter, runVars, slotVars, stopping, stage, hand,
                   httpLeft, poolLeft, reqVars>>

\* The deadline all the pools share has passed, be it before the first of those
\* goroutines runs.
StopKills ==
    /\ stage = "wait" /\ poolLeft = 0
    /\ proc' = [w \in Worker |-> IF w \in Running(cur) THEN Killed(w) ELSE proc[w]]
    /\ stage' = "killed"
    /\ UNCHANGED <<boot, file, litter, clock, runVars, slotVars, stopping, hand,
                   owed, httpLeft, poolLeft, reqVars>>

\* Mutant: boots are not waited for.
WaitedForWorkers(p) == \A w \in Of(p) : work[w] = "none"

\* Monitors, timers and boots have returned, terminateWorker too.
Waited(p) ==
    /\ owed = {}
    /\ \A w \in Of(p) : work[w] = "none" /\ boot[w] = "off" /\ w \notin timer

\* CleanupDir is the last thing.
StopDone ==
    /\ stage \in {"wait", "killed"} /\ Waited(cur)
    /\ file' = [w \in Worker |-> IF w \in Of(cur) THEN "no" ELSE file[w]]
    /\ litter' = litter \ Of(cur)
    /\ cur' = NoPool /\ stage' = "idle"
    /\ UNCHANGED <<proc, boot, clock, main, why, signalled, begun, slotVars,
                   stopping, hand, owed, httpLeft, poolLeft, reqVars>>

Leave ==
    /\ main = "stopping" /\ cur = NoPool /\ stopping = Pools
    /\ main' = "gone"
    /\ UNCHANGED <<startVars, why, signalled, cur, begun, slotVars, stopVars, reqVars>>

RunStep ==
    \/ \E p \in Pools : PoolStarts(p) \/ StopPool(p)
    \/ PoolStarted \/ StartFails \/ Listen \/ Drain \/ DrainEnds
    \/ \E w \in Worker : StopIdle(w) \/ StopTells(w)
    \/ StopIdleEnds \/ StopRest \/ StopKills \/ StopDone \/ Leave

-----------------------------------------------------------------------------
(* Handlers                                                                *)

\* Requests come while the listener is open.
Arrives(r) ==
    /\ main = "serving" /\ at[r] = "off"
    /\ at' = [at EXCEPT ![r] = "queued"]
    /\ UNCHANGED <<startVars, runVars, slotVars, stopVars, on>>

Takes(r, w) ==
    /\ Up /\ at[r] = "queued"
    /\ w \in Http /\ work[w] = "idle" /\ HttpPool \notin stopping
    /\ at' = [at EXCEPT ![r] = "serving"] /\ on' = [on EXCEPT ![r] = w]
    /\ work' = [work EXCEPT ![w] = "busy"]
    /\ UNCHANGED <<startVars, runVars, first, timer, after, crashes, stopVars>>

\* acquire_timeout
GivesUp(r) ==
    /\ Up /\ at[r] = "queued"
    /\ at' = [at EXCEPT ![r] = "done"]
    /\ UNCHANGED <<startVars, runVars, slotVars, stopVars, on>>

\* ErrPoolShuttingDown
Refused(r) == (signalled \/ HttpPool \in stopping) /\ GivesUp(r)

\* The worker answers and is released: back to the channel, or told to go.
Answered(r) ==
    /\ Up /\ at[r] = "serving" /\ on[r] # NoWorker
    /\ Alive(on[r]) /\ work[on[r]] = "busy"
    /\ at' = [at EXCEPT ![r] = "done"] /\ on' = [on EXCEPT ![r] = NoWorker]
    /\ IF HttpPool \in stopping
       THEN /\ work' = [work EXCEPT ![on[r]] = "draining"]
            /\ proc' = [proc EXCEPT ![on[r]] = Signalled(on[r])]
       ELSE work' = [work EXCEPT ![on[r]] = "idle"] /\ UNCHANGED proc
    /\ UNCHANGED <<boot, file, litter, clock, runVars, first, timer, after, crashes, stopVars>>

\* Send fails and the worker is discarded, unless it is not the slot's any more.
Fails(r) ==
    /\ Up /\ at[r] = "serving"
    /\ IF on[r] = NoWorker
       THEN at' = [at EXCEPT ![r] = "done"] /\ UNCHANGED <<proc, clock, work>>
       ELSE /\ at' = [at EXCEPT ![r] = "discard"]
            /\ work' = [work EXCEPT ![on[r]] = "draining"]
            /\ Terminated(on[r])
    /\ UNCHANGED <<boot, file, litter, runVars, first, timer, after, crashes, stopVars, on>>

\* The process died, or terminateWorker closed the connection.
Broken(r) == on[r] # NoWorker => ~Alive(on[r]) \/ (work[on[r]] # "busy" /\ on[r] \notin owed)

\* Mutant: the handler keeps the worker.
DiscardEndsHolding(r) ==
    /\ Up /\ at[r] = "discard" /\ (on[r] # NoWorker => ~Alive(on[r]))
    /\ at' = [at EXCEPT ![r] = "done"]
    /\ UNCHANGED <<startVars, runVars, slotVars, stopVars, on>>

DiscardEnds(r) ==
    /\ Up /\ at[r] = "discard" /\ (on[r] # NoWorker => ~Alive(on[r]))
    /\ at' = [at EXCEPT ![r] = "done"] /\ on' = [on EXCEPT ![r] = NoWorker]
    /\ UNCHANGED <<startVars, runVars, slotVars, stopVars>>

HandlerStep(r) ==
    \/ \E w \in Worker : Takes(r, w)
    \/ Refused(r) \/ (Broken(r) /\ Fails(r)) \/ DiscardEnds(r)

-----------------------------------------------------------------------------

\* What the program does without delay.
ProgramStep ==
    \/ RunStep
    \/ \E w \in Worker : SlotStep(w)
    \/ \E r \in Requests : HandlerStep(r)

\* SIGTERM or SIGINT.
Signal ==
    /\ Up /\ ~signalled /\ signalled' = TRUE
    /\ UNCHANGED <<startVars, main, why, cur, begun, slotVars, stopVars, reqVars>>

\* What comes from outside, and the waits whose length does not matter here:
\* backoff, acquire_timeout, request_timeout.
Outside ==
    \/ Signal \/ ServeFails
    \/ \E w \in Worker : \/ TimerFires(w)
                         \/ Up /\ ProcessStep(w) /\ UNCHANGED <<runVars, slotVars, stopVars, reqVars>>
    \/ \E r \in Requests : Arrives(r) \/ GivesUp(r) \/ Answered(r) \/ Fails(r)

Waiting == {w \in Worker : clock[w] # Off /\ clock[w] < Longest}
Left(n) == IF n > 0 THEN n - 1 ELSE n

Passes ==
    /\ Up /\ (Waiting # {} \/ httpLeft > 0 \/ poolLeft > 0)
    /\ clock' = [w \in Worker |-> IF w \in Waiting THEN clock[w] + 1 ELSE clock[w]]
    /\ httpLeft' = IF main = "draining" THEN Left(httpLeft) ELSE httpLeft
    /\ poolLeft' = Left(poolLeft)
    /\ UNCHANGED <<proc, boot, file, litter, runVars, slotVars, stopping, stage,
                   hand, owed, reqVars>>

\* Time passes when the program has nothing to do but wait.
Tick == ~ENABLED ProgramStep /\ Passes

Ended == ~Up /\ UNCHANGED vars

Next == ProgramStep \/ Outside \/ Tick \/ Ended

Spec == Init /\ [][Next]_vars

\* Run, the goroutines of each slot and each handler go on when they can, and
\* waits end: Go's scheduler gives that.  Nothing is assumed of the processes, of
\* the requests or of who sends the signal.
Fairness ==
    /\ WF_vars(RunStep) /\ WF_vars(Passes)
    /\ \A w \in Worker : WF_vars(SlotStep(w) \/ TimerFires(w))
    /\ \A r \in Requests : WF_vars(HandlerStep(r))

FairSpec == Spec /\ Fairness

-----------------------------------------------------------------------------
(* Properties                                                              *)

TypeOK ==
    /\ StartTypeOK
    /\ main \in Main /\ why \in Why /\ signalled \in BOOLEAN
    /\ cur \in Pools \cup {NoPool} /\ begun \subseteq Pools /\ stopping \subseteq Pools
    /\ first \subseteq Worker /\ timer \subseteq Worker /\ after \subseteq Worker
    /\ crashes \in [Worker -> Nat]
    /\ work \in [Worker -> Work]
    /\ stage \in {"idle", "wait", "killed"}
    /\ hand \in Worker \cup {NoWorker} /\ owed \subseteq Worker
    /\ httpLeft \in Nat \cup {Off} /\ poolLeft \in Nat \cup {Off}
    /\ at \in [Requests -> ReqAt]
    /\ on \in [Requests -> Worker \cup {NoWorker}]
    /\ \A r \in Requests : on[r] # NoWorker => at[r] \in {"serving", "discard"}

\* A process that runs is in somebody's hands for as long as the program does:
\* a boot's or a slot's.  Every error path of Start and bootSlot terminates
\* what it spawned.  (Of pools that keep their size: where SetDesired boots a slot
\* twice, one process is nobody's; see WorkerPool.)
NoStrayProcess ==
    \A w \in Worker : Up /\ Alive(w) => boot[w] \notin {"off", "begin", "spawn", "failed"}
                                        \/ work[w] # "none"

\* When Run ends once the pools are up, by the signal or an error, and whatever
\* came before, a program whose pools keep their size leaves no process and no
\* socket behind: Shutdown waits for the boots and the monitors, and cleans up
\* last.  Only the boots of SetDesired are not waited for (pool.go:549).
CleanEnd ==
    main = "gone" /\ why # "start" =>
        litter = {} /\ \A w \in Worker : ~Alive(w) /\ file[w] = "no"

\* Nobody signals or kills a worker that serves a request, unless Run stops for
\* an error or server.shutdown_timeout has passed since the signal was seen: HTTP
\* is drained before the first pool is stopped.
ServingSpared ==
    [][\A r \in Requests :
          at[r] = "serving" /\ at'[r] = "serving" /\ on[r] # NoWorker
             => \/ proc'[on[r]] = proc[on[r]] \/ proc'[on[r]] = "exited"
                \/ httpLeft = 0 \/ why \notin {"nothing", "signal"}]_vars

\* A process is killed only once workers.shutdown_timeout has passed since its
\* SIGTERM, whichever of boots, monitors, handlers and Shutdown ends it; but for
\* the deadline all the pools share: when it has passed, the pool being stopped
\* kills what it still has, told to go or not (manager.go:141, pool.go:876-885).
GraceGiven ==
    [][\A w \in Worker : Alive(w) /\ proc'[w] = "killed"
           => \/ proc[w] = "term" /\ clock[w] >= Grace
              \/ poolLeft = 0 /\ PoolOf[w] = cur]_vars

\* The signal ends the program, whatever the processes and the requests do, as
\* long as its pools keep their size (the process of a double boot can hang
\* Shutdown): what was signalled stays so, and the end is an end.
SignalEnds == []<>(signalled => main = "gone")

\* ReadyHandler
Ready ==
    /\ why # "signal" /\ HttpPool \notin stopping
    /\ Cardinality({w \in Http : work[w] \in {"idle", "busy", "draining"}})
           >= MinReady[HttpPool]

\* A server that is not ready gets ready again, until a slot has used up its
\* restarts or Run ends, or else its boots go on being tried and fail: those that
\* take longer than restart_window allows never use the restarts up.
ReadyAgain ==
    []<>(\/ Ready \/ main # "serving"
         \/ \E w \in Http : Exceeded(crashes[w]) \/ boot[w] = "failed")

\* Every slot of every pool is supervised as Supervision says, from the first
\* boot to the end of the program, over time and across pools: boots that fail
\* late, timers, exits, and a Shutdown of one pool while the others run, the pools
\* keeping their size.
Life(w) ==
    IF PoolOf[w] \notin begun THEN "new"
    ELSE IF w \in timer \/ boot[w] = "begin" THEN "due"
    ELSE IF boot[w] # "off" THEN "boot"
    ELSE IF work[w] # "none" THEN "up" ELSE "off"
Lives == [w \in Worker |-> Life(w)]
Living == {w \in Worker : Alive(w)}
Cancelled == {w \in Worker : CtxDone(w)}
Halted == {w \in Worker : PoolOf[w] \in stopping}
Supervised == INSTANCE Supervision WITH
    Slot <- Worker, Limit <- RestartLimit, life <- Lives, alive <- Living,
    strikes <- crashes, done <- Cancelled, stopped <- Halted

Supervises == Supervised!Spec

=============================================================================
