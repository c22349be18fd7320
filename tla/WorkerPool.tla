----------------------------- MODULE WorkerPool -----------------------------
(***************************************************************************)
(* One worker pool (src/internal/worker/pool.go): a fixed range of slots,  *)
(* each of which runs successive generations of an OS process, the channel *)
(* of idle workers that requests pop from and push to, the monitors that   *)
(* notice an exit and schedule the restart, the reconciler's SetDesired,   *)
(* and Shutdown.                                                           *)
(*                                                                         *)
(* A worker is <<slot, generation>>.  Every critical section of p.mu is    *)
(* one action; the only section that is more than one step is purgeIdle,   *)
(* because it pops and pushes the channel item by item while others use    *)
(* the channel without the lock, so "purge" doubles as the holder of p.mu. *)
(* What the code does outside the lock is a step of its own: the pushes of *)
(* bootSlot and Release, the pops of Acquire, setState(Busy), signals.     *)
(***************************************************************************)
EXTENDS Integers, Sequences, FiniteSets

CONSTANTS
    HTTP,          \* mode: TRUE for workload.ModeHTTP, FALSE for ModeConsumer
    Min, Max,      \* minW and maxW
    InitDesired,   \* desired after NewWorkloadPool has clamped it
    MinReady,      \* workers Start requires
    RestartLimit,  \* workers.restart_limit; 0 means no limit
    Requests,      \* the handlers that may be inside the dispatcher at once
    MaxGen,        \* bound: generations a slot may start
    MaxBoots,      \* bound: generations all slots together may start
    MaxScale       \* bound: calls of SetDesired that change the pool

ASSUME PoolAssumption ==
    /\ HTTP \in BOOLEAN
    /\ Min \in Nat /\ Max \in Nat /\ InitDesired \in Nat
    /\ Min <= InitDesired /\ InitDesired <= Max
    /\ MinReady \in Nat /\ RestartLimit \in Nat
    /\ MaxGen \in Nat /\ MaxBoots \in Nat /\ MaxScale \in Nat

Slot == 1..Max
Gen == 1..MaxGen
Worker == Slot \X Gen
NoWorker == <<0, 0>>
IdleCap == IF Max < 1 THEN 1 ELSE Max

(* Who asked for a boot: Start, SetDesired, or scheduleRestart without and  *)
(* with backoff.  Only scheduleRestart's goroutine is counted by p.wg, and  *)
(* only its backoff variant passes afterCrash to bootSlot.                  *)
Kind == {"start", "scale", "planned", "crash"}
Restart == {"planned", "crash"}

WState == {"none", "idle", "busy", "draining", "dead", "stopped"}
\* up: running; term: connection closed and SIGTERM sent; clean, fail: exited
\* with status 0, or not; reaped: cmd.Wait has returned
Proc == {"none", "up", "term", "clean", "fail", "reaped"}
\* doomed: the start will fail, for its spawn did or its context has ended
Boot == [at : {"no", "starting", "doomed", "push", "reap"}, kind : Kind]
NoBoot == [at |-> "no", kind |-> "start"]
Monitor == {"none", "wait", "quit", "planned", "crash", "record", "done"}
ReqAt == {"off", "try", "tryHas", "queued", "queuedHas", "claimed", "busy",
          "answered", "recycle", "putBack", "discard"}
Term == [w : Worker, by : {"scale", "stop"}, stage : {"signal", "grace"}]
NoPurge == [left |-> 0, w |-> NoWorker, hand |-> NoWorker]
Purge == {NoPurge} \cup [left : Nat \ {0}, w : Worker, hand : Worker \cup {NoWorker}]

VARIABLES
    phase,        \* Start: starting, running, or failed (the program exits)
    desired, ctxDone, stopping,
    generation, slotWorker, plannedExit, crashes,  \* per slot
    pending,      \* per slot and kind: boots asked for that have not begun
    wstate, proc, boot, mon,                       \* per worker
    idle,         \* the channel p.idle
    purge,        \* purgeIdle in progress, which holds p.mu
    at, held,     \* per request: where it is, the worker it holds
    drains, boots, scales,   \* SetDesired past its critical section
    terms,        \* terminateWorker calls in progress
    sd            \* Shutdown

poolVars == <<phase, desired, ctxDone, stopping>>
slotVars == <<generation, slotWorker, plannedExit, crashes>>
workVars == <<wstate, proc, boot, mon>>
chanVars == <<idle, purge>>
reqVars == <<at, held>>
scaleVars == <<drains, boots, scales>>
vars == <<poolVars, slotVars, pending, workVars, chanVars, reqVars,
          scaleVars, terms, sd>>

-----------------------------------------------------------------------------
(* Helpers                                                                 *)

Current(w) == slotWorker[w[1]] = w[2]
BootAt(w, place) == [at |-> place, kind |-> boot[w].kind]
Alive(w) == proc[w] \in {"up", "term"}
\* s.retired is assigned only by SetDesired, together with p.desired, so
\* "s.retired || s.index > p.desired" is this at every point.
Retired(s) == s > desired
LockFree == purge = NoPurge
\* A failed Start ends the program: nothing of it runs any more.
Up == phase # "failed"
Exceeds(n) == RestartLimit > 0 /\ n > RestartLimit
Exceeded(s) == Exceeds(crashes[s])
Has(q, w) == \E i \in 1..Len(q) : q[i] = w
Distinct(q) == \A i, j \in 1..Len(q) : q[i] = q[j] => i = j

Killed(w) == IF Alive(w) THEN "fail" ELSE proc[w]
Signalled(w) == IF proc[w] = "up" THEN "term" ELSE proc[w]

\* A send on p.idle in a select with a default: dropped when it is full.
Offer(w) == idle' = IF Len(idle) < IdleCap THEN Append(idle, w) ELSE idle

\* Mutant: the restart is scheduled without looking at the limit.
CrashRecordedUnlimited(s) ==
    \E n \in 1..(crashes[s] + 1) :
        /\ crashes' = [crashes EXCEPT ![s] = n]
        /\ pending' = [pending EXCEPT ![s]["crash"] = @ + 1]

\* recordCrashLocked and exceededRestartPolicyLocked: the new entry is in the
\* window, any of the older ones may have left it.
\* A slot over the limit gets no restart.
CrashRecorded(s) ==
    \E n \in 1..(crashes[s] + 1) :
        /\ crashes' = [crashes EXCEPT ![s] = n]
        /\ pending' = IF Exceeds(n) THEN pending
                      ELSE [pending EXCEPT ![s]["crash"] = @ + 1]

-----------------------------------------------------------------------------
(* Start, bootSlot and the restart timers                                  *)

Init ==
    /\ phase = "starting"
    /\ desired = InitDesired
    /\ ctxDone = FALSE /\ stopping = FALSE
    /\ generation = [s \in Slot |-> 0]
    /\ slotWorker = [s \in Slot |-> 0]
    /\ plannedExit = [s \in Slot |-> FALSE]
    /\ crashes = [s \in Slot |-> 0]
    /\ pending = [s \in Slot |-> [k \in Kind |->
                     IF k = "start" /\ s <= InitDesired THEN 1 ELSE 0]]
    /\ wstate = [w \in Worker |-> "none"]
    /\ proc = [w \in Worker |-> "none"]
    /\ boot = [w \in Worker |-> NoBoot]
    /\ mon = [w \in Worker |-> "none"]
    /\ idle = <<>> /\ purge = NoPurge
    /\ at = [r \in Requests |-> "off"]
    /\ held = [r \in Requests |-> NoWorker]
    /\ drains = {} /\ boots = {} /\ scales = 0
    /\ terms = {} /\ sd = "no"

Started == {w \in Worker : w[2] <= generation[w[1]]}
Installed == {s \in Slot : slotWorker[s] # 0}

\* Start after its wg.Wait(): every first boot has returned.  A pool with too
\* few workers makes Server.Run return, and the program exits.
StartReturns ==
    /\ phase = "starting" /\ LockFree
    /\ \A s \in Slot : pending[s]["start"] = 0
    /\ \A w \in Worker : boot[w].at = "no" \/ boot[w].kind # "start"
    /\ phase' = IF Cardinality(Installed) < MinReady THEN "failed" ELSE "running"
    /\ UNCHANGED <<desired, ctxDone, stopping, slotVars, pending, workVars,
                   chanVars, reqVars, scaleVars, terms, sd>>

\* bootSlot's first critical section and the spawn that follows it.  The spawn
\* may fail; under a cancelled context an HTTP start cannot dial its socket.
\* For a restart this is also the timer firing and its own check.
BootBegin(s, k) ==
    /\ Up /\ pending[s][k] > 0 /\ LockFree
    /\ ~stopping /\ ~Retired(s)
    /\ generation[s] < MaxGen /\ Cardinality(Started) < MaxBoots
    /\ LET w == <<s, generation[s] + 1>> IN
       \E p \in {"none", "up"} :
          /\ proc' = [proc EXCEPT ![w] = p]
          /\ boot' = [boot EXCEPT ![w] =
                [at |-> IF p = "none" \/ (HTTP /\ ctxDone) THEN "doomed" ELSE "starting",
                 kind |-> k]]
    /\ generation' = [generation EXCEPT ![s] = @ + 1]
    /\ pending' = [pending EXCEPT ![s][k] = @ - 1]
    /\ UNCHANGED <<poolVars, slotWorker, plannedExit, crashes, wstate, mon,
                   chanVars, reqVars, scaleVars, terms, sd>>

\* Mutant: the timer does not watch the pool's context, nor the stop flag.
BootRefusedRetired(s, k) ==
    /\ Up /\ pending[s][k] > 0 /\ LockFree
    /\ Retired(s)
    /\ pending' = [pending EXCEPT ![s][k] = @ - 1]
    /\ UNCHANGED <<poolVars, slotVars, workVars, chanVars, reqVars, scaleVars,
                   terms, sd>>

\* bootSlot refuses, or the restart goroutine returns without calling it.
BootRefused(s, k) ==
    /\ Up /\ pending[s][k] > 0 /\ LockFree
    /\ stopping \/ Retired(s) \/ (ctxDone /\ k \in Restart)
    /\ pending' = [pending EXCEPT ![s][k] = @ - 1]
    /\ UNCHANGED <<poolVars, slotVars, workVars, chanVars, reqVars, scaleVars,
                   terms, sd>>

\* Mutant: a start that fails after its spawn leaves the process running.
BootFailsLeaking(w) ==
    /\ Up /\ LockFree
    /\ boot[w].at = "doomed" \/ (HTTP /\ boot[w].at = "starting")
    /\ boot' = [boot EXCEPT ![w] = NoBoot]
    /\ slotWorker' = [slotWorker EXCEPT ![w[1]] = 0]
    /\ pending' = [pending EXCEPT ![w[1]]["crash"] = @ + 1]
    /\ UNCHANGED <<poolVars, generation, plannedExit, crashes, wstate, proc,
                   mon, chanVars, reqVars, scaleVars, terms, sd>>

\* starter.Start returned an error: an HTTP start that spawned has already run
\* terminateProcess; a consumer start fails only when the spawn does.
BootFails(w) ==
    /\ Up /\ LockFree
    /\ boot[w].at = "doomed" \/ (HTTP /\ boot[w].at = "starting")
    /\ proc' = [proc EXCEPT ![w] = Killed(w)]
    /\ boot' = [boot EXCEPT ![w] = NoBoot]
    /\ slotWorker' = [slotWorker EXCEPT ![w[1]] = 0]
    /\ IF boot[w].kind = "crash" THEN CrashRecorded(w[1])
       ELSE /\ pending' = IF Exceeded(w[1]) THEN pending
                          ELSE [pending EXCEPT ![w[1]]["crash"] = @ + 1]
            /\ UNCHANGED crashes
    /\ UNCHANGED <<poolVars, generation, plannedExit, wstate, mon, chanVars,
                   reqVars, scaleVars, terms, sd>>

\* Mutant: the pool's state is not read again after the spawn.
BootInstallsBlindly(w) ==
    /\ Up /\ boot[w].at = "starting" /\ LockFree
    /\ slotWorker' = [slotWorker EXCEPT ![w[1]] = w[2]]
    /\ plannedExit' = [plannedExit EXCEPT ![w[1]] = FALSE]
    /\ wstate' = [wstate EXCEPT ![w] = "idle"]
    /\ mon' = [mon EXCEPT ![w] = "wait"]
    /\ boot' = [boot EXCEPT ![w] = IF HTTP THEN BootAt(w, "push") ELSE NoBoot]
    /\ UNCHANGED <<poolVars, generation, crashes, pending, proc, chanVars,
                   reqVars, scaleVars, terms, sd>>

\* The second critical section: the worker becomes the slot's, whatever the
\* slot held, and its monitor starts.
BootInstalls(w) ==
    /\ Up /\ boot[w].at = "starting" /\ LockFree
    /\ ~stopping /\ ~Retired(w[1])
    /\ slotWorker' = [slotWorker EXCEPT ![w[1]] = w[2]]
    /\ plannedExit' = [plannedExit EXCEPT ![w[1]] = FALSE]
    /\ wstate' = [wstate EXCEPT ![w] = "idle"]
    /\ mon' = [mon EXCEPT ![w] = "wait"]
    /\ boot' = [boot EXCEPT ![w] = IF HTTP THEN BootAt(w, "push") ELSE NoBoot]
    /\ UNCHANGED <<poolVars, generation, crashes, pending, proc, chanVars,
                   reqVars, scaleVars, terms, sd>>

\* The same section when the pool stopped or shrank meanwhile ...
BootTooLate(w) ==
    /\ Up /\ boot[w].at = "starting" /\ LockFree
    /\ stopping \/ Retired(w[1])
    /\ boot' = [boot EXCEPT ![w] = BootAt(w, "reap")]
    /\ UNCHANGED <<poolVars, slotVars, pending, wstate, proc, mon, chanVars,
                   reqVars, scaleVars, terms, sd>>

\* ... and the terminateProcess it then runs.
BootReaps(w) ==
    /\ Up /\ boot[w].at = "reap"
    /\ proc' = [proc EXCEPT ![w] = Killed(w)]
    /\ boot' = [boot EXCEPT ![w] = NoBoot]
    /\ UNCHANGED <<poolVars, slotVars, pending, wstate, mon, chanVars, reqVars,
                   scaleVars, terms, sd>>

BootPush(w) ==
    /\ Up /\ boot[w].at = "push"
    /\ Offer(w)
    /\ boot' = [boot EXCEPT ![w] = NoBoot]
    /\ UNCHANGED <<poolVars, slotVars, pending, wstate, proc, mon, purge,
                   reqVars, scaleVars, terms, sd>>

-----------------------------------------------------------------------------
(* The process, its monitor, and purgeIdle                                 *)

\* A worker process may exit at any time, with or without being asked to.
ProcExit(w) ==
    /\ Alive(w)
    /\ \E p \in {"clean", "fail"} : proc' = [proc EXCEPT ![w] = p]
    /\ UNCHANGED <<poolVars, slotVars, pending, wstate, boot, mon, chanVars,
                   reqVars, scaleVars, terms, sd>>

\* cmd.Wait returns for a generation the slot no longer holds.
MonitorStale(w) ==
    /\ Up /\ mon[w] = "wait" /\ proc[w] \in {"clean", "fail"} /\ LockFree
    /\ ~Current(w)
    /\ mon' = [mon EXCEPT ![w] = "done"]
    /\ proc' = [proc EXCEPT ![w] = "reaped"]
    /\ UNCHANGED <<poolVars, slotVars, pending, wstate, boot, chanVars, reqVars,
                   scaleVars, terms, sd>>

\* Mutant: a planned exit is taken for the end of the slot.
MonitorExitQuits(w) ==
    /\ Up /\ mon[w] = "wait" /\ proc[w] \in {"clean", "fail"} /\ LockFree
    /\ Current(w)
    /\ mon' = [mon EXCEPT ![w] =
                  IF stopping \/ Retired(w[1]) \/ plannedExit[w[1]]
                  THEN "quit" ELSE "crash"]
    /\ proc' = [proc EXCEPT ![w] = "reaped"]
    /\ wstate' = [wstate EXCEPT ![w] = "dead"]
    /\ slotWorker' = [slotWorker EXCEPT ![w[1]] = 0]
    /\ UNCHANGED <<poolVars, generation, plannedExit, crashes, pending, boot,
                   chanVars, reqVars, scaleVars, terms, sd>>

\* cmd.Wait returns for the slot's worker: what the monitor will do next is
\* decided here, from the state read under the lock.
MonitorExit(w) ==
    /\ Up /\ mon[w] = "wait" /\ proc[w] \in {"clean", "fail"} /\ LockFree
    /\ Current(w)
    /\ LET planned == \/ plannedExit[w[1]]
                      \/ proc[w] = "clean" /\ wstate[w] = "draining"
       IN mon' = [mon EXCEPT ![w] = IF stopping \/ Retired(w[1]) THEN "quit"
                                    ELSE IF planned THEN "planned" ELSE "crash"]
    /\ proc' = [proc EXCEPT ![w] = "reaped"]
    /\ wstate' = [wstate EXCEPT ![w] = "dead"]
    /\ slotWorker' = [slotWorker EXCEPT ![w[1]] = 0]
    /\ UNCHANGED <<poolVars, generation, plannedExit, crashes, pending, boot,
                   chanVars, reqVars, scaleVars, terms, sd>>

\* purgeIdle(w) takes p.mu and reads len(p.idle).
PurgeBegins(w) ==
    /\ LockFree
    /\ purge' = IF idle = <<>> THEN NoPurge
                ELSE [left |-> Len(idle), w |-> w, hand |-> NoWorker]

PurgeStepDone(hand) ==
    purge' = IF hand = NoWorker /\ purge.left = 1 THEN NoPurge
             ELSE [left |-> IF hand = NoWorker THEN purge.left - 1 ELSE purge.left,
                   w |-> purge.w, hand |-> hand]

\* One receive of the loop: the purged worker is dropped, another is kept in
\* hand until it is sent back, an empty channel ends the loop.
PurgePop ==
    /\ Up /\ ~LockFree /\ purge.hand = NoWorker
    /\ IF idle = <<>> THEN purge' = NoPurge /\ UNCHANGED idle
       ELSE /\ idle' = Tail(idle)
            /\ PurgeStepDone(IF Head(idle) = purge.w THEN NoWorker ELSE Head(idle))
    /\ UNCHANGED <<poolVars, slotVars, pending, workVars, reqVars, scaleVars,
                   terms, sd>>

\* Mutant: the loop sends back the worker it purges, not the one in hand.
PurgePushPurged ==
    /\ Up /\ purge.hand # NoWorker
    /\ Offer(purge.w)
    /\ PurgeStepDone(NoWorker)
    /\ UNCHANGED <<poolVars, slotVars, pending, workVars, reqVars, scaleVars,
                   terms, sd>>

PurgePush ==
    /\ Up /\ purge.hand # NoWorker
    /\ Offer(purge.hand)
    /\ PurgeStepDone(NoWorker)
    /\ UNCHANGED <<poolVars, slotVars, pending, workVars, reqVars, scaleVars,
                   terms, sd>>

\* The monitor purges the dead worker, then does what it decided: nothing, a
\* restart without delay, or the crash record (which waits for the lock the
\* purge holds, as every effect of a restart does).
MonitorPurges(w) ==
    /\ Up /\ mon[w] \in {"quit", "planned", "crash"}
    /\ PurgeBegins(w)
    /\ mon' = [mon EXCEPT ![w] = IF @ = "crash" THEN "record" ELSE "done"]
    /\ pending' = IF mon[w] = "planned"
                  THEN [pending EXCEPT ![w[1]]["planned"] = @ + 1] ELSE pending
    /\ UNCHANGED <<poolVars, slotVars, wstate, proc, boot, idle, reqVars,
                   scaleVars, terms, sd>>

MonitorRecords(w) ==
    /\ Up /\ mon[w] = "record" /\ LockFree
    /\ CrashRecorded(w[1])
    /\ mon' = [mon EXCEPT ![w] = "done"]
    /\ UNCHANGED <<poolVars, generation, slotWorker, plannedExit, wstate, proc,
                   boot, chanVars, reqVars, scaleVars, terms, sd>>

-----------------------------------------------------------------------------
(* Requests: what dispatcher.ServeHTTP does with the pool                  *)

unchangedByRequest == <<poolVars, generation, crashes, pending, boot, mon,
                        purge, scaleVars, terms, sd>>

Goes(r, place) == at' = [at EXCEPT ![r] = place]
Leaves(r) == Goes(r, "off") /\ held' = [held EXCEPT ![r] = NoWorker]

Arrive(r) ==
    /\ HTTP /\ phase = "running" /\ ~stopping
    /\ at[r] = "off"
    /\ Goes(r, "try")
    /\ UNCHANGED <<unchangedByRequest, slotWorker, plannedExit, wstate, proc,
                   idle, held>>

\* TryAcquire finds no idle worker: the request enters the queue or is refused.
TryMisses(r) ==
    /\ at[r] = "try" /\ (idle = <<>> \/ stopping)
    /\ Goes(r, "queued") \/ Goes(r, "off")
    /\ UNCHANGED <<unchangedByRequest, slotWorker, plannedExit, wstate, proc,
                   idle, held>>

\* Acquire gives up: AcquireTimeout, a client that left, or the pool's context.
AcquireEnds(r) ==
    /\ at[r] = "queued"
    /\ Goes(r, "off")
    /\ UNCHANGED <<unchangedByRequest, slotWorker, plannedExit, wstate, proc,
                   idle, held>>

\* TryAcquire or Acquire receives from the channel, without the lock.
Pop(r) ==
    /\ at[r] \in {"try", "queued"} /\ idle # <<>>
    /\ Goes(r, IF at[r] = "try" THEN "tryHas" ELSE "queuedHas")
    /\ held' = [held EXCEPT ![r] = Head(idle)]
    /\ idle' = Tail(idle)
    /\ UNCHANGED <<unchangedByRequest, slotWorker, plannedExit, wstate, proc>>

\* The check of what was received.  A worker popped from a stopping pool or a
\* stale one is dropped from the channel for good.
Check(r) ==
    /\ at[r] \in {"tryHas", "queuedHas"} /\ LockFree
    /\ \/ /\ stopping
          /\ Goes(r, "off") \/ (at[r] = "tryHas" /\ Goes(r, "queued"))
          /\ held' = [held EXCEPT ![r] = NoWorker]
       \/ /\ ~stopping
          /\ IF Current(held[r]) /\ wstate[held[r]] = "idle"
             THEN Goes(r, "claimed") /\ UNCHANGED held
             ELSE /\ Goes(r, IF at[r] = "tryHas" THEN "try" ELSE "queued")
                  /\ held' = [held EXCEPT ![r] = NoWorker]
    /\ UNCHANGED <<unchangedByRequest, slotWorker, plannedExit, wstate, proc, idle>>

\* w.setState(StateBusy), after p.mu was given up.
MarkBusy(r) ==
    /\ at[r] = "claimed"
    /\ Goes(r, "busy")
    /\ wstate' = [wstate EXCEPT ![held[r]] = "busy"]
    /\ UNCHANGED <<unchangedByRequest, slotWorker, plannedExit, proc, idle, held>>

\* Send returns the worker's response, with or without a reason to recycle
\* (the worker's wish, max_requests, memory_limit).
Responds(r) ==
    /\ at[r] = "busy" /\ proc[held[r]] = "up"
    /\ Goes(r, "answered") \/ Goes(r, "recycle")
    /\ UNCHANGED <<unchangedByRequest, slotWorker, plannedExit, wstate, proc,
                   idle, held>>

\* Send fails or times out; Discard up to its unlock and the SIGTERM it sends.
Discard(r) ==
    /\ at[r] = "busy" /\ LockFree
    /\ LET w == held[r] IN
       IF Current(w)
       THEN /\ plannedExit' = [plannedExit EXCEPT ![w[1]] = FALSE]
            /\ wstate' = [wstate EXCEPT ![w] = "draining"]
            /\ proc' = [proc EXCEPT ![w] = Signalled(w)]
            /\ Goes(r, "discard") /\ UNCHANGED held
       ELSE Leaves(r) /\ UNCHANGED <<plannedExit, wstate, proc>>
    /\ UNCHANGED <<unchangedByRequest, slotWorker, idle>>

\* Mutant: the wait for the exit is not bounded by the grace.
DiscardEndsUnbounded(r) ==
    /\ at[r] = "discard" /\ ~Alive(held[r])
    /\ Leaves(r)
    /\ UNCHANGED <<unchangedByRequest, slotWorker, plannedExit, wstate, proc, idle>>

\* Mutant: the handler ends without giving up its worker.
DiscardEndsHolding(r) ==
    /\ at[r] = "discard"
    /\ proc' = [proc EXCEPT ![held[r]] = Killed(held[r])]
    /\ Goes(r, "off")
    /\ UNCHANGED <<unchangedByRequest, slotWorker, plannedExit, wstate, idle, held>>

\* The end of terminateProcess: the process exited, or grace passed and Kill.
DiscardEnds(r) ==
    /\ at[r] = "discard"
    /\ proc' = [proc EXCEPT ![held[r]] = Killed(held[r])]
    /\ Leaves(r)
    /\ UNCHANGED <<unchangedByRequest, slotWorker, plannedExit, wstate, idle>>

\* Mutant: the recycle branch does not return.
ReleaseFallsThrough(r) ==
    /\ at[r] \in {"answered", "recycle"} /\ LockFree
    /\ LET w == held[r] IN
       IF ~Current(w) THEN Leaves(r) /\ UNCHANGED <<wstate, proc>>
       ELSE /\ wstate' = [wstate EXCEPT ![w] = "idle"]
            /\ proc' = IF at[r] = "recycle"
                       THEN [proc EXCEPT ![w] = Signalled(w)] ELSE proc
            /\ Goes(r, "putBack") /\ UNCHANGED held
    /\ UNCHANGED <<unchangedByRequest, slotWorker, plannedExit, idle>>

\* Release up to its unlock; the recycle branch closes the connection and sends
\* SIGTERM, without the grace and Kill of terminateProcess.
Release(r) ==
    /\ at[r] \in {"answered", "recycle"} /\ LockFree
    /\ LET w == held[r] IN
       IF ~Current(w) THEN Leaves(r) /\ UNCHANGED <<plannedExit, wstate, proc>>
       ELSE IF stopping \/ at[r] = "recycle" \/ Retired(w[1])
       THEN /\ plannedExit' = [plannedExit EXCEPT ![w[1]] = TRUE]
            /\ wstate' = [wstate EXCEPT ![w] = "draining"]
            /\ proc' = [proc EXCEPT ![w] = Signalled(w)]
            /\ Leaves(r)
       ELSE /\ wstate' = [wstate EXCEPT ![w] = "idle"]
            /\ Goes(r, "putBack")
            /\ UNCHANGED <<plannedExit, proc, held>>
    /\ UNCHANGED <<unchangedByRequest, slotWorker, idle>>

\* Mutant: the worker is released a second time, say by a deferred call.
PutBackTwice(r) ==
    /\ at[r] = "putBack"
    /\ Offer(held[r])
    /\ Goes(r, "answered")
    /\ UNCHANGED <<unchangedByRequest, slotWorker, plannedExit, wstate, proc, held>>

\* Release's send on the channel, after the unlock.
PutBack(r) ==
    /\ at[r] = "putBack"
    /\ Offer(held[r])
    /\ Leaves(r)
    /\ UNCHANGED <<unchangedByRequest, slotWorker, plannedExit, wstate, proc>>

-----------------------------------------------------------------------------
(* SetDesired                                                              *)

Clamped(n) == LET low == IF n < Min THEN Min ELSE n
              IN IF Max > 0 /\ low > Max THEN Max ELSE low

\* SetDesired's critical section.  The call that changes nothing is no step.
SetDesired(n) ==
    /\ phase = "running" /\ ~stopping /\ LockFree
    /\ scales < MaxScale /\ drains = {} /\ boots = {}
    /\ LET d == Clamped(n)
           toBoot == {s \in 1..d : slotWorker[s] = 0 /\ ~Exceeded(s)}
           toDrain == {<<s, slotWorker[s]>> : s \in (d + 1)..Max} \cap
                      {w \in Worker : /\ wstate[w] \notin {"draining", "dead", "stopped"}
                                      /\ ~(HTTP /\ wstate[w] = "busy")}
       IN /\ d # desired \/ toBoot # {}
          /\ desired' = d
          /\ boots' = toBoot
          /\ drains' = toDrain
          /\ plannedExit' = [s \in Slot |-> plannedExit[s] \/ \E w \in toDrain : w[1] = s]
          /\ wstate' = [w \in Worker |-> IF w \in toDrain THEN "draining" ELSE wstate[w]]
    /\ scales' = scales + 1
    /\ UNCHANGED <<phase, ctxDone, stopping, generation, slotWorker, crashes,
                   pending, proc, boot, mon, chanVars, reqVars, terms, sd>>

\* For each drained worker: purgeIdle, then a goroutine runs terminateWorker.
ScaleDrains(w) ==
    /\ w \in drains /\ \A v \in drains : w[1] <= v[1]
    /\ PurgeBegins(w)
    /\ drains' = drains \ {w}
    /\ terms' = terms \cup {[w |-> w, by |-> "scale", stage |-> "signal"]}
    /\ UNCHANGED <<poolVars, slotVars, pending, workVars, idle, reqVars, boots,
                   scales, sd>>

\* Then one goroutine per slot to boot, which p.wg does not count.
ScaleBoots ==
    /\ drains = {} /\ boots # {} /\ LockFree
    /\ pending' = [s \in Slot |-> IF s \in boots
                                  THEN [pending[s] EXCEPT !["scale"] = @ + 1]
                                  ELSE pending[s]]
    /\ boots' = {}
    /\ UNCHANGED <<poolVars, slotVars, workVars, chanVars, reqVars, drains,
                   scales, terms, sd>>

-----------------------------------------------------------------------------
(* terminateWorker                                                         *)

\* Close the connection and send SIGTERM (a scale-down's only after its purge).
TermSignals(t) ==
    /\ t \in terms /\ t.stage = "signal" /\ purge.w # t.w
    /\ proc' = [proc EXCEPT ![t.w] = Signalled(t.w)]
    /\ terms' = (terms \ {t}) \cup {[w |-> t.w, by |-> t.by, stage |-> "grace"]}
    /\ UNCHANGED <<poolVars, slotVars, pending, wstate, boot, mon, chanVars,
                   reqVars, scaleVars, sd>>

\* Mutant: the wait for the exit is not bounded by the grace.
TermEndsUnbounded(t) ==
    /\ t \in terms /\ t.stage = "grace" /\ ~Alive(t.w)
    /\ terms' = terms \ {t}
    /\ UNCHANGED <<poolVars, slotVars, pending, workVars, chanVars, reqVars,
                   scaleVars, sd>>

\* It returns once the process has exited, or kills it when grace has passed.
TermEnds(t) ==
    /\ t \in terms /\ t.stage = "grace"
    /\ proc' = [proc EXCEPT ![t.w] = Killed(t.w)]
    /\ terms' = terms \ {t}
    /\ UNCHANGED <<poolVars, slotVars, pending, wstate, boot, mon, chanVars,
                   reqVars, scaleVars, sd>>

-----------------------------------------------------------------------------
(* Shutdown                                                                *)

\* The signal context, parent of the pool's, ends; Shutdown follows later.
Cancel ==
    /\ Up /\ ~ctxDone
    /\ ctxDone' = TRUE
    /\ UNCHANGED <<phase, desired, stopping, slotVars, pending, workVars,
                   chanVars, reqVars, scaleVars, terms, sd>>

\* Shutdown sets stopping and cancels the pool's context.
Stop ==
    /\ phase = "running" /\ sd = "no" /\ LockFree
    /\ stopping' = TRUE /\ ctxDone' = TRUE
    /\ sd' = "drain"
    /\ UNCHANGED <<phase, desired, slotVars, pending, workVars, chanVars,
                   reqVars, scaleVars, terms>>

NoStopTerms == \A t \in terms : t.by # "stop"

\* Idle workers first, one after the other.
StopIdle ==
    /\ sd = "drain" /\ NoStopTerms /\ idle # <<>>
    /\ idle' = Tail(idle)
    /\ wstate' = [wstate EXCEPT ![Head(idle)] = "stopped"]
    /\ terms' = terms \cup {[w |-> Head(idle), by |-> "stop", stage |-> "signal"]}
    /\ UNCHANGED <<poolVars, slotVars, pending, proc, boot, mon, purge, reqVars,
                   scaleVars, sd>>

\* Then the worker of every slot, all at once.
StopRest ==
    /\ sd = "drain" /\ NoStopTerms /\ idle = <<>> /\ LockFree
    /\ LET rest == {<<s, slotWorker[s]>> : s \in Installed}
       IN /\ plannedExit' = [s \in Slot |-> plannedExit[s] \/ s \in Installed]
          /\ wstate' = [w \in Worker |->
                IF w \in rest /\ wstate[w] \notin {"dead", "stopped"}
                THEN "draining" ELSE wstate[w]]
          /\ terms' = terms \cup [w : rest, by : {"stop"}, stage : {"signal"}]
    /\ sd' = "wait"
    /\ UNCHANGED <<poolVars, generation, slotWorker, crashes, pending, proc,
                   boot, mon, chanVars, reqVars, scaleVars>>

\* Shutdown's own context ends: Kill what the slots hold, and go on waiting.
StopKills ==
    /\ sd = "wait" /\ LockFree
    /\ proc' = [w \in Worker |-> IF Current(w) THEN Killed(w) ELSE proc[w]]
    /\ sd' = "killed"
    /\ UNCHANGED <<poolVars, slotVars, pending, wstate, boot, mon, chanVars,
                   reqVars, scaleVars, terms>>

\* Mutant: a restart's goroutine leaves the group when its timer fires.
WaitGroupZeroEarly ==
    /\ \A w \in Worker : mon[w] \in {"none", "done"}
    /\ \A s \in Slot, k \in Restart : pending[s][k] = 0
    /\ \A t \in terms : t.by # "scale"

\* p.wg is zero: monitors, restart timers with the boots they run, and
\* scale-down terminations.
WaitGroupZero ==
    /\ \A w \in Worker : mon[w] \in {"none", "done"}
    /\ \A s \in Slot, k \in Restart : pending[s][k] = 0
    /\ \A w \in Worker : boot[w].at # "no" => boot[w].kind \notin Restart
    /\ \A t \in terms : t.by # "scale"

\* The last notify() takes a Snapshot, hence the lock.
StopDone ==
    /\ sd \in {"wait", "killed"} /\ NoStopTerms /\ WaitGroupZero /\ LockFree
    /\ sd' = "done"
    /\ UNCHANGED <<poolVars, slotVars, pending, workVars, chanVars, reqVars,
                   scaleVars, terms>>

-----------------------------------------------------------------------------

BootSteps(w) == \/ BootFails(w) \/ BootInstalls(w) \/ BootTooLate(w)
                \/ BootReaps(w) \/ BootPush(w)
MonitorSteps(w) == \/ MonitorStale(w) \/ MonitorExit(w) \/ MonitorPurges(w)
                   \/ MonitorRecords(w)
RequestSteps(r) == \/ Arrive(r) \/ TryMisses(r) \/ AcquireEnds(r) \/ Pop(r)
                   \/ Check(r) \/ MarkBusy(r) \/ Responds(r) \/ Discard(r)
                   \/ DiscardEnds(r) \/ Release(r) \/ PutBack(r)
\* The reconciler calls SetDesired with a clamped target other than desired.
ScaleSteps == \/ \E n \in (Min..Max) \ {desired} : SetDesired(n)
              \/ \E w \in Worker : ScaleDrains(w)
              \/ ScaleBoots
StopSteps == Cancel \/ Stop \/ StopIdle \/ StopRest \/ StopKills \/ StopDone

\* Everything the program does.
ProgramStep ==
    \/ StartReturns
    \/ \E s \in Slot, k \in Kind : BootBegin(s, k) \/ BootRefused(s, k)
    \/ \E w \in Worker : BootSteps(w) \/ MonitorSteps(w)
    \/ PurgePop \/ PurgePush
    \/ \E r \in Requests : RequestSteps(r)
    \/ ScaleSteps
    \/ \E t \in terms : TermSignals(t) \/ TermEnds(t)
    \/ StopSteps

\* The program is over: a failed Start, or Shutdown has returned.
Ended ==
    /\ phase = "failed" \/ sd = "done"
    /\ UNCHANGED vars

Next ==
    \/ ProgramStep
    \/ \E w \in Worker : ProcExit(w)
    \/ Ended

Spec == Init /\ [][Next]_vars

\* Every goroutine that can run does, every timeout (acquire, request, grace)
\* ends, a handler's Send returns or times out.  Nothing is assumed of the
\* requests that arrive, of the processes, of SetDesired or of the signal.
Fairness ==
    /\ WF_vars(PurgePop \/ PurgePush)
    /\ WF_vars(StopIdle \/ StopRest \/ StopDone)
    /\ WF_vars(ScaleBoots \/ \E w \in Worker : ScaleDrains(w))
    /\ \A s \in Slot, k \in Kind : WF_vars(BootBegin(s, k) \/ BootRefused(s, k))
    /\ \A w \in Worker : /\ WF_vars(BootSteps(w))
                         /\ WF_vars(MonitorSteps(w))
                         /\ WF_vars(\E t \in terms : t.w = w /\ (TermSignals(t) \/ TermEnds(t)))
    /\ \A r \in Requests :
          WF_vars(\/ TryMisses(r) \/ AcquireEnds(r) \/ Check(r) \/ MarkBusy(r)
                  \/ Discard(r) \/ DiscardEnds(r) \/ Release(r) \/ PutBack(r))

FairSpec == Spec /\ Fairness

-----------------------------------------------------------------------------
(* Properties                                                              *)

TypeOK ==
    /\ phase \in {"starting", "running", "failed"}
    /\ desired \in 0..Max /\ ctxDone \in BOOLEAN /\ stopping \in BOOLEAN
    /\ generation \in [Slot -> 0..MaxGen]
    /\ slotWorker \in [Slot -> 0..MaxGen]
    /\ plannedExit \in [Slot -> BOOLEAN]
    /\ crashes \in [Slot -> Nat]
    /\ pending \in [Slot -> [Kind -> Nat]]
    /\ wstate \in [Worker -> WState]
    /\ proc \in [Worker -> Proc]
    /\ boot \in [Worker -> Boot]
    /\ mon \in [Worker -> Monitor]
    /\ idle \in Seq(Worker) /\ Len(idle) <= IdleCap
    /\ purge \in Purge
    /\ at \in [Requests -> ReqAt]
    /\ held \in [Requests -> Worker \cup {NoWorker}]
    /\ \A r \in Requests : (held[r] = NoWorker) <=> (at[r] \in {"off", "try", "queued"})
    /\ drains \in SUBSET Worker /\ boots \in SUBSET Slot /\ scales \in 0..MaxScale
    /\ terms \in SUBSET Term
    /\ sd \in {"no", "drain", "wait", "killed", "done"}

\* No worker is in two hands: what requests hold, what the channel holds, what
\* purgeIdle has in hand and what bootSlot is about to send are all different.
\* Two of them equal would put two requests on one connection (pool.go pops and
\* pushes p.idle at six places, four of them without the lock).
Offered(w) == Has(idle, w) \/ purge.hand = w \/ boot[w].at = "push"
OfferedOnce ==
    /\ Distinct(idle)
    /\ \A w \in Worker : Has(idle, w) => purge.hand # w
    /\ \A w \in Worker : boot[w].at = "push" => ~Has(idle, w) /\ purge.hand # w
HeldOnce ==
    /\ \A r \in Requests : held[r] # NoWorker => ~Offered(held[r])
    /\ \A r, q \in Requests : held[r] = held[q] /\ held[r] # NoWorker => r = q
LeaseExclusive == OfferedOnce /\ HeldOnce

\* No slot is forgotten: until the pool's context ends, a slot that should run
\* and has not spent its crash budget has a worker, or someone is on the way to
\* boot one.  A monitor, a timer, a failed boot and SetDesired hand this duty to
\* each other (bootSlot's refusals and stale monitors give it up).
Booting(s) ==
    \/ \E k \in Kind : pending[s][k] > 0
    \/ \E w \in Worker : w[1] = s /\ boot[w].at \in {"starting", "doomed"}
    \/ \E w \in Worker : w[1] = s /\ mon[w] \in {"planned", "crash", "record"}
    \/ s \in boots
NoSlotForgotten ==
    \A s \in Slot : ~ctxDone /\ s <= desired /\ ~Exceeded(s)
                    => slotWorker[s] # 0 \/ Booting(s)

\* A slot is one process: two generations of a slot never run at once.
OneProcessPerSlot ==
    \A v, w \in Worker : Alive(v) /\ Alive(w) /\ v[1] = w[1] => v = w

\* Nobody closes the connection of, or signals, a worker that is serving a
\* request, until the pool stops.
ServingUndisturbed ==
    \A r \in Requests : at[r] \in {"claimed", "busy"} /\ ~stopping
                        => proc[held[r]] # "term"

\* A slot over its crash budget is down and stays down: no worker, no boot on
\* the way, no timer.
FailedSlotStaysDown ==
    \A s \in Slot : Exceeded(s) => slotWorker[s] = 0 /\ ~Booting(s)

\* Shutdown returns only when no process of the pool runs any more.
StopLeavesNothing == sd = "done" => \A w \in Worker : ~Alive(w)

\* Once Shutdown has begun no generation is begun, no slot gets a worker, and no
\* request claims one.
StopFreezes ==
    [][stopping =>
          /\ generation' = generation
          /\ \A s \in Slot : slotWorker'[s] \in {slotWorker[s], 0}
          /\ \A r \in Requests : (at'[r] = "claimed") => (at[r] = "claimed")]_vars

\* A ready worker that is its slot's current one can be acquired: it is in the
\* channel, or somebody is about to put it there, or a request holds it.
IdleReachable ==
    \A s \in Slot :
        LET w == <<s, slotWorker[s]>> IN
        HTTP /\ ~stopping /\ slotWorker[s] # 0 /\ wstate[w] = "idle"
            => Offered(w) \/ \E r \in Requests : held[r] = w

\* A request that has a worker finishes, whatever the worker does.
RequestEnds == \A r \in Requests : at[r] = "busy" ~> at[r] = "off"

\* Shutdown returns, unless a process lives on that its slot has forgotten: one of
\* two boots of a slot (pool.go:529) is overwritten by the other, nobody ends its
\* process and Shutdown waits for its monitor.  No other worker, boot, timer or
\* scaling under way can hold it up.
Forgotten(w) == mon[w] = "wait" /\ Alive(w) /\ ~Current(w)
StopEnds == []<>(sd \in {"no", "done"}) \/ <>[](\E w \in Worker : Forgotten(w))

\* A worker chosen by a scale-down is gone in the end, even one that ignores
\* SIGTERM.
DrainEnds == \A w \in Worker : w \in drains ~> ~Alive(w)

\* The pool implements the lease: what the channel, purgeIdle and bootSlot have
\* between them is on offer, what requests hold is lent.  A worker that left (an
\* idle channel found full, a stale entry, a drained one) never comes back.
Lease == INSTANCE WorkerLease WITH
    issued <- {w \in Worker : HTTP /\ wstate[w] # "none"},
    offered <- {w \in Worker : Offered(w)},
    owner <- held

ImplementsLease == Lease!Spec

\* The pool that is not scaled implements the supervision of its slots, under
\* every interleaving of boots, exits, monitors, timers and Shutdown: a slot gets
\* a process only when it has none, and goes off only when it is told to or has
\* used up its restarts.
Of(s) == {w \in Worker : w[1] = s}
Life(s) ==
    IF s > InitDesired THEN "new"
    ELSE IF \E k \in Kind : pending[s][k] > 0 THEN "due"
    ELSE IF \E w \in Of(s) : boot[w].at \in {"starting", "doomed", "reap"} THEN "boot"
    ELSE IF \E w \in Of(s) : mon[w] \notin {"none", "done"} THEN "up" ELSE "off"
Lives == [s \in Slot |-> Life(s)]
Inhabited == {s \in Slot : \E w \in Of(s) : Alive(w)}
AllIf(told) == IF told THEN Slot ELSE {}
Supervised == INSTANCE Supervision WITH
    Limit <- RestartLimit, life <- Lives, alive <- Inhabited, strikes <- crashes,
    done <- AllIf(ctxDone), stopped <- AllIf(stopping)

Supervises == Supervised!Spec

=============================================================================
