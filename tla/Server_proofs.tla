---------------------------- MODULE Server_proofs ----------------------------
(***************************************************************************)
(* What the program keeps from its start to its end, for every number of   *)
(* pools, workers, requests and ticks.                                     *)
(*                                                                         *)
(* The argument: a slot is under way once, as a boot, a timer or a worker  *)
(* (OneDuty), so a process is lost only if a step drops all three; what    *)
(* Shutdown has finished with cannot wake (Asleep); a clock runs only in a *)
(* wait, and whoever is waited for was sent SIGTERM (Calm, Told); and HTTP *)
(* is drained before the first pool is stopped (Drained).                  *)
(***************************************************************************)
EXTENDS Server, TLAPS

LEMMA ConstantsSound ==
    /\ NoWorker \notin Worker /\ NoPool \notin Pools
    /\ PoolOf \in [Worker -> Pools] /\ Http \subseteq Worker
    /\ Longest \in Nat /\ Startup \in Nat /\ Handshake \in Nat /\ Grace \in Nat
    /\ HttpTimeout \in Nat /\ Slack \in Nat /\ RestartLimit \in Nat
BY ServerAssumption, StartAssumption DEF Longest

\* What a step of one slot may do.
Turn(w) ==
    SlotStep(w) \/ TimerFires(w)
    \/ (Up /\ ProcessStep(w) /\ UNCHANGED <<runVars, slotVars, stopVars, reqVars>>)

Handles(r) == HandlerStep(r) \/ Arrives(r) \/ GivesUp(r) \/ Answered(r) \/ Fails(r)

\* The actions of Next by who takes them; what Tick waits for plays no part.
LEMMA NextSplits ==
    Next => \/ \E w \in Worker : Turn(w)
            \/ \E r \in Requests : Handles(r)
            \/ RunStep \/ ServeFails \/ Signal \/ Passes \/ UNCHANGED vars
<1>1. Tick => Passes
  BY DEF Tick
<1> QED
  BY <1>1 DEF Next, ProgramStep, Outside, Ended, Turn, Handles

-----------------------------------------------------------------------------
(* Types                                                                   *)

LEMMA InitTyped == Init => TypeOK
<1> SUFFICES ASSUME Init PROVE TypeOK
  OBVIOUS
<1>1. StartTypeOK
  BY ConstantsSound DEF Init, InitStart, StartTypeOK, Proc, Boot, File, Off
<1>2. crashes \in [Worker -> Nat] /\ work \in [Worker -> Work]
  BY DEF Init, Work
<1>3. at \in [Requests -> ReqAt] /\ on \in [Requests -> Worker \cup {NoWorker}]
  BY DEF Init, ReqAt
<1> QED
  BY <1>1, <1>2, <1>3 DEF Init, TypeOK, Main, Why, Off

LEMMA SlotTyped ==
  ASSUME TypeOK, NEW w \in Worker, Turn(w)
  PROVE  TypeOK'
<1> USE ConstantsSound DEF TypeOK, StartTypeOK, Work, ReqAt, Proc, Boot, File, Off, At, Waits,
        Signalled, Killed, runVars, slotVars, stopVars, reqVars
<1>1. CASE BootBegins(w)
  BY <1>1 DEF BootBegins
<1>2. ASSUME StartStep(w, CtxDone(w)), UNCHANGED <<runVars, slotVars, stopVars, reqVars>>
      PROVE  TypeOK'
  <2>1. CASE Spawns(w)
    BY <2>1, <1>2 DEF Spawns, Clears
  <2>2. CASE SeesSocket(w)
    BY <2>2, <1>2 DEF SeesSocket
  <2>3. CASE SocketNotSeen(w, CtxDone(w))
    BY <2>3, <1>2 DEF SocketNotSeen, Reaps
  <2>4. CASE Dials(w, CtxDone(w))
    BY <2>4, <1>2 DEF Dials, Reaps
  <2>5. CASE ShakeEnds(w)
    BY <2>5, <1>2 DEF ShakeEnds, Reaps
  <2>6. CASE ReapEnds(w)
    BY <2>6, <1>2 DEF ReapEnds, Reaped
  <2> QED
    BY <2>1, <2>2, <2>3, <2>4, <2>5, <2>6, <1>2 DEF StartStep
<1>3. CASE Installs(w)
  BY <1>3 DEF Installs, Reaps
<1>4. CASE BootTooLate(w)
  BY <1>4 DEF BootTooLate, Reaped
<1>5. CASE BootFailed(w)
  BY <1>5 DEF BootFailed, Recorded
<1>6. CASE TimerFires(w) \/ TimerQuits(w)
  BY <1>6 DEF TimerFires, TimerQuits, startVars
<1>7. CASE MonitorSees(w)
  BY <1>7 DEF MonitorSees, Recorded
<1>8. CASE GraceEnds(w)
  BY <1>8 DEF GraceEnds
<1>9. ASSUME ProcessStep(w), UNCHANGED <<runVars, slotVars, stopVars, reqVars>>
      PROVE  TypeOK'
  BY <1>9 DEF ProcessStep, Binds, ListensAt, Greets, Exits
<1> QED
  BY <1>1, <1>2, <1>3, <1>4, <1>5, <1>6, <1>7, <1>8, <1>9 DEF Turn, SlotStep, Starts

LEMMA HandlerTyped ==
  ASSUME TypeOK, NEW r \in Requests, Handles(r)
  PROVE  TypeOK'
<1> USE ConstantsSound DEF TypeOK, StartTypeOK, Work, ReqAt, Proc, Boot, File, Off,
        Signalled, startVars, runVars, slotVars, stopVars, reqVars
<1>1. ASSUME NEW w \in Worker, Takes(r, w) PROVE TypeOK'
  BY <1>1 DEF Takes
<1>2. CASE Arrives(r) \/ GivesUp(r) \/ DiscardEnds(r)
  BY <1>2 DEF Arrives, GivesUp, DiscardEnds
<1>3. CASE Answered(r)
  BY <1>3 DEF Answered
<1>4. CASE Fails(r)
  BY <1>4 DEF Fails, Terminated
<1> QED
  BY <1>1, <1>2, <1>3, <1>4 DEF Handles, HandlerStep, Refused

LEMMA RunTyped ==
  ASSUME TypeOK, RunStep \/ ServeFails \/ Signal \/ Passes
  PROVE  TypeOK'
<1> USE ConstantsSound DEF TypeOK, StartTypeOK, Work, ReqAt, Proc, Boot, File, Off, Main, Why,
        startVars, runVars, slotVars, stopVars, reqVars
<1>1. ASSUME NEW p \in Pools, PoolStarts(p) PROVE TypeOK'
  BY <1>1 DEF PoolStarts, Of
<1>2. CASE PoolStarted \/ StartFails
  BY <1>2 DEF PoolStarted, StartFails
<1>11. CASE Leave
  BY <1>11 DEF Leave
<1>12. CASE Signal
  <2>1. signalled' \in BOOLEAN
    BY <1>12, Zenon DEF Signal
  <2>2. UNCHANGED <<startVars, main, why, cur, begun, slotVars, stopVars, reqVars>>
    BY <1>12 DEF Signal
  <2> QED
    BY <2>1, <2>2
<1>3. CASE Listen \/ ServeFails \/ Drain \/ DrainEnds
  BY <1>3 DEF Listen, ServeFails, Drain, DrainEnds, Stops
<1>4. ASSUME NEW p \in Pools, StopPool(p) PROVE TypeOK'
  BY <1>4 DEF StopPool
<1>5. ASSUME NEW w \in Worker, StopIdle(w) PROVE TypeOK'
  BY <1>5 DEF StopIdle, Terminated, Signalled
<1>6. CASE StopIdleEnds
  BY <1>6 DEF StopIdleEnds
<1>7. CASE StopRest
  BY <1>7 DEF StopRest, Running, Of
<1>13. ASSUME NEW w \in Worker, StopTells(w) PROVE TypeOK'
  BY <1>13 DEF StopTells, Terminated, Signalled
<1>8. CASE StopKills
  BY <1>8 DEF StopKills, Killed
<1>9. CASE StopDone
  BY <1>9 DEF StopDone
<1>10. CASE Passes
  BY <1>10 DEF Passes, Waiting, Left
<1> QED
  BY <1>1, <1>2, <1>3, <1>4, <1>5, <1>6, <1>7, <1>8, <1>9, <1>10, <1>11, <1>12, <1>13
     DEF RunStep

\* Every variable of the program keeps its type, and a handler has a worker only
\* while it serves or discards.
THEOREM Typing == Spec => []TypeOK
<1>1. ASSUME TypeOK, [Next]_vars PROVE TypeOK'
  <2>1. CASE UNCHANGED vars
    BY <1>1, <2>1 DEF vars, startVars, runVars, slotVars, stopVars, reqVars, TypeOK, StartTypeOK
  <2> QED
    BY <1>1, <2>1, NextSplits, SlotTyped, HandlerTyped, RunTyped
<1> QED
  BY <1>1, InitTyped, PTL DEF Spec

-----------------------------------------------------------------------------
(* The inductive invariant                                                 *)

\* A slot is under way once: a boot, a timer or a worker, and only in a pool
\* that was begun.
OneDuty(w) ==
    /\ work[w] # "none" => boot[w] = "off" /\ w \notin timer
    /\ w \in timer => boot[w] = "off"
    /\ PoolOf[w] \notin begun => boot[w] = "off" /\ work[w] = "none" /\ w \notin timer

\* NoStrayProcess and OwnSocket, of one worker.
Kept(w) == Up /\ Alive(w) => boot[w] \notin {"off", "begin", "spawn", "failed"}
                             \/ work[w] # "none"
Owned(w) == boot[w] \in {"socket", "dial", "shake", "good", "started"} => file[w] # "old"

\* Nothing wakes in a pool that was stopped.
Asleep(w) ==
    PoolOf[w] \in stopping /\ PoolOf[w] # cur =>
        /\ boot[w] = "off" /\ work[w] = "none" /\ w \notin timer
        /\ ~Alive(w) /\ file[w] = "no" /\ w \notin litter

\* No clock runs between the waits.
Calm(w) ==
    /\ work[w] \in {"idle", "busy"} => clock[w] = Off
    /\ work[w] = "none" /\ boot[w] \in {"off", "begin", "spawn", "started", "failed"}
           => clock[w] = Off

\* Who is waited for was sent SIGTERM.
Told(w) ==
    /\ boot[w] \in {"reap", "late"} => proc[w] # "up"
    /\ work[w] # "none" /\ clock[w] # Off => proc[w] # "up"

\* Shutdown terminates only workers of the pool it waits for, and none that serves.
Due(w) == w \in owed => /\ stage # "idle" /\ PoolOf[w] = cur
                        /\ work[w] \in {"none", "draining", "stopped"}

Sound(w) == OneDuty(w) /\ Kept(w) /\ Owned(w) /\ Asleep(w) /\ Calm(w) /\ Told(w) /\ Due(w)

\* A handler has a worker of its own, for as long as the slot has it.
OneHolder ==
    /\ \A r \in Requests : on[r] # NoWorker => work[on[r]] \in {"busy", "draining"}
    /\ \A r, s \in Requests : on[r] = on[s] /\ on[r] # NoWorker => r = s

\* Where Run is, and what Shutdown has done by then.
Phases ==
    /\ main \in {"starting", "listen", "serving"} => stopping = {} /\ why = "nothing"
    /\ main = "draining" => stopping = {}
    /\ main \in {"listen", "serving", "draining"} => cur = NoPool
    /\ main = "stopping" => why \in {"error", "signal"} /\ cur \in stopping \cup {NoPool}
    /\ stage # "idle" => main = "stopping" /\ cur \in stopping
    /\ main = "gone" => \/ why = "start"
                        \/ why \in {"error", "signal"} /\ stopping = Pools /\ cur = NoPool

\* The pools are stopped when nobody is served, unless time was up.
Drained ==
    /\ main \in {"stopping", "gone"} /\ why = "signal" /\ httpLeft # 0 => Inside = {}
    /\ \A r \in Requests :
          at[r] = "serving" /\ on[r] # NoWorker /\ stopping = {} => work[on[r]] = "busy"

IInv == TypeOK /\ (\A w \in Worker : Sound(w)) /\ OneHolder /\ Phases /\ Drained

LEMMA InitSound == Init => IInv
<1> SUFFICES ASSUME Init PROVE IInv
  OBVIOUS
<1>1. ASSUME NEW w \in Worker PROVE Sound(w)
  BY ConstantsSound DEF Init, InitStart, Sound, OneDuty, Kept, Owned, Asleep, Calm, Told, Due, Alive
<1>2. OneHolder /\ Phases /\ Drained
  BY DEF Init, OneHolder, Phases, Drained
<1> QED
  BY <1>1, <1>2, InitTyped DEF IInv

-----------------------------------------------------------------------------
(* Steps of a slot                                                         *)

\* What a slot's step leaves alone: Run, Shutdown, and the other slots.
LEMMA SlotFrame ==
  ASSUME TypeOK, NEW w \in Worker, Turn(w)
  PROVE  UNCHANGED <<runVars, stopVars, at>>
<1> USE DEF runVars, slotVars, stopVars, reqVars
<1>1. CASE SlotStep(w)
  BY <1>1 DEF SlotStep, BootBegins, Starts, Installs, BootTooLate, BootFailed, TimerQuits,
              MonitorSees, GraceEnds
<1>2. CASE TimerFires(w)
  BY <1>2 DEF TimerFires
<1> QED
  BY <1>1, <1>2 DEF Turn

Same(v) == /\ proc'[v] = proc[v] /\ boot'[v] = boot[v] /\ file'[v] = file[v]
           /\ clock'[v] = clock[v] /\ work'[v] = work[v]
           /\ (v \in timer' <=> v \in timer) /\ (v \in litter' <=> v \in litter)

LEMMA StartLocal ==
  ASSUME TypeOK, NEW w \in Worker, StartStep(w, CtxDone(w)),
         UNCHANGED <<runVars, slotVars, stopVars, reqVars>>,
         NEW v \in Worker \ {w}
  PROVE  Same(v)
<1> USE DEF TypeOK, StartTypeOK, At, Waits, slotVars, Same
<1>1. CASE Spawns(w) \/ SeesSocket(w)
  BY <1>1 DEF Spawns, Clears, SeesSocket
<1>2. CASE SocketNotSeen(w, CtxDone(w)) \/ Dials(w, CtxDone(w))
  BY <1>2 DEF SocketNotSeen, Dials, Reaps
<1>3. CASE ShakeEnds(w) \/ ReapEnds(w)
  BY <1>3 DEF ShakeEnds, ReapEnds, Reaps, Reaped
<1> QED
  BY <1>1, <1>2, <1>3 DEF StartStep

LEMMA SlotLocal ==
  ASSUME TypeOK, NEW w \in Worker, Turn(w), NEW v \in Worker \ {w}
  PROVE  Same(v)
<1> USE DEF TypeOK, StartTypeOK, At, Waits, slotVars
<1>1. CASE Starts(w)
  BY <1>1, StartLocal DEF Starts
<1>2. CASE BootBegins(w) \/ Installs(w) \/ BootTooLate(w) \/ BootFailed(w)
  BY <1>2 DEF BootBegins, Installs, BootTooLate, BootFailed, Reaps, Reaped, Same
<1>3. CASE TimerFires(w) \/ TimerQuits(w)
  BY <1>3 DEF TimerFires, TimerQuits, startVars, Same
<1>4. CASE MonitorSees(w) \/ GraceEnds(w)
  BY <1>4 DEF MonitorSees, GraceEnds, Same
<1>5. ASSUME ProcessStep(w), UNCHANGED slotVars PROVE Same(v)
  BY <1>5 DEF ProcessStep, Binds, ListensAt, Greets, Exits, Same
<1> QED
  BY <1>1, <1>2, <1>3, <1>4, <1>5 DEF Turn, SlotStep

\* A slot that stays as it is stays sound while Run stays where it is.
LEMMA SameSound ==
  ASSUME NEW v \in Worker, Sound(v), Same(v), UNCHANGED <<runVars, stopVars>>
  PROVE  Sound(v)'
BY DEF Sound, OneDuty, Kept, Owned, Asleep, Calm, Told, Due, Same, Alive, Up, runVars, stopVars

LEMMA StartSound ==
  ASSUME TypeOK, NEW w \in Worker, StartStep(w, CtxDone(w)), Sound(w),
         UNCHANGED <<runVars, slotVars, stopVars, reqVars>>
  PROVE  Sound(w)'
<1> USE ConstantsSound DEF TypeOK, StartTypeOK, At, Waits, runVars, slotVars, stopVars, Sound,
        OneDuty, Kept, Owned, Asleep, Calm, Told, Due, Alive, Up, Signalled, Killed, Off
<1>1. CASE Spawns(w)
  BY <1>1 DEF Spawns, Clears
<1>2. CASE SeesSocket(w)
  BY <1>2 DEF SeesSocket
<1>3. CASE SocketNotSeen(w, CtxDone(w))
  BY <1>3 DEF SocketNotSeen, Reaps
<1>4. CASE Dials(w, CtxDone(w))
  BY <1>4 DEF Dials, Reaps
<1>5. CASE ShakeEnds(w)
  BY <1>5 DEF ShakeEnds, Reaps
<1>6. CASE ReapEnds(w)
  BY <1>6 DEF ReapEnds, Reaped
<1> QED
  BY <1>1, <1>2, <1>3, <1>4, <1>5, <1>6 DEF StartStep

LEMMA SlotSound ==
  ASSUME IInv, NEW w \in Worker, Turn(w)
  PROVE  Sound(w)'
<1>0. TypeOK /\ Sound(w) /\ UNCHANGED <<runVars, stopVars, at>>
  BY SlotFrame DEF IInv
<1>1. CASE Starts(w)
  BY <1>0, <1>1, StartSound DEF Starts
<1> USE <1>0, ConstantsSound DEF TypeOK, StartTypeOK, At, Waits, runVars, stopVars, Sound,
        OneDuty, Kept, Owned, Asleep, Calm, Told, Due, Alive, Up, Signalled, Killed, Off
<1>2. CASE BootBegins(w)
  BY <1>2 DEF BootBegins
<1>3. CASE Installs(w)
  <2>1. stage # "idle" => cur \in stopping
    BY DEF IInv, Phases
  <2> QED
    BY <1>3, <2>1 DEF Installs, Reaps
<1>4. CASE BootTooLate(w)
  BY <1>4 DEF BootTooLate, Reaped
<1>5. CASE BootFailed(w)
  BY <1>5 DEF BootFailed
<1>6. CASE TimerFires(w)
  BY <1>6 DEF TimerFires
<1>7. CASE TimerQuits(w)
  BY <1>7 DEF TimerQuits, startVars
<1>8. CASE MonitorSees(w)
  BY <1>8 DEF MonitorSees
<1>9. CASE GraceEnds(w)
  BY <1>9 DEF GraceEnds, slotVars
<1>10. ASSUME ProcessStep(w), UNCHANGED slotVars PROVE Sound(w)'
  <2>1. CASE Binds(w) \/ ListensAt(w)
    BY <1>10, <2>1 DEF Binds, ListensAt, slotVars
  <2>2. CASE Greets(w)
    BY <1>10, <2>2 DEF Greets, slotVars
  <2>3. CASE Exits(w)
    BY <1>10, <2>3 DEF Exits, slotVars
  <2> QED
    BY <1>10, <2>1, <2>2, <2>3 DEF ProcessStep
<1> QED
  BY <1>1, <1>2, <1>3, <1>4, <1>5, <1>6, <1>7, <1>8, <1>9, <1>10 DEF Turn, SlotStep

\* What a slot's step does to who has its worker.
LEMMA SlotHolds ==
  ASSUME IInv, NEW w \in Worker, Turn(w)
  PROVE  \/ UNCHANGED <<work, on>>
         \/ /\ work[w] = "none" /\ on' = on
            /\ work' = [work EXCEPT ![w] = "idle"]
         \/ /\ work' = [work EXCEPT ![w] = "none"]
            /\ on' = [r \in Requests |-> IF on[r] = w THEN NoWorker ELSE on[r]]
<1> USE DEF slotVars, reqVars
<1>1. CASE MonitorSees(w)
  BY <1>1 DEF MonitorSees
<1>2. CASE Installs(w)
  <2>1. work[w] = "none"
    BY <1>2 DEF Installs, IInv, Sound, OneDuty
  <2> QED
    BY <1>2, <2>1 DEF Installs
<1>3. CASE BootBegins(w) \/ Starts(w) \/ BootTooLate(w) \/ BootFailed(w) \/ TimerQuits(w)
           \/ GraceEnds(w) \/ TimerFires(w)
  BY <1>3 DEF BootBegins, Starts, BootTooLate, BootFailed, TimerQuits, GraceEnds, TimerFires
<1> QED
  BY <1>1, <1>2, <1>3 DEF Turn, SlotStep

LEMMA SlotKeeps ==
  ASSUME IInv, NEW w \in Worker, Turn(w)
  PROVE  IInv'
<1>1. TypeOK' /\ UNCHANGED <<runVars, stopVars, at>>
  BY SlotTyped, SlotFrame DEF IInv
<1>2. ASSUME NEW v \in Worker PROVE Sound(v)'
  BY <1>1, SlotSound, SlotLocal, SameSound DEF IInv
<1>3. TypeOK /\ OneHolder /\ Drained /\ Phases
  BY DEF IInv
<1>4. OneHolder'
  BY <1>3, SlotHolds, ConstantsSound DEF OneHolder, TypeOK, Work
<1>5. Phases'
  BY <1>1, <1>3 DEF Phases, runVars, stopVars
<1>6. Drained'
  <2>1. Inside' = Inside
    BY <1>1 DEF Inside
  <2>2. ASSUME NEW r \in Requests, at[r] = "serving", on'[r] # NoWorker, stopping = {}
        PROVE  work'[on'[r]] = "busy"
    BY <2>2, <1>3, SlotHolds, ConstantsSound DEF Drained, OneHolder, TypeOK, Work
  <2> QED
    BY <1>1, <1>3, <2>1, <2>2 DEF Drained, runVars, stopVars
<1> QED
  BY <1>1, <1>2, <1>4, <1>5, <1>6 DEF IInv

-----------------------------------------------------------------------------
(* Steps of a handler                                                      *)

\* A handler starts nothing, and touches the slot of the worker it takes or has.
LEMMA HandlerFrame ==
  ASSUME NEW r \in Requests, Handles(r)
  PROVE  UNCHANGED <<boot, file, litter, runVars, first, timer, after, stopVars>>
<1> USE DEF startVars, slotVars
<1>1. ASSUME NEW w \in Worker, Takes(r, w)
      PROVE  UNCHANGED <<boot, file, litter, runVars, first, timer, after, stopVars>>
  BY <1>1 DEF Takes
<1> QED
  BY <1>1 DEF Handles, HandlerStep, Refused, Arrives, GivesUp, Answered, Fails, DiscardEnds

\* What it does to processes and slots, and to the requests.
LEMMA HandlerEffect ==
  ASSUME IInv, NEW r \in Requests, Handles(r)
  PROVE  \/ UNCHANGED <<proc, clock, work>> /\ (on'[r] = on[r] \/ on'[r] = NoWorker)
            /\ at'[r] # "serving"
         \/ \E w \in Worker : Takes(r, w)
         \/ Answered(r)
         \/ Fails(r) /\ on[r] # NoWorker
<1>1. TypeOK
  BY DEF IInv
<1>2. CASE Fails(r) /\ on[r] = NoWorker
  BY <1>1, <1>2 DEF Fails, TypeOK
<1>3. CASE Arrives(r) \/ GivesUp(r) \/ DiscardEnds(r)
  BY <1>1, <1>3 DEF Arrives, GivesUp, DiscardEnds, startVars, slotVars, TypeOK
<1> QED
  BY <1>2, <1>3 DEF Handles, HandlerStep, Refused

LEMMA HandlerOthers ==
  ASSUME IInv, NEW r \in Requests, Handles(r), NEW s \in Requests \ {r}
  PROVE  at'[s] = at[s] /\ on'[s] = on[s]
<1>1. TypeOK
  BY DEF IInv
<1>2. ASSUME NEW w \in Worker, Takes(r, w) PROVE at'[s] = at[s] /\ on'[s] = on[s]
  BY <1>1, <1>2 DEF Takes, TypeOK
<1>3. CASE Arrives(r) \/ GivesUp(r) \/ DiscardEnds(r)
  BY <1>1, <1>3 DEF Arrives, GivesUp, DiscardEnds, TypeOK
<1>4. CASE Answered(r) \/ Fails(r)
  BY <1>1, <1>4 DEF Answered, Fails, TypeOK
<1> QED
  BY <1>2, <1>3, <1>4 DEF Handles, HandlerStep, Refused

LEMMA HandlerSound ==
  ASSUME IInv, NEW r \in Requests, Handles(r), NEW v \in Worker
  PROVE  Sound(v)'
<1>0. /\ TypeOK /\ Sound(v)
      /\ UNCHANGED <<boot, file, litter, runVars, first, timer, after, stopVars>>
      /\ on[r] # NoWorker => work[on[r]] \in {"busy", "draining"}
  BY HandlerFrame DEF IInv, OneHolder
<1>5. ASSUME Fails(r), on[r] # NoWorker, v # on[r]
      PROVE  proc'[v] = proc[v] /\ clock'[v] = clock[v] /\ work'[v] = work[v]
  BY <1>0, <1>5 DEF Fails, Terminated, TypeOK, StartTypeOK
<1> USE <1>0, ConstantsSound DEF TypeOK, StartTypeOK, runVars, stopVars, Sound,
        OneDuty, Kept, Owned, Asleep, Calm, Told, Due, Alive, Up, Signalled, Off
<1>1. CASE UNCHANGED <<proc, clock, work>>
  BY <1>1
<1>2. ASSUME NEW w \in Worker, Takes(r, w) PROVE Sound(v)'
  BY <1>2 DEF Takes, startVars
<1>3. CASE Answered(r)
  <2>1. on[r] \in Worker
    BY <1>3 DEF Answered
  <2>2. CASE v # on[r]
    BY <1>3, <2>1, <2>2 DEF Answered
  <2>3. CASE v = on[r]
    <3>1. work[v] = "busy" /\ work'[v] # "none" /\ proc'[v] \in {proc[v], Signalled(v)}
          /\ clock'[v] = clock[v]
      BY <1>3, <2>3 DEF Answered
    <3> QED
      BY <3>1
  <2> QED
    BY <2>2, <2>3
<1>4. CASE Fails(r) /\ on[r] # NoWorker
  <2>1. on[r] \in Worker
    BY <1>4
  <2>2. CASE v # on[r]
    BY <1>4, <1>5, <2>2
  <2>3. CASE v = on[r]
    <3>1. work'[v] = "draining" /\ proc'[v] = Signalled(v)
          /\ work[v] \in {"busy", "draining"}
      BY <1>4, <2>3 DEF Fails, Terminated
    <3> QED
      BY <3>1
  <2> QED
    BY <2>2, <2>3
<1> QED
  BY <1>1, <1>2, <1>3, <1>4, HandlerEffect

LEMMA HandlerHolds ==
  ASSUME IInv, NEW r \in Requests, Handles(r)
  PROVE  OneHolder' /\ Drained'
<1>0. TypeOK /\ OneHolder /\ Drained /\ Phases
  BY DEF IInv
<1>1. UNCHANGED <<runVars, stopVars>>
  BY HandlerFrame
<1>2. \A s \in Requests \ {r} : at'[s] = at[s] /\ on'[s] = on[s]
  BY HandlerOthers
<1>3. Inside = {} /\ main # "serving" => Inside' = {}
  <2>1. ASSUME Inside = {}, main # "serving" PROVE at[r] \in {"off", "done"}
    BY <1>0, <2>1 DEF Inside, TypeOK, ReqAt
  <2>2. ASSUME NEW w \in Worker, Takes(r, w) PROVE at[r] = "queued"
    BY <2>2 DEF Takes
  <2> QED
    BY <2>1, <2>2 DEF Inside, Handles, HandlerStep, Refused, Arrives, GivesUp, Answered,
                      Fails, DiscardEnds
<1>4. ASSUME NEW w \in Worker, Takes(r, w)
      PROVE  OneHolder' /\ (\A s \in Requests : at'[s] = "serving" /\ on'[s] # NoWorker
                                /\ stopping = {} => work'[on'[s]] = "busy")
  BY <1>0, <1>2, <1>4, ConstantsSound DEF Takes, OneHolder, Drained, TypeOK, Work
<1>5. CASE Answered(r)
  <2>1. OneHolder'
    BY <1>0, <1>2, <1>5 DEF Answered, OneHolder, TypeOK, Work
  <2>2. \A s \in Requests : at'[s] = "serving" /\ on'[s] # NoWorker
                                /\ stopping = {} => work'[on'[s]] = "busy"
    BY <1>0, <1>2, <1>5 DEF Answered, OneHolder, Drained, TypeOK, Work
  <2> QED
    BY <1>0, <1>1, <1>3, <2>1, <2>2 DEF Drained, Phases, runVars, stopVars
<1>6. CASE Fails(r) /\ on[r] # NoWorker
  <2>1. OneHolder'
    BY <1>0, <1>2, <1>6 DEF Fails, OneHolder, TypeOK, Work
  <2>2. \A s \in Requests : at'[s] = "serving" /\ on'[s] # NoWorker
                                /\ stopping = {} => work'[on'[s]] = "busy"
    BY <1>0, <1>2, <1>6 DEF Fails, OneHolder, Drained, TypeOK, Work
  <2> QED
    BY <1>0, <1>1, <1>3, <2>1, <2>2 DEF Drained, Phases, runVars, stopVars
<1>7. CASE UNCHANGED work /\ (on'[r] = on[r] \/ on'[r] = NoWorker) /\ at'[r] # "serving"
  <2>1. OneHolder'
    BY <1>0, <1>2, <1>7 DEF OneHolder
  <2>2. \A s \in Requests : at'[s] = "serving" /\ on'[s] # NoWorker
                                /\ stopping = {} => work'[on'[s]] = "busy"
    BY <1>0, <1>2, <1>7 DEF Drained
  <2> QED
    BY <1>0, <1>1, <1>3, <2>1, <2>2 DEF Drained, Phases, runVars, stopVars
<1> QED
  BY <1>0, <1>1, <1>3, <1>4, <1>5, <1>6, <1>7, HandlerEffect
     DEF Drained, Phases, runVars, stopVars

LEMMA HandlerKeeps ==
  ASSUME IInv, NEW r \in Requests, Handles(r)
  PROVE  IInv'
<1>1. Phases'
  BY HandlerFrame DEF IInv, Phases, runVars, stopVars
<1> QED
  BY <1>1, HandlerTyped, HandlerSound, HandlerHolds DEF IInv

-----------------------------------------------------------------------------
(* Steps of Run and Shutdown, and of time                                  *)

\* Run goes on and no slot changes: only the phase matters.
LEMMA PhaseSound ==
  ASSUME IInv, UNCHANGED <<startVars, slotVars>>, begun \subseteq begun',
         owed' = owed, owed = {} \/ UNCHANGED <<stage, cur>>,
         main # "gone" \/ main' = "gone",
         \A p \in Pools : p \in stopping' /\ p # cur' => p \in stopping /\ p # cur,
         NEW v \in Worker
  PROVE  Sound(v)'
<1>1. Sound(v) /\ PoolOf[v] \in Pools
  BY ConstantsSound DEF IInv
<1> QED
  BY <1>1 DEF Sound, OneDuty, Kept, Owned, Asleep, Calm, Told, Due, Alive, Up, startVars, slotVars

LEMMA RunSound ==
  ASSUME IInv, RunStep \/ ServeFails \/ Signal \/ Passes, NEW v \in Worker
  PROVE  Sound(v)'
<1>0. TypeOK /\ Sound(v) /\ Phases /\ PoolOf[v] \in Pools
  BY ConstantsSound DEF IInv
<1>13. stage = "idle" \/ cur = NoPool => owed = {}
  BY ConstantsSound DEF IInv, Sound, Due, TypeOK
<1>1. ASSUME NEW p \in Pools, PoolStarts(p) PROVE Sound(v)'
  BY <1>0, <1>1 DEF PoolStarts, Of, TypeOK, StartTypeOK, Phases, Sound, OneDuty, Kept, Owned,
     Asleep, Calm, Told, Due, Alive, Up, stopVars, slotVars
<1>2. CASE PoolStarted \/ StartFails
  BY <1>0, <1>2, <1>13, PhaseSound DEF PoolStarted, StartFails, Phases, stopVars
<1>3. CASE Leave \/ Signal
  BY <1>0, <1>3, PhaseSound DEF Leave, Signal, stopVars
<1>4. CASE Listen \/ ServeFails \/ Drain \/ DrainEnds
  BY <1>0, <1>4, PhaseSound DEF Listen, ServeFails, Drain, DrainEnds, Stops, stopVars
<1>5. ASSUME NEW p \in Pools, StopPool(p) PROVE Sound(v)'
  BY <1>0, <1>5, <1>13, PhaseSound, ConstantsSound DEF StopPool
<1>6. CASE StopIdleEnds
  BY <1>0, <1>6, PhaseSound DEF StopIdleEnds, runVars
<1> USE <1>0, ConstantsSound DEF TypeOK, StartTypeOK, runVars, Sound, OneDuty, Kept, Owned,
        Asleep, Calm, Told, Due, Alive, Up, Off
<1>7. ASSUME NEW w \in Worker, StopIdle(w) PROVE Sound(v)'
  BY <1>7 DEF StopIdle, Terminated, Signalled, Of
<1>8. CASE StopRest
  BY <1>8 DEF StopRest, Running, Of, startVars
<1>12. ASSUME NEW w \in Worker, StopTells(w) PROVE Sound(v)'
  BY <1>12 DEF StopTells, Terminated, Signalled, slotVars
<1>9. CASE StopKills
  BY <1>9 DEF StopKills, Killed, Running, Of, slotVars
<1>10. CASE StopDone
  BY <1>10 DEF StopDone, Waited, Of, Phases, slotVars
<1>11. CASE Passes
  BY <1>11 DEF Passes, Waiting, slotVars
<1> QED
  BY <1>1, <1>2, <1>3, <1>4, <1>5, <1>6, <1>7, <1>8, <1>9, <1>10, <1>11, <1>12 DEF RunStep

LEMMA RunPhases ==
  ASSUME IInv, RunStep \/ ServeFails \/ Signal \/ Passes
  PROVE  Phases'
<1> USE DEF IInv, TypeOK, Phases, runVars, stopVars
<1>1. ASSUME NEW p \in Pools, PoolStarts(p) \/ StopPool(p) PROVE Phases'
  BY <1>1 DEF PoolStarts, StopPool
<1>2. CASE PoolStarted \/ StartFails \/ Leave \/ Signal
  BY <1>2, ConstantsSound DEF PoolStarted, StartFails, Leave, Signal, Up
<1>3. CASE Listen \/ ServeFails \/ Drain \/ DrainEnds
  BY <1>3 DEF Listen, ServeFails, Drain, DrainEnds, Stops
<1>4. ASSUME NEW w \in Worker, StopIdle(w) \/ StopTells(w) PROVE Phases'
  BY <1>4 DEF StopIdle, StopTells
<1>5. CASE StopIdleEnds \/ StopRest \/ Passes
  BY <1>5, ConstantsSound DEF StopIdleEnds, StopRest, Passes
<1>6. CASE StopKills \/ StopDone
  BY <1>6, ConstantsSound DEF StopKills, StopDone
<1> QED
  BY <1>1, <1>2, <1>3, <1>4, <1>5, <1>6 DEF RunStep

\* Only Shutdown touches what a handler holds.
LEMMA RunHolds ==
  ASSUME IInv, RunStep \/ ServeFails \/ Signal \/ Passes
  PROVE  OneHolder' /\ Drained'
<1>0. TypeOK /\ OneHolder /\ Drained /\ Phases
  BY DEF IInv
<1>1. UNCHANGED <<at, on>> /\ Inside' = Inside
  BY DEF RunStep, PoolStarts, PoolStarted, StartFails, Listen, ServeFails, Stops, Drain,
     DrainEnds, StopPool, StopIdle, StopTells, StopIdleEnds, StopRest, StopKills, StopDone, Leave, Signal,
     Passes, reqVars, Inside
<1>2. CASE UNCHANGED work
  <2>1. OneHolder'
    BY <1>0, <1>1, <1>2 DEF OneHolder
  <2>2. stopping' = {} => stopping = {}
    BY <1>0 DEF RunStep, PoolStarts, PoolStarted, StartFails, Listen, ServeFails, Stops, Drain,
       DrainEnds, StopPool, StopIdle, StopTells, StopIdleEnds, StopRest, StopKills, StopDone, Leave, Signal,
       Passes, stopVars
  <2>3. main' \in {"stopping", "gone"} /\ why' = "signal" /\ httpLeft' # 0 => Inside' = {}
    BY <1>0, <1>1 DEF RunStep, PoolStarts, PoolStarted, StartFails, Listen, ServeFails, Stops,
       Drain, DrainEnds, StopPool, StopIdle, StopTells, StopIdleEnds, StopRest, StopKills, StopDone, Leave,
       Signal, Passes, stopVars, runVars, Drained, Phases, Left
  <2> QED
    BY <1>0, <1>1, <1>2, <2>1, <2>2, <2>3 DEF Drained
<1>3. ASSUME NEW w \in Worker, StopIdle(w) PROVE OneHolder' /\ Drained'
  <2>1. \A r \in Requests : on[r] # NoWorker => work'[on[r]] = work[on[r]]
    BY <1>0, <1>3 DEF StopIdle, OneHolder, TypeOK
  <2>2. stopping # {}
    BY <1>0, <1>3, ConstantsSound DEF StopIdle, Phases, Of
  <2> QED
    BY <1>0, <1>1, <1>3, <2>1, <2>2 DEF StopIdle, OneHolder, Drained, runVars
<1>4. CASE StopRest
  <2>1. \A r \in Requests : on[r] # NoWorker => work'[on[r]] \in {"busy", "draining"}
    BY <1>0, <1>4 DEF StopRest, OneHolder, TypeOK
  <2>2. stopping # {}
    BY <1>0, <1>4 DEF StopRest, Phases
  <2> QED
    BY <1>0, <1>1, <1>4, <2>1, <2>2 DEF StopRest, OneHolder, Drained, runVars
<1> QED
  BY <1>2, <1>3, <1>4 DEF RunStep, PoolStarts, PoolStarted, StartFails, Listen, ServeFails,
     Stops, Drain, DrainEnds, StopPool, StopTells, StopIdleEnds, StopKills, StopDone, Leave, Signal,
     Passes, slotVars

-----------------------------------------------------------------------------
(* Theorems                                                                *)

LEMMA StutterKeeps == ASSUME IInv, UNCHANGED vars PROVE IInv'
<1> USE DEF vars, startVars, runVars, slotVars, stopVars, reqVars
<1>1. TypeOK'
  BY DEF IInv, TypeOK, StartTypeOK
<1>2. ASSUME NEW v \in Worker PROVE Sound(v)'
  BY SameSound DEF IInv, Same
<1>3. OneHolder' /\ Phases' /\ Drained'
  BY DEF IInv, OneHolder, Phases, Drained, Inside
<1> QED
  BY <1>1, <1>2, <1>3 DEF IInv

LEMMA StepKeeps == ASSUME IInv, [Next]_vars PROVE IInv'
<1>1. CASE RunStep \/ ServeFails \/ Signal \/ Passes
  BY <1>1, RunTyped, RunSound, RunPhases, RunHolds DEF IInv
<1> QED
  BY <1>1, NextSplits, SlotKeeps, HandlerKeeps, StutterKeeps

\* What every reachable state satisfies: the parts above together.
THEOREM Invariance == Spec => []IInv
BY InitSound, StepKeeps, PTL DEF Spec

\* A worker is only ever spoken to on the socket of its own process, not on one
\* that a crashed program left at the path.
THEOREM SocketOwned == Spec => []OwnSocket
<1>1. IInv => OwnSocket
  BY DEF IInv, Sound, Owned, OwnSocket
<1> QED
  BY <1>1, Invariance, PTL

\* A process that runs is always in the hands of a boot or of a slot.
THEOREM NobodyStrays == Spec => []NoStrayProcess
<1>1. IInv => NoStrayProcess
  BY DEF IInv, Sound, Kept, NoStrayProcess
<1> QED
  BY <1>1, Invariance, PTL

\* When Run ends once the pools are up, by the signal or by an error, no process and
\* no socket of a pool is left: of every program whose pools keep the size they
\* start with.  (Scaling boots slots Shutdown does not wait for, pool.go:549.)
THEOREM EndsClean == Spec => []CleanEnd
<1>1. ASSUME IInv, main = "gone", why # "start"
      PROVE  litter = {} /\ \A w \in Worker : ~Alive(w) /\ file[w] = "no"
  <2>1. \A w \in Worker : ~Alive(w) /\ file[w] = "no" /\ w \notin litter
    BY <1>1, ConstantsSound DEF IInv, Phases, Sound, Asleep
  <2> QED
    BY <1>1, <2>1 DEF IInv, TypeOK, StartTypeOK
<1> QED
  BY <1>1, Invariance, PTL DEF CleanEnd

\* What Run's steps do to processes.
LEMMA RunProcesses ==
  ASSUME RunStep \/ ServeFails \/ Signal \/ Passes
  PROVE  \/ proc' = proc
         \/ \E w \in Worker : StopIdle(w) \/ StopTells(w)
         \/ StopKills
BY DEF RunStep, PoolStarts, PoolStarted, StartFails, Listen, ServeFails, Stops, Drain, DrainEnds,
   StopPool, StopIdleEnds, StopRest, StopDone, Leave, Signal, Passes, startVars

\* Only a worker's own steps, and only in these ways, end its process.
LEMMA SlotProcesses ==
  ASSUME IInv, NEW w \in Worker, Turn(w), work[w] # "none"
  PROVE  \/ proc'[w] = proc[w] \/ proc'[w] = "exited"
         \/ clock[w] >= Grace /\ proc'[w] = Killed(w)
<1>1. TypeOK /\ boot[w] = "off"
  BY DEF IInv, Sound, OneDuty
<1> USE <1>1 DEF TypeOK, StartTypeOK, startVars
<1>2. CASE Starts(w)
  BY <1>2 DEF Starts, StartStep, Spawns, SeesSocket, SocketNotSeen, Dials, ShakeEnds, ReapEnds
<1>3. CASE BootBegins(w) \/ Installs(w) \/ BootTooLate(w) \/ BootFailed(w)
  BY <1>3 DEF BootBegins, Installs, BootTooLate, BootFailed
<1>4. CASE TimerFires(w) \/ TimerQuits(w) \/ MonitorSees(w) \/ GraceEnds(w)
  BY <1>4 DEF TimerFires, TimerQuits, MonitorSees, GraceEnds
<1>5. CASE ProcessStep(w)
  BY <1>5 DEF ProcessStep, Binds, ListensAt, Greets, Exits
<1> QED
  BY <1>2, <1>3, <1>4, <1>5 DEF Turn, SlotStep

Cut(r) == /\ at[r] = "serving" /\ at'[r] = "serving" /\ on[r] # NoWorker
          /\ proc'[on[r]] # proc[on[r]] /\ proc'[on[r]] # "exited"

LEMMA NobodyCut ==
  ASSUME IInv, Next, NEW r \in Requests, httpLeft # 0, why \in {"nothing", "signal"}
  PROVE  ~Cut(r)
<1> SUFFICES ASSUME Cut(r) PROVE FALSE
  OBVIOUS
<1> DEFINE w == on[r]
<1>0. TypeOK /\ w \in Worker /\ Sound(w) /\ Phases /\ OneHolder /\ Drained
  BY DEF IInv, TypeOK, Cut
<1>1. r \in Inside
  BY DEF Inside, Cut
<1>2. main \notin {"stopping", "gone"}
  BY <1>0, <1>1 DEF Phases, Drained
<1>3. stopping = {} /\ stage = "idle"
  BY <1>0, <1>2 DEF TypeOK, Main, Phases
<1>4. work[w] = "busy" /\ clock[w] = Off
  BY <1>0, <1>3 DEF Drained, Cut, Sound, Calm
<1>5. ASSUME NEW v \in Worker, Turn(v) PROVE FALSE
  <2>1. CASE v = w
    BY <1>0, <1>4, <1>5, <2>1, SlotProcesses, ConstantsSound DEF Cut, Off
  <2>2. CASE v # w
    BY <1>0, <1>5, <2>2, SlotLocal DEF Cut, Same
  <2> QED
    BY <2>1, <2>2
<1>6. ASSUME NEW s \in Requests, Handles(s) PROVE FALSE
  <2>1. CASE proc' = proc
    BY <2>1 DEF Cut
  <2>2. CASE Answered(s)
    <3>1. s # r
      BY <1>0, <2>2 DEF Answered, Cut, TypeOK
    <3> QED
      BY <1>0, <2>2, <3>1 DEF Answered, Cut, OneHolder, TypeOK, StartTypeOK
  <2>3. CASE Fails(s) /\ on[s] # NoWorker
    <3>1. s # r
      BY <1>0, <2>3 DEF Fails, Cut, TypeOK
    <3>2. on[s] # w
      BY <1>0, <2>3, <3>1 DEF OneHolder
    <3> QED
      BY <1>0, <2>3, <3>2 DEF Fails, Terminated, Cut, TypeOK, StartTypeOK
  <2>4. ASSUME NEW v \in Worker, Takes(s, v) PROVE proc' = proc
    BY <2>4 DEF Takes, startVars
  <2> QED
    BY <1>6, <2>1, <2>2, <2>3, <2>4, HandlerEffect
<1>7. CASE RunStep \/ ServeFails \/ Signal \/ Passes
  <2>1. \A v \in Worker : ~StopTells(v)
    BY <1>0, <1>3 DEF StopTells, IInv, Sound, Due
  <2> QED
    BY <1>2, <1>3, <1>7, <2>1, RunProcesses DEF StopIdle, StopKills, Cut
<1> QED
  BY <1>5, <1>6, <1>7, NextSplits DEF vars, startVars, Cut

\* Nobody cuts off a worker that serves, unless Run stops for an error or
\* server.shutdown_timeout has passed.
THEOREM ServingIsSpared == Spec => ServingSpared
<1>1. IInv /\ [Next]_vars =>
        [\A r \in Requests :
          at[r] = "serving" /\ at'[r] = "serving" /\ on[r] # NoWorker
             => \/ proc'[on[r]] = proc[on[r]] \/ proc'[on[r]] = "exited"
                \/ httpLeft = 0 \/ why \notin {"nothing", "signal"}]_vars
  BY NobodyCut DEF Cut
<1> QED
  BY <1>1, Invariance, PTL DEF Spec, ServingSpared

LEMMA KillsAfterGrace ==
  ASSUME IInv, Next, NEW w \in Worker, Alive(w), proc'[w] = "killed"
  PROVE  \/ proc[w] = "term" /\ clock[w] >= Grace
         \/ poolLeft = 0 /\ PoolOf[w] = cur
<1>0. TypeOK /\ Sound(w)
  BY DEF IInv
<1> SUFFICES (proc[w] # "up" /\ clock[w] >= Grace) \/ (poolLeft = 0 /\ PoolOf[w] = cur)
  BY DEF Alive
<1> USE DEF Alive, Signalled
<1>1. ASSUME NEW v \in Worker, Turn(v)
      PROVE  proc[w] # "up" /\ clock[w] >= Grace
  <2>1. v = w
    BY <1>0, <1>1, SlotLocal DEF Same
  <2>2. CASE work[w] # "none"
    BY <1>0, <1>1, <2>1, <2>2, SlotProcesses, ConstantsSound DEF Sound, Told, Off
  <2>3. CASE work[w] = "none"
    <3>1. CASE Starts(w)
      <4>1. ReapEnds(w)
        BY <1>0, <3>1 DEF Starts, StartStep, Spawns, SeesSocket, SocketNotSeen, Dials, ShakeEnds,
           Reaps, TypeOK, StartTypeOK
      <4> QED
        BY <1>0, <4>1 DEF ReapEnds, Reaped, Sound, Told
    <3>2. CASE BootTooLate(w)
      BY <1>0, <3>2 DEF BootTooLate, Reaped, Sound, Told
    <3>3. CASE BootBegins(w) \/ Installs(w) \/ BootFailed(w) \/ TimerFires(w) \/ TimerQuits(w)
               \/ MonitorSees(w) \/ GraceEnds(w)
      BY <1>0, <2>3, <3>3 DEF BootBegins, Installs, BootFailed, TimerFires, TimerQuits, MonitorSees,
         GraceEnds, Reaps, startVars, TypeOK, StartTypeOK
    <3>4. CASE ProcessStep(w)
      BY <1>0, <3>4 DEF ProcessStep, Binds, ListensAt, Greets, Exits, TypeOK, StartTypeOK
    <3> QED
      BY <1>1, <2>1, <3>1, <3>2, <3>3, <3>4 DEF Turn, SlotStep
  <2> QED
    BY <2>2, <2>3
<1>2. ASSUME NEW r \in Requests, Handles(r) PROVE FALSE
  <2>1. ASSUME NEW v \in Worker, Takes(r, v) PROVE proc' = proc
    BY <2>1 DEF Takes, startVars
  <2>2. CASE Answered(r)
    BY <1>0, <2>2 DEF Answered, TypeOK, StartTypeOK
  <2>3. CASE Fails(r) /\ on[r] # NoWorker
    BY <1>0, <2>3 DEF Fails, Terminated, TypeOK, StartTypeOK
  <2> QED
    BY <1>2, <2>1, <2>2, <2>3, HandlerEffect
<1>3. CASE RunStep \/ ServeFails \/ Signal \/ Passes
  <2>1. ASSUME NEW v \in Worker, StopIdle(v) \/ StopTells(v) PROVE FALSE
    BY <1>0, <2>1 DEF StopIdle, StopTells, Terminated, TypeOK, StartTypeOK
  <2>2. CASE StopKills
    BY <1>0, <2>2 DEF StopKills, Running, Of
  <2> QED
    BY <1>3, <2>1, <2>2, RunProcesses
<1> QED
  BY <1>1, <1>2, <1>3, NextSplits DEF vars, startVars

\* SIGKILL never comes before SIGTERM and the grace after it, whoever ends the
\* process; but for the pool that is being stopped once the deadline ShutdownAll
\* gave to all the pools has passed.
THEOREM GraceIsGiven == Spec => GraceGiven
<1>1. IInv /\ [Next]_vars =>
        [\A w \in Worker : Alive(w) /\ proc'[w] = "killed"
           => \/ proc[w] = "term" /\ clock[w] >= Grace
              \/ poolLeft = 0 /\ PoolOf[w] = cur]_vars
  BY KillsAfterGrace
<1> QED
  BY <1>1, Invariance, PTL DEF Spec, GraceGiven

-----------------------------------------------------------------------------
(* What the end of the program rests on                                    *)
(*                                                                         *)
(* That a signal ends the program is a matter of fairness, but for three   *)
(* facts about its states and steps.  It never waits for what nothing will *)
(* bring about: every wait of Run is for slots, and each of them can go on *)
(* or has a clock running towards its deadline.  What the slots of a       *)
(* stopping pool still have to do only gets less.  And Run never goes back.*)

\* The guards of SlotStep and of RunStep.
SlotCanGo(w) ==
    \/ boot[w] \in {"begin", "spawn", "dial", "good", "bad", "started", "failed"}
    \/ boot[w] = "socket" /\ (file[w] # "no" \/ CtxDone(w) \/ clock[w] >= Startup)
    \/ boot[w] = "shake" /\ (~Alive(w) \/ clock[w] >= Handshake)
    \/ boot[w] \in {"reap", "late"} /\ clock[w] >= Grace
    \/ w \in timer /\ CtxDone(w)
    \/ work[w] # "none" /\ (~Alive(w) \/ clock[w] >= Grace)

RunCanGo ==
    \/ main = "starting" /\ IF cur = NoPool THEN Pools \ begun # {} ELSE first = {}
    \/ main = "listen"
    \/ main = "serving" /\ signalled
    \/ main = "draining" /\ (Inside = {} \/ httpLeft = 0)
    \/ main = "stopping" /\ cur = NoPool
    \/ main = "stopping" /\ cur # NoPool /\ stage = "idle"
          /\ (hand = NoWorker \/ ~Alive(hand))
    \/ owed # {}
    \/ stage # "idle" /\ (Waited(cur) \/ (stage = "wait" /\ poolLeft = 0))

\* The slots Run waits for.
Awaited ==
    IF main = "starting" THEN first
    ELSE IF main # "stopping" THEN {}
    ELSE IF stage = "idle" THEN {hand} \ {NoWorker}
    ELSE {w \in Of(cur) : work[w] # "none" \/ boot[w] # "off" \/ w \in timer}

NeverStuck ==
    Up /\ (main = "serving" => signalled) =>
        \/ RunCanGo
        \/ main = "draining" /\ httpLeft > 0
        \/ Awaited # {} /\ \A w \in Awaited : SlotCanGo(w) \/ w \in Waiting

\* A clock runs in every wait, and Run waits for no slot that has ended.
Timed(w) ==
    /\ boot[w] \in {"socket", "shake", "reap", "late"} => clock[w] # Off
    /\ w \in first => boot[w] # "off"
    /\ stage # "idle" /\ PoolOf[w] = cur /\ work[w] # "none" /\ w \notin owed => clock[w] # Off
    /\ hand = w => /\ boot[w] = "off" /\ w \notin timer
                   /\ PoolOf[w] = cur /\ cur \in stopping
                   /\ Alive(w) => work[w] # "none" /\ clock[w] # Off

Underway ==
    /\ main = "draining" => httpLeft # Off
    /\ main = "starting" /\ cur = NoPool => begun # Pools
    /\ hand # NoWorker => main = "stopping" /\ stage = "idle" /\ cur # NoPool

TInv == IInv /\ (\A w \in Worker : Timed(w)) /\ Underway

LEMMA InitTimed == Init => TInv
<1> SUFFICES ASSUME Init PROVE TInv
  OBVIOUS
<1>1. \A w \in Worker : Timed(w)
  BY ConstantsSound DEF Init, InitStart, Timed, Alive
<1>2. Underway
  BY ServerAssumption DEF Init, Underway
<1> QED
  BY <1>1, <1>2, InitSound DEF TInv

\* Of the slot that takes the step.
LEMMA TurnTimed ==
  ASSUME TInv, NEW w \in Worker, Turn(w)
  PROVE  Timed(w)'
<1>0. /\ TypeOK /\ Sound(w) /\ Timed(w) /\ UNCHANGED <<runVars, stopVars, at>>
      /\ stage # "idle" => cur \in stopping
  BY SlotFrame DEF TInv, IInv, Phases
<1> USE <1>0, ConstantsSound DEF TypeOK, StartTypeOK, At, Waits, runVars, stopVars, Sound,
        OneDuty, Kept, Calm, Timed, Alive, Up, Signalled, Killed, Off
<1>1. ASSUME StartStep(w, CtxDone(w)), UNCHANGED <<runVars, slotVars, stopVars, reqVars>>
      PROVE  Timed(w)'
  <2> USE <1>1 DEF slotVars
  <2>1. CASE Spawns(w)
    BY <2>1 DEF Spawns, Clears
  <2>2. CASE SeesSocket(w)
    BY <2>2 DEF SeesSocket
  <2>3. CASE SocketNotSeen(w, CtxDone(w))
    BY <2>3 DEF SocketNotSeen, Reaps
  <2>4. CASE Dials(w, CtxDone(w))
    BY <2>4 DEF Dials, Reaps
  <2>5. CASE ShakeEnds(w)
    BY <2>5 DEF ShakeEnds, Reaps
  <2>6. CASE ReapEnds(w)
    BY <2>6 DEF ReapEnds, Reaped
  <2> QED
    BY <2>1, <2>2, <2>3, <2>4, <2>5, <2>6 DEF StartStep
<1>2. CASE BootBegins(w)
  BY <1>2 DEF BootBegins
<1>3. CASE Installs(w)
  BY <1>3 DEF Installs, Reaps
<1>4. CASE BootTooLate(w)
  BY <1>4 DEF BootTooLate, Reaped
<1>5. CASE BootFailed(w)
  BY <1>5 DEF BootFailed
<1>6. CASE TimerFires(w)
  BY <1>6 DEF TimerFires
<1>7. CASE TimerQuits(w)
  BY <1>7 DEF TimerQuits, startVars
<1>8. CASE MonitorSees(w)
  BY <1>8 DEF MonitorSees
<1>9. CASE GraceEnds(w)
  BY <1>9 DEF GraceEnds, slotVars
<1>10. ASSUME ProcessStep(w), UNCHANGED slotVars PROVE Timed(w)'
  <2>1. CASE Binds(w) \/ ListensAt(w)
    BY <1>10, <2>1 DEF Binds, ListensAt, slotVars
  <2>2. CASE Greets(w)
    BY <1>10, <2>2 DEF Greets, slotVars
  <2>3. CASE Exits(w)
    BY <1>10, <2>3 DEF Exits, slotVars
  <2> QED
    BY <1>10, <2>1, <2>2, <2>3 DEF ProcessStep
<1> QED
  BY <1>1, <1>2, <1>3, <1>4, <1>5, <1>6, <1>7, <1>8, <1>9, <1>10 DEF Turn, SlotStep, Starts

\* A slot's step adds nothing to the boots Start waits for.
LEMMA FirstLess ==
  ASSUME NEW w \in Worker, Turn(w)
  PROVE  first' \subseteq first
<1> USE DEF slotVars
<1>1. CASE BootBegins(w) \/ Starts(w) \/ Installs(w) \/ BootTooLate(w) \/ BootFailed(w)
  BY <1>1 DEF BootBegins, Starts, Installs, BootTooLate, BootFailed
<1>2. CASE TimerQuits(w) \/ MonitorSees(w) \/ GraceEnds(w) \/ TimerFires(w)
  BY <1>2 DEF TimerQuits, MonitorSees, GraceEnds, TimerFires
<1> QED
  BY <1>1, <1>2 DEF Turn, SlotStep

LEMMA SlotKeepsTimed ==
  ASSUME TInv, NEW w \in Worker, Turn(w)
  PROVE  (\A v \in Worker : Timed(v)') /\ Underway'
<1>1. TypeOK /\ UNCHANGED <<runVars, stopVars, at>>
  BY SlotFrame DEF TInv, IInv
<1>2. ASSUME NEW v \in Worker, v # w PROVE Timed(v)'
  <2>1. Same(v) /\ first' \subseteq first /\ Timed(v)
    BY <1>1, <1>2, SlotLocal, FirstLess DEF TInv
  <2> QED
    BY <1>1, <2>1 DEF Timed, Same, Alive, runVars, stopVars
<1> QED
  BY <1>1, <1>2, TurnTimed DEF TInv, Underway, runVars, stopVars

LEMMA HandlerKeepsTimed ==
  ASSUME TInv, NEW r \in Requests, Handles(r)
  PROVE  (\A v \in Worker : Timed(v)') /\ Underway'
<1>0. /\ TypeOK /\ IInv /\ Underway
      /\ UNCHANGED <<boot, file, litter, runVars, first, timer, after, stopVars>>
      /\ on[r] # NoWorker => on[r] \in Worker /\ work[on[r]] \in {"busy", "draining"}
  BY HandlerFrame DEF TInv, IInv, OneHolder, TypeOK
<1>1. Underway'
  BY <1>0 DEF Underway, runVars, stopVars
<1>2. ASSUME NEW v \in Worker
      PROVE  /\ clock'[v] = clock[v] \/ clock'[v] # Off
             /\ work'[v] = "none" <=> work[v] = "none"
             /\ Alive(v)' => Alive(v)
  <2> USE <1>0 DEF TypeOK, StartTypeOK, Alive, Signalled, Off, startVars
  <2>1. ASSUME NEW w \in Worker, Takes(r, w)
        PROVE  /\ clock'[v] = clock[v] /\ (work'[v] = "none" <=> work[v] = "none")
               /\ Alive(v)' => Alive(v)
    BY <2>1 DEF Takes
  <2>2. CASE Answered(r)
    BY <2>2 DEF Answered
  <2>3. CASE Fails(r) /\ on[r] # NoWorker
    <3> HIDE DEF Signalled, Off
    <3>1. /\ work' = [work EXCEPT ![on[r]] = "draining"]
          /\ proc' = [proc EXCEPT ![on[r]] = Signalled(on[r])]
          /\ clock' = [clock EXCEPT ![on[r]] = IF @ = Off THEN 0 ELSE @]
      BY <2>3 DEF Fails, Terminated
    <3>2. Alive(v)' => Alive(v)
      BY <3>1 DEF Signalled
    <3>3. clock'[v] = clock[v] \/ clock'[v] # Off
      BY <3>1 DEF Off
    <3>4. work'[v] = "none" <=> work[v] = "none"
      BY <2>3, <3>1
    <3> QED
      BY <3>2, <3>3, <3>4
  <2>4. CASE UNCHANGED <<proc, clock, work>>
    BY <2>4
  <2> QED
    BY <2>1, <2>2, <2>3, <2>4, HandlerEffect
<1>3. ASSUME NEW v \in Worker PROVE Timed(v)'
  <2>1. Timed(v)
    BY DEF TInv
  <2> QED
    BY <1>0, <1>2, <2>1 DEF Timed, runVars, stopVars
<1> QED
  BY <1>1, <1>3

LEMMA RunKeepsTimed ==
  ASSUME TInv, RunStep \/ ServeFails \/ Signal \/ Passes
  PROVE  (\A v \in Worker : Timed(v)') /\ Underway'
<1>0. /\ TypeOK /\ Phases /\ Underway /\ \A v \in Worker : Timed(v) /\ Sound(v)
      /\ \A v \in Worker : PoolOf[v] \in Pools
  BY ConstantsSound DEF TInv, IInv
\* Slots and processes stay.
<1>1. ASSUME UNCHANGED <<startVars, slotVars>>, UNCHANGED <<stage, hand, owed>>,
             cur' = cur \/ (stage = "idle" /\ hand = NoWorker), stopping \subseteq stopping',
             Underway'
      PROVE  (\A v \in Worker : Timed(v)') /\ Underway'
  BY <1>0, <1>1, ConstantsSound DEF Timed, Alive, startVars, slotVars
<1>2. ASSUME NEW p \in Pools, PoolStarts(p) \/ StopPool(p)
      PROVE  (\A v \in Worker : Timed(v)') /\ Underway'
  <2>1. CASE PoolStarts(p)
    <3>1. UNCHANGED <<proc, clock, timer, work, stopVars, main>> /\ main = "starting"
          /\ cur' = p /\ first' = Of(p) /\ hand = NoWorker /\ stage = "idle"
          /\ boot' = [w \in Worker |-> IF w \in Of(p) THEN "begin" ELSE boot[w]]
      BY <1>0, <2>1, ConstantsSound DEF PoolStarts, Phases, Underway
    <3>2. ASSUME NEW v \in Worker PROVE Timed(v)'
      BY <1>0, <3>1, <3>2, ConstantsSound DEF Timed, stopVars, Of, Alive, TypeOK, StartTypeOK
    <3>3. Underway'
      BY <1>0, <3>1, ConstantsSound DEF Underway, stopVars
    <3> QED
      BY <3>2, <3>3
  <2>2. CASE StopPool(p)
    <3>1. hand = NoWorker /\ stage = "idle" /\ stage' = "idle" /\ UNCHANGED <<hand, owed>>
      BY <1>0, <2>2, ConstantsSound DEF StopPool, Underway, Phases, TypeOK
    <3>2. Underway'
      BY <1>0, <2>2, <3>1, ConstantsSound DEF StopPool, Underway
    <3> QED
      BY <1>1, <2>2, <3>1, <3>2 DEF StopPool
  <2> QED
    BY <1>2, <2>1, <2>2
<1>3. CASE PoolStarted \/ StartFails
  <2>1. UNCHANGED <<startVars, slotVars, stopVars>> /\ stage = "idle" /\ hand = NoWorker
        /\ Underway'
    BY <1>0, <1>3 DEF PoolStarted, StartFails, Underway, Phases, stopVars, TypeOK
  <2> QED
    BY <1>1, <2>1 DEF stopVars
<1>4. CASE Listen \/ ServeFails \/ Drain \/ DrainEnds
  <2>1. UNCHANGED <<startVars, slotVars, cur, stage, hand, owed, stopping>> /\ Underway'
    BY <1>0, <1>4, ConstantsSound DEF Listen, ServeFails, Drain, DrainEnds, Stops, Underway,
       runVars, stopVars, Off
  <2> QED
    BY <1>1, <2>1
<1>5. CASE Signal \/ Leave
  <2>1. UNCHANGED <<startVars, slotVars, cur, stopVars>> /\ Underway'
    BY <1>0, <1>5 DEF Signal, Leave, Underway, stopVars
  <2> QED
    BY <1>1, <2>1 DEF stopVars
<1>6. CASE StopIdleEnds
  <2>1. UNCHANGED <<startVars, slotVars, cur, stage, stopping, owed, main, httpLeft, begun>>
        /\ hand' = NoWorker
    BY <1>6 DEF StopIdleEnds, runVars
  <2> QED
    BY <1>0, <2>1, ConstantsSound DEF Timed, Underway, Alive, startVars, slotVars
<1>7. ASSUME NEW w \in Worker, StopIdle(w) PROVE (\A v \in Worker : Timed(v)') /\ Underway'
  <2>1. /\ UNCHANGED <<boot, first, timer, cur, stage, stopping, main, httpLeft, begun>>
        /\ hand' = w /\ stage = "idle" /\ main = "stopping" /\ work[w] = "idle"
        /\ PoolOf[w] = cur /\ work' = [work EXCEPT ![w] = "stopped"]
        /\ clock[w] = Off /\ boot[w] = "off" /\ w \notin timer /\ hand = NoWorker
        /\ Terminated(w)
    BY <1>0, <1>7 DEF StopIdle, runVars, Of, Sound, Calm, OneDuty
  <2>2. /\ proc' = [proc EXCEPT ![w] = Signalled(w)]
        /\ clock' = [clock EXCEPT ![w] = IF @ = Off THEN 0 ELSE @]
    BY <2>1 DEF Terminated
  <2>3. cur \in stopping
    BY <1>0, <2>1, ConstantsSound DEF Phases
  <2>4. ASSUME NEW v \in Worker PROVE Timed(v)'
    BY <1>0, <2>1, <2>2, <2>3, <2>4, ConstantsSound DEF Timed, Alive, Off, TypeOK, StartTypeOK
  <2>5. Underway'
    BY <1>0, <2>1, <2>3, ConstantsSound DEF Underway
  <2> QED
    BY <2>4, <2>5
<1>8. CASE StopRest
  <2>1. /\ UNCHANGED <<boot, clock, first, timer, cur, stopping, main, httpLeft, begun, hand>>
        /\ hand = NoWorker
        /\ \A v \in Worker : PoolOf[v] = cur /\ work'[v] # "none" => v \in owed'
    BY <1>0, <1>8 DEF StopRest, startVars, runVars, Running, Of
  <2> QED
    BY <1>0, <2>1, ConstantsSound DEF Timed, Underway
<1>12. ASSUME NEW w \in Worker, StopTells(w) PROVE (\A v \in Worker : Timed(v)') /\ Underway'
  <2>1. /\ UNCHANGED <<boot, first, timer, work, cur, stopping, stage, main, httpLeft, begun, hand>>
        /\ stage # "idle" /\ hand = NoWorker /\ owed' = owed \ {w}
    BY <1>0, <1>12 DEF StopTells, runVars, slotVars, Sound, Due, Underway
  <2>2. \A v \in Worker : /\ clock[v] # Off => clock'[v] # Off
                          /\ v = w /\ work[v] # "none" => clock'[v] # Off
    BY <1>0, <1>12 DEF StopTells, Terminated, TypeOK, StartTypeOK, Off
  <2> QED
    BY <1>0, <2>1, <2>2, ConstantsSound DEF Timed, Underway
<1>9. CASE StopKills
  <2>1. /\ UNCHANGED <<boot, clock, first, timer, work, cur, stopping, main, httpLeft, begun, hand,
                        owed>>
        /\ \A v \in Worker : Alive(v)' => Alive(v)
    BY <1>9 DEF StopKills, runVars, slotVars, Killed, Alive
  <2>2. hand = NoWorker /\ stage # "idle"
    BY <1>0, <1>9 DEF StopKills, Underway
  <2> QED
    BY <1>0, <2>1, <2>2, ConstantsSound DEF Timed, Underway
<1>10. CASE StopDone
  <2>1. /\ UNCHANGED <<proc, boot, clock, first, timer, work, stopping, main, httpLeft, begun, hand>>
        /\ hand = NoWorker /\ stage' = "idle" /\ main = "stopping"
    BY <1>0, <1>10 DEF StopDone, slotVars, Underway, Phases
  <2> QED
    BY <1>0, <2>1, ConstantsSound DEF Timed, Underway
<1>11. CASE Passes
  <2>1. /\ UNCHANGED <<proc, boot, runVars, first, timer, work, stopping, stage, hand, owed>>
        /\ \A v \in Worker : clock[v] # Off => clock'[v] # Off
        /\ httpLeft # Off => httpLeft' # Off
    BY <1>0, <1>11 DEF Passes, Waiting, slotVars, Left, TypeOK, StartTypeOK, Off
  <2> QED
    BY <1>0, <2>1 DEF Timed, Underway, Alive, runVars
<1> QED
  BY <1>2, <1>3, <1>4, <1>5, <1>6, <1>7, <1>8, <1>9, <1>10, <1>11, <1>12 DEF RunStep

LEMMA StepKeepsTimed == ASSUME TInv, [Next]_vars PROVE TInv'
<1>1. IInv'
  BY StepKeeps DEF TInv
<1>2. CASE UNCHANGED vars
  BY <1>1, <1>2 DEF TInv, Timed, Underway, Alive, vars, startVars, runVars, slotVars, stopVars
<1> QED
  BY <1>1, <1>2, NextSplits, SlotKeepsTimed, HandlerKeepsTimed, RunKeepsTimed DEF TInv

\* Every wait has its clock: what a boot, a slot or Shutdown waits for is bounded,
\* in every reachable state.
THEOREM WaitsTimed == Spec => []TInv
BY InitTimed, StepKeepsTimed, PTL DEF Spec

\* Whoever is waited for can go on, or its wait is bounded.
LEMMA SlotGoes ==
  ASSUME TInv, NEW w \in Worker, boot[w] # "off" \/ (work[w] # "none" /\ clock[w] # Off)
  PROVE  SlotCanGo(w) \/ w \in Waiting
<1>1. TypeOK /\ Timed(w)
  BY DEF TInv, IInv
<1>2. clock[w] \in Nat \/ clock[w] = Off
  BY <1>1, ConstantsSound DEF TypeOK, StartTypeOK
<1>3. Startup <= Longest /\ Handshake <= Longest /\ Grace <= Longest
  BY ConstantsSound DEF Longest
<1>4. boot[w] \in Boot
  BY <1>1 DEF TypeOK, StartTypeOK
<1> QED
  BY <1>1, <1>2, <1>3, <1>4, ConstantsSound DEF Timed, SlotCanGo, Waiting, Boot, Off

LEMMA RunGoes == ASSUME TInv PROVE NeverStuck
<1> SUFFICES ASSUME Up, main = "serving" => signalled, ~RunCanGo,
                    ~(main = "draining" /\ httpLeft > 0)
             PROVE  Awaited # {} /\ \A w \in Awaited : SlotCanGo(w) \/ w \in Waiting
  BY DEF NeverStuck
<1>1. TypeOK /\ Underway /\ Phases /\ \A w \in Worker : Timed(w)
  BY DEF TInv, IInv
<1>2. main \in {"starting", "stopping"}
  BY <1>1 DEF TypeOK, Main, Up, RunCanGo, Underway, Off
<1>3. CASE main = "starting"
  <2>1. first # {} /\ first \subseteq Worker /\ Awaited = first
    BY <1>1, <1>3 DEF TypeOK, RunCanGo, Underway, Awaited
  <2>2. \A w \in first : boot[w] # "off"
    BY <1>1, <2>1 DEF Timed
  <2> QED
    BY <2>1, <2>2, SlotGoes
<1>4. CASE main = "stopping" /\ stage = "idle"
  <2>1. hand \in Worker /\ Alive(hand) /\ Awaited = {hand}
    BY <1>1, <1>4 DEF TypeOK, RunCanGo, Awaited
  <2>2. work[hand] # "none" /\ clock[hand] # Off
    BY <1>1, <2>1 DEF Timed
  <2> QED
    BY <2>1, <2>2, SlotGoes
<1>5. CASE main = "stopping" /\ stage # "idle"
  <2>1. Awaited = {w \in Of(cur) : work[w] # "none" \/ boot[w] # "off" \/ w \in timer}
    BY <1>5 DEF Awaited
  <2>2. Awaited # {}
    BY <1>5, <2>1 DEF RunCanGo, Waited
  <2>3. ASSUME NEW w \in Awaited PROVE SlotCanGo(w) \/ w \in Waiting
    <3>1. w \in Worker /\ PoolOf[w] = cur /\ cur \in stopping
      BY <1>1, <1>5, <2>1 DEF Of, Phases
    <3>2. CASE w \in timer
      BY <3>1, <3>2 DEF SlotCanGo, CtxDone
    <3>3. work[w] # "none" => clock[w] # Off
      BY <1>1, <1>5, <3>1 DEF Timed, RunCanGo
    <3> QED
      BY <2>1, <3>1, <3>2, <3>3, SlotGoes
  <2> QED
    BY <2>2, <2>3
<1> QED
  BY <1>2, <1>3, <1>4, <1>5

\* While the pools are started, and once a signal or an error stops the program,
\* Run can go on, or its own deadline runs, or it waits for slots each of which can
\* go on or has a deadline that runs.
THEOREM NoWaitIsForever == Spec => []NeverStuck
BY WaitsTimed, RunGoes, PTL

\* What a slot still has to do before its pool has stopped: the steps of the boot it
\* is in, the restart it is due, the end of its process.
BootLeft(place) ==
    CASE place = "spawn" -> 9 [] place = "socket" -> 8 [] place = "dial" -> 7
      [] place = "shake" -> 6 [] place \in {"good", "bad"} -> 5 [] place = "started" -> 4
      [] place \in {"reap", "late"} -> 3 [] place = "failed" -> 2 [] OTHER -> 1

ProcLeft(w) == IF proc[w] = "up" THEN 3 ELSE IF proc[w] = "term" THEN 2 ELSE 1

Remaining(w) ==
    IF boot[w] # "off" THEN BootLeft(boot[w])
    ELSE IF w \in timer THEN 1
    ELSE IF work[w] # "none" THEN ProcLeft(w) ELSE 0

GoesDown(w) ==
    PoolOf[w] \in stopping => /\ Remaining(w)' <= Remaining(w)
                              /\ SlotStep(w) => Remaining(w)' < Remaining(w)

LEMMA SameRemains ==
  ASSUME NEW w \in Worker, UNCHANGED <<boot, timer>>, work[w] = "none" => work'[w] = "none",
         proc'[w] = proc[w] \/ (Alive(w) /\ proc'[w] # "up")
  PROVE  Remaining(w)' <= Remaining(w)
<1>1. ProcLeft(w) \in 1..3 /\ ProcLeft(w)' \in 1..3 /\ ProcLeft(w)' <= ProcLeft(w)
  BY DEF ProcLeft, Alive
<1>2. CASE boot[w] # "off" \/ w \in timer
  <2>1. Remaining(w)' = Remaining(w) /\ Remaining(w) \in Nat
    BY <1>2 DEF Remaining, BootLeft
  <2> QED
    BY <2>1
<1> QED
  BY <1>1, <1>2 DEF Remaining

\* A step of the slot itself.
LEMMA SlotStepLess ==
  ASSUME IInv, NEW w \in Worker, SlotStep(w), PoolOf[w] \in stopping
  PROVE  Remaining(w)' < Remaining(w)
<1>0. TypeOK /\ Sound(w)
  BY DEF IInv
<1> USE <1>0 DEF TypeOK, StartTypeOK, At, Waits, Sound, OneDuty, Remaining, ProcLeft, BootLeft
<1>1. CASE Starts(w)
  <2>1. boot'[w] # "off" /\ boot[w] # "off" /\ BootLeft(boot'[w]) < BootLeft(boot[w])
    <3>1. CASE Spawns(w)
      BY <3>1 DEF Spawns
    <3>2. CASE SeesSocket(w) \/ SocketNotSeen(w, CtxDone(w))
      BY <3>2 DEF SeesSocket, SocketNotSeen, Reaps
    <3>3. CASE Dials(w, CtxDone(w)) \/ ShakeEnds(w)
      BY <3>3 DEF Dials, ShakeEnds, Reaps
    <3>4. CASE ReapEnds(w)
      BY <3>4 DEF ReapEnds, Reaped
    <3> QED
      BY <1>1, <3>1, <3>2, <3>3, <3>4 DEF Starts, StartStep
  <2> QED
    BY <2>1
<1>2. CASE BootBegins(w)
  BY <1>2 DEF BootBegins
<1>3. CASE Installs(w)
  BY <1>3 DEF Installs, Reaps
<1>4. CASE BootTooLate(w)
  BY <1>4 DEF BootTooLate, Reaped
<1>5. CASE BootFailed(w)
  BY <1>5 DEF BootFailed
<1>6. CASE TimerQuits(w)
  BY <1>6 DEF TimerQuits, startVars
<1>7. CASE MonitorSees(w)
  BY <1>7 DEF MonitorSees, Alive
<1>8. CASE GraceEnds(w)
  BY <1>8 DEF GraceEnds, slotVars, Killed, Alive
<1> QED
  BY <1>1, <1>2, <1>3, <1>4, <1>5, <1>6, <1>7, <1>8 DEF SlotStep

LEMMA TurnRemains ==
  ASSUME IInv, NEW w \in Worker, Turn(w), PoolOf[w] \in stopping
  PROVE  Remaining(w)' <= Remaining(w)
<1>0. TypeOK /\ Sound(w)
  BY DEF IInv
<1>1. Remaining(w) \in Nat /\ Remaining(w)' \in Nat
  BY DEF Remaining, ProcLeft, BootLeft
<1>2. CASE SlotStep(w)
  BY <1>1, <1>2, SlotStepLess
<1>3. CASE TimerFires(w)
  BY <1>0, <1>3 DEF TimerFires, Remaining, Sound, OneDuty
<1>4. ASSUME ProcessStep(w), UNCHANGED slotVars
      PROVE  Remaining(w)' <= Remaining(w)
  <2>1. CASE Binds(w) \/ ListensAt(w)
    BY <1>4, <2>1, SameRemains DEF Binds, ListensAt, slotVars
  <2>2. CASE Greets(w)
    BY <1>0, <2>2 DEF Greets, At, Remaining, BootLeft, TypeOK, StartTypeOK
  <2>3. CASE Exits(w)
    BY <1>0, <1>4, <2>3, SameRemains DEF Exits, slotVars, TypeOK, StartTypeOK
  <2> QED
    BY <1>4, <2>1, <2>2, <2>3 DEF ProcessStep
<1> QED
  BY <1>2, <1>3, <1>4 DEF Turn

LEMMA HandlerRemains ==
  ASSUME IInv, NEW r \in Requests, Handles(r), NEW v \in Worker
  PROVE  Remaining(v)' <= Remaining(v)
<1>0. /\ TypeOK /\ UNCHANGED <<boot, timer>>
      /\ on[r] # NoWorker => on[r] \in Worker /\ work[on[r]] \in {"busy", "draining"}
  BY HandlerFrame DEF IInv, OneHolder, TypeOK
<1>1. ASSUME NEW w \in Worker, Takes(r, w)
      PROVE  proc' = proc /\ (work[v] = "none" => work'[v] = "none")
  BY <1>0, <1>1 DEF Takes, TypeOK, startVars
<1>2. CASE Answered(r)
  <2>1. work[v] = "none" => work'[v] = "none"
    BY <1>0, <1>2 DEF Answered, TypeOK
  <2>2. proc'[v] = proc[v] \/ (Alive(v) /\ proc'[v] # "up")
    BY <1>0, <1>2 DEF Answered, TypeOK, StartTypeOK, Signalled, Alive
  <2> QED
    BY <1>0, <2>1, <2>2, SameRemains
<1>3. CASE Fails(r) /\ on[r] # NoWorker
  <2>1. work[v] = "none" => work'[v] = "none"
    BY <1>0, <1>3 DEF Fails, TypeOK
  <2>2. proc'[v] = proc[v] \/ (Alive(v) /\ proc'[v] # "up")
    BY <1>0, <1>3 DEF Fails, Terminated, Signalled, Alive, TypeOK, StartTypeOK
  <2> QED
    BY <1>0, <2>1, <2>2, SameRemains
<1> QED
  BY <1>0, <1>1, <1>2, <1>3, HandlerEffect, SameRemains

LEMMA RunRemains ==
  ASSUME IInv, RunStep \/ ServeFails \/ Signal \/ Passes, NEW v \in Worker,
         PoolOf[v] \in stopping
  PROVE  Remaining(v)' <= Remaining(v)
<1>0. TypeOK /\ Phases
  BY DEF IInv
<1>1. ASSUME NEW p \in Pools, PoolStarts(p) PROVE FALSE
  BY <1>0, <1>1 DEF PoolStarts, Phases
<1>2. UNCHANGED <<boot, timer>>
  BY <1>1 DEF RunStep, PoolStarted, StartFails, Listen, ServeFails, Stops, Drain, DrainEnds,
     StopPool, StopIdle, StopTells, StopIdleEnds, StopRest, StopKills, StopDone, Leave, Signal, Passes,
     startVars, slotVars
<1>3. ASSUME NEW w \in Worker, StopIdle(w) PROVE Remaining(v)' <= Remaining(v)
  <2>1. work[v] = "none" => work'[v] = "none"
    BY <1>0, <1>3 DEF StopIdle, TypeOK
  <2>2. proc'[v] = proc[v] \/ (Alive(v) /\ proc'[v] # "up")
    BY <1>0, <1>3 DEF StopIdle, Terminated, Signalled, Alive, TypeOK, StartTypeOK
  <2> QED
    BY <1>2, <2>1, <2>2, SameRemains
<1>7. ASSUME NEW w \in Worker, StopTells(w) PROVE Remaining(v)' <= Remaining(v)
  <2>1. work' = work
    BY <1>7 DEF StopTells, slotVars
  <2>2. proc'[v] = proc[v] \/ (Alive(v) /\ proc'[v] # "up")
    BY <1>0, <1>7 DEF StopTells, Terminated, Signalled, Alive, TypeOK, StartTypeOK
  <2> QED
    BY <1>2, <2>1, <2>2, SameRemains
<1>4. CASE StopRest
  <2>1. work[v] = "none" => work'[v] = "none"
    BY <1>4 DEF StopRest, Running
  <2>2. proc'[v] = proc[v]
    BY <1>4 DEF StopRest, startVars
  <2> QED
    BY <1>2, <2>1, <2>2, SameRemains
<1>5. CASE StopKills
  <2>1. work' = work
    BY <1>5 DEF StopKills, slotVars
  <2>2. proc'[v] = proc[v] \/ (Alive(v) /\ proc'[v] # "up")
    BY <1>5 DEF StopKills, Killed
  <2> QED
    BY <1>2, <2>1, <2>2, SameRemains
<1>6. CASE UNCHANGED <<work, proc>>
  BY <1>2, <1>6, SameRemains
<1> QED
  BY <1>1, <1>3, <1>4, <1>5, <1>6, <1>7 DEF RunStep, PoolStarted, StartFails, Listen, ServeFails, Stops,
     Drain, DrainEnds, StopPool, StopIdleEnds, StopDone, Leave, Signal, Passes, startVars, slotVars

\* What a slot of a stopping pool still has to do only gets less, whoever takes a
\* step, and every step of the slot itself makes it less: nothing starts over.
THEOREM StoppingGoesDown == Spec => [][\A w \in Worker : GoesDown(w)]_vars
<1>1. ASSUME IInv, Next, NEW w \in Worker, ~UNCHANGED vars PROVE GoesDown(w)
  <2>1. SUFFICES ASSUME PoolOf[w] \in stopping PROVE Remaining(w)' <= Remaining(w)
    BY <1>1, SlotStepLess DEF GoesDown
  <2>2. ASSUME NEW v \in Worker, Turn(v), v # w PROVE Remaining(w)' <= Remaining(w)
    <3>1. Same(w)
      BY <1>1, <2>2, SlotLocal DEF IInv
    <3>2. Remaining(w)' = Remaining(w) /\ Remaining(w) \in Nat
      BY <3>1 DEF Same, Remaining, ProcLeft, BootLeft
    <3> QED
      BY <3>2
  <2> QED
    BY <1>1, <2>1, <2>2, NextSplits, TurnRemains, HandlerRemains, RunRemains
<1>2. IInv /\ [Next]_vars => [\A w \in Worker : GoesDown(w)]_vars
  BY <1>1
<1> QED
  BY <1>2, Invariance, PTL DEF Spec

\* Where Run is, as a number, and how far Shutdown has got with a pool.
Place ==
    CASE main = "starting" -> 0 [] main = "listen" -> 1 [] main = "serving" -> 2
      [] main = "draining" -> 3 [] main = "stopping" -> 4 [] main = "gone" -> 5
StageLeft == CASE stage = "idle" -> 2 [] stage = "wait" -> 1 [] stage = "killed" -> 0
Idling == {w \in Http \cap Of(cur) : work[w] = "idle"}

\* No step takes Run back, nor Shutdown within the pool it is at, ...
NoStepBack ==
    /\ Place <= Place' /\ begun \subseteq begun' /\ stopping \subseteq stopping'
    /\ begun' = begun /\ stopping' = stopping => cur' \in {cur, NoPool}
    /\ main = "stopping" /\ stopping' = stopping /\ cur' = cur =>
         /\ StageLeft' <= StageLeft /\ Idling' \subseteq Idling
         /\ Idling' = Idling => hand' \in {hand, NoWorker}
         /\ StageLeft' = StageLeft => owed' \subseteq owed

\* ... and a step of Run takes it on: to the next phase, to another pool, away
\* from one, to the next stage, to the next idle worker or away from one, or to one
\* more worker that is told to go.
StepOn ==
    \/ Place < Place' \/ begun' # begun \/ stopping' # stopping \/ cur' # cur
    \/ StageLeft' < StageLeft \/ Idling' # Idling \/ hand' # hand \/ owed' # owed

LEMMA RunStepOn ==
  ASSUME IInv, RunStep
  PROVE  StepOn
<1> USE DEF StepOn
<1>0. TypeOK /\ Phases
  BY DEF IInv
<1>1. ASSUME NEW w \in Worker, StopIdle(w) PROVE hand' # hand
  BY <1>1, ConstantsSound DEF StopIdle
<1>7. ASSUME NEW w \in Worker, StopTells(w) PROVE owed' # owed
  BY <1>7 DEF StopTells
<1>2. CASE StopDone
  BY <1>0, <1>2, ConstantsSound DEF StopDone, Phases, TypeOK
<1>3. CASE \E p \in Pools : PoolStarts(p) \/ StopPool(p)
  BY <1>3 DEF PoolStarts, StopPool
<1>4. CASE PoolStarted \/ StopIdleEnds
  BY <1>4 DEF PoolStarted, StopIdleEnds
<1>5. CASE StopRest \/ StopKills
  BY <1>5 DEF StopRest, StopKills, StageLeft
<1>6. CASE StartFails \/ Listen \/ Drain \/ DrainEnds \/ Leave
  BY <1>6 DEF StartFails, Listen, Drain, DrainEnds, Leave, Stops, Place
<1> QED
  BY <1>1, <1>2, <1>3, <1>4, <1>5, <1>6, <1>7 DEF RunStep

\* Who stands idle in the pool that is being stopped was so before.
LEMMA OthersIdleNoMore ==
  ASSUME IInv, main = "stopping", UNCHANGED <<cur, stopping>>,
         (\E w \in Worker : Turn(w)) \/ (\E r \in Requests : Handles(r))
  PROVE  Idling' \subseteq Idling
<1>0. TypeOK /\ cur \in stopping \cup {NoPool}
  BY DEF IInv, Phases
<1> SUFFICES ASSUME NEW v \in Http, PoolOf[v] = cur, v \in Worker, work'[v] = "idle"
             PROVE  work[v] = "idle"
  BY ConstantsSound DEF Idling, Of
<1>1. cur \in stopping /\ HttpPool = cur
  BY <1>0, ConstantsSound, ServerAssumption
<1>2. ASSUME NEW w \in Worker, Turn(w), w # v PROVE work[v] = "idle"
  BY <1>0, <1>2, SlotLocal DEF Same
<1>3. ASSUME Turn(v) PROVE work[v] = "idle"
  <2>1. ~Installs(v) \/ work' = work
    BY <1>1 DEF Installs
  <2>2. MonitorSees(v) => work'[v] # "idle"
    BY <1>0 DEF MonitorSees, TypeOK
  <2> QED
    BY <1>3, <2>1, <2>2 DEF Turn, SlotStep, BootBegins, Starts, Installs, BootTooLate, BootFailed,
       TimerQuits, TimerFires, GraceEnds, slotVars
<1>4. ASSUME NEW r \in Requests, Handles(r) PROVE work[v] = "idle"
  <2>1. ASSUME NEW w \in Worker, Takes(r, w) PROVE work[v] = "idle"
    BY <1>0, <2>1 DEF Takes, TypeOK
  <2>2. CASE Answered(r)
    BY <1>0, <1>1, <2>2 DEF Answered, TypeOK
  <2>3. CASE Fails(r) /\ on[r] # NoWorker
    BY <1>0, <2>3 DEF Fails, TypeOK
  <2> QED
    BY <1>4, <2>1, <2>2, <2>3, HandlerEffect
<1> QED
  BY <1>2, <1>3, <1>4

LEMMA RunNotBack ==
  ASSUME IInv, RunStep \/ ServeFails \/ Signal \/ Passes
  PROVE  NoStepBack
<1>0. TypeOK /\ Phases
  BY DEF IInv
<1> Place \in Nat /\ StageLeft \in Nat
  BY <1>0 DEF Place, StageLeft, TypeOK, Main
<1>9. UNCHANGED <<work, cur>> => Idling' = Idling
  BY DEF Idling, Of
<1>10. (UNCHANGED stage => StageLeft' = StageLeft) /\ (UNCHANGED main => Place' = Place)
  BY DEF StageLeft, Place
<1>1. ASSUME NEW p \in Pools, PoolStarts(p) PROVE NoStepBack
  BY <1>1 DEF PoolStarts, NoStepBack, Place, stopVars
<1>2. ASSUME NEW p \in Pools, StopPool(p) PROVE NoStepBack
  BY <1>2 DEF StopPool, NoStepBack, Place
<1>3. CASE PoolStarted \/ StartFails \/ Listen \/ Drain \/ DrainEnds \/ Leave \/ ServeFails
  <2>1. /\ UNCHANGED <<work, begun, stopping, stage, hand, owed>> /\ cur' \in {cur, NoPool}
        /\ Place <= Place'
    BY <1>3 DEF PoolStarted, StartFails, Listen, Drain, DrainEnds, Leave, ServeFails, Stops,
                Place, slotVars, stopVars
  <2> QED
    BY <2>1, <1>9, <1>10 DEF NoStepBack
<1>4. CASE Signal \/ Passes
  <2>1. UNCHANGED <<work, main, begun, cur, stopping, stage, hand, owed>>
    BY <1>4 DEF Signal, Passes, slotVars, runVars, stopVars
  <2> QED
    BY <2>1, <1>9, <1>10 DEF NoStepBack
<1>5. ASSUME NEW w \in Worker, StopIdle(w) PROVE NoStepBack
  <2>1. Idling' = Idling \ {w} /\ w \in Idling
    BY <1>0, <1>5 DEF StopIdle, Idling, Of, runVars, TypeOK
  <2> QED
    BY <1>5, <2>1 DEF StopIdle, NoStepBack, Place, StageLeft, runVars
<1>6. CASE StopIdleEnds
  <2>1. UNCHANGED <<work, main, begun, cur, stopping, stage, owed>> /\ hand' = NoWorker
    BY <1>6 DEF StopIdleEnds, runVars, slotVars
  <2>2. hand' \in {hand, NoWorker}
    BY <2>1
  <2> QED
    BY <2>1, <2>2, <1>9, <1>10 DEF NoStepBack
<1>11. ASSUME NEW w \in Worker, StopTells(w) PROVE NoStepBack
  <2>1. UNCHANGED <<work, main, begun, cur, stopping, stage, hand>> /\ owed' \subseteq owed
    BY <1>11 DEF StopTells, runVars, slotVars
  <2> QED
    BY <2>1, <1>9, <1>10 DEF NoStepBack
<1>7. CASE StopRest
  <2>1. Idling' \subseteq Idling
    BY <1>7 DEF StopRest, Idling, Of, Running, runVars
  <2> QED
    BY <1>7, <2>1 DEF StopRest, NoStepBack, Place, StageLeft, runVars
<1>8. CASE StopKills \/ StopDone
  BY <1>0, <1>8, ConstantsSound DEF StopKills, StopDone, NoStepBack, Place, StageLeft, Idling, Of,
     Phases, TypeOK, runVars, slotVars
<1> QED
  BY <1>1, <1>2, <1>3, <1>4, <1>5, <1>6, <1>7, <1>8, <1>11 DEF RunStep

\* Run only goes on (server.go: Run, shutdown; manager.go: StartAll, ShutdownAll;
\* Pool.Shutdown): whatever boots, monitors, handlers and processes do
\* meanwhile, no pool is started or stopped again, no worker of a stopping pool is
\* idle once more, and each step of Run is one of finitely many.
THEOREM RunGoesOn == Spec => [][NoStepBack /\ (RunStep => StepOn)]_vars
<1>1. ASSUME IInv, (\E w \in Worker : Turn(w)) \/ (\E r \in Requests : Handles(r))
      PROVE  NoStepBack
  <2>1. UNCHANGED <<runVars, stopVars>>
    BY <1>1, SlotFrame, HandlerFrame DEF IInv
  <2>2. main = "stopping" => Idling' \subseteq Idling
    BY <1>1, <2>1, OthersIdleNoMore DEF runVars, stopVars
  <2>3. StageLeft' = StageLeft /\ Place' = Place /\ StageLeft \in Nat /\ Place \in Nat
    BY <1>1, <2>1 DEF StageLeft, Place, runVars, stopVars, IInv, TypeOK, Main
  <2> QED
    BY <2>1, <2>2, <2>3 DEF NoStepBack, runVars, stopVars
<1>2. IInv /\ [Next]_vars => [NoStepBack /\ (RunStep => StepOn)]_vars
  BY <1>1, NextSplits, RunNotBack, RunStepOn
<1> QED
  BY <1>2, Invariance, PTL DEF Spec

-----------------------------------------------------------------------------
(* The supervision of the slots                                            *)

\* A slot over its limit is off, a pool that was not begun has no crashes, and a
\* boot is too late only for a pool that stops.
Counts(w) ==
    /\ Exceeded(crashes[w]) => w \notin timer /\ boot[w] = "off" /\ work[w] = "none"
    /\ PoolOf[w] \notin begun => crashes[w] = 0
    /\ boot[w] = "late" => PoolOf[w] \in stopping

SupInv == IInv /\ \A w \in Worker : Counts(w)
SupStep == Supervised!Next \/ UNCHANGED Supervised!supervisionVars

\* The lives after a step of one slot.
LEMMA OneLife ==
  ASSUME NEW w \in Worker, NEW l, Life(w)' = l, begun' = begun,
         \A v \in Worker \ {w} : Same(v)
  PROVE  Lives' = [Lives EXCEPT ![w] = l]
<1>1. ASSUME NEW v \in Worker, v # w PROVE Life(v)' = Life(v)
  BY <1>1 DEF Life, Same
<1> QED
  BY <1>1 DEF Lives

LEMMA OneLiving ==
  ASSUME NEW w \in Worker, \A v \in Worker \ {w} : Same(v)
  PROVE  /\ ~Alive(w)' => Living' = Living \ {w}
         /\ Alive(w)' => Living' = Living \cup {w}
         /\ (Alive(w)' <=> Alive(w)) => Living' = Living
BY DEF Living, Alive, Same

LEMMA ToldSame ==
  ASSUME UNCHANGED <<signalled, stopping>>
  PROVE  Cancelled' = Cancelled /\ Halted' = Halted
BY DEF Cancelled, Halted, CtxDone

LEMMA OverSame == \A n : Supervised!Over(n) <=> Exceeded(n)
BY DEF Supervised!Over, Exceeded

\* A step that leaves the lives alone at most ends processes.
LEMMA OnlyDies ==
  ASSUME Lives' = Lives, Living' \subseteq Living, UNCHANGED <<crashes, signalled, stopping>>
  PROVE  SupStep
<1>1. Supervised!Dies
  BY ToldSame DEF Supervised!Dies
<1> QED
  BY <1>1 DEF SupStep, Supervised!Next

\* What holds of every slot a step finds.
LEMMA SlotParts ==
  ASSUME SupInv, NEW w \in Worker
  PROVE  /\ TypeOK /\ Sound(w) /\ Counts(w) /\ Lives[w] = Life(w)
         /\ w \in Halted <=> PoolOf[w] \in stopping
         /\ w \in Cancelled <=> CtxDone(w)
         /\ w \in Living <=> Alive(w)
         /\ boot[w] # "off" \/ w \in timer \/ work[w] # "none" => PoolOf[w] \in begun
BY DEF SupInv, IInv, Lives, Halted, Cancelled, Living, Sound, OneDuty

LEMMA StartSupervised ==
  ASSUME SupInv, NEW w \in Worker, Starts(w), \A v \in Worker \ {w} : Same(v)
  PROVE  SupStep
<1> USE DEF TypeOK, StartTypeOK, At, Waits, runVars, slotVars, stopVars
<1>1. /\ TypeOK /\ Sound(w) /\ Lives[w] = Life(w) /\ (w \in Living <=> Alive(w))
      /\ boot[w] # "off" => PoolOf[w] \in begun
      /\ UNCHANGED <<begun, timer, work, crashes, signalled, stopping>>
  BY SlotParts DEF Starts
<1>2. boot[w] \notin {"off", "begin"} => Life(w) = "boot"
  BY <1>1 DEF Life, Sound, OneDuty
<1>3. boot[w] \notin {"off", "begin"} /\ boot'[w] \notin {"off", "begin"} => Lives' = Lives
  <2>1. ASSUME boot[w] \notin {"off", "begin"}, boot'[w] \notin {"off", "begin"}
        PROVE  Life(w)' = Life(w)
    BY <1>1, <1>2, <2>1 DEF Life, Sound, OneDuty
  <2> QED
    BY <1>1, <2>1, OneLife DEF Lives
<1>4. CASE Spawns(w)
  <2>1. /\ boot[w] = "spawn" /\ boot'[w] \in {"failed", "socket", "started"}
        /\ proc'[w] = proc[w] \/ proc'[w] = "up"
    BY <1>1, <1>4 DEF Spawns
  <2>2. Lives' = Lives /\ Lives[w] = "boot" /\ w \notin Living
    <3>1. Up
      BY DEF Starts
    <3>2. ~Alive(w)
      BY <1>1, <2>1, <3>1 DEF Sound, Kept, OneDuty
    <3>3. boot[w] \notin {"off", "begin"} /\ boot'[w] \notin {"off", "begin"}
      BY <2>1
    <3> QED
      BY <1>1, <1>2, <1>3, <3>2, <3>3
  <2>3. CASE proc'[w] = proc[w]
    BY <1>1, <2>2, <2>3, OneLiving, OnlyDies DEF Alive
  <2>4. CASE proc'[w] = "up"
    <3>1. Living' = Living \cup {w}
      BY <2>4, OneLiving DEF Alive
    <3>2. Supervised!Spawned(w)
      BY <1>1, <2>2, <3>1, ToldSame DEF Supervised!Spawned
    <3> QED
      BY <3>2 DEF SupStep, Supervised!Next, Supervised!SlotStep
  <2> QED
    BY <2>1, <2>3, <2>4
<1>5. CASE ~Spawns(w)
  <2>1. /\ boot[w] \notin {"off", "begin"} /\ boot'[w] \notin {"off", "begin"}
        /\ Alive(w)' => Alive(w)
    <3>1. CASE SeesSocket(w) \/ SocketNotSeen(w, CtxDone(w))
      BY <1>1, <3>1 DEF SeesSocket, SocketNotSeen, Reaps, Alive, Signalled
    <3>2. CASE Dials(w, CtxDone(w)) \/ ShakeEnds(w) \/ ReapEnds(w)
      BY <1>1, <3>2 DEF Dials, ShakeEnds, ReapEnds, Reaps, Reaped, Alive, Signalled, Killed
    <3> QED
      BY <1>5, <3>1, <3>2 DEF Starts, StartStep
  <2>2. Living' \subseteq Living
    BY <2>1, OneLiving DEF Living
  <2> QED
    BY <1>1, <1>3, <2>1, <2>2, OnlyDies
<1> QED
  BY <1>4, <1>5

LEMMA SlotSupervised ==
  ASSUME SupInv, NEW w \in Worker, Turn(w)
  PROVE  SupStep
<1> USE DEF TypeOK, StartTypeOK, At, Waits, runVars, slotVars, stopVars
<1>1. /\ TypeOK /\ Sound(w) /\ Counts(w) /\ Lives[w] = Life(w)
      /\ w \in Halted <=> PoolOf[w] \in stopping
      /\ w \in Cancelled <=> CtxDone(w)
      /\ w \in Living <=> Alive(w)
      /\ boot[w] # "off" \/ w \in timer \/ work[w] # "none" => PoolOf[w] \in begun
  BY SlotParts
<1>2. UNCHANGED <<begun, signalled, stopping>> /\ \A v \in Worker \ {w} : Same(v)
  BY <1>1, SlotFrame, SlotLocal
<1>3. Cancelled' = Cancelled /\ Halted' = Halted
  BY <1>2, ToldSame
\* A step after which the slot's life is what it was.
<1>4. ASSUME Life(w)' = Life(w), Alive(w)' => Alive(w), crashes' = crashes PROVE SupStep
  <2>1. Lives' = Lives
    BY <1>2, <1>4, OneLife DEF Lives
  <2>2. Living' \subseteq Living
    BY <1>2, <1>4, OneLiving DEF Living
  <2> QED
    BY <1>2, <1>4, <2>1, <2>2, OnlyDies
\* A step of the slot's life.
<1>5. Supervised!SlotStep(w) => SupStep
  BY DEF SupStep, Supervised!Next
<1>6. ASSUME Life(w) = "due", CtxDone(w), Life(w)' = "off", UNCHANGED <<proc, crashes>>
      PROVE  SupStep
  <2>1. Lives' = [Lives EXCEPT ![w] = "off"] /\ Living' = Living
    BY <1>2, <1>6, OneLife, OneLiving DEF Alive
  <2>2. Supervised!Quits(w)
    BY <1>1, <1>3, <1>6, <2>1 DEF Supervised!Quits, Supervised!Becomes
  <2> QED
    BY <1>5, <2>2 DEF Supervised!SlotStep
<1>7. CASE BootBegins(w)
  <2>1. /\ Up /\ boot[w] = "begin" /\ UNCHANGED <<proc, crashes, timer, work>>
        /\ boot'[w] = IF PoolOf[w] \in stopping THEN "off" ELSE "spawn"
    BY <1>1, <1>7 DEF BootBegins
  <2>2. Life(w) = "due" /\ w \notin timer /\ work[w] = "none" /\ w \notin Living
    BY <1>1, <2>1 DEF Life, Sound, OneDuty, Kept
  <2>3. CASE PoolOf[w] \in stopping
    <3>1. Life(w)' = "off" /\ CtxDone(w)
      BY <1>1, <1>2, <2>1, <2>2, <2>3 DEF Life, CtxDone
    <3> QED
      BY <1>6, <2>1, <2>2, <3>1
  <2>4. CASE PoolOf[w] \notin stopping
    <3>1. Life(w)' = "boot"
      BY <1>1, <1>2, <2>1, <2>2, <2>4 DEF Life
    <3>2. Lives' = [Lives EXCEPT ![w] = "boot"] /\ Living' = Living
      BY <1>2, <2>1, <3>1, OneLife, OneLiving DEF Alive
    <3>3. Supervised!Begins(w)
      BY <1>1, <1>3, <2>1, <2>2, <2>4, <3>2 DEF Supervised!Begins, Supervised!Becomes
    <3> QED
      BY <1>5, <3>3 DEF Supervised!SlotStep
  <2> QED
    BY <2>3, <2>4
<1>8. CASE Installs(w)
  <2>1. /\ boot[w] = "started" /\ UNCHANGED <<crashes, timer>>
    BY <1>8 DEF Installs
  <2>2. Life(w) = "boot" /\ w \notin timer /\ work[w] = "none" /\ PoolOf[w] \in begun
    BY <1>1, <2>1 DEF Life, Sound, OneDuty
  <2>3. CASE PoolOf[w] \in stopping
    <3>1. boot'[w] = "late" /\ proc'[w] = Signalled(w)
      BY <1>1, <1>8, <2>3 DEF Installs, Reaps
    <3>2. Life(w)' = "boot" /\ (Alive(w)' => Alive(w))
      BY <1>2, <2>1, <2>2, <3>1 DEF Life, Alive, Signalled
    <3> QED
      BY <1>4, <2>1, <2>2, <3>2
  <2>4. CASE PoolOf[w] \notin stopping
    <3>1. boot'[w] = "off" /\ work'[w] = "idle" /\ proc' = proc
      BY <1>1, <1>8, <2>4 DEF Installs
    <3>2. Life(w)' = "up"
      BY <1>2, <2>1, <2>2, <3>1 DEF Life
    <3>3. Lives' = [Lives EXCEPT ![w] = "up"] /\ Living' = Living
      BY <1>2, <3>1, <3>2, OneLife, OneLiving DEF Alive
    <3>4. Supervised!Installed(w)
      BY <1>1, <1>3, <2>1, <2>2, <2>4, <3>3 DEF Supervised!Installed, Supervised!Becomes
    <3> QED
      BY <1>5, <3>4 DEF Supervised!SlotStep
  <2> QED
    BY <2>3, <2>4
<1>9. CASE BootTooLate(w)
  <2>1. /\ boot[w] = "late" /\ boot'[w] = "off" /\ proc'[w] = Killed(w)
        /\ UNCHANGED <<crashes, timer, work>>
    BY <1>1, <1>9 DEF BootTooLate, Reaped
  <2>2. /\ Life(w) = "boot" /\ w \notin timer /\ work[w] = "none" /\ PoolOf[w] \in begun
        /\ PoolOf[w] \in stopping
    BY <1>1, <2>1 DEF Life, Sound, OneDuty, Counts
  <2>3. Life(w)' = "off" /\ ~Alive(w)'
    BY <1>2, <2>1, <2>2 DEF Life, Alive, Killed
  <2>4. Lives' = [Lives EXCEPT ![w] = "off"] /\ Living' = Living \ {w}
    BY <1>2, <2>3, OneLife, OneLiving
  <2>5. Supervised!Abandoned(w)
    BY <1>1, <1>3, <2>1, <2>2, <2>4 DEF Supervised!Abandoned, Supervised!Becomes
  <2> QED
    BY <1>5, <2>5 DEF Supervised!SlotStep
<1>10. CASE BootFailed(w)
  <2>1. /\ Up /\ boot[w] = "failed" /\ boot'[w] = "off" /\ UNCHANGED <<proc, work>>
        /\ IF w \in after THEN Recorded(w) ELSE UNCHANGED crashes
        /\ timer' = IF Exceeded(crashes'[w]) THEN timer ELSE timer \cup {w}
    BY <1>1, <1>10 DEF BootFailed
  <2>2. /\ Life(w) = "boot" /\ w \notin timer /\ work[w] = "none" /\ PoolOf[w] \in begun
        /\ ~Alive(w) /\ ~Exceeded(crashes[w])
    BY <1>1, <2>1 DEF Life, Sound, OneDuty, Kept, Counts
  <2>3. Life(w)' = IF Exceeded(crashes'[w]) THEN "off" ELSE "due"
    BY <1>2, <2>1, <2>2 DEF Life
  <2>4. /\ Lives' = [Lives EXCEPT ![w] = IF Exceeded(crashes'[w]) THEN "off" ELSE "due"]
        /\ Living' = Living \ {w}
    BY <1>2, <2>1, <2>2, <2>3, OneLife, OneLiving DEF Alive
  <2>5. CASE w \in after
    <3>1. PICK n \in 1..(crashes[w] + 1) : crashes' = [crashes EXCEPT ![w] = n]
      BY <2>1, <2>5 DEF Recorded
    <3>4. crashes'[w] = n
      BY <1>1, <3>1
    <3>2. Supervised!Struck(w)
      BY <2>4, <3>1, <3>4, OverSame DEF Supervised!Struck, Supervised!Becomes
    <3> QED
      BY <1>1, <1>3, <1>5, <2>2, <2>4, <3>2 DEF Supervised!SlotStep, Supervised!Failed
  <2>6. CASE w \notin after
    <3>1. crashes' = crashes
      BY <1>1, <2>1, <2>6
    <3>2. Supervised!Restarted(w)
      BY <2>2, <2>4, <3>1 DEF Supervised!Restarted, Supervised!Becomes
    <3> QED
      BY <1>1, <1>3, <1>5, <2>2, <2>4, <3>2 DEF Supervised!SlotStep, Supervised!Failed
  <2> QED
    BY <2>5, <2>6
<1>11. CASE TimerFires(w) \/ TimerQuits(w)
  <2>1. w \in timer /\ timer' = timer \ {w} /\ UNCHANGED <<proc, work, crashes>>
    BY <1>11 DEF TimerFires, TimerQuits, startVars
  <2>2. Life(w) = "due" /\ boot[w] = "off" /\ work[w] = "none" /\ PoolOf[w] \in begun
    BY <1>1, <2>1 DEF Life, Sound, OneDuty
  <2>3. CASE boot'[w] = "begin"
    BY <1>2, <1>4, <2>1, <2>2, <2>3 DEF Life, Alive
  <2>4. CASE boot'[w] # "begin"
    <3>1. boot'[w] = "off" /\ CtxDone(w)
      BY <1>1, <1>11, <2>2, <2>4 DEF TimerFires, TimerQuits, startVars, CtxDone
    <3>2. Life(w)' = "off"
      BY <1>2, <2>1, <2>2, <3>1 DEF Life
    <3> QED
      BY <1>6, <2>1, <2>2, <3>1, <3>2
  <2> QED
    BY <2>3, <2>4
<1>12. CASE MonitorSees(w)
  <2>1. /\ work[w] # "none" /\ ~Alive(w) /\ work'[w] = "none" /\ UNCHANGED <<proc, boot>>
    BY <1>1, <1>12 DEF MonitorSees
  <2>2. Life(w) = "up" /\ boot[w] = "off" /\ w \notin timer /\ PoolOf[w] \in begun
    BY <1>1, <2>1 DEF Life, Sound, OneDuty
  <2>3. Living' = Living /\ w \notin Living
    BY <1>1, <1>2, <2>1, OneLiving DEF Alive
  <2>4. ASSUME Supervised!Struck(w) \/ Supervised!Restarted(w)
               \/ (w \in Halted /\ Supervised!Becomes(w, "off") /\ UNCHANGED crashes)
        PROVE  SupStep
    BY <1>1, <1>3, <1>5, <2>2, <2>3, <2>4 DEF Supervised!SlotStep, Supervised!Ended
  <2>5. ASSUME NEW l, Life(w)' = l PROVE Supervised!Becomes(w, l)
    BY <1>2, <2>5, OneLife DEF Supervised!Becomes
  <2>6. CASE PoolOf[w] \in stopping /\ UNCHANGED <<timer, after, crashes>>
    <3>1. Life(w)' = "off"
      BY <1>2, <2>1, <2>2, <2>6 DEF Life
    <3> QED
      BY <1>1, <2>4, <2>5, <2>6, <3>1
  <2>7. CASE timer' = timer \cup {w} /\ UNCHANGED crashes
    <3>1. Life(w)' = "due"
      BY <1>2, <2>1, <2>2, <2>7 DEF Life
    <3> QED
      BY <2>4, <2>5, <2>7, <3>1 DEF Supervised!Restarted
  <2>8. CASE /\ Recorded(w)
             /\ timer' = IF Exceeded(crashes'[w]) THEN timer ELSE timer \cup {w}
    <3>1. PICK n \in 1..(crashes[w] + 1) : crashes' = [crashes EXCEPT ![w] = n]
      BY <2>8 DEF Recorded
    <3>4. crashes'[w] = n
      BY <1>1, <3>1
    <3>2. Life(w)' = IF Exceeded(crashes'[w]) THEN "off" ELSE "due"
      BY <1>2, <2>1, <2>2, <2>8 DEF Life
    <3>3. Supervised!Struck(w)
      BY <2>5, <3>1, <3>2, <3>4, OverSame DEF Supervised!Struck
    <3> QED
      BY <2>4, <3>3
  <2> QED
    BY <1>12, <2>6, <2>7, <2>8 DEF MonitorSees
<1>13. CASE GraceEnds(w)
  BY <1>2, <1>4, <1>13 DEF GraceEnds, Life, Alive, Killed
<1>14. ASSUME ProcessStep(w), UNCHANGED slotVars PROVE SupStep
  <2>1. /\ boot'[w] = boot[w] \/ (boot[w] = "shake" /\ boot'[w] \in {"good", "bad"})
        /\ proc'[w] = proc[w] \/ proc'[w] = "exited"
    BY <1>1, <1>14 DEF ProcessStep, Binds, ListensAt, Greets, Exits
  <2> QED
    BY <1>2, <1>4, <1>14, <2>1 DEF Life, Alive
<1> QED
  BY <1>2, <1>7, <1>8, <1>9, <1>10, <1>11, <1>12, <1>13, <1>14, StartSupervised
     DEF Turn, SlotStep

\* A handler takes no worker from its slot, and starts no process.
LEMMA HandlerSupervised ==
  ASSUME SupInv, NEW r \in Requests, Handles(r)
  PROVE  SupStep
<1>1. TypeOK /\ OneHolder /\ IInv
  BY DEF SupInv, IInv
<1>2. UNCHANGED <<boot, begun, timer, signalled, stopping, crashes>>
  <2>1. crashes' = crashes
    BY DEF Handles, HandlerStep, Refused, Arrives, GivesUp, Answered, Fails, DiscardEnds, Takes,
           slotVars
  <2> QED
    BY <2>1, HandlerFrame DEF runVars, stopVars
<1>3. \A w \in Worker : /\ work'[w] = "none" <=> work[w] = "none"
                        /\ Alive(w)' => Alive(w)
  <2>1. CASE UNCHANGED <<proc, work>>
    BY <2>1 DEF Alive
  <2>2. ASSUME NEW w \in Worker, Takes(r, w)
        PROVE  /\ work[w] = "idle" /\ work' = [work EXCEPT ![w] = "busy"]
               /\ proc' = proc
    BY <2>2 DEF Takes, startVars
  <2>3. CASE \E w \in Worker : Takes(r, w)
    BY <1>1, <2>2, <2>3 DEF Alive, TypeOK
  <2>4. CASE Answered(r)
    BY <1>1, <2>4 DEF Answered, Alive, Signalled, TypeOK, StartTypeOK
  <2>5. CASE Fails(r) /\ on[r] # NoWorker
    <3>1. /\ on[r] \in Worker /\ work[on[r]] \in {"busy", "draining"}
          /\ work' = [work EXCEPT ![on[r]] = "draining"] /\ work \in [Worker -> Work]
      BY <1>1, <2>5 DEF Fails, TypeOK, OneHolder
    <3>2. \A w \in Worker : work'[w] = "none" <=> work[w] = "none"
      BY <3>1
    <3>3. proc' = [proc EXCEPT ![on[r]] = Signalled(on[r])] /\ proc \in [Worker -> Proc]
      BY <1>1, <2>5 DEF Fails, Terminated, TypeOK, StartTypeOK
    <3>4. \A w \in Worker : Alive(w)' => Alive(w)
      BY <3>3 DEF Signalled, Alive
    <3> QED
      BY <3>2, <3>4
  <2> QED
    BY <1>1, <2>1, <2>3, <2>4, <2>5, HandlerEffect
<1>4. Lives' = Lives
  BY <1>2, <1>3 DEF Lives, Life
<1>5. Living' \subseteq Living
  BY <1>3 DEF Living
<1> QED
  BY <1>2, <1>4, <1>5, OnlyDies

LEMMA RunSupervised ==
  ASSUME SupInv, RunStep \/ ServeFails \/ Signal \/ Passes
  PROVE  SupStep
<1>0. TypeOK /\ IInv /\ PoolOf \in [Worker -> Pools]
  BY ConstantsSound DEF SupInv, IInv
<1>1. ASSUME NEW p \in Pools, PoolStarts(p) PROVE SupStep
  <2>1. /\ p \notin begun /\ begun' = begun \cup {p}
        /\ boot' = [w \in Worker |-> IF w \in Of(p) THEN "begin" ELSE boot[w]]
        /\ UNCHANGED <<proc, timer, work, crashes, signalled, stopping>>
    BY <1>1 DEF PoolStarts, stopVars
  <2>2. \A w \in Of(p) : Lives[w] = "new"
    BY <2>1 DEF Lives, Life, Of
  <2>3. Lives' = [w \in Worker |-> IF w \in Of(p) THEN "due" ELSE Lives[w]]
    <3>1. ASSUME NEW w \in Worker PROVE Life(w)' = IF w \in Of(p) THEN "due" ELSE Life(w)
      BY <2>1 DEF Life, Of
    <3> QED
      BY <3>1 DEF Lives
  <2>4. Living' = Living /\ Of(p) \in SUBSET Worker
    BY <2>1 DEF Living, Alive, Of
  <2>5. Supervised!Asked(Of(p))
    BY <2>1, <2>2, <2>3, <2>4, ToldSame DEF Supervised!Asked
  <2> QED
    BY <2>4, <2>5 DEF SupStep, Supervised!Next
\* The other steps leave every slot where it is.
<1>2. ASSUME UNCHANGED <<boot, begun, timer>>,
             \A w \in Worker : /\ work'[w] = "none" <=> work[w] = "none"
                               /\ Alive(w)' => Alive(w)
      PROVE  Lives' = Lives /\ Living' \subseteq Living
  BY <1>2 DEF Lives, Life, Living
<1>3. ASSUME NEW p \in Pools, StopPool(p) PROVE SupStep
  <2>1. stopping' = stopping \cup {p}
        /\ UNCHANGED <<boot, begun, timer, work, proc, crashes, signalled>>
    BY <1>3 DEF StopPool, startVars, slotVars
  <2>2. Lives' = Lives /\ Living' = Living
    BY <2>1 DEF Lives, Life, Living, Alive
  <2>3. /\ Cancelled' = Cancelled \cup Of(p) /\ Halted' = Halted \cup Of(p)
        /\ Of(p) \in SUBSET Worker
    BY <2>1 DEF Cancelled, Halted, CtxDone, Of
  <2>4. Supervised!Stopped(Of(p))
    BY <2>1, <2>2, <2>3 DEF Supervised!Stopped
  <2> QED
    BY <2>3, <2>4 DEF SupStep, Supervised!Next
<1>4. CASE Signal
  <2>1. signalled' /\ UNCHANGED <<boot, begun, timer, work, proc, crashes, stopping>>
    BY <1>4 DEF Signal, startVars, slotVars, stopVars
  <2>2. Lives' = Lives /\ Living' = Living
    BY <2>1 DEF Lives, Life, Living, Alive
  <2>3. Cancelled' = Cancelled \cup Worker /\ Halted' = Halted
    BY <2>1 DEF Cancelled, Halted, CtxDone
  <2>4. Supervised!Cancelled(Worker)
    BY <2>1, <2>2, <2>3 DEF Supervised!Cancelled
  <2>5. Worker \in SUBSET Worker
    OBVIOUS
  <2> QED
    BY <2>4, <2>5 DEF SupStep, Supervised!Next
<1>5. CASE PoolStarted \/ StartFails \/ Listen \/ ServeFails \/ Drain \/ DrainEnds \/ StopIdleEnds
           \/ StopDone \/ Leave \/ Passes
  <2>1. UNCHANGED <<boot, begun, timer, work, proc, crashes, signalled, stopping>>
    BY <1>5 DEF PoolStarted, StartFails, Listen, ServeFails, Drain, DrainEnds, Stops, StopIdleEnds,
       StopDone, Leave, Passes, startVars, slotVars, runVars, stopVars
  <2> QED
    BY <1>2, <2>1, OnlyDies DEF Alive
<1>6. CASE StopKills \/ StopRest \/ \E w \in Worker : StopIdle(w) \/ StopTells(w)
  <2>1. UNCHANGED <<boot, begun, timer, crashes, signalled, stopping>>
    BY <1>6 DEF StopKills, StopRest, StopIdle, StopTells, startVars, slotVars, runVars
  <2>2. \A w \in Worker : /\ work'[w] = "none" <=> work[w] = "none"
                          /\ Alive(w)' => Alive(w)
    <3>1. CASE StopKills
      BY <1>0, <3>1 DEF StopKills, Killed, Alive, slotVars
    <3>2. CASE StopRest
      BY <1>0, <3>2 DEF StopRest, Alive, Running, TypeOK, startVars
    <3>4. ASSUME NEW v \in Worker, StopTells(v)
          PROVE  \A w \in Worker : /\ work'[w] = "none" <=> work[w] = "none"
                                   /\ Alive(w)' => Alive(w)
      BY <1>0, <3>4 DEF StopTells, Terminated, Signalled, Alive, TypeOK, StartTypeOK, slotVars
    <3>3. ASSUME NEW v \in Worker, StopIdle(v)
          PROVE  \A w \in Worker : /\ work'[w] = "none" <=> work[w] = "none"
                                   /\ Alive(w)' => Alive(w)
      BY <1>0, <3>3 DEF StopIdle, Terminated, Signalled, Alive, TypeOK, StartTypeOK
    <3> QED
      BY <1>6, <3>1, <3>2, <3>3, <3>4
  <2> QED
    BY <1>2, <2>1, <2>2, OnlyDies
<1> QED
  BY <1>1, <1>3, <1>4, <1>5, <1>6 DEF RunStep

-----------------------------------------------------------------------------
(* What is counted                                                         *)

LEMMA SameCounts ==
  ASSUME NEW v \in Worker, Counts(v), Same(v), crashes'[v] = crashes[v], begun' = begun,
         stopping' = stopping
  PROVE  Counts(v)'
BY DEF Counts, Same, Exceeded

LEMMA SlotCounts ==
  ASSUME SupInv, NEW w \in Worker, Turn(w), NEW v \in Worker
  PROVE  Counts(v)'
<1> USE DEF TypeOK, StartTypeOK, At, Waits, runVars, slotVars, stopVars
<1>1. /\ TypeOK /\ Sound(w) /\ Counts(w) /\ Counts(v)
      /\ boot[w] # "off" \/ w \in timer \/ work[w] # "none" => PoolOf[w] \in begun
  BY SlotParts
<1>2. UNCHANGED <<begun, stopping>>
  BY <1>1, SlotFrame
<1>3. UNCHANGED crashes \/ \E n \in Nat : crashes' = [crashes EXCEPT ![w] = n]
  <2>1. ASSUME Recorded(w) PROVE \E n \in Nat : crashes' = [crashes EXCEPT ![w] = n]
    <3>1. PICK n \in 1..(crashes[w] + 1) : crashes' = [crashes EXCEPT ![w] = n]
      BY <2>1 DEF Recorded
    <3>2. n \in Nat
      BY <1>1
    <3> QED
      BY <3>1, <3>2, Zenon
  <2>2. CASE BootFailed(w) \/ MonitorSees(w)
    BY <2>1, <2>2 DEF BootFailed, MonitorSees
  <2>3. CASE BootBegins(w) \/ Starts(w) \/ Installs(w) \/ BootTooLate(w) \/ TimerQuits(w)
             \/ GraceEnds(w) \/ TimerFires(w)
    BY <2>3 DEF BootBegins, Starts, Installs, BootTooLate, TimerQuits, GraceEnds, TimerFires
  <2> QED
    BY <2>2, <2>3 DEF Turn, SlotStep
<1>4. CASE v # w
  <2>1. Same(v) /\ crashes'[v] = crashes[v]
    BY <1>1, <1>3, <1>4, SlotLocal
  <2> QED
    BY <1>1, <1>2, <2>1, SameCounts
<1>5. CASE v = w
  <2> USE <1>1, <1>2, <1>5 DEF Counts, Exceeded, Sound, OneDuty
  <2>1. CASE BootBegins(w) \/ Installs(w) \/ BootTooLate(w)
    BY <2>1 DEF BootBegins, Installs, Reaps, BootTooLate, Reaped
  <2>2. CASE Starts(w)
    <3>1. /\ UNCHANGED <<timer, work, crashes>> /\ boot[w] \notin {"off", "begin"}
          /\ boot'[w] # "late"
      <4>1. CASE Spawns(w) \/ SeesSocket(w) \/ SocketNotSeen(w, CtxDone(w))
        BY <2>2, <4>1 DEF Starts, Spawns, SeesSocket, SocketNotSeen, Reaps
      <4>2. CASE Dials(w, CtxDone(w)) \/ ShakeEnds(w) \/ ReapEnds(w)
        BY <2>2, <4>2 DEF Starts, Dials, ShakeEnds, ReapEnds, Reaps, Reaped
      <4> QED
        BY <2>2, <4>1, <4>2 DEF Starts, StartStep
    <3> QED
      BY <3>1
  <2>3. CASE BootFailed(w)
    <3>1. /\ boot[w] = "failed" /\ boot'[w] = "off" /\ work' = work
          /\ timer' = IF Exceeded(crashes'[w]) THEN timer ELSE timer \cup {w}
      BY <2>3 DEF BootFailed
    <3> QED
      BY <3>1
  <2>4. CASE TimerFires(w) \/ TimerQuits(w)
    BY <2>4 DEF TimerFires, TimerQuits, startVars
  <2>5. CASE MonitorSees(w)
    <3>1. /\ work[w] # "none" /\ work'[w] = "none" /\ boot' = boot
          /\ \/ crashes' = crashes
             \/ timer' = IF Exceeded(crashes'[w]) THEN timer ELSE timer \cup {w}
      BY <2>5 DEF MonitorSees
    <3> QED
      BY <3>1
  <2>6. CASE GraceEnds(w)
    BY <2>6 DEF GraceEnds
  <2>7. ASSUME ProcessStep(w), UNCHANGED slotVars PROVE Counts(v)'
    BY <2>7 DEF ProcessStep, Binds, ListensAt, Greets, Exits
  <2> QED
    BY <2>1, <2>2, <2>3, <2>4, <2>5, <2>6, <2>7 DEF Turn, SlotStep
<1> QED
  BY <1>4, <1>5

LEMMA HandlerCounts ==
  ASSUME SupInv, NEW r \in Requests, Handles(r), NEW v \in Worker
  PROVE  Counts(v)'
<1>1. TypeOK /\ OneHolder /\ IInv /\ Counts(v)
  BY DEF SupInv, IInv
<1>2. UNCHANGED <<boot, begun, timer, stopping, crashes>>
  <2>1. crashes' = crashes
    BY DEF Handles, HandlerStep, Refused, Arrives, GivesUp, Answered, Fails, DiscardEnds, Takes,
           slotVars
  <2> QED
    BY <2>1, HandlerFrame DEF runVars, stopVars
<1>3. work[v] = "none" => work'[v] = "none"
  <2>1. ASSUME NEW w \in Worker, Takes(r, w), work[v] = "none" PROVE work'[v] = "none"
    BY <1>1, <2>1 DEF Takes, TypeOK
  <2>2. CASE Answered(r)
    BY <1>1, <2>2 DEF Answered, TypeOK
  <2>3. CASE Fails(r) /\ on[r] # NoWorker
    BY <1>1, <2>3 DEF Fails, TypeOK, OneHolder
  <2> QED
    BY <1>1, <2>1, <2>2, <2>3, HandlerEffect
<1> QED
  BY <1>1, <1>2, <1>3 DEF Counts, Exceeded

LEMMA RunCounts ==
  ASSUME SupInv, RunStep \/ ServeFails \/ Signal \/ Passes, NEW v \in Worker
  PROVE  Counts(v)'
<1>1. TypeOK /\ Counts(v) /\ RestartLimit \in Nat
  BY ConstantsSound DEF SupInv, IInv
<1>2. ASSUME NEW p \in Pools, PoolStarts(p) PROVE Counts(v)'
  <2>1. /\ p \notin begun /\ begun' = begun \cup {p}
        /\ boot'[v] = IF PoolOf[v] = p THEN "begin" ELSE boot[v]
        /\ UNCHANGED <<timer, work, crashes, stopping>>
    BY <1>2 DEF PoolStarts, stopVars, Of
  <2> QED
    BY <1>1, <2>1 DEF Counts, Exceeded
<1>3. CASE PoolStarted \/ StartFails \/ Listen \/ ServeFails \/ Drain \/ DrainEnds \/ StopIdleEnds
           \/ StopDone \/ Leave \/ Passes \/ Signal \/ \E p \in Pools : StopPool(p)
  <2>1. UNCHANGED <<boot, begun, timer, work, crashes>> /\ stopping \subseteq stopping'
    BY <1>3 DEF PoolStarted, StartFails, Listen, ServeFails, Drain, DrainEnds, Stops, StopIdleEnds,
       StopDone, Leave, Passes, Signal, StopPool, startVars, slotVars, runVars, stopVars
  <2> QED
    BY <1>1, <2>1 DEF Counts, Exceeded
<1>4. CASE StopKills \/ StopRest \/ \E w \in Worker : StopIdle(w) \/ StopTells(w)
  <2>1. UNCHANGED <<boot, begun, timer, crashes, stopping>>
    BY <1>4 DEF StopKills, StopRest, StopIdle, StopTells, startVars, slotVars, runVars
  <2>2. work[v] = "none" => work'[v] = "none"
    BY <1>1, <1>4 DEF StopKills, StopRest, StopIdle, StopTells, Running, slotVars, TypeOK
  <2> QED
    BY <1>1, <2>1, <2>2 DEF Counts, Exceeded
<1> QED
  BY <1>2, <1>3, <1>4 DEF RunStep

LEMMA InitSupervised == ASSUME Init PROVE SupInv /\ Supervised!Init
<1>1. IInv
  BY InitSound
<1>2. \A w \in Worker : Counts(w)
  BY ConstantsSound DEF Init, InitStart, Counts, Exceeded
<1>3. Lives \in [Worker -> {"new", "due"}]
  BY DEF Init, Lives, Life
<1>4. Living = {} /\ Cancelled = {} /\ Halted = {}
  BY DEF Init, InitStart, Living, Alive, Cancelled, CtxDone, Halted
<1> QED
  BY <1>1, <1>2, <1>3, <1>4 DEF SupInv, Supervised!Init, Init

\* Every step of the program, of any pool, is one step of the supervision of its
\* slots or changes nothing in it: no slot gets a process while it has one, and
\* none goes off that was not told to and has restarts left; of pools that keep the
\* size they start with.
THEOREM ServerSupervises == Spec => Supervises
<1>1. ASSUME SupInv, [Next]_vars PROVE SupInv' /\ SupStep
  <2>1. ASSUME Next PROVE (\A v \in Worker : Counts(v)') \/ UNCHANGED vars
    BY <1>1, <2>1, NextSplits, SlotCounts, HandlerCounts, RunCounts
  <2>2. CASE UNCHANGED vars
    <3>1. \A v \in Worker : Counts(v)'
      BY <1>1, <2>2 DEF SupInv, Counts, Exceeded, vars, startVars, runVars, slotVars, stopVars
    <3>2. Lives' = Lives /\ Living' = Living /\ UNCHANGED <<crashes, signalled, stopping>>
      BY <2>2 DEF Lives, Life, Living, Alive, vars, startVars, runVars, slotVars, stopVars
    <3>3. IInv'
      BY <1>1, <2>2, StutterKeeps DEF SupInv
    <3> QED
      BY <3>1, <3>2, <3>3, OnlyDies DEF SupInv
  <2>3. CASE Next /\ ~UNCHANGED vars
    <3>1. SupStep
      BY <1>1, <2>3, NextSplits, SlotSupervised, HandlerSupervised, RunSupervised
    <3>2. IInv'
      BY <1>1, <2>3, StepKeeps DEF SupInv
    <3> QED
      BY <2>1, <2>3, <3>1, <3>2 DEF SupInv
  <2> QED
    BY <1>1, <2>2, <2>3
<1>2. SupInv /\ [Next]_vars => SupInv' /\ [Supervised!Next]_(Supervised!supervisionVars)
  BY <1>1 DEF SupStep
<1> QED
  BY <1>2, InitSupervised, PTL DEF Spec, Supervises, Supervised!Spec

-----------------------------------------------------------------------------
(* What the supervision promises holds of its implementation               *)

Promised == INSTANCE Supervision_proofs WITH
    Slot <- Worker, Limit <- RestartLimit, life <- Lives, alive <- Living,
    strikes <- crashes, done <- Cancelled, stopped <- Halted

\* The two instances of the supervision are one specification.
LEMMA SamePromise == Supervised!Spec => Promised!Spec
<1>1. Supervised!Init => Promised!Init
  BY DEF Supervised!Init, Promised!Init
<1>2. Supervised!Next => Promised!Next
  BY DEF Supervised!Over, Supervised!Becomes, Supervised!Struck, Supervised!Restarted,
        Supervised!Asked, Supervised!Begins, Supervised!Spawned, Supervised!Installed,
        Supervised!Failed, Supervised!Abandoned, Supervised!Quits, Supervised!Ended,
        Supervised!Dies, Supervised!Cancelled, Supervised!Stopped, Supervised!SlotStep,
        Supervised!Next,
        Promised!Over, Promised!Becomes, Promised!Struck, Promised!Restarted, Promised!Asked,
        Promised!Begins, Promised!Spawned, Promised!Installed, Promised!Failed,
        Promised!Abandoned, Promised!Quits, Promised!Ended, Promised!Dies, Promised!Cancelled,
        Promised!Stopped, Promised!SlotStep, Promised!Next
<1>3. [Supervised!Next]_(Supervised!supervisionVars)
      => [Promised!Next]_(Promised!supervisionVars)
  BY <1>2 DEF Supervised!supervisionVars, Promised!supervisionVars
<1> QED
  BY <1>1, <1>3, PTL DEF Supervised!Spec, Promised!Spec

\* The same of the slots of every pool of the program, with a boot taken through its
\* starting steps and both kinds of pool shut down by a signal or an error, the pools
\* keeping their size.
THEOREM ServerKeepsPromise ==
  Spec => []Promised!SlotInv /\ Promised!OffForGood
<1>1. RestartLimit \in Nat
  BY ConstantsSound
<1>2. Promised!Spec => []Promised!SlotInv /\ Promised!OffForGood
  BY <1>1, Promised!SlotsSound, Promised!NeverBack
<1> QED
  BY <1>2, SamePromise, ServerSupervises DEF Supervises

=============================================================================
