----------------------------- MODULE Supervision -----------------------------
(***************************************************************************)
(* What a pool promises of its slots, without locks, channels, generations *)
(* or signals (bootSlot, monitor, scheduleRestart, Start and Shutdown of   *)
(* src/internal/worker/pool.go): a slot is booted, its process runs, exits *)
(* and is booted again, one process at a time, until the slot is told to   *)
(* stop or has used up its restarts; then it is off, for good.             *)
(***************************************************************************)
EXTENDS Integers

CONSTANTS Slot, Limit   \* workers.restart_limit; 0 means no limit

VARIABLES
    life,      \* new: not asked for; due: a boot is; boot: it is under way; up:
               \* it gave the slot a worker, whose monitor has not finished
    alive,     \* slots that have a process
    strikes,   \* per slot: recorded crashes
    done,      \* slots whose context has ended
    stopped    \* slots whose pool is in Shutdown

supervisionVars == <<life, alive, strikes, done, stopped>>

Life == {"new", "due", "boot", "up", "off"}
Over(n) == Limit > 0 /\ n > Limit

Init ==
    /\ life \in [Slot -> {"new", "due"}]
    /\ alive = {} /\ strikes = [s \in Slot |-> 0]
    /\ done = {} /\ stopped = {}

Becomes(s, l) == life' = [life EXCEPT ![s] = l]

\* A crash is recorded, older ones may leave the window; a slot over the limit
\* is not booted again.
Struck(s) ==
    \E n \in 1..(strikes[s] + 1) :
        /\ strikes' = [strikes EXCEPT ![s] = n]
        /\ Becomes(s, IF Over(n) THEN "off" ELSE "due")

Restarted(s) == Becomes(s, "due") /\ UNCHANGED strikes

\* Start asks for the first boot of its slots.
Asked(S) ==
    /\ \A s \in S : life[s] = "new"
    /\ life' = [s \in Slot |-> IF s \in S THEN "due" ELSE life[s]]
    /\ UNCHANGED <<alive, strikes, done, stopped>>

\* A boot begins with no process of the slot around, and spawns one or fails to;
\* the spawn may follow later.
Begins(s) ==
    /\ life[s] = "due" /\ s \notin stopped \cup alive
    /\ Becomes(s, "boot") /\ alive' \in {alive, alive \cup {s}}
    /\ UNCHANGED <<strikes, done, stopped>>

Spawned(s) ==
    /\ life[s] = "boot" /\ s \notin alive
    /\ alive' = alive \cup {s}
    /\ UNCHANGED <<life, strikes, done, stopped>>

Installed(s) ==
    /\ life[s] = "boot" /\ s \notin stopped
    /\ Becomes(s, "up")
    /\ UNCHANGED <<alive, strikes, done, stopped>>

\* It leaves no process; a boot after a crash counts as one more.
Failed(s) ==
    /\ life[s] = "boot"
    /\ alive' = alive \ {s}
    /\ Struck(s) \/ Restarted(s)
    /\ UNCHANGED <<done, stopped>>

\* It was under way when the pool stopped, and terminates what it spawned.
Abandoned(s) ==
    /\ life[s] = "boot" /\ s \in stopped
    /\ alive' = alive \ {s} /\ Becomes(s, "off")
    /\ UNCHANGED <<strikes, done, stopped>>

\* A boot that is due is given up when the context ends.
Quits(s) ==
    /\ life[s] = "due" /\ s \in done
    /\ Becomes(s, "off")
    /\ UNCHANGED <<alive, strikes, done, stopped>>

\* The monitor of a process that is gone.
Ended(s) ==
    /\ life[s] = "up" /\ s \notin alive
    /\ \/ Struck(s) \/ Restarted(s)
       \/ s \in stopped /\ Becomes(s, "off") /\ UNCHANGED strikes
    /\ UNCHANGED <<alive, done, stopped>>

\* Processes exit, or are killed.
Dies ==
    /\ alive' \in SUBSET alive
    /\ UNCHANGED <<life, strikes, done, stopped>>

Cancelled(S) ==
    /\ done' = done \cup S
    /\ UNCHANGED <<life, alive, strikes, stopped>>

Stopped(S) ==
    /\ done' = done \cup S /\ stopped' = stopped \cup S
    /\ UNCHANGED <<life, alive, strikes>>

SlotStep(s) == \/ Begins(s) \/ Spawned(s) \/ Installed(s) \/ Failed(s)
               \/ Abandoned(s) \/ Quits(s) \/ Ended(s)

Next ==
    \/ Dies
    \/ \E s \in Slot : SlotStep(s)
    \/ \E S \in SUBSET Slot : Asked(S) \/ Cancelled(S) \/ Stopped(S)

Spec == Init /\ [][Next]_supervisionVars

=============================================================================
