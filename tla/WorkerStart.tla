----------------------------- MODULE WorkerStart -----------------------------
(***************************************************************************)
(* How a worker process comes up and goes down: Starter.Start and          *)
(* ConsumerStarter.Start, waitForSocket, dialUnix, PerformHandshake and    *)
(* terminateProcess (src/internal/worker/process.go, dial.go,              *)
(* src/internal/protocol/handshake.go), and the socket files               *)
(* (src/internal/socket/manager.go).                                       *)
(*                                                                         *)
(* A worker is a slot with the generation it is at.  Time is counted in    *)
(* ticks; one clock per worker is enough, because Start waits for one      *)
(* thing at a time and terminateProcess comes after it.  The process       *)
(* itself (src/tests/fixtures/healthy-worker.php is one) does what it      *)
(* likes: it may be slow, greet wrongly, ignore SIGTERM or exit.           *)
(***************************************************************************)
EXTENDS Integers, FiniteSets

CONSTANTS
    Worker,
    Http,        \* those that are spoken to on a socket; the others consume
    Startup,     \* workers.startup_timeout
    Handshake,   \* workers.handshake_timeout
    Grace        \* workers.shutdown_timeout

ASSUME StartAssumption ==
    /\ IsFiniteSet(Worker) /\ Http \subseteq Worker
    /\ Startup \in Nat \ {0} /\ Handshake \in Nat \ {0} /\ Grace \in Nat \ {0}

VARIABLES
    proc,    \* the generation's process; term: it was sent SIGTERM
    boot,    \* where bootSlot is; started, failed: Start has returned; late: the
             \* pool stopped meanwhile
    file,    \* what is at the generation's socket path
    litter,  \* slots that left sockets of earlier generations in the directory
    clock    \* ticks since the wait under way began

startVars == <<proc, boot, file, litter, clock>>

Off == -1
\* Bound: a clock counts no further.
Longest == Startup + Handshake + Grace
Proc == {"none", "up", "term", "exited", "killed"}
Boot == {"off", "begin", "spawn", "socket", "dial", "shake", "good", "bad", "reap",
         "started", "failed", "late"}
\* old: a process of a program that crashed before this one listens there.
File == {"no", "old", "bound", "listening", "left"}

Alive(w) == proc[w] \in {"up", "term"}
Signalled(w) == IF proc[w] = "up" THEN "term" ELSE proc[w]
Killed(w) == IF Alive(w) THEN "killed" ELSE proc[w]

InitStart ==
    /\ proc = [w \in Worker |-> "none"]
    /\ boot = [w \in Worker |-> "off"]
    /\ file \in [Worker -> {"no", "old"}]
    /\ \A w \in Worker \ Http : file[w] = "no"
    /\ litter = {}
    /\ clock = [w \in Worker |-> Off]

At(w, place) == boot' = [boot EXCEPT ![w] = place]
Waits(w) == clock' = [clock EXCEPT ![w] = 0]

\* Mutant: the grace is waited for, SIGTERM was not sent.
ReapsUntold(w, place) == At(w, place) /\ Waits(w) /\ proc' = [proc EXCEPT ![w] = @]

\* terminateProcess: nobody waits for the process, so ProcessState stays nil and
\* the grace is waited for whole.
Reaps(w, place) == /\ At(w, place) /\ Waits(w)
                   /\ proc' = [proc EXCEPT ![w] = Signalled(w)]
Reaped(w, place) ==
    /\ clock[w] >= Grace
    /\ proc' = [proc EXCEPT ![w] = Killed(w)]
    /\ At(w, place) /\ clock' = [clock EXCEPT ![w] = Off]

-----------------------------------------------------------------------------
(* Start                                                                   *)

\* Mutant: the path is not freed.
ClearsNothing(w) == w \in Worker /\ UNCHANGED <<file, litter>>

\* The path is freed before the process is there.  What an earlier generation
\* of the slot left is at another path and stays.  (Start does not look at whether
\* the file could be removed, process.go:221; the directory is the program's own
\* and it always can, here.)
Clears(w) ==
    /\ file' = [file EXCEPT ![w] = "no"]
    /\ litter' = IF file[w] \in {"bound", "listening", "left"} THEN litter \cup {w} ELSE litter

\* A consumer is ready once its process runs.
Spawns(w) ==
    /\ boot[w] = "spawn"
    /\ Clears(w)
    /\ \/ At(w, "failed") /\ UNCHANGED <<proc, clock>>
       \/ /\ proc' = [proc EXCEPT ![w] = "up"]
          /\ IF w \in Http THEN At(w, "socket") /\ Waits(w)
                           ELSE At(w, "started") /\ UNCHANGED clock

\* waitForSocket looks for the file, not for somebody who listens.
SeesSocket(w) ==
    /\ boot[w] = "socket" /\ file[w] # "no"
    /\ At(w, "dial")
    /\ UNCHANGED <<proc, file, litter, clock>>

\* startup_timeout, or the pool's context.
SocketNotSeen(w, cancelled) ==
    /\ boot[w] = "socket" /\ (cancelled \/ clock[w] >= Startup)
    /\ Reaps(w, "reap")
    /\ UNCHANGED <<file, litter>>

\* One attempt: a file that is bound and not listening yet refuses it.
Dials(w, cancelled) ==
    /\ boot[w] = "dial"
    /\ \/ /\ file[w] \in {"old", "listening"} /\ ~cancelled
          /\ At(w, "shake") /\ Waits(w) /\ UNCHANGED proc
       \/ /\ file[w] \in {"bound", "left", "no"} \/ cancelled \/ clock[w] >= Startup
          /\ Reaps(w, "reap")
    /\ UNCHANGED <<file, litter>>

\* Mutant: the read of the ready message has no deadline.
ShakeEndsUntimed(w) ==
    /\ \/ boot[w] = "good" /\ At(w, "started") /\ clock' = [clock EXCEPT ![w] = Off]
          /\ UNCHANGED proc
       \/ /\ boot[w] = "bad" \/ (boot[w] = "shake" /\ ~Alive(w))
          /\ Reaps(w, "reap")
    /\ UNCHANGED <<file, litter>>

\* Mutant: the connection is closed and the process forgotten.
ShakeEndsLeaking(w) ==
    /\ \/ boot[w] = "good" /\ At(w, "started")
       \/ /\ boot[w] = "bad" \/ (boot[w] = "shake" /\ (~Alive(w) \/ clock[w] >= Handshake))
          /\ At(w, "failed")
    /\ clock' = [clock EXCEPT ![w] = Off]
    /\ UNCHANGED <<proc, file, litter>>

\* PerformHandshake: the ready message is what ValidateReady accepts, or not, or
\* the process goes away, or handshake_timeout.  The context is only asked for
\* its deadline: a signal does not end it.
ShakeEnds(w) ==
    /\ \/ boot[w] = "good" /\ At(w, "started") /\ clock' = [clock EXCEPT ![w] = Off]
          /\ UNCHANGED proc
       \/ /\ boot[w] = "bad" \/ (boot[w] = "shake" /\ (~Alive(w) \/ clock[w] >= Handshake))
          /\ Reaps(w, "reap")
    /\ UNCHANGED <<file, litter>>

ReapEnds(w) ==
    /\ boot[w] = "reap" /\ Reaped(w, "failed")
    /\ UNCHANGED <<file, litter>>

StartStep(w, cancelled) ==
    \/ Spawns(w) \/ SeesSocket(w) \/ SocketNotSeen(w, cancelled)
    \/ Dials(w, cancelled) \/ ShakeEnds(w) \/ ReapEnds(w)

-----------------------------------------------------------------------------
(* The process                                                             *)

Binds(w) ==
    /\ w \in Http /\ Alive(w) /\ file[w] = "no" /\ boot[w] = "socket"
    /\ file' = [file EXCEPT ![w] = "bound"]
    /\ UNCHANGED <<proc, boot, litter, clock>>

ListensAt(w) ==
    /\ Alive(w) /\ file[w] = "bound"
    /\ file' = [file EXCEPT ![w] = "listening"]
    /\ UNCHANGED <<proc, boot, litter, clock>>

Greets(w) ==
    /\ boot[w] = "shake" /\ (Alive(w) \/ file[w] = "old")
    /\ At(w, "good") \/ At(w, "bad")
    /\ UNCHANGED <<proc, file, litter, clock>>

\* Killed from outside, at the end of its work, or told to: with its socket
\* file removed or not.
Exits(w) ==
    /\ Alive(w)
    /\ proc' = [proc EXCEPT ![w] = "exited"]
    /\ file' = [file EXCEPT ![w] = IF @ \in {"bound", "listening"} THEN "left" ELSE @]
       \/ file' = [file EXCEPT ![w] = IF @ \in {"bound", "listening"} THEN "no" ELSE @]
    /\ UNCHANGED <<boot, litter, clock>>

ProcessStep(w) == Binds(w) \/ ListensAt(w) \/ Greets(w) \/ Exits(w)

-----------------------------------------------------------------------------
(* Properties                                                              *)

StartTypeOK ==
    /\ proc \in [Worker -> Proc]
    /\ boot \in [Worker -> Boot]
    /\ file \in [Worker -> File]
    /\ litter \subseteq Worker
    /\ clock \in [Worker -> 0..Longest \cup {Off}]

\* A program that crashed leaves its sockets, and processes that still answer on
\* them with the ids and generations this one will use: ValidateReady cannot
\* tell.  Start never talks to one, for it frees the path first (process.go:221), as long
\* as the file can be removed.
OwnSocket ==
    \A w \in Worker : boot[w] \in {"socket", "dial", "shake", "good", "started"}
                          => file[w] # "old"

=============================================================================
