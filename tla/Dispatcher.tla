----------------------------- MODULE Dispatcher -----------------------------
(***************************************************************************)
(* The handlers of src/internal/dispatcher/dispatcher.go between the HTTP  *)
(* server and the pool, and the connection each worker is spoken to on     *)
(* (Client.Send in src/internal/worker/process.go, SendRequest in          *)
(* src/internal/protocol/conn.go).                                         *)
(*                                                                         *)
(* The pool is its contract: the handlers' calls of TryAcquire, Acquire,   *)
(* Release and Discard are the steps Take, Return and Forfeit of           *)
(* WorkerLease, which WorkerPool is shown to implement; Issue and Withdraw *)
(* are the pool's own.  A worker is one generation, hence one connection.  *)
(* A connection is two ordered streams of frames, and only ids matter of   *)
(* what they carry.                                                        *)
(***************************************************************************)
EXTENDS Integers, Sequences, FiniteSets

CONSTANTS
    Worker, Requests, NoWorker,
    Sloppy,      \* workers that may answer a request twice, or with garbage
    Capacity,    \* queue.capacity; 0 means nobody ever waits
    MaxSeq,      \* bound: envelopes numbered by reqSeq
    MaxReplies   \* bound: frames of a worker not read yet

ASSUME DispatcherAssumption ==
    /\ NoWorker \notin Worker /\ Sloppy \subseteq Worker
    /\ IsFiniteSet(Requests)
    /\ Capacity \in Nat /\ MaxSeq \in Nat /\ MaxReplies \in Nat \ {0}

VARIABLES
    issued, offered, owner,   \* the lease
    at,                       \* per handler: where ServeHTTP is
    id,                       \* per handler: the id of its envelope, or NoId
    reqSeq, waiting,          \* the dispatcher's counters
    inFlight,                 \* the gauge of the same name
    open, asked, replied      \* per worker: its connection

NoId == 0
Garbage == -1   \* a frame that ReadFrame, Decode or ValidateResponse refuses
Id == 1..MaxSeq
At == {"off", "body", "try", "enter", "queued", "leave", "send", "await",
       "accepted", "failed"}
Holding == {"send", "await", "accepted", "failed"}

leaseVars == <<issued, offered, owner>>
counters == <<reqSeq, waiting, inFlight>>
connVars == <<open, asked, replied>>
vars == <<leaseVars, at, id, counters, connVars>>

Lease == INSTANCE WorkerLease

-----------------------------------------------------------------------------

Init ==
    /\ Lease!Init
    /\ at = [r \in Requests |-> "off"]
    /\ id = [r \in Requests |-> NoId]
    /\ reqSeq = 0 /\ waiting = 0 /\ inFlight = 0
    /\ open = [w \in Worker |-> FALSE]
    /\ asked = [w \in Worker |-> <<>>]
    /\ replied = [w \in Worker |-> <<>>]

Goes(r, place) == at' = [at EXCEPT ![r] = place]
\* ServeHTTP returns: the deferred DecInFlight.
Ends(r) == Goes(r, "off") /\ inFlight' = inFlight - 1

\* ServeHTTP up to the body.  What the operations prefix owns is answered 404
\* before anything is counted.
Arrive(r) ==
    /\ at[r] = "off" /\ reqSeq + inFlight < MaxSeq
    /\ Goes(r, "body")
    /\ inFlight' = inFlight + 1
    /\ UNCHANGED <<leaseVars, id, reqSeq, waiting, connVars>>

\* A body over max_body_bytes, or one that cannot be read: 413.
BodyRefused(r) ==
    /\ at[r] = "body"
    /\ Ends(r)
    /\ UNCHANGED <<leaseVars, id, reqSeq, waiting, connVars>>

BodyRead(r) ==
    /\ at[r] = "body"
    /\ Goes(r, "try")
    /\ UNCHANGED <<leaseVars, id, counters, connVars>>

TryTakes(r, w) ==
    /\ at[r] = "try"
    /\ Lease!Take(r, w)
    /\ Goes(r, "send")
    /\ UNCHANGED <<id, counters, connVars>>

\* TryAcquire finds nothing: also while a worker is offered, if purgeIdle has it
\* in hand, bootSlot is about to send it, or the pool stops.
TryMisses(r) ==
    /\ at[r] = "try"
    /\ Goes(r, "enter")
    /\ UNCHANGED <<leaseVars, id, counters, connVars>>

\* Mutant: off by one.
EnterQueueOneMore(r) ==
    /\ at[r] = "enter" /\ waiting <= Capacity
    /\ waiting' = waiting + 1
    /\ Goes(r, "queued")
    /\ UNCHANGED <<leaseVars, id, reqSeq, inFlight, connVars>>

\* tryEnterQueue
EnterQueue(r) ==
    /\ at[r] = "enter" /\ waiting < Capacity
    /\ waiting' = waiting + 1
    /\ Goes(r, "queued")
    /\ UNCHANGED <<leaseVars, id, reqSeq, inFlight, connVars>>

\* 503 at once
QueueFull(r) ==
    /\ at[r] = "enter" /\ waiting >= Capacity
    /\ Ends(r)
    /\ UNCHANGED <<leaseVars, id, reqSeq, waiting, connVars>>

AcquireTakes(r, w) ==
    /\ at[r] = "queued"
    /\ Lease!Take(r, w)
    /\ Goes(r, "leave")
    /\ UNCHANGED <<id, counters, connVars>>

\* acquire_timeout, a client that left, a pool whose context ended
AcquireEnds(r) ==
    /\ at[r] = "queued"
    /\ Goes(r, "leave")
    /\ UNCHANGED <<leaseVars, id, counters, connVars>>

\* Mutant: the queue is left only when Acquire returned a worker.
LeaveQueueOnSuccess(r) ==
    /\ at[r] = "leave"
    /\ IF owner[r] # NoWorker
       THEN Goes(r, "send") /\ waiting' = waiting - 1 /\ UNCHANGED inFlight
       ELSE Ends(r) /\ UNCHANGED waiting
    /\ UNCHANGED <<leaseVars, id, reqSeq, connVars>>

\* leaveQueue, then 503 if Acquire returned no worker.
LeaveQueue(r) ==
    /\ at[r] = "leave"
    /\ waiting' = IF waiting > 0 THEN waiting - 1 ELSE waiting
    /\ IF owner[r] # NoWorker THEN Goes(r, "send") /\ UNCHANGED inFlight
       ELSE Ends(r)
    /\ UNCHANGED <<leaseVars, id, reqSeq, connVars>>

\* The envelope gets its number and is written, unless it is over
\* max_frame_bytes, the connection is closed, or the write times out.
Send(r) ==
    /\ at[r] = "send"
    /\ reqSeq' = reqSeq + 1
    /\ id' = [id EXCEPT ![r] = reqSeq']
    /\ \/ /\ open[owner[r]]
          /\ asked' = [asked EXCEPT ![owner[r]] = Append(@, reqSeq')]
          /\ Goes(r, "await")
       \/ Goes(r, "failed") /\ UNCHANGED asked
    /\ UNCHANGED <<leaseVars, waiting, inFlight, open, replied>>

\* One frame is read: it answers this request, or Send fails.
Receive(r) ==
    /\ at[r] = "await" /\ open[owner[r]] /\ replied[owner[r]] # <<>>
    /\ Goes(r, IF Head(replied[owner[r]]) = id[r] THEN "accepted" ELSE "failed")
    /\ replied' = [replied EXCEPT ![owner[r]] = Tail(@)]
    /\ UNCHANGED <<leaseVars, id, counters, open, asked>>

\* Mutant: Send waits for the worker, however long it takes.
SendEndsOnClose(r) ==
    /\ at[r] = "await" /\ ~open[owner[r]]
    /\ Goes(r, "failed")
    /\ UNCHANGED <<leaseVars, id, counters, connVars>>

\* request_timeout, a client that left, a connection that broke.
SendEnds(r) ==
    /\ at[r] = "await"
    /\ Goes(r, "failed")
    /\ UNCHANGED <<leaseVars, id, counters, connVars>>

ConnCloses(w) ==
    /\ open' = [open EXCEPT ![w] = FALSE]
    /\ asked' = [asked EXCEPT ![w] = <<>>]
    /\ replied' = [replied EXCEPT ![w] = <<>>]

\* Release: back on offer, or drained, recycled or already replaced.  The
\* response is written to the client afterwards.
Release(r) ==
    /\ at[r] = "accepted"
    /\ \/ Lease!Return(r) /\ UNCHANGED connVars
       \/ /\ Lease!Forfeit(r)
          /\ ConnCloses(owner[r]) \/ UNCHANGED connVars
    /\ id' = [id EXCEPT ![r] = NoId]
    /\ Ends(r)
    /\ UNCHANGED <<reqSeq, waiting>>

\* Mutant: a worker that timed out is released.
DiscardReturns(r) ==
    /\ at[r] = "failed"
    /\ Lease!Return(r)
    /\ id' = [id EXCEPT ![r] = NoId]
    /\ Ends(r)
    /\ UNCHANGED <<reqSeq, waiting, connVars>>

\* Mutant: the handler returns its error without giving the worker up.
DiscardForgets(r) ==
    /\ at[r] = "failed"
    /\ id' = [id EXCEPT ![r] = NoId]
    /\ Ends(r)
    /\ UNCHANGED <<leaseVars, reqSeq, waiting, connVars>>

\* Discard, then 504 or 502.  A worker already replaced keeps its connection.
Discard(r) ==
    /\ at[r] = "failed"
    /\ Lease!Forfeit(r)
    /\ ConnCloses(owner[r]) \/ UNCHANGED connVars
    /\ id' = [id EXCEPT ![r] = NoId]
    /\ Ends(r)
    /\ UNCHANGED <<reqSeq, waiting>>

-----------------------------------------------------------------------------
(* The pool and the workers                                                *)

PoolIssues(w) ==
    /\ Lease!Issue(w)
    /\ open' = [open EXCEPT ![w] = TRUE]
    /\ UNCHANGED <<at, id, counters, asked, replied>>

PoolWithdraws(w) ==
    /\ Lease!Withdraw(w)
    /\ UNCHANGED <<at, id, counters, connVars>>

\* The process exits, or the pool terminates the worker.
WorkerGoes(w) ==
    /\ open[w]
    /\ ConnCloses(w)
    /\ UNCHANGED <<leaseVars, at, id, counters>>

\* A worker answers the oldest request it has not answered, when it likes.
WorkerAnswers(w) ==
    /\ open[w] /\ asked[w] # <<>>
    /\ replied' = [replied EXCEPT ![w] = Append(@, Head(asked[w]))]
    /\ asked' = [asked EXCEPT ![w] = Tail(@)]
    /\ UNCHANGED <<leaseVars, at, id, counters, open>>

WorkerBabbles(w) ==
    /\ w \in Sloppy /\ open[w] /\ asked[w] # <<>> /\ Len(replied[w]) < MaxReplies
    /\ \E frame \in {Head(asked[w]), Garbage} :
          replied' = [replied EXCEPT ![w] = Append(@, frame)]
    /\ UNCHANGED <<leaseVars, at, id, counters, open, asked>>

-----------------------------------------------------------------------------

\* What a handler does once the request is in.
HandlerStep(r) ==
    \/ BodyRefused(r) \/ BodyRead(r) \/ TryMisses(r) \/ EnterQueue(r)
    \/ QueueFull(r) \/ AcquireEnds(r) \/ LeaveQueue(r) \/ Send(r)
    \/ Receive(r) \/ SendEnds(r) \/ Release(r) \/ Discard(r)
    \/ \E w \in Worker : TryTakes(r, w) \/ AcquireTakes(r, w)

WorkerStep(w) ==
    \/ PoolIssues(w) \/ PoolWithdraws(w) \/ WorkerGoes(w) \/ WorkerAnswers(w)
    \/ WorkerBabbles(w)

\* No request comes any more.
Quiet == (\A r \in Requests : at[r] = "off") /\ UNCHANGED vars

Next ==
    \/ \E r \in Requests : Arrive(r) \/ HandlerStep(r)
    \/ \E w \in Worker : WorkerStep(w)
    \/ Quiet

Spec == Init /\ [][Next]_vars

\* A handler that can go on does: every wait in it has a timeout.  Nothing is
\* assumed of the pool, the workers or the clients.
FairSpec == Spec /\ \A r \in Requests : WF_vars(HandlerStep(r))

-----------------------------------------------------------------------------
(* Properties                                                              *)

TypeOK ==
    /\ issued \in SUBSET Worker /\ offered \in SUBSET Worker
    /\ owner \in [Requests -> Worker \cup {NoWorker}]
    /\ at \in [Requests -> At]
    /\ reqSeq \in Nat /\ waiting \in 0..Capacity /\ inFlight \in Nat
    /\ id \in [Requests -> Nat]
    /\ open \in [Worker -> BOOLEAN]
    /\ asked \in [Worker -> Seq(Nat)]
    /\ replied \in [Worker -> Seq(Nat \cup {Garbage})]

\* The queue and the gauge count the handlers that are there: a path that left
\* without its decrement would shrink queue.capacity for good, and one
\* that decremented twice would let more requests wait than configured
\* (tryEnterQueue and leaveQueue, IncInFlight and DecInFlight).
Waiters == {r \in Requests : at[r] \in {"queued", "leave"}}
Inside == {r \in Requests : at[r] # "off"}
CountersExact ==
    /\ waiting = Cardinality(Waiters)
    /\ inFlight = Cardinality(Inside)

\* No handler ends, or goes back to the queue, with a worker in hand: a worker
\* that is lent has a handler that will give it up.
NoWorkerKept ==
    \A r \in Requests : /\ at[r] \in Holding => owner[r] # NoWorker
                        /\ owner[r] # NoWorker => at[r] \in Holding \cup {"leave"}

\* A handler never fails for what an earlier request left on its connection:
\* the first frame it finds from a worker that answers once is its own answer,
\* however late earlier answers were (Discard, not Release, after a failed Send).
NoInheritedAnswer ==
    \A r \in Requests :
        at[r] = "await" /\ owner[r] \notin Sloppy /\ replied[owner[r]] # <<>>
            => Head(replied[owner[r]]) = id[r]

\* Every request is answered.
RequestAnswered == \A r \in Requests : at[r] = "body" ~> at[r] = "off"

=============================================================================
