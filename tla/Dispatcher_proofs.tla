-------------------------- MODULE Dispatcher_proofs --------------------------
(***************************************************************************)
(* Theorems about Dispatcher for any number of handlers and workers, any   *)
(* queue capacity and any set of workers that break the protocol.          *)
(***************************************************************************)
EXTENDS Dispatcher, FiniteSetTheorems, TLAPS

USE DEF leaseVars, counters, connVars

-----------------------------------------------------------------------------
(* Counting handlers                                                       *)

InQueue == {"queued", "leave"}

LEMMA FiniteHandlers ==
  /\ IsFiniteSet(Waiters) /\ Cardinality(Waiters) \in Nat
  /\ IsFiniteSet(Inside) /\ Cardinality(Inside) \in Nat
<1>1. Waiters \in SUBSET Requests /\ Inside \in SUBSET Requests
  BY DEF Waiters, Inside
<1>2. IsFiniteSet(Waiters) /\ IsFiniteSet(Inside)
  BY <1>1, FS_Subset, DispatcherAssumption DEF DispatcherAssumption
<1> QED
  BY <1>2, FS_CardinalityType

\* A handler that moves changes the number of waiters only as it enters or
\* leaves the queue.
LEMMA WaitersMove ==
  ASSUME TypeOK, NEW r \in Requests, NEW p, Goes(r, p)
  PROVE  /\ (at[r] \in InQueue <=> p \in InQueue) =>
              Cardinality(Waiters') = Cardinality(Waiters)
         /\ at[r] \notin InQueue /\ p \in InQueue =>
              Cardinality(Waiters') = Cardinality(Waiters) + 1
         /\ at[r] \in InQueue /\ p \notin InQueue =>
              /\ Cardinality(Waiters') = Cardinality(Waiters) - 1
              /\ Cardinality(Waiters) > 0
<1>1. at' = [at EXCEPT ![r] = p] /\ at \in [Requests -> At]
  BY DEF Goes, TypeOK
<1>2. r \in Waiters <=> at[r] \in InQueue
  BY DEF Waiters, InQueue
<1>3. Waiters' = IF p \in InQueue THEN Waiters \cup {r} ELSE Waiters \ {r}
  BY <1>1 DEF Waiters, InQueue
<1>4. /\ Cardinality(Waiters \cup {r}) =
            IF r \in Waiters THEN Cardinality(Waiters) ELSE Cardinality(Waiters) + 1
      /\ Cardinality(Waiters \ {r}) =
            IF r \in Waiters THEN Cardinality(Waiters) - 1 ELSE Cardinality(Waiters)
  BY FiniteHandlers, FS_AddElement, FS_RemoveElement
<1>5. r \in Waiters => Cardinality(Waiters) > 0
  <2>1. r \in Waiters => Waiters # {}
    OBVIOUS
  <2> QED
    BY <2>1, FiniteHandlers, FS_EmptySet
<1> QED
  BY <1>2, <1>3, <1>4, <1>5, FiniteHandlers

LEMMA InsideMove ==
  ASSUME TypeOK, NEW r \in Requests, NEW p, Goes(r, p)
  PROVE  /\ (at[r] # "off" <=> p # "off") =>
              Cardinality(Inside') = Cardinality(Inside)
         /\ at[r] = "off" /\ p # "off" =>
              Cardinality(Inside') = Cardinality(Inside) + 1
         /\ at[r] # "off" /\ p = "off" =>
              /\ Cardinality(Inside') = Cardinality(Inside) - 1
              /\ Cardinality(Inside) > 0
<1>1. at' = [at EXCEPT ![r] = p] /\ at \in [Requests -> At]
  BY DEF Goes, TypeOK
<1>2. r \in Inside <=> at[r] # "off"
  BY DEF Inside
<1>3. Inside' = IF p # "off" THEN Inside \cup {r} ELSE Inside \ {r}
  BY <1>1 DEF Inside
<1>4. /\ Cardinality(Inside \cup {r}) =
            IF r \in Inside THEN Cardinality(Inside) ELSE Cardinality(Inside) + 1
      /\ Cardinality(Inside \ {r}) =
            IF r \in Inside THEN Cardinality(Inside) - 1 ELSE Cardinality(Inside)
  BY FiniteHandlers, FS_AddElement, FS_RemoveElement
<1>5. r \in Inside => Cardinality(Inside) > 0
  <2>1. r \in Inside => Inside # {}
    OBVIOUS
  <2> QED
    BY <2>1, FiniteHandlers, FS_EmptySet
<1> QED
  BY <1>2, <1>3, <1>4, <1>5, FiniteHandlers

\* Steps that move no handler count the same ones.
LEMMA NobodyMoves ==
  ASSUME UNCHANGED at
  PROVE  Cardinality(Waiters') = Cardinality(Waiters) /\ Cardinality(Inside') = Cardinality(Inside)
  BY DEF Waiters, Inside

\* A handler that ends is counted out.
LEMMA EndsCounted ==
  ASSUME TypeOK, CountersExact, NEW r \in Requests, at[r] # "off", Ends(r)
  PROVE  inFlight' \in Nat /\ inFlight' = Cardinality(Inside')
<1>1. Cardinality(Inside') = Cardinality(Inside) - 1 /\ Cardinality(Inside) > 0
  BY InsideMove DEF Ends
<1> QED
  BY <1>1, FiniteHandlers DEF Ends, CountersExact, TypeOK

-----------------------------------------------------------------------------
(* Typing, the counters, and who holds a worker                            *)

CountInv == TypeOK /\ CountersExact /\ NoWorkerKept

LEMMA InitCounts == ASSUME Init PROVE CountInv
<1> USE DEF Init
<1>1. Waiters = {} /\ Inside = {}
  BY DEF Waiters, Inside
<1>2. CountersExact
  BY <1>1, FS_EmptySet DEF CountersExact
<1>3. NoWorkerKept
  BY DEF NoWorkerKept, Holding, Lease!Init
<1>4. TypeOK
  BY DispatcherAssumption DEF DispatcherAssumption, TypeOK, Lease!Init, At, NoId
<1> QED
  BY <1>2, <1>3, <1>4 DEF CountInv

\* The conjuncts about the lease and the connections, which no counter is in.
LeaseTyped == /\ issued \in SUBSET Worker /\ offered \in SUBSET Worker
              /\ owner \in [Requests -> Worker \cup {NoWorker}]
WireTyped == /\ open \in [Worker -> BOOLEAN]
             /\ asked \in [Worker -> Seq(Nat)]
             /\ replied \in [Worker -> Seq(Nat \cup {Garbage})]

LEMMA ReturnTyped ==
  ASSUME TypeOK, NEW r \in Requests, Lease!Return(r)
  PROVE  LeaseTyped'
<1>1. owner[r] \in Worker
  BY DEF TypeOK, Lease!Return
<1> QED
  BY <1>1 DEF TypeOK, LeaseTyped, Lease!Return

LEMMA ForfeitTyped ==
  ASSUME TypeOK, NEW r \in Requests, Lease!Forfeit(r)
  PROVE  LeaseTyped'
  BY DEF TypeOK, LeaseTyped, Lease!Forfeit

LEMMA TakeTyped ==
  ASSUME TypeOK, NEW r \in Requests, NEW w \in Worker, Lease!Take(r, w)
  PROVE  LeaseTyped' /\ owner' = [owner EXCEPT ![r] = w]
  BY DEF TypeOK, LeaseTyped, Lease!Take

LEMMA ClosedTyped ==
  ASSUME TypeOK, NEW w, ConnCloses(w)
  PROVE  WireTyped'
<1>1. <<>> \in Seq(Nat) /\ <<>> \in Seq(Nat \cup {Garbage})
  OBVIOUS
<1> QED
  BY <1>1 DEF TypeOK, WireTyped, ConnCloses

LEMMA StillTyped == 
  ASSUME TypeOK
  PROVE  /\ UNCHANGED <<issued, offered, owner>> => LeaseTyped'
         /\ UNCHANGED <<open, asked, replied>> => WireTyped'
  BY DEF TypeOK, LeaseTyped, WireTyped

\* What is read from a worker, and what is left, when a frame is there.
LEMMA FrameTyped ==
  ASSUME TypeOK, NEW w \in Worker, NEW rest, replied[w] # <<>>,
         rest = [replied EXCEPT ![w] = Tail(@)]
  PROVE  rest \in [Worker -> Seq(Nat \cup {Garbage})]
<1>1. replied[w] \in Seq(Nat \cup {Garbage})
  BY DEF TypeOK
<1>2. Tail(replied[w]) \in Seq(Nat \cup {Garbage})
  BY <1>1
<1> QED
  BY <1>2 DEF TypeOK

LEMMA HandlerCounts ==
  ASSUME CountInv, NEW r \in Requests, Arrive(r) \/ HandlerStep(r)
  PROVE  CountInv'
<1> USE DEF CountInv
<1>1. LeaseTyped /\ WireTyped /\ at \in [Requests -> At] /\ id \in [Requests -> Nat]
      /\ reqSeq \in Nat /\ waiting \in 0..Capacity /\ inFlight \in Nat
      /\ waiting = Cardinality(Waiters) /\ inFlight = Cardinality(Inside)
  BY DEF TypeOK, LeaseTyped, WireTyped, CountersExact
<1>2. NoId \in Nat /\ Capacity \in Nat
  BY DispatcherAssumption DEF DispatcherAssumption, NoId
<1> SUFFICES /\ LeaseTyped' /\ WireTyped' /\ at' \in [Requests -> At]
             /\ id' \in [Requests -> Nat] /\ reqSeq' \in Nat
             /\ waiting' \in 0..Capacity /\ inFlight' \in Nat
             /\ waiting' = Cardinality(Waiters') /\ inFlight' = Cardinality(Inside')
             /\ NoWorkerKept'
  BY DEF TypeOK, LeaseTyped, WireTyped, CountersExact
<1> USE DEF InQueue, Holding
<1>3. CASE Arrive(r)
  <2>1. LeaseTyped' /\ WireTyped' /\ at' \in [Requests -> At]
        /\ id' \in [Requests -> Nat] /\ reqSeq' \in Nat
    BY <1>3, <1>1, StillTyped DEF Arrive, Goes, Ends, At
  <2>2. /\ waiting' \in 0..Capacity /\ inFlight' \in Nat
        /\ waiting' = Cardinality(Waiters') /\ inFlight' = Cardinality(Inside')
    BY <1>3, <1>1, <1>2, WaitersMove, InsideMove, FiniteHandlers DEF Arrive
  <2>3. NoWorkerKept'
    BY <1>3, <1>1, DispatcherAssumption DEF DispatcherAssumption, Arrive, Goes, Ends, NoWorkerKept, LeaseTyped
  <2> QED
    BY <2>1, <2>2, <2>3
<1>4. CASE BodyRefused(r)
  <2>1. LeaseTyped' /\ WireTyped' /\ at' \in [Requests -> At]
        /\ id' \in [Requests -> Nat] /\ reqSeq' \in Nat
    BY <1>4, <1>1, StillTyped DEF BodyRefused, Goes, Ends, At
  <2>2. /\ waiting' \in 0..Capacity /\ inFlight' \in Nat
        /\ waiting' = Cardinality(Waiters') /\ inFlight' = Cardinality(Inside')
    BY <1>4, <1>1, <1>2, WaitersMove, EndsCounted DEF BodyRefused, Ends
  <2>3. NoWorkerKept'
    BY <1>4, <1>1, DispatcherAssumption DEF DispatcherAssumption, BodyRefused, Goes, Ends, NoWorkerKept, LeaseTyped
  <2> QED
    BY <2>1, <2>2, <2>3
<1>5. CASE BodyRead(r)
  <2>1. LeaseTyped' /\ WireTyped' /\ at' \in [Requests -> At]
        /\ id' \in [Requests -> Nat] /\ reqSeq' \in Nat
    BY <1>5, <1>1, StillTyped DEF BodyRead, Goes, Ends, At
  <2>2. /\ waiting' \in 0..Capacity /\ inFlight' \in Nat
        /\ waiting' = Cardinality(Waiters') /\ inFlight' = Cardinality(Inside')
    BY <1>5, <1>1, <1>2, WaitersMove, InsideMove, FiniteHandlers DEF BodyRead
  <2>3. NoWorkerKept'
    BY <1>5, <1>1, DispatcherAssumption DEF DispatcherAssumption, BodyRead, Goes, Ends, NoWorkerKept, LeaseTyped
  <2> QED
    BY <2>1, <2>2, <2>3
<1>6. CASE TryMisses(r)
  <2>1. LeaseTyped' /\ WireTyped' /\ at' \in [Requests -> At]
        /\ id' \in [Requests -> Nat] /\ reqSeq' \in Nat
    BY <1>6, <1>1, StillTyped DEF TryMisses, Goes, Ends, At
  <2>2. /\ waiting' \in 0..Capacity /\ inFlight' \in Nat
        /\ waiting' = Cardinality(Waiters') /\ inFlight' = Cardinality(Inside')
    BY <1>6, <1>1, <1>2, WaitersMove, InsideMove, FiniteHandlers DEF TryMisses
  <2>3. NoWorkerKept'
    BY <1>6, <1>1, DispatcherAssumption DEF DispatcherAssumption, TryMisses, Goes, Ends, NoWorkerKept, LeaseTyped
  <2> QED
    BY <2>1, <2>2, <2>3
<1>7. CASE EnterQueue(r)
  <2>1. LeaseTyped' /\ WireTyped' /\ at' \in [Requests -> At]
        /\ id' \in [Requests -> Nat] /\ reqSeq' \in Nat
    BY <1>7, <1>1, StillTyped DEF EnterQueue, Goes, Ends, At
  <2>2. /\ waiting' \in 0..Capacity /\ inFlight' \in Nat
        /\ waiting' = Cardinality(Waiters') /\ inFlight' = Cardinality(Inside')
    BY <1>7, <1>1, <1>2, WaitersMove, InsideMove, FiniteHandlers DEF EnterQueue
  <2>3. NoWorkerKept'
    BY <1>7, <1>1, DispatcherAssumption DEF DispatcherAssumption, EnterQueue, Goes, Ends, NoWorkerKept, LeaseTyped
  <2> QED
    BY <2>1, <2>2, <2>3
<1>8. CASE QueueFull(r)
  <2>1. LeaseTyped' /\ WireTyped' /\ at' \in [Requests -> At]
        /\ id' \in [Requests -> Nat] /\ reqSeq' \in Nat
    BY <1>8, <1>1, StillTyped DEF QueueFull, Goes, Ends, At
  <2>2. /\ waiting' \in 0..Capacity /\ inFlight' \in Nat
        /\ waiting' = Cardinality(Waiters') /\ inFlight' = Cardinality(Inside')
    BY <1>8, <1>1, <1>2, WaitersMove, EndsCounted DEF QueueFull, Ends
  <2>3. NoWorkerKept'
    BY <1>8, <1>1, DispatcherAssumption DEF DispatcherAssumption, QueueFull, Goes, Ends, NoWorkerKept, LeaseTyped
  <2> QED
    BY <2>1, <2>2, <2>3
<1>9. CASE AcquireEnds(r)
  <2>1. LeaseTyped' /\ WireTyped' /\ at' \in [Requests -> At]
        /\ id' \in [Requests -> Nat] /\ reqSeq' \in Nat
    BY <1>9, <1>1, StillTyped DEF AcquireEnds, Goes, Ends, At
  <2>2. /\ waiting' \in 0..Capacity /\ inFlight' \in Nat
        /\ waiting' = Cardinality(Waiters') /\ inFlight' = Cardinality(Inside')
    BY <1>9, <1>1, <1>2, WaitersMove, InsideMove, FiniteHandlers DEF AcquireEnds
  <2>3. NoWorkerKept'
    BY <1>9, <1>1, DispatcherAssumption DEF DispatcherAssumption, AcquireEnds, Goes, Ends, NoWorkerKept, LeaseTyped
  <2> QED
    BY <2>1, <2>2, <2>3
<1>10. CASE SendEnds(r)
  <2>1. LeaseTyped' /\ WireTyped' /\ at' \in [Requests -> At]
        /\ id' \in [Requests -> Nat] /\ reqSeq' \in Nat
    BY <1>10, <1>1, StillTyped DEF SendEnds, Goes, Ends, At
  <2>2. /\ waiting' \in 0..Capacity /\ inFlight' \in Nat
        /\ waiting' = Cardinality(Waiters') /\ inFlight' = Cardinality(Inside')
    BY <1>10, <1>1, <1>2, WaitersMove, InsideMove, FiniteHandlers DEF SendEnds
  <2>3. NoWorkerKept'
    BY <1>10, <1>1, DispatcherAssumption DEF DispatcherAssumption, SendEnds, Goes, Ends, NoWorkerKept, LeaseTyped
  <2> QED
    BY <2>1, <2>2, <2>3
<1>11. CASE LeaveQueue(r)
  <2>1. LeaseTyped' /\ WireTyped' /\ at' \in [Requests -> At]
        /\ id' \in [Requests -> Nat] /\ reqSeq' \in Nat
    BY <1>11, <1>1, StillTyped DEF LeaveQueue, Goes, Ends, At
  <2>2. /\ waiting' \in 0..Capacity /\ inFlight' \in Nat
        /\ waiting' = Cardinality(Waiters') /\ inFlight' = Cardinality(Inside')
    BY <1>11, <1>1, <1>2, WaitersMove, InsideMove, EndsCounted, FiniteHandlers DEF LeaveQueue, Ends
  <2>3. NoWorkerKept'
    BY <1>11, <1>1, DispatcherAssumption DEF DispatcherAssumption, LeaveQueue, Goes, Ends, NoWorkerKept, LeaseTyped
  <2> QED
    BY <2>1, <2>2, <2>3
<1>12. CASE Receive(r)
  <2>1. LeaseTyped' /\ WireTyped' /\ at' \in [Requests -> At]
        /\ id' \in [Requests -> Nat] /\ reqSeq' \in Nat
    <3>1. owner[r] \in Worker
      BY <1>12, <1>1 DEF Receive, NoWorkerKept, LeaseTyped
    <3>2. replied' \in [Worker -> Seq(Nat \cup {Garbage})]
      BY <1>12, <3>1, FrameTyped DEF Receive
    <3> QED
      BY <1>12, <1>1, <3>2, StillTyped DEF Receive, Goes, At, LeaseTyped, WireTyped
  <2>2. /\ waiting' \in 0..Capacity /\ inFlight' \in Nat
        /\ waiting' = Cardinality(Waiters') /\ inFlight' = Cardinality(Inside')
    BY <1>12, <1>1, <1>2, WaitersMove, InsideMove, FiniteHandlers DEF Receive
  <2>3. NoWorkerKept'
    BY <1>12, <1>1, DispatcherAssumption DEF DispatcherAssumption, Receive, Goes, Ends, NoWorkerKept, LeaseTyped
  <2> QED
    BY <2>1, <2>2, <2>3
<1>13. CASE Send(r)
  <2>1. LeaseTyped' /\ WireTyped' /\ at' \in [Requests -> At]
        /\ id' \in [Requests -> Nat] /\ reqSeq' \in Nat
    <3>0. reqSeq' \in Nat /\ \A w \in Worker : Append(asked[w], reqSeq') \in Seq(Nat)
      <4>1. reqSeq' \in Nat
        BY <1>13, <1>1 DEF Send
      <4>2. asked \in [Worker -> Seq(Nat)]
        BY <1>1 DEF WireTyped
      <4> QED
        BY <4>1, <4>2
    <3>1. reqSeq' \in Nat /\ asked' \in [Worker -> Seq(Nat)]
      <4>1. owner[r] \in Worker /\ asked \in [Worker -> Seq(Nat)]
        BY <1>13, <1>1 DEF Send, NoWorkerKept, LeaseTyped, WireTyped
      <4>2. [asked EXCEPT ![owner[r]] = Append(@, reqSeq')] \in [Worker -> Seq(Nat)]
        BY <3>0, <4>1
      <4>3. asked' = asked \/ asked' = [asked EXCEPT ![owner[r]] = Append(@, reqSeq')]
        BY <1>13 DEF Send
      <4> QED
        BY <3>0, <4>1, <4>2, <4>3
    <3>2. UNCHANGED <<leaseVars, open, replied>> /\ id' = [id EXCEPT ![r] = reqSeq']
      BY <1>13 DEF Send
    <3>3. Goes(r, "await") \/ Goes(r, "failed")
      BY <1>13 DEF Send
    <3>4. at' \in [Requests -> At] /\ id' \in [Requests -> Nat]
      BY <1>1, <3>1, <3>2, <3>3 DEF Goes, At
    <3> QED
      BY <1>1, <3>1, <3>2, <3>4 DEF LeaseTyped, WireTyped
  <2>2. /\ waiting' \in 0..Capacity /\ inFlight' \in Nat
        /\ waiting' = Cardinality(Waiters') /\ inFlight' = Cardinality(Inside')
    BY <1>13, <1>1, <1>2, WaitersMove, InsideMove, FiniteHandlers DEF Send
  <2>3. NoWorkerKept'
    BY <1>13, <1>1, DispatcherAssumption DEF DispatcherAssumption, Send, Goes, Ends, NoWorkerKept, LeaseTyped
  <2> QED
    BY <2>1, <2>2, <2>3
<1>14. CASE Release(r)
  <2>1. LeaseTyped' /\ WireTyped' /\ at' \in [Requests -> At]
        /\ id' \in [Requests -> Nat] /\ reqSeq' \in Nat
    BY <1>14, <1>1, <1>2, StillTyped, ReturnTyped, ForfeitTyped, ClosedTyped DEF Release, Goes, Ends, At
  <2>2. /\ waiting' \in 0..Capacity /\ inFlight' \in Nat
        /\ waiting' = Cardinality(Waiters') /\ inFlight' = Cardinality(Inside')
    BY <1>14, <1>1, <1>2, WaitersMove, EndsCounted DEF Release, Ends
  <2>3. NoWorkerKept'
    BY <1>14, <1>1, DispatcherAssumption DEF DispatcherAssumption, Release, Goes, Ends, NoWorkerKept, LeaseTyped, Lease!Return, Lease!Forfeit
  <2> QED
    BY <2>1, <2>2, <2>3
<1>15. CASE Discard(r)
  <2>1. LeaseTyped' /\ WireTyped' /\ at' \in [Requests -> At]
        /\ id' \in [Requests -> Nat] /\ reqSeq' \in Nat
    BY <1>15, <1>1, <1>2, StillTyped, ReturnTyped, ForfeitTyped, ClosedTyped DEF Discard, Goes, Ends, At
  <2>2. /\ waiting' \in 0..Capacity /\ inFlight' \in Nat
        /\ waiting' = Cardinality(Waiters') /\ inFlight' = Cardinality(Inside')
    BY <1>15, <1>1, <1>2, WaitersMove, EndsCounted DEF Discard, Ends
  <2>3. NoWorkerKept'
    BY <1>15, <1>1, DispatcherAssumption DEF DispatcherAssumption, Discard, Goes, Ends, NoWorkerKept, LeaseTyped, Lease!Return, Lease!Forfeit
  <2> QED
    BY <2>1, <2>2, <2>3
<1>16. CASE \E w \in Worker : TryTakes(r, w)
  <2>1. LeaseTyped' /\ WireTyped' /\ at' \in [Requests -> At]
        /\ id' \in [Requests -> Nat] /\ reqSeq' \in Nat
    BY <1>16, <1>1, StillTyped, TakeTyped DEF TryTakes, Goes, At
  <2>2. /\ waiting' \in 0..Capacity /\ inFlight' \in Nat
        /\ waiting' = Cardinality(Waiters') /\ inFlight' = Cardinality(Inside')
    BY <1>16, <1>1, <1>2, WaitersMove, InsideMove, FiniteHandlers DEF TryTakes
  <2>3. NoWorkerKept'
    BY <1>16, <1>1, DispatcherAssumption DEF DispatcherAssumption, TryTakes, Goes, NoWorkerKept, LeaseTyped, Lease!Take
  <2> QED
    BY <2>1, <2>2, <2>3
<1>17. CASE \E w \in Worker : AcquireTakes(r, w)
  <2>1. LeaseTyped' /\ WireTyped' /\ at' \in [Requests -> At]
        /\ id' \in [Requests -> Nat] /\ reqSeq' \in Nat
    BY <1>17, <1>1, StillTyped, TakeTyped DEF AcquireTakes, Goes, At
  <2>2. /\ waiting' \in 0..Capacity /\ inFlight' \in Nat
        /\ waiting' = Cardinality(Waiters') /\ inFlight' = Cardinality(Inside')
    BY <1>17, <1>1, <1>2, WaitersMove, InsideMove, FiniteHandlers DEF AcquireTakes
  <2>3. NoWorkerKept'
    BY <1>17, <1>1, DispatcherAssumption DEF DispatcherAssumption, AcquireTakes, Goes, NoWorkerKept, LeaseTyped, Lease!Take
  <2> QED
    BY <2>1, <2>2, <2>3
<1> QED
  BY <1>3, <1>4, <1>5, <1>6, <1>7, <1>8, <1>9, <1>10, <1>11, <1>12, <1>13, <1>14, <1>15, <1>16, <1>17 DEF HandlerStep

LEMMA WorkerCounts ==
  ASSUME CountInv, NEW w \in Worker, WorkerStep(w)
  PROVE  CountInv'
<1> USE DEF CountInv
<1>1. UNCHANGED <<at, id, counters, owner>>
  BY DEF WorkerStep, PoolIssues, PoolWithdraws, WorkerGoes, WorkerAnswers,
         WorkerBabbles, Lease!Issue, Lease!Withdraw
<1>2. CountersExact' /\ NoWorkerKept'
  BY <1>1, NobodyMoves DEF CountersExact, NoWorkerKept, Holding
<1>3. LeaseTyped'
  BY DEF WorkerStep, PoolIssues, PoolWithdraws, WorkerGoes, WorkerAnswers,
         WorkerBabbles, Lease!Issue, Lease!Withdraw, LeaseTyped, TypeOK
<1>4. WireTyped'
  <2>1. CASE PoolIssues(w) \/ PoolWithdraws(w)
    BY <2>1 DEF PoolIssues, PoolWithdraws, WireTyped, TypeOK
  <2>2. CASE WorkerGoes(w)
    BY <2>2, ClosedTyped DEF WorkerGoes
  <2>3. CASE WorkerAnswers(w)
    <3>1. asked[w] \in Seq(Nat) /\ replied[w] \in Seq(Nat \cup {Garbage})
      BY DEF TypeOK
    <3>2. Tail(asked[w]) \in Seq(Nat) /\ Head(asked[w]) \in Nat
      BY <2>3, <3>1 DEF WorkerAnswers
    <3>3. Append(replied[w], Head(asked[w])) \in Seq(Nat \cup {Garbage})
      BY <3>1, <3>2
    <3> QED
      BY <2>3, <3>2, <3>3 DEF WorkerAnswers, WireTyped, TypeOK
  <2>4. CASE WorkerBabbles(w)
    <3>1. asked[w] \in Seq(Nat) /\ replied[w] \in Seq(Nat \cup {Garbage})
      BY DEF TypeOK
    <3>2. Head(asked[w]) \in Nat
      BY <2>4, <3>1 DEF WorkerBabbles
    <3>3. \A frame \in {Head(asked[w]), Garbage} :
             Append(replied[w], frame) \in Seq(Nat \cup {Garbage})
      BY <3>1, <3>2
    <3> QED
      BY <2>4, <3>3 DEF WorkerBabbles, WireTyped, TypeOK
  <2> QED
    BY <2>1, <2>2, <2>3, <2>4 DEF WorkerStep
<1> QED
  BY <1>1, <1>2, <1>3, <1>4 DEF TypeOK, LeaseTyped, WireTyped

LEMMA NextCounts == CountInv /\ [Next]_vars => CountInv'
<1> SUFFICES ASSUME CountInv, [Next]_vars PROVE CountInv'
  OBVIOUS
<1>1. CASE UNCHANGED vars
  <2>1. UNCHANGED at
    BY <1>1 DEF vars
  <2> QED
    BY <1>1, <2>1, NobodyMoves DEF vars, CountInv, TypeOK, CountersExact, NoWorkerKept
<1> QED
  BY <1>1, HandlerCounts, WorkerCounts DEF Next, Quiet

\* Every variable keeps its type, and no more handlers wait than
\* queue.capacity, for any number of handlers.
THEOREM Typing == Spec => []TypeOK
<1>1. Init => CountInv
  BY InitCounts
<1>2. CountInv => TypeOK
  BY DEF CountInv
<1> QED
  BY <1>1, <1>2, NextCounts, PTL DEF Spec

\* The queue's counter and the in-flight gauge are the number of handlers that
\* wait and of handlers that are inside, on every path through ServeHTTP.
THEOREM CountersRight == Spec => []CountersExact
<1>1. Init => CountInv
  BY InitCounts
<1>2. CountInv => CountersExact
  BY DEF CountInv
<1> QED
  BY <1>1, <1>2, NextCounts, PTL DEF Spec

\* No handler ends with a worker in hand.
THEOREM WorkersGivenUp == Spec => []NoWorkerKept
<1>1. Init => CountInv
  BY InitCounts
<1>2. CountInv => NoWorkerKept
  BY DEF CountInv
<1> QED
  BY <1>1, <1>2, NextCounts, PTL DEF Spec

-----------------------------------------------------------------------------
(* Connections                                                             *)

\* A worker is in one hand, and one that never was offered has no connection.
OneHand ==
  /\ \A r, q \in Requests : owner[r] # NoWorker /\ owner[r] = owner[q] => r = q
  /\ \A r \in Requests : owner[r] \notin offered
  /\ \A r \in Requests : owner[r] # NoWorker => owner[r] \in issued
  /\ offered \subseteq issued
  /\ \A w \in Worker : w \notin issued => ~open[w]

\* Nothing is under way on a connection: neither asked nor answered.
Silent(w) == asked[w] = <<>> /\ replied[w] = <<>>

\* A worker that answers once has nothing under way while it is on offer, or
\* before its handler has sent, and only its handler's request from then on.
ClosedQuiet(w) == ~open[w] => Silent(w)
OfferedQuiet(w) == w \in offered /\ w \notin Sloppy => Silent(w)
HeldQuiet(r) ==
  at[r] \in {"leave", "send", "accepted"} /\ owner[r] # NoWorker
     /\ owner[r] \notin Sloppy => Silent(owner[r])
AskedQuiet(r) ==
  at[r] = "await" /\ owner[r] \notin Sloppy =>
     LET w == owner[r] IN
     \/ Silent(w)
     \/ asked[w] = <<id[r]>> /\ replied[w] = <<>>
     \/ asked[w] = <<>> /\ replied[w] = <<id[r]>>
QuietWire ==
  /\ \A w \in Worker : ClosedQuiet(w) /\ OfferedQuiet(w)
  /\ \A r \in Requests : HeldQuiet(r) /\ AskedQuiet(r)

WireInv == CountInv /\ OneHand /\ QuietWire

LEMMA InitWire == ASSUME Init PROVE WireInv
  BY InitCounts DEF Init, Lease!Init, WireInv, OneHand, QuietWire, Silent,
     ClosedQuiet, OfferedQuiet, HeldQuiet, AskedQuiet

LEMMA HandlerOneHand ==
  ASSUME CountInv, OneHand, NEW r \in Requests, Arrive(r) \/ HandlerStep(r)
  PROVE  OneHand'
<1> USE DEF OneHand, ConnCloses
<1>0. /\ owner \in [Requests -> Worker \cup {NoWorker}] /\ NoWorker \notin Worker
      /\ offered \subseteq Worker /\ open \in [Worker -> BOOLEAN]
  BY DispatcherAssumption DEF DispatcherAssumption, CountInv, TypeOK
<1>1. CASE Release(r) \/ Discard(r)
  <2>1. open' = open \/ open' = [open EXCEPT ![owner[r]] = FALSE]
    BY <1>1 DEF Release, Discard
  <2>2. CASE Lease!Return(r)
    BY <1>0, <2>1, <2>2 DEF Lease!Return
  <2>3. CASE Lease!Forfeit(r)
    BY <1>0, <2>1, <2>3 DEF Lease!Forfeit
  <2> QED
    BY <1>1, <2>2, <2>3 DEF Release, Discard
<1>2. CASE \E w \in Worker : TryTakes(r, w) \/ AcquireTakes(r, w)
  BY <1>0, <1>2 DEF TryTakes, AcquireTakes, Lease!Take
<1>3. CASE UNCHANGED <<leaseVars, open>>
  BY <1>3
<1> QED
  BY <1>1, <1>2, <1>3 DEF HandlerStep, Arrive, BodyRefused, BodyRead, TryMisses,
     EnterQueue, QueueFull, AcquireEnds, LeaveQueue, Send, Receive, SendEnds

LEMMA WorkerOneHand ==
  ASSUME CountInv, OneHand, NEW w \in Worker, WorkerStep(w)
  PROVE  OneHand'
<1>0. /\ owner \in [Requests -> Worker \cup {NoWorker}] /\ NoWorker \notin Worker
      /\ offered \subseteq Worker /\ open \in [Worker -> BOOLEAN]
  BY DispatcherAssumption DEF DispatcherAssumption, CountInv, TypeOK
<1> QED
  BY <1>0 DEF OneHand, WorkerStep, PoolIssues, PoolWithdraws, WorkerGoes,
     WorkerAnswers, WorkerBabbles, ConnCloses, Lease!Issue, Lease!Withdraw

\* What happens on the connections of workers nobody was lent does not matter.
LEMMA HandlerQuiet ==
  ASSUME WireInv, NEW r \in Requests, Arrive(r) \/ HandlerStep(r)
  PROVE  QuietWire'
<1> USE DEF WireInv
<1>0. /\ owner \in [Requests -> Worker \cup {NoWorker}] /\ NoWorker \notin Worker
      /\ offered \subseteq Worker /\ open \in [Worker -> BOOLEAN]
      /\ asked \in [Worker -> Seq(Nat)] /\ replied \in [Worker -> Seq(Nat \cup {Garbage})]
      /\ at \in [Requests -> At] /\ id \in [Requests -> Nat]
  BY DispatcherAssumption DEF DispatcherAssumption, CountInv, TypeOK
<1>1. /\ at[r] \in Holding => owner[r] \in Worker
      /\ \A q \in Requests : owner[q] # NoWorker => at[q] \in Holding \cup {"leave"}
  BY <1>0 DEF CountInv, NoWorkerKept
<1>2. \A q \in Requests : q # r /\ owner[q] # NoWorker => owner[q] # owner[r]
  BY DEF OneHand
<1> USE DEF QuietWire, ClosedQuiet, OfferedQuiet, HeldQuiet, AskedQuiet,
         Silent, Goes, Ends, Holding
<1>3. CASE Release(r)
  <2>1. /\ at' = [at EXCEPT ![r] = "off"] /\ at[r] = "accepted"
        /\ id' = [id EXCEPT ![r] = NoId]
    BY <1>3 DEF Release
  <2>2. CASE Lease!Return(r) /\ UNCHANGED connVars
    BY <1>0, <1>1, <1>2, <2>1, <2>2 DEF Lease!Return
  <2>3. CASE Lease!Forfeit(r) /\ UNCHANGED connVars
    BY <1>0, <1>1, <1>2, <2>1, <2>3 DEF Lease!Forfeit
  <2>4. CASE Lease!Forfeit(r) /\ ConnCloses(owner[r])
    BY <1>0, <1>1, <1>2, <2>1, <2>4 DEF Lease!Forfeit, ConnCloses
  <2> QED
    BY <1>3, <2>2, <2>3, <2>4 DEF Release
<1>4. CASE Discard(r)
  <2>1. /\ at' = [at EXCEPT ![r] = "off"] /\ at[r] = "failed"
        /\ id' = [id EXCEPT ![r] = NoId]
    BY <1>4 DEF Discard
  <2>2. CASE Lease!Forfeit(r) /\ UNCHANGED connVars
    BY <1>0, <1>1, <1>2, <2>1, <2>2 DEF Lease!Forfeit
  <2>3. CASE Lease!Forfeit(r) /\ ConnCloses(owner[r])
    BY <1>0, <1>1, <1>2, <2>1, <2>3 DEF Lease!Forfeit, ConnCloses
  <2> QED
    BY <1>4, <2>2, <2>3 DEF Discard
<1>5. CASE \E w \in Worker : TryTakes(r, w) \/ AcquireTakes(r, w)
  <2>1. PICK w \in Worker : TryTakes(r, w) \/ AcquireTakes(r, w)
    BY <1>5
  <2>2. /\ w \in offered /\ offered' = offered \ {w}
        /\ owner' = [owner EXCEPT ![r] = w]
        /\ UNCHANGED <<id, open, asked, replied>>
        /\ at' = [at EXCEPT ![r] = "send"] \/ at' = [at EXCEPT ![r] = "leave"]
    BY <2>1 DEF TryTakes, AcquireTakes, Lease!Take
  <2>3. w \notin Sloppy => Silent(w)
    BY <2>2
  <2>4. owner'[r] = w /\ at'[r] # "await"
    BY <1>0, <2>2
  <2>5. \A q \in Requests : q # r => owner'[q] = owner[q] /\ at'[q] = at[q]
    BY <1>0, <2>2
  <2>6. ASSUME NEW q \in Requests PROVE HeldQuiet(q)' /\ AskedQuiet(q)'
    <3>1. CASE q = r
      BY <2>2, <2>3, <2>4, <3>1
    <3>2. CASE q # r
      <4>1. owner'[q] = owner[q] /\ at'[q] = at[q] /\ HeldQuiet(q) /\ AskedQuiet(q)
        BY <2>5, <3>2
      <4> QED
        BY <2>2, <4>1
    <3> QED
      BY <3>1, <3>2
  <2>7. ASSUME NEW v \in Worker PROVE ClosedQuiet(v)' /\ OfferedQuiet(v)'
    BY <2>2
  <2> HIDE DEF ClosedQuiet, OfferedQuiet, HeldQuiet, AskedQuiet
  <2> QED
    BY <2>6, <2>7
<1>6. CASE Send(r)
  <2>1. UNCHANGED <<leaseVars, open, replied>> /\ at[r] = "send"
    BY <1>6 DEF Send
  <2>2. owner[r] \in Worker /\ (owner[r] \notin Sloppy => Silent(owner[r]))
    BY <1>0, <1>1, <2>1
  <2>3. \A q \in Requests : q # r => at'[q] = at[q] /\ id'[q] = id[q]
    BY <1>0, <1>6 DEF Send
  <2>4. CASE at'[r] = "await"
    <3>1. open[owner[r]] /\ asked' = [asked EXCEPT ![owner[r]] = Append(@, reqSeq')]
          /\ id'[r] = reqSeq'
      BY <1>0, <1>6, <2>4 DEF Send
    <3>2. owner[r] \notin Sloppy => asked'[owner[r]] = <<id'[r]>> /\ replied'[owner[r]] = <<>>
      BY <1>0, <2>1, <2>2, <3>1
    <3>3. \A v \in Worker : v # owner[r] => asked'[v] = asked[v] /\ replied'[v] = replied[v]
      BY <1>0, <2>1, <3>1
    <3>4. owner[r] \notin offered /\ \A q \in Requests : q # r => owner[q] # owner[r]
      BY <1>0, <1>2, <2>2 DEF OneHand
    <3>5. ASSUME NEW v \in Worker PROVE ClosedQuiet(v)' /\ OfferedQuiet(v)'
      BY <2>1, <3>1, <3>3, <3>4
    <3>6. ASSUME NEW q \in Requests PROVE HeldQuiet(q)' /\ AskedQuiet(q)'
      <4>1. CASE q = r
        BY <2>1, <2>4, <3>2, <4>1
      <4>2. CASE q # r
        <5>1. /\ at'[q] = at[q] /\ id'[q] = id[q] /\ owner'[q] = owner[q]
              /\ HeldQuiet(q) /\ AskedQuiet(q)
          BY <2>1, <2>3, <4>2
        <5>2. owner[q] = NoWorker \/ (owner[q] \in Worker /\ owner[q] # owner[r])
          BY <1>0, <3>4, <4>2
        <5>3. at[q] = "await" => owner[q] # NoWorker
          BY DEF CountInv, NoWorkerKept
        <5>4. owner[q] # NoWorker => asked'[owner[q]] = asked[owner[q]]
                                     /\ replied'[owner[q]] = replied[owner[q]]
          BY <3>3, <5>2
        <5> QED
          BY <5>1, <5>3, <5>4
      <4> QED
        BY <4>1, <4>2
    <3> HIDE DEF ClosedQuiet, OfferedQuiet, HeldQuiet, AskedQuiet
    <3> QED
      BY <3>5, <3>6
  <2>5. CASE at'[r] # "await"
    <3>1. asked' = asked /\ at'[r] = "failed"
      BY <1>0, <1>6, <2>5 DEF Send
    <3> QED
      BY <1>0, <2>1, <2>3, <3>1
  <2> QED
    BY <2>4, <2>5
<1>7. CASE Receive(r)
  <2>1. /\ at[r] = "await" /\ at'[r] \in {"accepted", "failed"} /\ open[owner[r]]
        /\ replied[owner[r]] # <<>> /\ owner[r] \in Worker
        /\ replied' = [replied EXCEPT ![owner[r]] = Tail(replied[owner[r]])]
        /\ UNCHANGED <<leaseVars, id, open, asked>>
    BY <1>0, <1>1, <1>7 DEF Receive
  <2>2. \A q \in Requests : q # r => at'[q] = at[q]
    BY <1>0, <1>7 DEF Receive
  <2>3. \A v \in Worker : v # owner[r] => asked'[v] = asked[v] /\ replied'[v] = replied[v]
    BY <1>0, <2>1
  <2>4. \A q \in Requests : q # r /\ owner[q] # NoWorker =>
           owner[q] \in Worker /\ owner[q] # owner[r]
    BY <1>0, <1>2
  <2>5. ASSUME owner[r] \notin Sloppy PROVE Silent(owner[r])'
    <3>1. asked[owner[r]] = <<>> /\ replied[owner[r]] = <<id[r]>>
      BY <2>1, <2>5
    <3>2. Tail(<<id[r]>>) = <<>>
      BY <1>0
    <3> QED
      BY <1>0, <2>1, <3>1, <3>2
  <2>6. ASSUME NEW v \in Worker PROVE ClosedQuiet(v)' /\ OfferedQuiet(v)'
    <3>1. owner[r] \notin offered
      BY <1>0, <2>1 DEF OneHand
    <3>2. CASE v = owner[r]
      BY <2>1, <3>1, <3>2
    <3>3. CASE v # owner[r]
      BY <2>1, <2>3, <3>3
    <3> QED
      BY <3>2, <3>3
  <2>7. ASSUME NEW q \in Requests PROVE HeldQuiet(q)' /\ AskedQuiet(q)'
    <3>1. CASE q = r
      BY <2>1, <2>5, <3>1
    <3>2. CASE q # r
      <4>1. /\ at'[q] = at[q] /\ id'[q] = id[q] /\ owner'[q] = owner[q]
            /\ HeldQuiet(q) /\ AskedQuiet(q)
        BY <2>1, <2>2, <3>2
      <4>2. at[q] = "await" => owner[q] # NoWorker
        BY DEF CountInv, NoWorkerKept
      <4>3. owner[q] # NoWorker => asked'[owner[q]] = asked[owner[q]]
                                   /\ replied'[owner[q]] = replied[owner[q]]
        BY <2>3, <2>4, <3>2
      <4> QED
        BY <4>1, <4>2, <4>3
    <3> QED
      BY <3>1, <3>2
  <2> HIDE DEF ClosedQuiet, OfferedQuiet, HeldQuiet, AskedQuiet
  <2> QED
    BY <2>6, <2>7
<1>8. CASE BodyRefused(r) \/ BodyRead(r) \/ TryMisses(r) \/ EnterQueue(r)
           \/ QueueFull(r) \/ AcquireEnds(r) \/ LeaveQueue(r) \/ SendEnds(r) \/ Arrive(r)
  <2>1. /\ UNCHANGED <<owner, offered, id, open, asked, replied>>
        /\ at'[r] # "await"
        /\ owner[r] # NoWorker /\ at'[r] \in {"leave", "send", "accepted"}
              => at[r] \in {"leave", "send", "accepted"}
    BY <1>0, <1>1, <1>8 DEF Arrive, BodyRefused, BodyRead, TryMisses, EnterQueue,
       QueueFull, AcquireEnds, LeaveQueue, SendEnds, leaseVars, connVars
  <2>2. \A q \in Requests : q # r => at'[q] = at[q]
    BY <1>0, <1>8 DEF Arrive, BodyRefused, BodyRead, TryMisses, EnterQueue,
       QueueFull, AcquireEnds, LeaveQueue, SendEnds
  <2>3. ASSUME NEW q \in Requests PROVE HeldQuiet(q)' /\ AskedQuiet(q)'
    <3>1. CASE q = r
      BY <2>1, <3>1
    <3>2. CASE q # r
      BY <2>1, <2>2, <3>2
    <3> QED
      BY <3>1, <3>2
  <2>4. ASSUME NEW v \in Worker PROVE ClosedQuiet(v)' /\ OfferedQuiet(v)'
    BY <2>1
  <2> HIDE DEF ClosedQuiet, OfferedQuiet, HeldQuiet, AskedQuiet
  <2> QED
    BY <2>3, <2>4
<1> QED
  BY <1>3, <1>4, <1>5, <1>6, <1>7, <1>8 DEF HandlerStep

LEMMA WorkerQuiet ==
  ASSUME WireInv, NEW w \in Worker, WorkerStep(w)
  PROVE  QuietWire'
<1> USE DEF WireInv, QuietWire, ClosedQuiet, OfferedQuiet, HeldQuiet, AskedQuiet, Silent
<1>0. /\ owner \in [Requests -> Worker \cup {NoWorker}] /\ NoWorker \notin Worker
      /\ offered \subseteq Worker /\ open \in [Worker -> BOOLEAN]
      /\ asked \in [Worker -> Seq(Nat)] /\ replied \in [Worker -> Seq(Nat \cup {Garbage})]
      /\ id \in [Requests -> Nat]
  BY DispatcherAssumption DEF DispatcherAssumption, CountInv, TypeOK
<1>1. CASE PoolIssues(w)
  BY <1>0, <1>1 DEF PoolIssues, Lease!Issue, OneHand
<1>2. CASE PoolWithdraws(w)
  BY <1>0, <1>2 DEF PoolWithdraws, Lease!Withdraw
<1>3. CASE WorkerGoes(w)
  BY <1>0, <1>3 DEF WorkerGoes, ConnCloses
<1>4. CASE WorkerAnswers(w)
  <2>1. /\ open[w] /\ asked[w] # <<>>
        /\ replied' = [replied EXCEPT ![w] = Append(replied[w], Head(asked[w]))]
        /\ asked' = [asked EXCEPT ![w] = Tail(asked[w])]
        /\ UNCHANGED <<leaseVars, at, id, open>>
    BY <1>4 DEF WorkerAnswers
  <2>2. \A v \in Worker : v # w => asked'[v] = asked[v] /\ replied'[v] = replied[v]
    BY <1>0, <2>1
  <2>3. ASSUME NEW v \in Worker PROVE ClosedQuiet(v)' /\ OfferedQuiet(v)'
    BY <1>0, <2>1, <2>2
  <2>4. ASSUME NEW q \in Requests PROVE HeldQuiet(q)'
    <3>1. owner[q] \in Worker \/ owner[q] = NoWorker
      BY <1>0
    <3> QED
      BY <2>1, <2>2, <3>1
  <2>5. ASSUME NEW q \in Requests PROVE AskedQuiet(q)'
    <3>1. SUFFICES ASSUME at[q] = "await", owner[q] \notin Sloppy
                   PROVE  AskedQuiet(q)'
      BY <2>1
    <3>2. owner[q] \in Worker
      BY <1>0, <3>1 DEF CountInv, NoWorkerKept, Holding
    <3>3. CASE owner[q] = w
      <4>1. asked[w] = <<id[q]>> /\ replied[w] = <<>>
        BY <2>1, <3>1, <3>3
      <4>2. Head(<<id[q]>>) = id[q] /\ Tail(<<id[q]>>) = <<>>
        BY <1>0
      <4>3. Append(<<>>, id[q]) = <<id[q]>>
        BY <1>0
      <4> QED
        BY <1>0, <2>1, <3>3, <4>1, <4>2, <4>3
    <3>4. CASE owner[q] # w
      <4>1. AskedQuiet(q)
        OBVIOUS
      <4>2. asked'[owner[q]] = asked[owner[q]] /\ replied'[owner[q]] = replied[owner[q]]
        BY <2>2, <3>2, <3>4
      <4> QED
        BY <2>1, <4>1, <4>2
    <3> QED
      BY <3>3, <3>4
  <2> HIDE DEF ClosedQuiet, OfferedQuiet, HeldQuiet, AskedQuiet
  <2> QED
    BY <2>3, <2>4, <2>5
<1>5. CASE WorkerBabbles(w)
  <2>1. w \in Sloppy /\ open[w] /\ UNCHANGED <<leaseVars, at, id, open, asked>>
    BY <1>5 DEF WorkerBabbles
  <2>2. \A v : v # w => replied'[v] = replied[v]
    BY <1>0, <1>5 DEF WorkerBabbles
  <2> QED
    BY <1>0, <2>1, <2>2
<1> QED
  BY <1>1, <1>2, <1>3, <1>4, <1>5 DEF WorkerStep

LEMMA NextWire == WireInv /\ [Next]_vars => WireInv'
<1> SUFFICES ASSUME WireInv, [Next]_vars PROVE WireInv'
  OBVIOUS
<1>1. CountInv'
  BY NextCounts DEF WireInv
<1>2. CASE UNCHANGED vars
  BY <1>1, <1>2 DEF vars, WireInv, OneHand, QuietWire, Silent,
     ClosedQuiet, OfferedQuiet, HeldQuiet, AskedQuiet
<1> QED
  BY <1>1, <1>2, HandlerOneHand, WorkerOneHand, HandlerQuiet, WorkerQuiet
     DEF Next, Quiet, WireInv

\* A worker that answers each request once never makes a request fail for what
\* an earlier one left on its connection, however late it answers, and whatever
\* the other workers send.
THEOREM NothingInherited == Spec => []NoInheritedAnswer
<1>1. Init => WireInv
  BY InitWire
<1>2. WireInv => NoInheritedAnswer
  <2> SUFFICES ASSUME WireInv, NEW r \in Requests, at[r] = "await",
                      owner[r] \notin Sloppy, replied[owner[r]] # <<>>
               PROVE  Head(replied[owner[r]]) = id[r]
    BY DEF NoInheritedAnswer
  <2>1. replied[owner[r]] = <<id[r]>>
    BY DEF WireInv, QuietWire, AskedQuiet, Silent
  <2> QED
    BY <2>1
<1> QED
  BY <1>1, <1>2, NextWire, PTL DEF Spec

-----------------------------------------------------------------------------
(* What the end of a handler rests on                                      *)

\* The steps ServeHTTP still has at most: nothing in it is done twice.
StepsLeft(r) ==
    CASE at[r] = "body" -> 8 [] at[r] = "try" -> 7 [] at[r] = "enter" -> 6
      [] at[r] = "queued" -> 5 [] at[r] = "leave" -> 4 [] at[r] = "send" -> 3
      [] at[r] = "await" -> 2 [] at[r] \in {"accepted", "failed"} -> 1
      [] OTHER -> 0

Onward ==
    \A r \in Requests :
       /\ HandlerStep(r) => StepsLeft(r)' < StepsLeft(r)
       /\ StepsLeft(r)' > StepsLeft(r) => at[r] = "off"
       /\ at[r] \in {"accepted", "failed"} => owner[r] # NoWorker

LEMMA HandlerOnward ==
  ASSUME CountInv, NEW r \in Requests, HandlerStep(r)
  PROVE  /\ StepsLeft(r)' < StepsLeft(r)
         /\ \A q \in Requests : q # r => StepsLeft(q)' = StepsLeft(q)
<1>1. at \in [Requests -> At]
  BY DEF CountInv, TypeOK
<1>2. PICK p \in At : Goes(r, p)
  BY DEF HandlerStep, BodyRefused, BodyRead, TryTakes, TryMisses, EnterQueue, QueueFull,
         AcquireTakes, AcquireEnds, LeaveQueue, Send, Receive, SendEnds, Release, Discard,
         Ends, Goes, At
<1>3. at'[r] = p /\ \A q \in Requests : q # r => at'[q] = at[q]
  BY <1>1, <1>2 DEF Goes
<1>4. CASE BodyRefused(r) \/ BodyRead(r) \/ TryMisses(r) \/ EnterQueue(r) \/ QueueFull(r)
  <2>1. \/ at[r] = "body" /\ at'[r] \in {"off", "try"}
        \/ at[r] = "try" /\ at'[r] = "enter"
        \/ at[r] = "enter" /\ at'[r] \in {"queued", "off"}
    BY <1>1, <1>4 DEF BodyRefused, BodyRead, TryMisses, EnterQueue, QueueFull, Ends, Goes
  <2> QED
    BY <1>3, <2>1 DEF StepsLeft
<1>5. CASE \/ AcquireEnds(r) \/ LeaveQueue(r) \/ Send(r)
           \/ \E w \in Worker : TryTakes(r, w) \/ AcquireTakes(r, w)
  <2>1. \/ at[r] = "try" /\ at'[r] = "send"
        \/ at[r] = "queued" /\ at'[r] = "leave"
        \/ at[r] = "leave" /\ at'[r] \in {"send", "off"}
        \/ at[r] = "send" /\ at'[r] \in {"await", "failed"}
    BY <1>1, <1>5 DEF AcquireEnds, LeaveQueue, Send, TryTakes, AcquireTakes, Ends, Goes
  <2> QED
    BY <1>3, <2>1 DEF StepsLeft
<1>6. CASE Receive(r) \/ SendEnds(r) \/ Release(r) \/ Discard(r)
  <2>1. \/ at[r] = "await" /\ at'[r] \in {"accepted", "failed"}
        \/ at[r] \in {"accepted", "failed"} /\ at'[r] = "off"
    BY <1>1, <1>6 DEF Receive, SendEnds, Release, Discard, Ends, Goes
  <2> QED
    BY <1>3, <2>1 DEF StepsLeft
<1> QED
  BY <1>4, <1>5, <1>6 DEF HandlerStep

LEMMA StepOnward == ASSUME CountInv, [Next]_vars PROVE Onward
<1>1. /\ at \in [Requests -> At]
      /\ \A r \in Requests : at[r] \in {"accepted", "failed"} => owner[r] # NoWorker
  BY DEF CountInv, TypeOK, NoWorkerKept, Holding
<1>2. \A r \in Requests : StepsLeft(r) \in Nat
  BY DEF StepsLeft
<1>3. ASSUME NEW r \in Requests, HandlerStep(r) PROVE Onward
  <2>1. \A q \in Requests : StepsLeft(q)' > StepsLeft(q) => at[q] = "off"
    BY <1>2, <1>3, HandlerOnward DEF StepsLeft
  <2> QED
    BY <1>1, <2>1, HandlerOnward DEF Onward
<1>4. ASSUME NEW r \in Requests, Arrive(r) PROVE Onward
  <2>1. at[r] = "off" /\ \A q \in Requests : q # r => at'[q] = at[q]
    BY <1>1, <1>4 DEF Arrive, Goes
  <2>2. \A q \in Requests : StepsLeft(q)' > StepsLeft(q) => at[q] = "off"
    BY <1>2, <2>1 DEF StepsLeft
  <2> QED
    BY <1>1, <2>2, HandlerOnward DEF Onward
<1>5. ASSUME UNCHANGED at PROVE Onward
  <2>1. \A q \in Requests : StepsLeft(q)' = StepsLeft(q)
    BY <1>5 DEF StepsLeft
  <2> QED
    BY <1>1, <1>2, <2>1, HandlerOnward DEF Onward
<1> QED
  BY <1>3, <1>4, <1>5 DEF Next, Quiet, vars, WorkerStep, PoolIssues, PoolWithdraws,
     WorkerGoes, WorkerAnswers, WorkerBabbles

\* A request is answered within eight steps of its handler (ServeHTTP, Acquire,
\* Send): no path of it goes back, not from the queue to the try and not from a
\* failed Send to another worker, nobody else moves it, and where it must give a
\* worker up it has one.
THEOREM HandlersGoOn == Spec => [][Onward]_vars
<1>1. CountInv /\ [Next]_vars => [Onward]_vars
  BY StepOnward
<1>2. Init => CountInv
  BY InitCounts
<1> QED
  BY <1>1, <1>2, NextCounts, PTL DEF Spec

=============================================================================
