-------------------------- MODULE WorkerPool_proofs --------------------------
(***************************************************************************)
(* Theorems about WorkerPool for every number of slots, requests,          *)
(* generations and reconciliations.                                        *)
(***************************************************************************)
EXTENDS WorkerPool, TLAPS

USE DEF poolVars, slotVars, workVars, chanVars, reqVars, scaleVars,
        unchangedByRequest

-----------------------------------------------------------------------------
(* Typing                                                                  *)

LEMMA IdleCapNat == IdleCap \in Nat
  BY PoolAssumption DEF PoolAssumption, IdleCap

LEMMA WorkerParts == \A w \in Worker : w[1] \in Slot /\ w[2] \in 0..MaxGen
  BY PoolAssumption DEF PoolAssumption, Worker, Gen, Slot

LEMMA EmptySlotTyped ==
  ASSUME TypeOK, NEW s, slotWorker' = [slotWorker EXCEPT ![s] = 0]
  PROVE  slotWorker' \in [Slot -> 0..MaxGen]
<1>1. 0 \in 0..MaxGen
  BY PoolAssumption DEF PoolAssumption
<1> QED
  BY <1>1 DEF TypeOK

LEMMA SlotWorkerTyped ==
  ASSUME TypeOK, NEW s \in Slot, slotWorker[s] # 0
  PROVE  <<s, slotWorker[s]>> \in Worker
  BY PoolAssumption DEF PoolAssumption, TypeOK, Worker, Gen, Slot

LEMMA InitTyped == ASSUME Init PROVE TypeOK
<1> USE DEF Init
<1>1. phase \in {"starting", "running", "failed"} /\ ctxDone \in BOOLEAN /\ stopping \in BOOLEAN
  OBVIOUS
<1>2. desired \in 0..Max /\ scales \in 0..MaxScale
  BY PoolAssumption DEF PoolAssumption
<1>3. /\ generation \in [Slot -> 0..MaxGen] /\ slotWorker \in [Slot -> 0..MaxGen]
      /\ crashes \in [Slot -> Nat] /\ pending \in [Slot -> [Kind -> Nat]]
  BY PoolAssumption DEF PoolAssumption
<1>4. plannedExit \in [Slot -> BOOLEAN]
  OBVIOUS
<1>5. /\ wstate \in [Worker -> WState] /\ proc \in [Worker -> Proc]
      /\ boot \in [Worker -> Boot] /\ mon \in [Worker -> Monitor]
  BY DEF WState, Proc, Boot, NoBoot, Kind, Monitor
<1>6. idle \in Seq(Worker) /\ Len(idle) <= IdleCap /\ purge \in Purge
  BY IdleCapNat DEF Purge
<1>7. /\ at \in [Requests -> ReqAt] /\ held \in [Requests -> Worker \cup {NoWorker}]
      /\ \A r \in Requests : (held[r] = NoWorker) <=> (at[r] \in {"off", "try", "queued"})
  BY DEF ReqAt
<1>8. /\ drains \in SUBSET Worker /\ boots \in SUBSET Slot /\ terms \in SUBSET Term
      /\ sd \in {"no", "drain", "wait", "killed", "done"}
  OBVIOUS
<1> QED
  BY <1>1, <1>2, <1>3, <1>4, <1>5, <1>6, <1>7, <1>8 DEF TypeOK

\* What is offered to the channel keeps it a sequence within its capacity.
LEMMA OfferTyped ==
  ASSUME TypeOK, NEW w \in Worker, Offer(w)
  PROVE  idle' \in Seq(Worker) /\ Len(idle') <= IdleCap
<1>1. idle \in Seq(Worker) /\ Len(idle) <= IdleCap
  BY DEF TypeOK
<1>2. Len(Append(idle, w)) = Len(idle) + 1 /\ Len(idle) \in Nat
  BY <1>1
<1> QED
  BY <1>1, <1>2, IdleCapNat DEF Offer

LEMMA PopTyped ==
  ASSUME TypeOK, idle # <<>>
  PROVE  /\ Head(idle) \in Worker
         /\ Tail(idle) \in Seq(Worker) /\ Len(Tail(idle)) <= IdleCap
<1>1. idle \in Seq(Worker) /\ Len(idle) <= IdleCap
  BY DEF TypeOK
<1>2. Len(Tail(idle)) = Len(idle) - 1 /\ Len(idle) \in Nat
  BY <1>1
<1> QED
  BY <1>1, <1>2, IdleCapNat

LEMMA PendingTyped ==
  ASSUME TypeOK, NEW s \in Slot, NEW k \in Kind
  PROVE  /\ [pending EXCEPT ![s][k] = @ + 1] \in [Slot -> [Kind -> Nat]]
         /\ pending[s][k] > 0 =>
              [pending EXCEPT ![s][k] = @ - 1] \in [Slot -> [Kind -> Nat]]
  BY DEF TypeOK

LEMMA CrashTyped ==
  ASSUME TypeOK, NEW s \in Slot, CrashRecorded(s)
  PROVE  crashes' \in [Slot -> Nat] /\ pending' \in [Slot -> [Kind -> Nat]]
<1>1. crashes \in [Slot -> Nat] /\ pending \in [Slot -> [Kind -> Nat]] /\ "crash" \in Kind
  BY DEF TypeOK, Kind
<1>2. PICK n \in 1..(crashes[s] + 1) :
         /\ crashes' = [crashes EXCEPT ![s] = n]
         /\ pending' = IF Exceeds(n) THEN pending
                       ELSE [pending EXCEPT ![s]["crash"] = @ + 1]
  BY DEF CrashRecorded
<1>3. crashes' \in [Slot -> Nat]
  BY <1>1, <1>2
<1>4. pending' \in [Slot -> [Kind -> Nat]]
  BY <1>1, <1>2, PendingTyped
<1> QED
  BY <1>3, <1>4

LEMMA KilledTyped ==
  ASSUME TypeOK, NEW w \in Worker
  PROVE  Killed(w) \in Proc /\ Signalled(w) \in Proc
  BY DEF TypeOK, Killed, Signalled, Proc

LEMMA BootPlace ==
  ASSUME NEW s \in Slot, NEW k \in Kind, BootBegin(s, k)
  PROVE  \E place \in {"starting", "doomed"} :
            boot' = [boot EXCEPT ![<<s, generation[s] + 1>>] = [at |-> place, kind |-> k]]
<1> DEFINE w == <<s, generation[s] + 1>>
<1>1. PICK p \in {"none", "up"} :
         boot' = [boot EXCEPT ![w] =
            [at |-> IF p = "none" \/ (HTTP /\ ctxDone) THEN "doomed" ELSE "starting",
             kind |-> k]]
  BY DEF BootBegin
<1>2. CASE p = "none" \/ (HTTP /\ ctxDone)
  <2>1. boot' = [boot EXCEPT ![w] = [at |-> "doomed", kind |-> k]]
    BY <1>1, <1>2
  <2> QED
    BY <2>1
<1>3. CASE ~(p = "none" \/ (HTTP /\ ctxDone))
  <2>1. boot' = [boot EXCEPT ![w] = [at |-> "starting", kind |-> k]]
    BY <1>1, <1>3
  <2> QED
    BY <2>1
<1> QED
  BY <1>2, <1>3

LEMMA BootTyped ==
  ASSUME TypeOK,
         \/ \E s \in Slot, k \in Kind : BootBegin(s, k) \/ BootRefused(s, k)
         \/ \E w \in Worker : BootSteps(w)
  PROVE  TypeOK'
<1>1. ASSUME NEW s \in Slot, NEW k \in Kind, BootBegin(s, k) PROVE TypeOK'
  <2>1. pending' \in [Slot -> [Kind -> Nat]]
    BY <1>1, PendingTyped DEF BootBegin
  <2>2. generation' \in [Slot -> 0..MaxGen]
    BY <1>1, PoolAssumption DEF BootBegin, TypeOK, PoolAssumption
  <2>3. boot' \in [Worker -> Boot]
    <3>1. PICK place \in {"starting", "doomed"} :
             boot' = [boot EXCEPT ![<<s, generation[s] + 1>>] = [at |-> place, kind |-> k]]
      BY <1>1, BootPlace
    <3>2. [at |-> place, kind |-> k] \in Boot
      BY DEF Boot
    <3> QED
      BY <3>1, <3>2 DEF TypeOK
  <2>4. proc' \in [Worker -> Proc]
    BY <1>1 DEF BootBegin, TypeOK, Proc
  <2> QED
    BY <1>1, <2>1, <2>2, <2>3, <2>4 DEF BootBegin, TypeOK
<1>2. ASSUME NEW s \in Slot, NEW k \in Kind, BootRefused(s, k) PROVE TypeOK'
  BY <1>2, PendingTyped DEF BootRefused, TypeOK
<1>3. ASSUME NEW w \in Worker, BootFails(w) PROVE TypeOK'
  <2>1. crashes' \in [Slot -> Nat] /\ pending' \in [Slot -> [Kind -> Nat]]
    <3>1. w[1] \in Slot /\ "crash" \in Kind
      BY WorkerParts DEF Kind
    <3>2. CASE CrashRecorded(w[1])
      BY <3>1, <3>2, CrashTyped
    <3>3. CASE pending' = [pending EXCEPT ![w[1]]["crash"] = @ + 1] /\ UNCHANGED crashes
      BY <3>1, <3>3, PendingTyped DEF TypeOK
    <3> QED
      BY <1>3, <3>2, <3>3 DEF BootFails, TypeOK
  <2>2. proc' \in [Worker -> Proc] /\ boot' \in [Worker -> Boot]
    BY <1>3, KilledTyped DEF BootFails, TypeOK, Boot, NoBoot, Kind
  <2>3. slotWorker' \in [Slot -> 0..MaxGen]
    BY <1>3, EmptySlotTyped DEF BootFails
  <2> QED
    BY <1>3, <2>1, <2>2, <2>3 DEF BootFails, TypeOK
<1>4. ASSUME NEW w \in Worker, BootInstalls(w) PROVE TypeOK'
  <2>1. boot' \in [Worker -> Boot]
    BY <1>4 DEF BootInstalls, BootAt, TypeOK, Boot, NoBoot, Kind
  <2>2. /\ wstate' \in [Worker -> WState] /\ mon' \in [Worker -> Monitor]
        /\ slotWorker' \in [Slot -> 0..MaxGen] /\ plannedExit' \in [Slot -> BOOLEAN]
    BY <1>4, WorkerParts DEF BootInstalls, TypeOK, WState, Monitor
  <2> QED
    BY <1>4, <2>1, <2>2 DEF BootInstalls, TypeOK
<1>5. ASSUME NEW w \in Worker, BootTooLate(w) PROVE TypeOK'
  BY <1>5 DEF BootTooLate, BootAt, TypeOK, Boot
<1>6. ASSUME NEW w \in Worker, BootReaps(w) PROVE TypeOK'
  BY <1>6, KilledTyped DEF BootReaps, TypeOK, Boot, NoBoot, Kind
<1>7. ASSUME NEW w \in Worker, BootPush(w) PROVE TypeOK'
  BY <1>7, OfferTyped DEF BootPush, TypeOK, Boot, NoBoot, Kind
<1> QED
  BY <1>1, <1>2, <1>3, <1>4, <1>5, <1>6, <1>7 DEF BootSteps

LEMMA MonitorTyped ==
  ASSUME TypeOK,
         \/ \E w \in Worker : ProcExit(w) \/ MonitorSteps(w)
         \/ PurgePop \/ PurgePush
  PROVE  TypeOK'
<1>1. ASSUME NEW w \in Worker, ProcExit(w) PROVE TypeOK'
  BY <1>1 DEF ProcExit, TypeOK, Proc
<1>2. ASSUME NEW w \in Worker, MonitorStale(w) PROVE TypeOK'
  BY <1>2 DEF MonitorStale, TypeOK, Proc, Monitor
<1>3. ASSUME NEW w \in Worker, MonitorExit(w) PROVE TypeOK'
  <2>1. slotWorker' \in [Slot -> 0..MaxGen]
    BY <1>3, EmptySlotTyped DEF MonitorExit
  <2> QED
    BY <1>3, <2>1 DEF MonitorExit, TypeOK, Proc, Monitor, WState
<1>4. ASSUME NEW w \in Worker, PurgeBegins(w) PROVE purge' \in Purge
  BY <1>4 DEF PurgeBegins, TypeOK, Purge
<1>5. ASSUME NEW w \in Worker, MonitorPurges(w) PROVE TypeOK'
  <2>1. pending' \in [Slot -> [Kind -> Nat]]
    BY <1>5, WorkerParts, PendingTyped DEF MonitorPurges, TypeOK, Kind
  <2>2. purge' \in Purge
    BY <1>5, <1>4 DEF MonitorPurges
  <2> QED
    BY <1>5, <2>1, <2>2 DEF MonitorPurges, TypeOK, Monitor
<1>6. ASSUME NEW w \in Worker, MonitorRecords(w) PROVE TypeOK'
  BY <1>6, WorkerParts, CrashTyped DEF MonitorRecords, TypeOK, Monitor
<1>7. ASSUME purge # NoPurge, NEW h \in Worker \cup {NoWorker}, PurgeStepDone(h)
      PROVE  purge' \in Purge
  <2>1. purge \in [left : Nat \ {0}, w : Worker, hand : Worker \cup {NoWorker}]
    BY <1>7 DEF TypeOK, Purge
  <2>2. purge.left \in Nat \ {0} /\ purge.w \in Worker
    BY <2>1
  <2> QED
    BY <1>7, <2>2 DEF PurgeStepDone, Purge
<1>8. ASSUME PurgePop PROVE TypeOK'
  <2>1. purge' \in Purge
    BY <1>8, <1>7, PopTyped DEF PurgePop, LockFree, Purge
  <2>2. idle' \in Seq(Worker) /\ Len(idle') <= IdleCap
    BY <1>8, PopTyped DEF PurgePop, TypeOK
  <2> QED
    BY <1>8, <2>1, <2>2 DEF PurgePop, TypeOK
<1>9. ASSUME PurgePush PROVE TypeOK'
  <2>1. purge # NoPurge /\ purge.hand \in Worker
    BY <1>9 DEF PurgePush, TypeOK, Purge, NoPurge
  <2> QED
    BY <1>9, <1>7, <2>1, OfferTyped DEF PurgePush, TypeOK
<1> QED
  BY <1>1, <1>2, <1>3, <1>5, <1>6, <1>8, <1>9 DEF MonitorSteps

LEMMA NoWorkerIsNone == NoWorker \notin Worker
  BY PoolAssumption DEF PoolAssumption, NoWorker, Worker, Slot

\* Where a request may be after a step, and what it then holds.
RequestTypeOK ==
    /\ at \in [Requests -> ReqAt]
    /\ held \in [Requests -> Worker \cup {NoWorker}]
    /\ \A r \in Requests : (held[r] = NoWorker) <=> (at[r] \in {"off", "try", "queued"})

LEMMA RequestTyped ==
  ASSUME TypeOK, NEW r \in Requests, RequestSteps(r)
  PROVE  TypeOK'
<1> DEFINE w == held[r]
<1>1. ASSUME NEW p \in {"off", "try", "queued"}, Goes(r, p),
             held' = [held EXCEPT ![r] = NoWorker] \/ (UNCHANGED held /\ held[r] = NoWorker)
      PROVE  RequestTypeOK'
  BY <1>1 DEF Goes, TypeOK, RequestTypeOK, ReqAt
<1>2. ASSUME NEW p \in ReqAt \ {"off", "try", "queued"}, Goes(r, p),
             UNCHANGED held, held[r] # NoWorker
      PROVE  RequestTypeOK'
  BY <1>2 DEF Goes, TypeOK, RequestTypeOK
<1>3. ASSUME Leaves(r) PROVE RequestTypeOK'
  BY <1>1, <1>3 DEF Leaves
<1>4. at[r] \notin {"off", "try", "queued"} => w \in Worker
  BY NoWorkerIsNone DEF TypeOK
<1>5. ASSUME NEW b \in BOOLEAN, NEW x \in WState, w \in Worker,
              plannedExit' = [plannedExit EXCEPT ![w[1]] = b],
              wstate' = [wstate EXCEPT ![w] = x],
              proc' = [proc EXCEPT ![w] = Signalled(w)]
       PROVE  /\ plannedExit' \in [Slot -> BOOLEAN]
              /\ wstate' \in [Worker -> WState] /\ proc' \in [Worker -> Proc]
  <2>1. plannedExit' \in [Slot -> BOOLEAN]
    BY <1>5 DEF TypeOK
  <2>2. wstate' \in [Worker -> WState]
    BY <1>5 DEF TypeOK
  <2>3. proc' \in [Worker -> Proc]
    BY <1>5, KilledTyped DEF TypeOK
  <2> QED
    BY <2>1, <2>2, <2>3
<1>6. CASE Arrive(r)
  <2>1. RequestTypeOK'
    BY <1>6, <1>1 DEF Arrive, TypeOK
  <2> QED
    BY <1>6, <2>1 DEF Arrive, TypeOK, RequestTypeOK
<1>7. CASE TryMisses(r)
  <2>1. RequestTypeOK'
    BY <1>7, <1>1 DEF TryMisses, TypeOK
  <2> QED
    BY <1>7, <2>1 DEF TryMisses, TypeOK, RequestTypeOK
<1>8. CASE AcquireEnds(r)
  <2>1. RequestTypeOK'
    BY <1>8, <1>1 DEF AcquireEnds, TypeOK
  <2> QED
    BY <1>8, <2>1 DEF AcquireEnds, TypeOK, RequestTypeOK
<1>9. CASE Pop(r)
  <2>1. RequestTypeOK'
    BY <1>9, PopTyped, NoWorkerIsNone DEF Pop, Goes, TypeOK, RequestTypeOK, ReqAt
  <2>2. idle' \in Seq(Worker) /\ Len(idle') <= IdleCap
    BY <1>9, PopTyped DEF Pop
  <2> QED
    BY <1>9, <2>1, <2>2 DEF Pop, TypeOK, RequestTypeOK
<1>10. CASE Check(r)
  <2>1. "claimed" \in ReqAt \ {"off", "try", "queued"}
    BY DEF ReqAt
  <2>2. held[r] # NoWorker
    BY <1>10 DEF Check, TypeOK
  <2>3. RequestTypeOK'
    BY <1>10, <2>1, <2>2, <1>1, <1>2 DEF Check
  <2> QED
    BY <1>10, <2>3 DEF Check, TypeOK, RequestTypeOK
<1>11. CASE MarkBusy(r)
  <2>1. "busy" \in ReqAt \ {"off", "try", "queued"} /\ "busy" \in WState
    BY DEF ReqAt, WState
  <2>2. RequestTypeOK'
    BY <1>11, <2>1, <1>2 DEF MarkBusy, TypeOK
  <2>3. wstate' \in [Worker -> WState]
    BY <1>11, <2>1 DEF MarkBusy, TypeOK
  <2> QED
    BY <1>11, <2>2, <2>3 DEF MarkBusy, TypeOK, RequestTypeOK
<1>12. CASE Responds(r)
  <2>1. {"answered", "recycle"} \subseteq ReqAt \ {"off", "try", "queued"}
    BY DEF ReqAt
  <2>2. RequestTypeOK'
    BY <1>12, <2>1, <1>2 DEF Responds, TypeOK
  <2> QED
    BY <1>12, <2>2 DEF Responds, TypeOK, RequestTypeOK
<1>13. CASE Discard(r)
  <2>1. "discard" \in ReqAt \ {"off", "try", "queued"} /\ "draining" \in WState
    BY DEF ReqAt, WState
  <2>2. RequestTypeOK'
    BY <1>13, <2>1, <1>2, <1>3 DEF Discard, TypeOK
  <2>3. w \in Worker
    BY <1>13, <1>4 DEF Discard
  <2>4. /\ plannedExit' \in [Slot -> BOOLEAN]
        /\ wstate' \in [Worker -> WState] /\ proc' \in [Worker -> Proc]
    BY <1>13, <2>1, <2>3, <1>5 DEF Discard, TypeOK
  <2> QED
    BY <1>13, <2>2, <2>4 DEF Discard, TypeOK, RequestTypeOK
<1>14. CASE DiscardEnds(r)
  <2>1. proc' \in [Worker -> Proc]
    BY <1>14, <1>4, KilledTyped DEF DiscardEnds, TypeOK
  <2> QED
    BY <1>14, <2>1, <1>3 DEF DiscardEnds, TypeOK, RequestTypeOK
<1>15. CASE Release(r)
  <2>1. "putBack" \in ReqAt \ {"off", "try", "queued"} /\ {"draining", "idle"} \subseteq WState
    BY DEF ReqAt, WState
  <2>2. RequestTypeOK'
    BY <1>15, <2>1, <1>2, <1>3 DEF Release, TypeOK
  <2>3. w \in Worker
    BY <1>15, <1>4 DEF Release
  <2>4. /\ plannedExit' \in [Slot -> BOOLEAN]
        /\ wstate' \in [Worker -> WState] /\ proc' \in [Worker -> Proc]
    BY <1>15, <2>1, <2>3, <1>5 DEF Release, TypeOK
  <2> QED
    BY <1>15, <2>2, <2>4 DEF Release, TypeOK, RequestTypeOK
<1>16. CASE PutBack(r)
  <2>1. idle' \in Seq(Worker) /\ Len(idle') <= IdleCap
    BY <1>16, <1>4, OfferTyped DEF PutBack
  <2> QED
    BY <1>16, <2>1, <1>3 DEF PutBack, TypeOK, RequestTypeOK
<1> QED
  BY <1>6, <1>7, <1>8, <1>9, <1>10, <1>11, <1>12, <1>13, <1>14, <1>15, <1>16 DEF RequestSteps

LEMMA ScaleTyped == ASSUME TypeOK, ScaleSteps PROVE TypeOK'
<1>1. ASSUME NEW n \in Min..Max, SetDesired(n) PROVE TypeOK'
  <2>1. Clamped(n) \in 0..Max
    BY PoolAssumption DEF PoolAssumption, Clamped
  <2>2. desired' \in 0..Max /\ scales' \in 0..MaxScale
    BY <1>1, <2>1, PoolAssumption DEF SetDesired, TypeOK, PoolAssumption
  <2>3. boots' \in SUBSET Slot /\ drains' \in SUBSET Worker
    BY <1>1, <2>1, PoolAssumption DEF SetDesired, Slot, PoolAssumption
  <2>4. wstate' \in [Worker -> WState]
    BY <1>1 DEF SetDesired, TypeOK, WState
  <2>5. plannedExit' \in [Slot -> BOOLEAN]
    BY <1>1 DEF SetDesired
  <2> QED
    BY <1>1, <2>2, <2>3, <2>4, <2>5 DEF SetDesired, TypeOK
<1>2. ASSUME NEW w \in Worker, ScaleDrains(w) PROVE TypeOK'
  <2>1. terms' \in SUBSET Term
    BY <1>2 DEF ScaleDrains, TypeOK, Term
  <2>2. purge' \in Purge
    BY <1>2 DEF ScaleDrains, PurgeBegins, TypeOK, Purge
  <2> QED
    BY <1>2, <2>1, <2>2 DEF ScaleDrains, TypeOK
<1>3. CASE ScaleBoots
  <2>1. pending' \in [Slot -> [Kind -> Nat]]
    <3>1. pending \in [Slot -> [Kind -> Nat]] /\ "scale" \in Kind
      BY DEF TypeOK, Kind
    <3>2. \A s \in Slot : [pending[s] EXCEPT !["scale"] = @ + 1] \in [Kind -> Nat]
      BY <3>1
    <3> QED
      BY <1>3, <3>1, <3>2 DEF ScaleBoots
  <2> QED
    BY <1>3, <2>1 DEF ScaleBoots, TypeOK
<1> QED
  BY <1>1, <1>2, <1>3 DEF ScaleSteps

LEMMA TermTyped ==
  ASSUME TypeOK, NEW t \in terms, TermSignals(t) \/ TermEnds(t)
  PROVE  TypeOK'
<1>1. t \in Term /\ t.w \in Worker /\ t.by \in {"scale", "stop"}
  BY DEF TypeOK, Term
<1>2. proc' \in [Worker -> Proc]
  <2>1. proc' = [proc EXCEPT ![t.w] = Signalled(t.w)]
        \/ proc' = [proc EXCEPT ![t.w] = Killed(t.w)]
    BY DEF TermSignals, TermEnds
  <2>2. proc \in [Worker -> Proc]
    BY DEF TypeOK
  <2>3. Signalled(t.w) \in Proc /\ Killed(t.w) \in Proc
    BY <1>1, KilledTyped
  <2> QED
    BY <1>1, <2>1, <2>2, <2>3
<1>3. terms' \in SUBSET Term
  <2>1. terms \in SUBSET Term
    BY DEF TypeOK
  <2>2. [w |-> t.w, by |-> t.by, stage |-> "grace"] \in Term
    BY <1>1 DEF Term
  <2>3. terms' \subseteq terms \cup {[w |-> t.w, by |-> t.by, stage |-> "grace"]}
    BY DEF TermSignals, TermEnds
  <2> QED
    BY <2>1, <2>2, <2>3
<1> QED
  BY <1>2, <1>3 DEF TermSignals, TermEnds, TypeOK

LEMMA StopTyped == ASSUME TypeOK, StopSteps PROVE TypeOK'
<1>1. CASE Cancel
  BY <1>1 DEF Cancel, TypeOK
<1>2. CASE Stop
  BY <1>2 DEF Stop, TypeOK
<1>3. CASE StopIdle
  <2>1. terms' \in SUBSET Term
    BY <1>3, PopTyped DEF StopIdle, TypeOK, Term
  <2>2. wstate' \in [Worker -> WState]
    BY <1>3, PopTyped DEF StopIdle, TypeOK, WState
  <2> QED
    BY <1>3, <2>1, <2>2, PopTyped DEF StopIdle, TypeOK
<1>4. CASE StopRest
  <2>1. ASSUME NEW s \in Installed PROVE <<s, slotWorker[s]>> \in Worker
    BY SlotWorkerTyped DEF Installed
  <2>2. terms' \in SUBSET Term
    BY <1>4, <2>1 DEF StopRest, TypeOK, Term
  <2>3. wstate' \in [Worker -> WState]
    BY <1>4 DEF StopRest, TypeOK, WState
  <2>4. plannedExit' \in [Slot -> BOOLEAN]
    BY <1>4 DEF StopRest
  <2> QED
    BY <1>4, <2>2, <2>3, <2>4 DEF StopRest, TypeOK
<1>5. CASE StopKills
  BY <1>5, KilledTyped DEF StopKills, TypeOK
<1>6. CASE StopDone
  BY <1>6 DEF StopDone, TypeOK
<1> QED
  BY <1>1, <1>2, <1>3, <1>4, <1>5, <1>6 DEF StopSteps

LEMMA StepTyped == ASSUME TypeOK, [Next]_vars PROVE TypeOK'
<1>1. CASE StartReturns
  BY <1>1 DEF StartReturns, TypeOK
<1>2. CASE UNCHANGED vars
  BY <1>2 DEF vars, TypeOK
<1> QED
  BY <1>1, <1>2, BootTyped, MonitorTyped, RequestTyped, ScaleTyped, TermTyped, StopTyped
     DEF Next, ProgramStep, Ended

\* Every variable keeps its type, and a request holds a worker exactly while it
\* is past a pop and before the worker's return (pool.go, the whole of it).
THEOREM Typing == Spec => []TypeOK
  BY InitTyped, StepTyped, PTL DEF Spec

-----------------------------------------------------------------------------
(* Exclusive leases                                                        *)

LEMMA TailOnce ==
  ASSUME NEW q \in Seq(Worker), q # <<>>, Distinct(q)
  PROVE  /\ Distinct(Tail(q)) /\ Has(q, Head(q))
         /\ \A v : Has(Tail(q), v) <=> Has(q, v) /\ v # Head(q)
<1>1. Len(Tail(q)) = Len(q) - 1 /\ Len(q) \in Nat \ {0} /\ Head(q) = q[1]
  OBVIOUS
<1>2. \A i \in 1..(Len(q) - 1) : Tail(q)[i] = q[i + 1]
  OBVIOUS
<1>3. Distinct(Tail(q))
  BY <1>1, <1>2 DEF Distinct
<1>4. \A v : Has(Tail(q), v) => Has(q, v) /\ v # Head(q)
  BY <1>1, <1>2 DEF Distinct, Has
<1>5. ASSUME NEW v, Has(q, v), v # Head(q) PROVE Has(Tail(q), v)
  <2>1. PICK i \in 1..Len(q) : q[i] = v
    BY <1>5 DEF Has
  <2>2. i - 1 \in 1..Len(Tail(q)) /\ Tail(q)[i - 1] = v
    BY <1>1, <1>2, <1>5, <2>1
  <2> QED
    BY <2>2 DEF Has
<1> QED
  BY <1>1, <1>3, <1>4, <1>5 DEF Has

LEMMA AppendOnce ==
  ASSUME NEW q \in Seq(Worker), NEW w \in Worker, Distinct(q), ~Has(q, w)
  PROVE  /\ Distinct(Append(q, w))
         /\ \A v : Has(Append(q, w), v) <=> Has(q, v) \/ v = w
<1>1. Len(Append(q, w)) = Len(q) + 1 /\ Len(q) \in Nat
  OBVIOUS
<1>2. \A i \in 1..Len(q) : Append(q, w)[i] = q[i]
  OBVIOUS
<1>3. Append(q, w)[Len(q) + 1] = w
  OBVIOUS
<1>4. \A i \in 1..(Len(q) + 1) : i \in 1..Len(q) \/ i = Len(q) + 1
  BY <1>1
<1>5. Distinct(Append(q, w))
  BY <1>1, <1>2, <1>3, <1>4 DEF Distinct, Has
<1>6. ASSUME NEW v, Has(q, v) \/ v = w PROVE Has(Append(q, w), v)
  BY <1>1, <1>2, <1>3, <1>6 DEF Has
<1>7. ASSUME NEW v, Has(Append(q, w), v) PROVE Has(q, v) \/ v = w
  BY <1>1, <1>2, <1>3, <1>4, <1>7 DEF Has
<1> QED
  BY <1>5, <1>6, <1>7

\* A send on the channel of a worker that is in nobody else's hands.
LEMMA OfferOnce ==
  ASSUME TypeOK, NEW w \in Worker, Offer(w), Distinct(idle), ~Has(idle, w)
  PROVE  /\ Distinct(idle')
         /\ \A v : Has(idle', v) => Has(idle, v) \/ v = w
  BY AppendOnce DEF Offer, TypeOK

\* The strengthening: a worker is in circulation only after bootSlot installed
\* it, what was not installed is in nobody's hands, and whatever has a monitor or
\* is a slot's worker was installed.
Uninstalled(w) == generation[w[1]] < w[2] \/ boot[w].at \in {"starting", "doomed", "reap"}
NoneOut == \A w \in Worker :
              wstate[w] = "none" => ~Offered(w) /\ \A r \in Requests : held[r] # w
UninstalledNone == \A w \in Worker : Uninstalled(w) => wstate[w] = "none"
BootBegun == \A w \in Worker : boot[w].at # "no" => w[2] <= generation[w[1]]
MonitorOut == \A w \in Worker : mon[w] # "none" => wstate[w] # "none"
SlotOut == \A s \in Slot : slotWorker[s] # 0 => wstate[<<s, slotWorker[s]>>] # "none"

LeaseInv == TypeOK /\ LeaseExclusive /\ NoneOut /\ UninstalledNone /\ BootBegun
            /\ MonitorOut /\ SlotOut

LEMMA InitLease == ASSUME Init PROVE LeaseInv
<1>1. TypeOK
  BY InitTyped
<1>2. \A w \in Worker : ~Offered(w)
  BY DEF Init, Offered, Has, NoBoot, NoPurge, NoWorker, Worker, Slot
<1>3. LeaseExclusive
  BY <1>2 DEF Init, LeaseExclusive, OfferedOnce, HeldOnce, Distinct, Offered
<1> QED
  BY <1>1, <1>2, <1>3, NoWorkerIsNone
     DEF LeaseInv, Init, NoneOut, UninstalledNone, BootBegun, MonitorOut, SlotOut, NoBoot

\* A step that moves no worker between hands, begins and installs nothing, and
\* makes no worker "none" or out of "none" keeps the invariant.
LEMMA NobodyMoves ==
  ASSUME LeaseInv, TypeOK',
         UNCHANGED <<idle, generation>>,
         purge'.hand = purge.hand \/ purge'.hand = NoWorker,
         \A r \in Requests : held'[r] = held[r] \/ held'[r] = NoWorker,
         \A w \in Worker : /\ boot'[w].at = boot[w].at
                              \/ boot'[w].at = "no"
                              \/ (boot'[w].at = "reap" /\ boot[w].at = "starting")
                           /\ (wstate'[w] = "none") <=> (wstate[w] = "none")
                           /\ mon'[w] # "none" => mon[w] # "none",
         \A s \in Slot : slotWorker'[s] \in {slotWorker[s], 0}
  PROVE  LeaseInv'
<1>1. \A w \in Worker : Offered(w)' => Offered(w)
  BY NoWorkerIsNone DEF Offered, Has
<1>2. OfferedOnce'
  BY NoWorkerIsNone DEF LeaseInv, LeaseExclusive, OfferedOnce, Distinct, Has
<1>3. HeldOnce'
  BY <1>1, NoWorkerIsNone DEF LeaseInv, LeaseExclusive, HeldOnce, TypeOK
<1>4. NoneOut'
  BY <1>1, NoWorkerIsNone DEF LeaseInv, NoneOut
<1>5. UninstalledNone' /\ BootBegun'
  BY DEF LeaseInv, UninstalledNone, Uninstalled, BootBegun
<1>6. MonitorOut' 
  BY DEF LeaseInv, MonitorOut
<1>7. SlotOut'
  <2>1. \A s \in Slot : slotWorker[s] # 0 => <<s, slotWorker[s]>> \in Worker
    BY SlotWorkerTyped DEF LeaseInv
  <2> QED
    BY <2>1 DEF LeaseInv, SlotOut
<1> QED
  BY <1>2, <1>3, <1>4, <1>5, <1>6, <1>7 DEF LeaseInv, LeaseExclusive

LEMMA BootLease ==
  ASSUME LeaseInv, TypeOK',
         \/ \E s \in Slot, k \in Kind : BootBegin(s, k) \/ BootRefused(s, k)
         \/ \E w \in Worker : BootSteps(w)
  PROVE  LeaseInv'
<1> USE DEF LeaseInv
<1>1. ASSUME NEW s \in Slot, NEW k \in Kind, BootBegin(s, k) PROVE LeaseInv'
  <2> DEFINE w == <<s, generation[s] + 1>>
  <2>1. w[1] = s /\ w[2] = generation[s] + 1 /\ generation[s] \in Nat
        /\ generation' = [generation EXCEPT ![s] = @ + 1]
        /\ \E place \in {"starting", "doomed"} :
              boot' = [boot EXCEPT ![w] = [at |-> place, kind |-> k]]
        /\ UNCHANGED <<idle, purge, held, wstate, mon, slotWorker>>
    <3>1. /\ generation[s] \in Nat /\ generation' = [generation EXCEPT ![s] = @ + 1]
          /\ UNCHANGED <<idle, purge, held, wstate, mon, slotWorker>>
      BY <1>1, PoolAssumption DEF BootBegin, TypeOK, PoolAssumption
    <3> QED
      BY <1>1, <3>1, BootPlace
  <2>2. w \in Worker => wstate[w] = "none"
    BY <2>1 DEF UninstalledNone, Uninstalled, TypeOK
  <2>3. \A v \in Worker : Offered(v)' => Offered(v)
    BY <2>1 DEF Offered, TypeOK
  <2>4. OfferedOnce' /\ HeldOnce'
    BY <2>1, <2>3, NoWorkerIsNone DEF LeaseExclusive, OfferedOnce, HeldOnce, TypeOK
  <2>5. NoneOut' /\ MonitorOut' /\ SlotOut'
    BY <2>1, <2>3 DEF NoneOut, MonitorOut, SlotOut
  <2>6. \A v \in Worker : generation'[v[1]] \in Nat /\ generation[v[1]] \in Nat
                           /\ generation'[v[1]] >= generation[v[1]] /\ v[2] \in Nat
    <3>1. generation \in [Slot -> Nat]
      BY PoolAssumption DEF TypeOK, PoolAssumption
    <3>2. \A v \in Worker : v[1] \in Slot /\ v[2] \in Nat
      BY WorkerParts, PoolAssumption DEF PoolAssumption
    <3> QED
      BY <2>1, <3>1, <3>2
  <2>7. UninstalledNone'
    <3>1. ASSUME NEW v \in Worker, Uninstalled(v)' PROVE wstate'[v] = "none"
      <4>1. CASE v = w
        BY <2>1, <2>2, <4>1
      <4>2. CASE v # w
        <5>1. boot'[v] = boot[v]
          BY <2>1, <4>2 DEF TypeOK
        <5> QED
          BY <2>1, <2>6, <3>1, <5>1 DEF UninstalledNone, Uninstalled
      <4> QED
        BY <4>1, <4>2
    <3> QED
      BY <3>1 DEF UninstalledNone
  <2>8. BootBegun'
    <3>1. ASSUME NEW v \in Worker, boot'[v].at # "no" PROVE v[2] <= generation'[v[1]]
      <4>1. CASE v = w
        BY <2>1, <4>1 DEF TypeOK
      <4>2. CASE v # w
        <5>1. boot'[v] = boot[v]
          BY <2>1, <4>2 DEF TypeOK
        <5> QED
          BY <2>6, <3>1, <5>1 DEF BootBegun
      <4> QED
        BY <4>1, <4>2
    <3> QED
      BY <3>1 DEF BootBegun
  <2> QED
    BY <2>4, <2>5, <2>7, <2>8 DEF LeaseExclusive
<1>2. ASSUME NEW s \in Slot, NEW k \in Kind, BootRefused(s, k) PROVE LeaseInv'
  BY <1>2, NobodyMoves DEF BootRefused
<1>3. ASSUME NEW w \in Worker, BootFails(w) PROVE LeaseInv'
  BY <1>3, NobodyMoves DEF BootFails, NoBoot, TypeOK
<1>4. ASSUME NEW w \in Worker, BootInstalls(w) PROVE LeaseInv'
  <2>1. /\ wstate[w] = "none" /\ ~Offered(w) /\ \A r \in Requests : held[r] # w
        /\ w[2] <= generation[w[1]]
    BY <1>4 DEF BootInstalls, UninstalledNone, Uninstalled, NoneOut, BootBegun
  <2>2. /\ boot' = [boot EXCEPT ![w] = IF HTTP THEN BootAt(w, "push") ELSE NoBoot]
        /\ slotWorker' = [slotWorker EXCEPT ![w[1]] = w[2]]
        /\ wstate' = [wstate EXCEPT ![w] = "idle"]
        /\ mon' = [mon EXCEPT ![w] = "wait"]
        /\ UNCHANGED <<idle, purge, held, generation>>
    BY <1>4 DEF BootInstalls
  <2>3. \A v \in Worker : Offered(v)' => Offered(v) \/ v = w
    BY <2>2 DEF Offered, TypeOK
  <2>4. OfferedOnce'
    BY <2>1, <2>2 DEF LeaseExclusive, OfferedOnce, Offered, TypeOK, NoBoot
  <2>5. HeldOnce'
    BY <2>1, <2>2, <2>3 DEF LeaseExclusive, HeldOnce, TypeOK
  <2>6. NoneOut' /\ MonitorOut'
    <3>1. wstate'[w] = "idle"
      BY <2>2 DEF TypeOK
    <3>2. \A v \in Worker : v # w => wstate'[v] = wstate[v] /\ mon'[v] = mon[v]
      BY <2>2 DEF TypeOK
    <3>3. NoneOut'
      BY <2>2, <2>3, <3>1, <3>2 DEF NoneOut
    <3>4. MonitorOut'
      BY <3>1, <3>2 DEF MonitorOut
    <3> QED
      BY <3>3, <3>4
  <2>7. UninstalledNone' /\ BootBegun'
    <3>1. w[2] <= generation'[w[1]] /\ generation' = generation
          /\ boot'[w].at \in {"no", "push"}
      BY <2>1, <2>2 DEF TypeOK, BootAt, NoBoot
    <3>2. \A v \in Worker : v # w => wstate'[v] = wstate[v] /\ boot'[v] = boot[v]
      BY <2>2 DEF TypeOK
    <3>3. w[1] \in Slot /\ w[2] \in Nat /\ generation[w[1]] \in Nat
      BY WorkerParts DEF TypeOK
    <3>4. ~Uninstalled(w)'
      BY <3>1, <3>3 DEF Uninstalled
    <3>5. UninstalledNone'
      BY <3>1, <3>2, <3>4 DEF UninstalledNone, Uninstalled
    <3>6. BootBegun'
      BY <3>1, <3>2 DEF BootBegun
    <3> QED
      BY <3>5, <3>6
  <2>8. SlotOut'
    <3>1. w = <<w[1], w[2]>>
      BY DEF Worker
    <3>2. ASSUME NEW s \in Slot, slotWorker'[s] # 0 PROVE wstate'[<<s, slotWorker'[s]>>] # "none"
      <4>1. CASE s = w[1]
        <5>1. slotWorker'[s] = w[2]
          BY <2>2, <4>1 DEF TypeOK
        <5>2. <<s, slotWorker'[s]>> = w
          BY <3>1, <4>1, <5>1
        <5>3. wstate'[w] = "idle"
          BY <2>2 DEF TypeOK
        <5> QED
          BY <5>2, <5>3
      <4>2. CASE s # w[1]
        BY <2>2, <3>2, <4>2, SlotWorkerTyped DEF SlotOut, TypeOK
      <4> QED
        BY <4>1, <4>2
    <3> QED
      BY <3>2 DEF SlotOut
  <2> QED
    BY <2>4, <2>5, <2>6, <2>7, <2>8 DEF LeaseExclusive
<1>5. ASSUME NEW w \in Worker, BootTooLate(w) PROVE LeaseInv'
  BY <1>5, NobodyMoves DEF BootTooLate, BootAt, TypeOK
<1>6. ASSUME NEW w \in Worker, BootReaps(w) PROVE LeaseInv'
  BY <1>6, NobodyMoves DEF BootReaps, NoBoot, TypeOK
<1>7. ASSUME NEW w \in Worker, BootPush(w) PROVE LeaseInv'
  <2>1. boot[w].at = "push" /\ ~Has(idle, w) /\ purge.hand # w /\ Distinct(idle)
    BY <1>7 DEF BootPush, LeaseExclusive, OfferedOnce
  <2>2. Distinct(idle') /\ \A v : Has(idle', v) => Has(idle, v) \/ v = w
    BY <1>7, <2>1, OfferOnce DEF BootPush
  <2>3. /\ boot' = [boot EXCEPT ![w] = NoBoot]
        /\ UNCHANGED <<purge, held, generation, wstate, mon, slotWorker>>
    BY <1>7 DEF BootPush
  <2>4. \A v \in Worker : Offered(v)' => Offered(v)
    BY <2>1, <2>2, <2>3 DEF Offered, TypeOK, NoBoot
  <2>5. OfferedOnce' /\ HeldOnce'
    BY <2>1, <2>2, <2>3, <2>4, NoWorkerIsNone
       DEF LeaseExclusive, OfferedOnce, HeldOnce, TypeOK, NoBoot
  <2>6. NoneOut' /\ MonitorOut' /\ SlotOut'
    BY <2>3, <2>4 DEF NoneOut, MonitorOut, SlotOut
  <2>7. UninstalledNone' /\ BootBegun'
    BY <2>3 DEF UninstalledNone, Uninstalled, BootBegun, TypeOK, NoBoot
  <2> QED
    BY <2>5, <2>6, <2>7 DEF LeaseExclusive
<1> QED
  BY <1>1, <1>2, <1>3, <1>4, <1>5, <1>6, <1>7 DEF BootSteps

LEMMA MonitorLease ==
  ASSUME LeaseInv, TypeOK',
         \/ \E w \in Worker : ProcExit(w) \/ MonitorSteps(w)
         \/ PurgePop \/ PurgePush
  PROVE  LeaseInv'
<1> USE DEF LeaseInv
<1>1. ASSUME NEW w \in Worker, ProcExit(w) PROVE LeaseInv'
  BY <1>1, NobodyMoves DEF ProcExit
<1>2. ASSUME NEW w \in Worker, MonitorStale(w) PROVE LeaseInv'
  BY <1>2, NobodyMoves DEF MonitorStale, TypeOK
<1>3. ASSUME NEW w \in Worker, MonitorExit(w) PROVE LeaseInv'
  <2>1. wstate[w] # "none"
    BY <1>3 DEF MonitorExit, MonitorOut
  <2> QED
    BY <1>3, <2>1, NobodyMoves DEF MonitorExit, TypeOK
<1>4. ASSUME NEW w \in Worker, PurgeBegins(w) PROVE purge'.hand = NoWorker
  BY <1>4 DEF PurgeBegins, NoPurge
<1>5. ASSUME NEW w \in Worker, MonitorPurges(w) PROVE LeaseInv'
  BY <1>5, <1>4, NobodyMoves DEF MonitorPurges, TypeOK
<1>6. ASSUME NEW w \in Worker, MonitorRecords(w) PROVE LeaseInv'
  BY <1>6, NobodyMoves DEF MonitorRecords, TypeOK
<1>7. CASE PurgePop
  <2>1. /\ UNCHANGED <<boot, held, generation, wstate, mon, slotWorker>>
        /\ purge.hand = NoWorker
    BY <1>7 DEF PurgePop
  <2>2. CASE idle = <<>>
    <3>1. UNCHANGED idle /\ purge'.hand = NoWorker
      BY <1>7, <2>2 DEF PurgePop, NoPurge
    <3> QED
      BY <2>1, <3>1, NobodyMoves
  <2>3. CASE idle # <<>>
    <3>1. idle' = Tail(idle) /\ purge'.hand \in {Head(idle), NoWorker}
      BY <1>7, <2>3 DEF PurgePop, PurgeStepDone, NoPurge
    <3>2. /\ Distinct(idle') /\ Has(idle, Head(idle)) /\ Head(idle) \in Worker
          /\ \A v : Has(idle', v) <=> Has(idle, v) /\ v # Head(idle)
      BY <2>3, <3>1, TailOnce DEF TypeOK, LeaseExclusive, OfferedOnce
    <3> HIDE DEF LeaseInv
    <3>3. \A v \in Worker : Offered(v)' => Offered(v)
      BY <2>1, <3>1, <3>2, NoWorkerIsNone DEF Offered
    <3>4. OfferedOnce' /\ HeldOnce'
      BY <2>1, <3>1, <3>2, <3>3, NoWorkerIsNone
         DEF LeaseInv, LeaseExclusive, OfferedOnce, HeldOnce, TypeOK
    <3>5. NoneOut'
      BY <2>1, <3>3 DEF LeaseInv, NoneOut
    <3>6. UninstalledNone' /\ BootBegun' /\ MonitorOut' /\ SlotOut'
      BY <2>1 DEF LeaseInv, UninstalledNone, Uninstalled, BootBegun, MonitorOut, SlotOut
    <3> QED
      BY <3>4, <3>5, <3>6 DEF LeaseInv, LeaseExclusive
  <2> QED
    BY <2>2, <2>3
<1>8. CASE PurgePush
  <2> DEFINE w == purge.hand
  <2>1. w \in Worker /\ ~Has(idle, w) /\ Distinct(idle)
    BY <1>8 DEF PurgePush, TypeOK, Purge, NoPurge, LeaseExclusive, OfferedOnce
  <2>2. /\ UNCHANGED <<boot, held, generation, wstate, mon, slotWorker>>
        /\ purge'.hand = NoWorker
    BY <1>8 DEF PurgePush, PurgeStepDone, NoPurge
  <2>3. Distinct(idle') /\ \A v : Has(idle', v) => Has(idle, v) \/ v = w
    BY <1>8, <2>1, OfferOnce DEF PurgePush
  <2>4. \A v \in Worker : Offered(v)' => Offered(v)
    BY <2>2, <2>3, NoWorkerIsNone DEF Offered
  <2>5. OfferedOnce' /\ HeldOnce'
    BY <2>1, <2>2, <2>3, <2>4, NoWorkerIsNone
       DEF LeaseExclusive, OfferedOnce, HeldOnce, TypeOK
  <2>6. NoneOut' /\ UninstalledNone' /\ BootBegun' /\ MonitorOut' /\ SlotOut'
    BY <2>2, <2>4
       DEF NoneOut, UninstalledNone, Uninstalled, BootBegun, MonitorOut, SlotOut
  <2> QED
    BY <2>5, <2>6 DEF LeaseExclusive
<1> QED
  BY <1>1, <1>2, <1>3, <1>5, <1>6, <1>7, <1>8 DEF MonitorSteps

LEMMA RequestLease ==
  ASSUME LeaseInv, TypeOK', NEW r \in Requests, RequestSteps(r)
  PROVE  LeaseInv'
<1> USE DEF LeaseInv
<1> DEFINE w == held[r]
<1>1. at[r] \notin {"off", "try", "queued"} => w \in Worker /\ wstate[w] # "none"
  BY NoWorkerIsNone DEF TypeOK, NoneOut
<1>2. CASE Arrive(r) \/ TryMisses(r) \/ AcquireEnds(r) \/ Responds(r)
  BY <1>2, NobodyMoves DEF Arrive, TryMisses, AcquireEnds, Responds
<1>3. CASE Check(r)
  BY <1>3, NobodyMoves DEF Check, TypeOK
<1>4. CASE MarkBusy(r)
  BY <1>4, <1>1, NobodyMoves DEF MarkBusy, TypeOK
<1>5. CASE Discard(r)
  BY <1>5, <1>1, NobodyMoves DEF Discard, Leaves, TypeOK
<1>6. CASE DiscardEnds(r)
  BY <1>6, NobodyMoves DEF DiscardEnds, Leaves, TypeOK
<1>7. CASE Release(r)
  BY <1>7, <1>1, NobodyMoves DEF Release, Leaves, TypeOK
<1>8. CASE Pop(r)
  <2>1. /\ UNCHANGED <<boot, purge, generation, wstate, mon, slotWorker>>
        /\ idle' = Tail(idle) /\ held' = [held EXCEPT ![r] = Head(idle)]
        /\ idle # <<>>
    BY <1>8 DEF Pop
  <2>2. /\ Distinct(idle') /\ Has(idle, Head(idle)) /\ Head(idle) \in Worker
        /\ \A v : Has(idle', v) <=> Has(idle, v) /\ v # Head(idle)
    BY <2>1, TailOnce DEF TypeOK, LeaseExclusive, OfferedOnce
  <2>3. \A v \in Worker : Offered(v)' <=> Offered(v) /\ v # Head(idle)
    BY <2>1, <2>2 DEF Offered, LeaseExclusive, OfferedOnce
  <2>4. OfferedOnce'
    BY <2>1, <2>2 DEF LeaseExclusive, OfferedOnce
  <2>5. \A q \in Requests : held[q] # Head(idle)
    BY <2>2, NoWorkerIsNone DEF LeaseExclusive, HeldOnce, Offered
  <2>6. HeldOnce'
    BY <2>1, <2>2, <2>3, <2>5 DEF LeaseExclusive, HeldOnce, TypeOK
  <2>7. wstate[Head(idle)] # "none"
    BY <2>2 DEF NoneOut, Offered
  <2>8. NoneOut'
    BY <2>1, <2>3, <2>7 DEF NoneOut, TypeOK
  <2>9. UninstalledNone' /\ BootBegun' /\ MonitorOut' /\ SlotOut'
    BY <2>1 DEF UninstalledNone, Uninstalled, BootBegun, MonitorOut, SlotOut
  <2> QED
    BY <2>4, <2>6, <2>8, <2>9 DEF LeaseExclusive
<1>9. CASE PutBack(r)
  <2>1. /\ UNCHANGED <<boot, purge, generation, wstate, mon, slotWorker>>
        /\ held' = [held EXCEPT ![r] = NoWorker] /\ Offer(w)
        /\ w \in Worker /\ wstate[w] # "none"
    BY <1>9, <1>1 DEF PutBack, Leaves
  <2>2. ~Offered(w) /\ ~Has(idle, w) /\ purge.hand # w /\ boot[w].at # "push" /\ Distinct(idle)
    BY <2>1, NoWorkerIsNone DEF LeaseExclusive, HeldOnce, OfferedOnce, Offered
  <2>3. Distinct(idle') /\ \A v : Has(idle', v) => Has(idle, v) \/ v = w
    BY <2>1, <2>2, OfferOnce
  <2>4. \A v \in Worker : Offered(v)' => Offered(v) \/ v = w
    BY <2>1, <2>3 DEF Offered
  <2>5. OfferedOnce'
    BY <2>1, <2>2, <2>3 DEF LeaseExclusive, OfferedOnce
  <2>6. HeldOnce'
    BY <2>1, <2>4, NoWorkerIsNone DEF LeaseExclusive, HeldOnce, TypeOK
  <2>7. NoneOut'
    BY <2>1, <2>4, NoWorkerIsNone DEF NoneOut, TypeOK
  <2>8. UninstalledNone' /\ BootBegun' /\ MonitorOut' /\ SlotOut'
    BY <2>1 DEF UninstalledNone, Uninstalled, BootBegun, MonitorOut, SlotOut
  <2> QED
    BY <2>5, <2>6, <2>7, <2>8 DEF LeaseExclusive
<1> QED
  BY <1>2, <1>3, <1>4, <1>5, <1>6, <1>7, <1>8, <1>9 DEF RequestSteps

LEMMA ScaleLease == ASSUME LeaseInv, TypeOK', ScaleSteps PROVE LeaseInv'
<1> USE DEF LeaseInv
<1>1. ASSUME NEW n \in Min..Max, SetDesired(n) PROVE LeaseInv'
  <2>1. \A v \in Worker : v \in drains' => wstate[v] # "none"
    <3>1. ASSUME NEW v \in Worker, v \in drains' PROVE wstate[v] # "none"
      <4>1. PICK s \in Slot : v = <<s, slotWorker[s]>>
        BY <1>1, <3>1, WorkerParts DEF SetDesired, Worker
      <4>2. v[2] \in Nat \ {0} /\ v[2] = slotWorker[s]
        BY <4>1, PoolAssumption DEF PoolAssumption, Worker, Gen
      <4> QED
        BY <4>1, <4>2 DEF SlotOut
    <3> QED
      BY <3>1
  <2>2. \A v \in Worker : wstate'[v] = IF v \in drains' THEN "draining" ELSE wstate[v]
    BY <1>1 DEF SetDesired
  <2>3. \A v \in Worker : (wstate'[v] = "none") <=> (wstate[v] = "none")
    BY <2>1, <2>2
  <2>4. UNCHANGED <<idle, purge, held, generation, boot, mon, slotWorker>>
    BY <1>1 DEF SetDesired, chanVars
  <2> QED
    BY <2>3, <2>4, NobodyMoves
<1>2. ASSUME NEW w \in Worker, ScaleDrains(w) PROVE LeaseInv'
  BY <1>2, NobodyMoves DEF ScaleDrains, PurgeBegins, NoPurge
<1>3. CASE ScaleBoots
  BY <1>3, NobodyMoves DEF ScaleBoots
<1> QED
  BY <1>1, <1>2, <1>3 DEF ScaleSteps

LEMMA StopLease == ASSUME LeaseInv, TypeOK', StopSteps PROVE LeaseInv'
<1> USE DEF LeaseInv
<1>1. CASE Cancel
  BY <1>1, NobodyMoves DEF Cancel
<1>2. CASE Stop
  BY <1>2, NobodyMoves DEF Stop
<1>3. CASE StopIdle
  <2> DEFINE w == Head(idle)
  <2>1. /\ UNCHANGED <<boot, purge, generation, held, mon, slotWorker>>
        /\ idle' = Tail(idle) /\ wstate' = [wstate EXCEPT ![w] = "stopped"]
        /\ idle # <<>>
    BY <1>3 DEF StopIdle
  <2>2. /\ Distinct(idle') /\ Has(idle, w) /\ w \in Worker
        /\ \A v : Has(idle', v) <=> Has(idle, v) /\ v # w
    BY <2>1, TailOnce DEF TypeOK, LeaseExclusive, OfferedOnce
  <2>3. \A v \in Worker : Offered(v)' => Offered(v)
    BY <2>1, <2>2 DEF Offered
  <2>4. OfferedOnce' /\ HeldOnce'
    BY <2>1, <2>2, <2>3, NoWorkerIsNone
       DEF LeaseExclusive, OfferedOnce, HeldOnce, TypeOK
  <2>5. wstate[w] # "none"
    BY <2>2 DEF NoneOut, Offered
  <2>6. \A v \in Worker : (wstate'[v] = "none") <=> (wstate[v] = "none")
    BY <2>1, <2>5 DEF TypeOK
  <2>7. NoneOut'
    BY <2>1, <2>3, <2>6 DEF NoneOut
  <2>8. UninstalledNone' /\ BootBegun' /\ MonitorOut'
    BY <2>1, <2>6 DEF UninstalledNone, Uninstalled, BootBegun, MonitorOut
  <2>9. SlotOut'
    BY <2>1, <2>6, SlotWorkerTyped DEF SlotOut
  <2> QED
    BY <2>4, <2>7, <2>8, <2>9 DEF LeaseExclusive
<1>4. CASE StopRest
  <2> DEFINE rest == {<<s, slotWorker[s]>> : s \in Installed}
  <2>1. \A v \in rest : wstate[v] # "none"
    BY DEF SlotOut, Installed
  <2>2. \A v \in Worker : wstate'[v] =
           IF v \in rest /\ wstate[v] \notin {"dead", "stopped"} THEN "draining" ELSE wstate[v]
    BY <1>4 DEF StopRest
  <2>3. \A v \in Worker : (wstate'[v] = "none") <=> (wstate[v] = "none")
    BY <2>1, <2>2
  <2>4. UNCHANGED <<idle, purge, held, generation, boot, mon, slotWorker>>
    BY <1>4 DEF StopRest, chanVars, reqVars
  <2> QED
    BY <2>3, <2>4, NobodyMoves
<1>5. CASE StopKills
  BY <1>5, NobodyMoves DEF StopKills
<1>6. CASE StopDone
  BY <1>6, NobodyMoves DEF StopDone
<1> QED
  BY <1>1, <1>2, <1>3, <1>4, <1>5, <1>6 DEF StopSteps

LEMMA StepLease == ASSUME LeaseInv, [Next]_vars PROVE LeaseInv'
<1>1. TypeOK'
  BY StepTyped DEF LeaseInv
<1>2. CASE StartReturns
  BY <1>1, <1>2, NobodyMoves DEF StartReturns
<1>3. ASSUME NEW t \in terms, TermSignals(t) \/ TermEnds(t) PROVE LeaseInv'
  BY <1>1, <1>3, NobodyMoves DEF TermSignals, TermEnds
<1>4. CASE UNCHANGED vars
  BY <1>1, <1>4, NobodyMoves DEF vars
<1> QED
  BY <1>1, <1>2, <1>3, <1>4, BootLease, MonitorLease, RequestLease, ScaleLease, StopLease
     DEF Next, ProgramStep, Ended

\* No worker is ever in two hands, whatever the numbers of slots, requests and
\* generations: the channel, purgeIdle, bootSlot and the handlers never share one.
THEOREM Exclusive == Spec => []LeaseExclusive
<1>1. LeaseInv => LeaseExclusive
  BY DEF LeaseInv
<1> QED
  BY <1>1, InitLease, StepLease, PTL DEF Spec

-----------------------------------------------------------------------------
(* A stopped pool                                                          *)

\* Once Shutdown has set the flag, a boot, a restart timer, a SetDesired or a
\* handler that was already past its own look at the pool changes nothing of it:
\* no generation begins, no slot gets a worker, no request claims one.
Frozen == stopping => /\ generation' = generation
                      /\ \A s \in Slot : slotWorker'[s] \in {slotWorker[s], 0}
                      /\ \A r \in Requests : (at'[r] = "claimed") => (at[r] = "claimed")

LEMMA StepFrozen == ASSUME TypeOK, [Next]_vars PROVE Frozen
<1>1. ASSUME NEW s \in Slot, NEW k \in Kind, BootBegin(s, k) \/ BootRefused(s, k)
      PROVE  Frozen
  BY <1>1 DEF BootBegin, BootRefused, Frozen
<1>2. ASSUME NEW w \in Worker, BootSteps(w) \/ MonitorSteps(w) \/ ProcExit(w)
      PROVE  Frozen
  <2>1. UNCHANGED <<generation, at>> \/ ~stopping
    BY <1>2 DEF BootSteps, BootFails, BootInstalls, BootTooLate, BootReaps, BootPush,
                MonitorSteps, MonitorStale, MonitorExit, MonitorPurges,
                MonitorRecords, ProcExit
  <2>2. \/ UNCHANGED slotWorker
        \/ slotWorker' = [slotWorker EXCEPT ![w[1]] = 0]
        \/ ~stopping
    BY <1>2 DEF BootSteps, BootFails, BootInstalls, BootTooLate, BootReaps, BootPush,
                MonitorSteps, MonitorStale, MonitorExit, MonitorPurges,
                MonitorRecords, ProcExit
  <2> QED
    BY <2>1, <2>2 DEF Frozen, TypeOK
<1>3. ASSUME NEW r \in Requests, RequestSteps(r) PROVE Frozen
  <2>1. UNCHANGED <<generation, slotWorker>>
    BY <1>3 DEF RequestSteps, Arrive, TryMisses, AcquireEnds, Pop, Check, MarkBusy,
                Responds, Discard, DiscardEnds, Release, PutBack
  <2>2. at' = at \/ (\E p \in ReqAt \ {"claimed"} : at' = [at EXCEPT ![r] = p]) \/ ~stopping
    BY <1>3 DEF RequestSteps, Arrive, TryMisses, AcquireEnds, Pop, Check, MarkBusy,
                Responds, Discard, DiscardEnds, Release, PutBack, Goes, Leaves, ReqAt
  <2> QED
    BY <2>1, <2>2 DEF Frozen, TypeOK
<1>4. CASE StartReturns \/ PurgePop \/ PurgePush \/ StopSteps \/ UNCHANGED vars
  BY <1>4 DEF StartReturns, PurgePop, PurgePush, StopSteps, Cancel, Stop, StopIdle,
              StopRest, StopKills, StopDone, vars, Frozen
<1>5. CASE ScaleSteps
  BY <1>5 DEF ScaleSteps, SetDesired, ScaleDrains, ScaleBoots, Frozen
<1>6. ASSUME NEW t \in terms, TermSignals(t) \/ TermEnds(t) PROVE Frozen
  BY <1>6 DEF TermSignals, TermEnds, Frozen
<1> QED
  BY <1>1, <1>2, <1>3, <1>4, <1>5, <1>6 DEF Next, ProgramStep, Ended

\* The pool that has been told to stop takes no new worker and hands none out
\* (bootSlot, scheduleRestart, SetDesired, Acquire and TryAcquire after Shutdown).
THEOREM Freezes == Spec => StopFreezes
<1>1. TypeOK /\ [Next]_vars => [Frozen]_vars
  BY StepFrozen
<1> QED
  BY <1>1, Typing, PTL DEF Spec, StopFreezes, Frozen

-----------------------------------------------------------------------------
(* The pool implements the lease                                           *)

\* A send on the channel offers the worker or drops it.
LEMMA OfferExact ==
  ASSUME TypeOK, NEW w \in Worker, Offer(w), Distinct(idle), ~Has(idle, w)
  PROVE  \/ idle' = idle
         \/ \A v : Has(idle', v) <=> Has(idle, v) \/ v = w
  BY AppendOnce DEF Offer, TypeOK

\* A step that moves nothing between the hands of the lease is no step of it.
LEMMA LeaseStutters ==
  ASSUME UNCHANGED <<idle, held>>, purge'.hand = purge.hand,
         \A w \in Worker : /\ (boot'[w].at = "push") <=> (boot[w].at = "push")
                           /\ (wstate'[w] = "none") <=> (wstate[w] = "none")
  PROVE  UNCHANGED Lease!leaseVars
<1>1. \A w \in Worker : Offered(w)' <=> Offered(w)
  BY DEF Offered, Has
<1> QED
  BY <1>1 DEF Lease!leaseVars

\* A worker leaves the circulation, lent to nobody.
LEMMA LeaseWithdraws ==
  ASSUME NEW w \in Worker, Offered(w), UNCHANGED held,
         \A v \in Worker : /\ Offered(v)' <=> Offered(v) /\ v # w
                           /\ (wstate'[v] = "none") <=> (wstate[v] = "none")
  PROVE  Lease!Withdraw(w)
  BY DEF Lease!Withdraw

\* A handler gives its worker up for good.
LEMMA LeaseForfeits ==
  ASSUME NEW r \in Requests, held[r] # NoWorker,
         held' = [held EXCEPT ![r] = NoWorker], UNCHANGED <<idle, purge, boot>>,
         \A v \in Worker : (wstate'[v] = "none") <=> (wstate[v] = "none")
  PROVE  Lease!Forfeit(r)
<1>1. \A v \in Worker : Offered(v)' <=> Offered(v)
  BY DEF Offered, Has
<1> QED
  BY <1>1 DEF Lease!Forfeit

LeaseStep == Lease!Next \/ UNCHANGED Lease!leaseVars

LEMMA BootImplements ==
  ASSUME LeaseInv,
         \/ \E s \in Slot, k \in Kind : BootBegin(s, k) \/ BootRefused(s, k)
         \/ \E w \in Worker : BootSteps(w)
  PROVE  LeaseStep
<1> USE DEF LeaseInv
<1>1. ASSUME NEW s \in Slot, NEW k \in Kind, BootBegin(s, k) PROVE LeaseStep
  <2> DEFINE w == <<s, generation[s] + 1>>
  <2>1. w \in Worker => boot[w].at # "push"
    <3>1. w[1] = s /\ w[2] = generation[s] + 1 /\ generation[s] \in Nat
      BY PoolAssumption DEF TypeOK, PoolAssumption
    <3> QED
      BY <3>1 DEF BootBegun
  <2>2. /\ \E place \in {"starting", "doomed"} :
              boot' = [boot EXCEPT ![w] = [at |-> place, kind |-> k]]
        /\ UNCHANGED <<idle, purge, held, wstate>>
    BY <1>1, BootPlace DEF BootBegin
  <2>3. PICK place \in {"starting", "doomed"} :
           boot' = [boot EXCEPT ![w] = [at |-> place, kind |-> k]]
    BY <2>2
  <2>4. ASSUME NEW v \in Worker PROVE (boot'[v].at = "push") <=> (boot[v].at = "push")
    <3>1. CASE v = w
      <4>1. boot'[v] = [at |-> place, kind |-> k]
        BY <2>3, <3>1 DEF TypeOK
      <4> QED
        BY <2>1, <3>1, <4>1
    <3>2. CASE v # w
      BY <2>3, <3>2 DEF TypeOK
    <3> QED
      BY <3>1, <3>2
  <2> QED
    BY <2>2, <2>4, LeaseStutters DEF LeaseStep
<1>2. ASSUME NEW s \in Slot, NEW k \in Kind, BootRefused(s, k) PROVE LeaseStep
  BY <1>2, LeaseStutters DEF BootRefused, LeaseStep
<1>3. ASSUME NEW w \in Worker, BootFails(w) \/ BootTooLate(w) \/ BootReaps(w)
      PROVE  LeaseStep
  <2>1. /\ boot[w].at # "push" /\ UNCHANGED <<idle, purge, held, wstate>>
        /\ boot' = [boot EXCEPT ![w] = NoBoot] \/ boot' = [boot EXCEPT ![w] = BootAt(w, "reap")]
    BY <1>3 DEF BootFails, BootTooLate, BootReaps
  <2>2. boot'[w].at # "push" /\ \A v \in Worker : v # w => boot'[v] = boot[v]
    BY <2>1 DEF TypeOK, NoBoot, BootAt
  <2> QED
    BY <2>1, <2>2, LeaseStutters DEF LeaseStep
<1>4. ASSUME NEW w \in Worker, BootInstalls(w) PROVE LeaseStep
  <2>1. /\ wstate[w] = "none" /\ ~Offered(w)
        /\ boot[w].at = "starting" /\ UNCHANGED <<idle, purge, held>>
        /\ wstate' = [wstate EXCEPT ![w] = "idle"]
        /\ boot' = [boot EXCEPT ![w] = IF HTTP THEN BootAt(w, "push") ELSE NoBoot]
    BY <1>4 DEF BootInstalls, UninstalledNone, Uninstalled, NoneOut
  <2>2. wstate'[w] = "idle" /\ \A v \in Worker : v # w => wstate'[v] = wstate[v] /\ boot'[v] = boot[v]
    BY <2>1 DEF TypeOK
  <2>3. CASE HTTP
    <3>1. boot'[w].at = "push"
      BY <2>1, <2>3 DEF TypeOK, BootAt
    <3>2. \A v \in Worker : Offered(v)' <=> Offered(v) \/ v = w
      BY <2>1, <2>2, <3>1 DEF Offered, Has
    <3>3. Lease!Issue(w)
      BY <2>1, <2>2, <2>3, <3>2 DEF Lease!Issue
    <3> QED
      BY <3>3 DEF LeaseStep, Lease!Next
  <2>4. CASE ~HTTP
    <3>1. boot'[w].at = "no"
      BY <2>1, <2>4 DEF TypeOK, NoBoot
    <3>2. \A v \in Worker : Offered(v)' <=> Offered(v)
      BY <2>1, <2>2, <3>1 DEF Offered, Has
    <3> QED
      BY <2>1, <2>4, <3>2 DEF LeaseStep, Lease!leaseVars
  <2> QED
    BY <2>3, <2>4
<1>5. ASSUME NEW w \in Worker, BootPush(w) PROVE LeaseStep
  <2>1. boot[w].at = "push" /\ ~Has(idle, w) /\ purge.hand # w /\ Distinct(idle) /\ Offered(w)
    BY <1>5 DEF BootPush, LeaseExclusive, OfferedOnce, Offered
  <2>2. /\ boot' = [boot EXCEPT ![w] = NoBoot] /\ UNCHANGED <<purge, held, wstate>>
        /\ idle' = idle \/ \A v : Has(idle', v) <=> Has(idle, v) \/ v = w
    BY <1>5, <2>1, OfferExact DEF BootPush
  <2>3. boot'[w].at = "no" /\ \A v \in Worker : v # w => boot'[v] = boot[v]
    BY <2>2 DEF TypeOK, NoBoot
  <2>4. CASE idle' = idle
    <3>1. \A v \in Worker : Offered(v)' <=> Offered(v) /\ v # w
      BY <2>1, <2>2, <2>3, <2>4 DEF Offered, Has
    <3>2. Lease!Withdraw(w)
      BY <2>1, <2>2, <3>1, LeaseWithdraws
    <3> QED
      BY <3>2 DEF LeaseStep, Lease!Next
  <2>5. CASE \A v : Has(idle', v) <=> Has(idle, v) \/ v = w
    <3>1. \A v \in Worker : Offered(v)' <=> Offered(v)
      BY <2>1, <2>2, <2>3, <2>5 DEF Offered
    <3> QED
      BY <2>2, <3>1 DEF LeaseStep, Lease!leaseVars
  <2> QED
    BY <2>2, <2>4, <2>5
<1> QED
  BY <1>1, <1>2, <1>3, <1>4, <1>5 DEF BootSteps

LEMMA MonitorImplements ==
  ASSUME LeaseInv,
         \/ \E w \in Worker : ProcExit(w) \/ MonitorSteps(w)
         \/ PurgePop \/ PurgePush
  PROVE  LeaseStep
<1> USE DEF LeaseInv
<1>1. ASSUME NEW w \in Worker, ProcExit(w) \/ MonitorStale(w) \/ MonitorRecords(w)
      PROVE  LeaseStep
  BY <1>1, LeaseStutters DEF ProcExit, MonitorStale, MonitorRecords, LeaseStep
<1>2. ASSUME NEW w \in Worker, MonitorExit(w) PROVE LeaseStep
  <2>1. wstate[w] # "none" /\ wstate' = [wstate EXCEPT ![w] = "dead"]
        /\ UNCHANGED <<idle, purge, held, boot>>
    BY <1>2 DEF MonitorExit, MonitorOut
  <2>2. \A v \in Worker : (wstate'[v] = "none") <=> (wstate[v] = "none")
    BY <2>1 DEF TypeOK
  <2> QED
    BY <2>1, <2>2, LeaseStutters DEF LeaseStep
<1>3. ASSUME NEW w \in Worker, MonitorPurges(w) PROVE LeaseStep
  <2>1. purge'.hand = purge.hand
    BY <1>3 DEF MonitorPurges, PurgeBegins, LockFree, NoPurge
  <2> QED
    BY <1>3, <2>1, LeaseStutters DEF MonitorPurges, LeaseStep
<1>4. CASE PurgePop
  <2>1. purge.hand = NoWorker /\ UNCHANGED <<boot, held, wstate>>
    BY <1>4 DEF PurgePop
  <2>2. CASE idle = <<>>
    <3>1. UNCHANGED idle /\ purge'.hand = purge.hand
      BY <1>4, <2>1, <2>2 DEF PurgePop, NoPurge
    <3> QED
      BY <2>1, <3>1, LeaseStutters DEF LeaseStep
  <2>3. CASE idle # <<>>
    <3> DEFINE h == Head(idle)
    <3>1. /\ Has(idle, h) /\ h \in Worker
          /\ \A v : Has(Tail(idle), v) <=> Has(idle, v) /\ v # h
      BY <2>3, TailOnce DEF TypeOK, LeaseExclusive, OfferedOnce
    <3>2. idle' = Tail(idle) /\ Offered(h) /\ boot[h].at # "push"
      BY <1>4, <2>3, <3>1 DEF PurgePop, Offered, LeaseExclusive, OfferedOnce
    <3>3. CASE h = purge.w
      <4>1. purge'.hand = NoWorker
        BY <1>4, <2>3, <3>3 DEF PurgePop, PurgeStepDone, NoPurge
      <4>2. \A v \in Worker : Offered(v)' <=> Offered(v) /\ v # h
        BY <2>1, <3>1, <3>2, <4>1, NoWorkerIsNone DEF Offered
      <4>3. Lease!Withdraw(h)
        BY <2>1, <3>1, <3>2, <4>2, LeaseWithdraws
      <4> QED
        BY <3>1, <4>3 DEF LeaseStep, Lease!Next
    <3>4. CASE h # purge.w
      <4>1. purge'.hand = h
        BY <1>4, <2>3, <3>1, <3>4, NoWorkerIsNone DEF PurgePop, PurgeStepDone
      <4>2. \A v \in Worker : Offered(v)' <=> Offered(v)
        BY <2>1, <3>1, <3>2, <4>1, NoWorkerIsNone DEF Offered
      <4> QED
        BY <2>1, <4>2 DEF LeaseStep, Lease!leaseVars
    <3> QED
      BY <3>3, <3>4
  <2> QED
    BY <2>2, <2>3
<1>5. CASE PurgePush
  <2> DEFINE w == purge.hand
  <2>1. w \in Worker /\ ~Has(idle, w) /\ Distinct(idle) /\ Offered(w) /\ boot[w].at # "push"
    BY <1>5 DEF PurgePush, TypeOK, Purge, NoPurge, LeaseExclusive, OfferedOnce, Offered
  <2>2. UNCHANGED <<boot, held, wstate>> /\ purge'.hand = NoWorker
    BY <1>5 DEF PurgePush, PurgeStepDone, NoPurge
  <2>3. CASE idle' = idle
    <3>1. \A v \in Worker : Offered(v)' <=> Offered(v) /\ v # w
      BY <2>1, <2>2, <2>3, NoWorkerIsNone DEF Offered, Has
    <3>2. Lease!Withdraw(w)
      BY <2>1, <2>2, <3>1, LeaseWithdraws
    <3> QED
      BY <2>1, <3>2 DEF LeaseStep, Lease!Next
  <2>4. CASE \A v : Has(idle', v) <=> Has(idle, v) \/ v = w
    <3>1. \A v \in Worker : Offered(v)' <=> Offered(v)
      BY <2>1, <2>2, <2>4, NoWorkerIsNone DEF Offered
    <3> QED
      BY <2>2, <3>1 DEF LeaseStep, Lease!leaseVars
  <2> QED
    BY <1>5, <2>1, <2>3, <2>4, OfferExact DEF PurgePush
<1> QED
  BY <1>1, <1>2, <1>3, <1>4, <1>5 DEF MonitorSteps

LEMMA RequestImplements ==
  ASSUME LeaseInv, NEW r \in Requests, RequestSteps(r)
  PROVE  LeaseStep
<1> USE DEF LeaseInv
<1> DEFINE w == held[r]
<1>0. at[r] \notin {"off", "try", "queued"} => w \in Worker /\ w # NoWorker /\ wstate[w] # "none"
  BY NoWorkerIsNone DEF TypeOK, NoneOut
\* Where the worker's state changes, it was a worker in circulation.
<1>1. ASSUME NEW x \in WState \ {"none"}, wstate[w] # "none",
             wstate' = [wstate EXCEPT ![w] = x]
      PROVE  \A v \in Worker : (wstate'[v] = "none") <=> (wstate[v] = "none")
  BY <1>1 DEF TypeOK
<1>2. ASSUME UNCHANGED <<idle, purge, boot>>,
             UNCHANGED held \/ (held[r] # NoWorker /\ held' = [held EXCEPT ![r] = NoWorker]),
             \A v \in Worker : (wstate'[v] = "none") <=> (wstate[v] = "none")
      PROVE  LeaseStep
  BY <1>2, LeaseStutters, LeaseForfeits DEF LeaseStep, Lease!Next
<1>3. CASE Arrive(r) \/ TryMisses(r) \/ AcquireEnds(r) \/ Responds(r)
  BY <1>3, <1>2 DEF Arrive, TryMisses, AcquireEnds, Responds
<1>4. CASE Check(r) \/ DiscardEnds(r)
  BY <1>4, <1>0, <1>2 DEF Check, DiscardEnds, Leaves
<1>5. CASE MarkBusy(r)
  BY <1>5, <1>0, <1>1, <1>2 DEF MarkBusy, WState
<1>6. CASE Discard(r)
  BY <1>6, <1>0, <1>1, <1>2 DEF Discard, Leaves, WState
<1>7. CASE Release(r)
  BY <1>7, <1>0, <1>1, <1>2 DEF Release, Leaves, WState
<1>8. CASE Pop(r)
  <2> DEFINE h == Head(idle)
  <2>1. /\ UNCHANGED <<boot, purge, wstate>> /\ idle # <<>>
        /\ idle' = Tail(idle) /\ held' = [held EXCEPT ![r] = h]
        /\ held[r] = NoWorker
    BY <1>8 DEF Pop, TypeOK
  <2>2. /\ Has(idle, h) /\ h \in Worker
        /\ \A v : Has(idle', v) <=> Has(idle, v) /\ v # h
    BY <2>1, TailOnce DEF TypeOK, LeaseExclusive, OfferedOnce
  <2>3. \A v \in Worker : Offered(v)' <=> Offered(v) /\ v # h
    BY <2>1, <2>2 DEF Offered, LeaseExclusive, OfferedOnce
  <2>4. Offered(h)
    BY <2>2 DEF Offered
  <2>5. Lease!Take(r, h)
    BY <2>1, <2>2, <2>3, <2>4 DEF Lease!Take
  <2> QED
    BY <2>2, <2>5 DEF LeaseStep, Lease!Next
<1>9. CASE PutBack(r)
  <2>1. /\ UNCHANGED <<boot, purge, wstate>> /\ held' = [held EXCEPT ![r] = NoWorker]
        /\ Offer(w) /\ w \in Worker /\ w # NoWorker
    BY <1>9, <1>0 DEF PutBack, Leaves
  <2>2. ~Has(idle, w) /\ Distinct(idle)
    BY <2>1 DEF LeaseExclusive, HeldOnce, OfferedOnce, Offered
  <2>3. CASE idle' = idle
    BY <1>2, <2>1, <2>3
  <2>4. CASE \A v : Has(idle', v) <=> Has(idle, v) \/ v = w
    <3>1. \A v \in Worker : Offered(v)' <=> Offered(v) \/ v = w
      BY <2>1, <2>4 DEF Offered
    <3>2. Lease!Return(r)
      BY <2>1, <3>1 DEF Lease!Return
    <3> QED
      BY <3>2 DEF LeaseStep, Lease!Next
  <2> QED
    BY <2>1, <2>2, <2>3, <2>4, OfferExact
<1> QED
  BY <1>3, <1>4, <1>5, <1>6, <1>7, <1>8, <1>9 DEF RequestSteps

LEMMA ScaleImplements == ASSUME LeaseInv, ScaleSteps PROVE LeaseStep
<1> USE DEF LeaseInv
<1>1. ASSUME NEW n \in Min..Max, SetDesired(n) PROVE LeaseStep
  <2>1. ASSUME NEW v \in Worker, v \in drains' PROVE wstate[v] # "none"
    <3>1. PICK s \in Slot : v = <<s, slotWorker[s]>>
      BY <1>1, <2>1, WorkerParts DEF SetDesired, Worker
    <3>2. v[2] \in Nat \ {0} /\ v[2] = slotWorker[s]
      BY <3>1, PoolAssumption DEF PoolAssumption, Worker, Gen
    <3> QED
      BY <3>1, <3>2 DEF SlotOut
  <2>2. \A v \in Worker : wstate'[v] = IF v \in drains' THEN "draining" ELSE wstate[v]
    BY <1>1 DEF SetDesired
  <2>3. \A v \in Worker : (wstate'[v] = "none") <=> (wstate[v] = "none")
    BY <2>1, <2>2
  <2>4. UNCHANGED <<idle, purge, held, boot>>
    BY <1>1 DEF SetDesired, chanVars
  <2> QED
    BY <2>3, <2>4, LeaseStutters DEF LeaseStep
<1>2. ASSUME NEW w \in Worker, ScaleDrains(w) PROVE LeaseStep
  <2>1. purge'.hand = purge.hand
    BY <1>2 DEF ScaleDrains, PurgeBegins, LockFree, NoPurge
  <2> QED
    BY <1>2, <2>1, LeaseStutters DEF ScaleDrains, LeaseStep
<1>3. CASE ScaleBoots
  BY <1>3, LeaseStutters DEF ScaleBoots, LeaseStep
<1> QED
  BY <1>1, <1>2, <1>3 DEF ScaleSteps

LEMMA StopImplements == ASSUME LeaseInv, StopSteps PROVE LeaseStep
<1> USE DEF LeaseInv
<1>1. CASE Cancel \/ Stop \/ StopKills \/ StopDone
  BY <1>1, LeaseStutters DEF Cancel, Stop, StopKills, StopDone, LeaseStep
<1>2. CASE StopIdle
  <2> DEFINE w == Head(idle)
  <2>1. /\ UNCHANGED <<boot, purge, held>> /\ idle # <<>> /\ idle' = Tail(idle)
        /\ wstate' = [wstate EXCEPT ![w] = "stopped"]
    BY <1>2 DEF StopIdle
  <2>2. /\ Has(idle, w) /\ w \in Worker
        /\ \A v : Has(idle', v) <=> Has(idle, v) /\ v # w
    BY <2>1, TailOnce DEF TypeOK, LeaseExclusive, OfferedOnce
  <2>3. Offered(w) /\ boot[w].at # "push" /\ purge.hand # w
    BY <2>2 DEF Offered, LeaseExclusive, OfferedOnce
  <2>4. \A v \in Worker : Offered(v)' <=> Offered(v) /\ v # w
    BY <2>1, <2>2, <2>3 DEF Offered
  <2>5. wstate[w] # "none"
    BY <2>2, <2>3 DEF NoneOut
  <2>6. \A v \in Worker : (wstate'[v] = "none") <=> (wstate[v] = "none")
    BY <2>1, <2>2, <2>5 DEF TypeOK
  <2>7. Lease!Withdraw(w)
    BY <2>1, <2>2, <2>3, <2>4, <2>6, LeaseWithdraws
  <2> QED
    BY <2>2, <2>7 DEF LeaseStep, Lease!Next
<1>3. CASE StopRest
  <2> DEFINE rest == {<<s, slotWorker[s]>> : s \in Installed}
  <2>1. \A v \in rest : wstate[v] # "none"
    BY DEF SlotOut, Installed
  <2>2. \A v \in Worker : wstate'[v] =
           IF v \in rest /\ wstate[v] \notin {"dead", "stopped"} THEN "draining" ELSE wstate[v]
    BY <1>3 DEF StopRest
  <2>3. \A v \in Worker : (wstate'[v] = "none") <=> (wstate[v] = "none")
    BY <2>1, <2>2
  <2>4. UNCHANGED <<idle, purge, held, boot>>
    BY <1>3 DEF StopRest, chanVars, reqVars
  <2> QED
    BY <2>3, <2>4, LeaseStutters DEF LeaseStep
<1> QED
  BY <1>1, <1>2, <1>3 DEF StopSteps

LEMMA InitImplements == ASSUME Init PROVE Lease!Init
<1>1. \A w \in Worker : ~Offered(w)
  BY DEF Init, Offered, Has, NoBoot, NoPurge, NoWorker, Worker, Slot
<1> QED
  BY <1>1 DEF Init, Lease!Init

LEMMA StepImplements == ASSUME LeaseInv, [Next]_vars PROVE [Lease!Next]_Lease!leaseVars
<1>1. CASE StartReturns \/ UNCHANGED vars
  BY <1>1, LeaseStutters DEF StartReturns, vars, LeaseStep
<1>2. ASSUME NEW t \in terms, TermSignals(t) \/ TermEnds(t) PROVE LeaseStep
  BY <1>2, LeaseStutters DEF TermSignals, TermEnds, LeaseStep
<1>3. LeaseStep
  BY <1>1, <1>2, BootImplements, MonitorImplements, RequestImplements,
     ScaleImplements, StopImplements DEF Next, ProgramStep, Ended, LeaseStep
<1> QED
  BY <1>3 DEF LeaseStep

\* The pool keeps what it promises the handlers (WorkerLease): slots, locks, the
\* idle channel and purgeIdle are seen by a request only as a worker issued once,
\* then on offer, lent to one request, or gone for good.
THEOREM PoolImplementsLease == Spec => ImplementsLease
<1>1. Spec => []LeaseInv
  BY InitLease, StepLease, PTL DEF Spec
<1> QED
  BY <1>1, InitImplements, StepImplements, PTL DEF Spec, ImplementsLease, Lease!Spec

-----------------------------------------------------------------------------
(* No slot is forgotten                                                    *)

\* What NoSlotForgotten says of one slot, and the fact that carries it through
\* Shutdown: the stop flag is never set before the pool's context has ended.
Cared(s) == ~ctxDone /\ s <= desired /\ ~Exceeded(s) => slotWorker[s] # 0 \/ Booting(s)
CareInv == TypeOK /\ (stopping => ctxDone) /\ \A s \in Slot : Cared(s)

\* A slot a step does not touch stays cared for.
LEMMA Untouched ==
  ASSUME NEW s \in Slot, Cared(s), desired' = desired, ctxDone => ctxDone',
         crashes'[s] = crashes[s], slotWorker'[s] = slotWorker[s],
         s \in boots => s \in boots' \/ \E k \in Kind : pending'[s][k] > 0,
         \A k \in Kind : pending[s][k] > 0 => pending'[s][k] > 0,
         \A w \in Worker : w[1] = s => boot'[w].at = boot[w].at /\ mon'[w] = mon[w]
  PROVE  Cared(s)'
<1>1. Booting(s) => Booting(s)'
  BY DEF Booting
<1> QED
  BY <1>1 DEF Cared, Exceeded, Exceeds

\* A crash record gives its slot a restart, or finds its budget spent.
LEMMA CrashCares ==
  ASSUME TypeOK, NEW s \in Slot, CrashRecorded(s)
  PROVE  /\ Cared(s)'
         /\ \A t \in Slot : t # s => crashes'[t] = crashes[t] /\ pending'[t] = pending[t]
<1>1. PICK n \in 1..(crashes[s] + 1) :
         /\ crashes' = [crashes EXCEPT ![s] = n]
         /\ pending' = IF Exceeds(n) THEN pending
                       ELSE [pending EXCEPT ![s]["crash"] = @ + 1]
  BY DEF CrashRecorded
<1>2. crashes'[s] = n /\ pending[s]["crash"] \in Nat
      /\ \A t \in Slot : t # s => crashes'[t] = crashes[t]
  BY <1>1 DEF TypeOK, Kind
<1>3. CASE Exceeds(n)
  BY <1>1, <1>2, <1>3 DEF Cared, Exceeded, Exceeds
<1>4. CASE ~Exceeds(n)
  <2>1. pending'[s]["crash"] = pending[s]["crash"] + 1
        /\ \A t \in Slot : t # s => pending'[t] = pending[t]
    BY <1>1, <1>4 DEF TypeOK, Kind
  <2>2. Booting(s)'
    BY <1>2, <2>1 DEF Booting, Kind
  <2> QED
    BY <1>2, <2>1, <2>2 DEF Cared
<1> QED
  BY <1>3, <1>4

LEMMA BootCares ==
  ASSUME CareInv,
         \/ \E s \in Slot, k \in Kind : BootBegin(s, k) \/ BootRefused(s, k)
         \/ \E w \in Worker : BootSteps(w)
  PROVE  \A t \in Slot : Cared(t)'
<1> USE DEF CareInv
<1>1. ASSUME NEW s \in Slot, NEW k \in Kind, BootBegin(s, k), NEW t \in Slot
      PROVE  Cared(t)'
  <2> DEFINE w == <<s, generation[s] + 1>>
  <2>1. /\ UNCHANGED <<desired, ctxDone, crashes, slotWorker, boots, mon>>
        /\ pending' = [pending EXCEPT ![s][k] = @ - 1]
    BY <1>1 DEF BootBegin
  <2>2. PICK place \in {"starting", "doomed"} :
           boot' = [boot EXCEPT ![w] = [at |-> place, kind |-> k]]
    BY <1>1, BootPlace
  <2>3. CASE t = s
    <3>1. w[1] = s /\ w[2] = generation[s] + 1 /\ generation[s] \in 0..MaxGen
          /\ generation[s] < MaxGen
      BY <1>1 DEF BootBegin, TypeOK
    <3>2. w \in Worker
      BY <3>1, PoolAssumption DEF PoolAssumption, Worker, Gen
    <3>3. boot'[w].at = place
      BY <2>2, <3>2 DEF TypeOK
    <3>4. Booting(s)'
      BY <3>1, <3>2, <3>3 DEF Booting
    <3> QED
      BY <2>3, <3>4 DEF Cared
  <2>4. CASE t # s
    <3>1. pending'[t] = pending[t]
      BY <2>1, <2>4 DEF TypeOK
    <3>2. \A v \in Worker : v[1] = t => boot'[v] = boot[v]
      BY <2>2, <2>4 DEF TypeOK
    <3> QED
      BY <2>1, <3>1, <3>2, Untouched
  <2> QED
    BY <2>3, <2>4
<1>2. ASSUME NEW s \in Slot, NEW k \in Kind, BootRefused(s, k), NEW t \in Slot
      PROVE  Cared(t)'
  <2>1. /\ UNCHANGED <<desired, ctxDone, crashes, slotWorker, boots, mon, boot>>
        /\ pending' = [pending EXCEPT ![s][k] = @ - 1]
        /\ ctxDone \/ Retired(s)
    BY <1>2 DEF BootRefused
  <2>2. CASE t = s
    <3>1. ctxDone' \/ ~(t <= desired')
      BY <2>1, <2>2 DEF Retired, TypeOK, Slot
    <3> QED
      BY <3>1 DEF Cared
  <2>3. CASE t # s
    <3>1. pending'[t] = pending[t]
      BY <2>1, <2>3 DEF TypeOK
    <3> QED
      BY <2>1, <3>1, Untouched
  <2> QED
    BY <2>2, <2>3
<1>3. ASSUME NEW w \in Worker, BootFails(w), NEW t \in Slot PROVE Cared(t)'
  <2>1. /\ UNCHANGED <<desired, ctxDone, boots, mon>> /\ w[1] \in Slot
        /\ boot' = [boot EXCEPT ![w] = NoBoot]
        /\ slotWorker' = [slotWorker EXCEPT ![w[1]] = 0]
    BY <1>3, WorkerParts DEF BootFails
  <2>2. /\ Cared(w[1])'
        /\ t # w[1] => crashes'[t] = crashes[t] /\ pending'[t] = pending[t]
    <3>1. CASE CrashRecorded(w[1])
      BY <2>1, <3>1, CrashCares
    <3>2. CASE Exceeded(w[1]) /\ UNCHANGED <<crashes, pending>>
      BY <2>1, <3>2 DEF Cared, Exceeded, Exceeds
    <3>3. CASE pending' = [pending EXCEPT ![w[1]]["crash"] = @ + 1] /\ UNCHANGED crashes
      <4>1. /\ pending[w[1]]["crash"] \in Nat
            /\ pending'[w[1]]["crash"] = pending[w[1]]["crash"] + 1
            /\ t # w[1] => pending'[t] = pending[t]
        BY <2>1, <3>3 DEF TypeOK, Kind
      <4>2. Booting(w[1])'
        BY <4>1 DEF Booting, Kind
      <4> QED
        BY <3>3, <4>1, <4>2 DEF Cared
    <3> QED
      BY <1>3, <3>1, <3>2, <3>3 DEF BootFails
  <2>3. CASE t # w[1]
    <3>1. slotWorker'[t] = slotWorker[t] /\ \A v \in Worker : v[1] = t => boot'[v] = boot[v]
      BY <2>1, <2>3 DEF TypeOK
    <3> QED
      BY <2>1, <2>2, <2>3, <3>1, Untouched
  <2> QED
    BY <2>2, <2>3
<1>4. ASSUME NEW w \in Worker, BootInstalls(w), NEW t \in Slot PROVE Cared(t)'
  <2>1. /\ UNCHANGED <<desired, ctxDone, boots, pending, crashes>> /\ w[1] \in Slot
        /\ slotWorker' = [slotWorker EXCEPT ![w[1]] = w[2]]
        /\ boot' = [boot EXCEPT ![w] = IF HTTP THEN BootAt(w, "push") ELSE NoBoot]
        /\ mon' = [mon EXCEPT ![w] = "wait"]
    BY <1>4, WorkerParts DEF BootInstalls
  <2>2. CASE t = w[1]
    <3>1. slotWorker'[t] = w[2] /\ w[2] # 0
      BY <2>1, <2>2, PoolAssumption DEF TypeOK, Worker, Gen, PoolAssumption
    <3> QED
      BY <3>1 DEF Cared
  <2>3. CASE t # w[1]
    <3>1. /\ slotWorker'[t] = slotWorker[t]
          /\ \A v \in Worker : v[1] = t => boot'[v] = boot[v] /\ mon'[v] = mon[v]
      BY <2>1, <2>3 DEF TypeOK
    <3> QED
      BY <2>1, <3>1, Untouched
  <2> QED
    BY <2>2, <2>3
<1>5. ASSUME NEW w \in Worker, BootTooLate(w), NEW t \in Slot PROVE Cared(t)'
  <2>1. /\ UNCHANGED <<desired, ctxDone, crashes, slotWorker, boots, mon, pending>>
        /\ boot' = [boot EXCEPT ![w] = BootAt(w, "reap")]
        /\ ctxDone \/ Retired(w[1])
    BY <1>5 DEF BootTooLate
  <2>2. CASE t = w[1]
    <3>1. ctxDone' \/ ~(t <= desired')
      BY <2>1, <2>2 DEF Retired, TypeOK, Slot
    <3> QED
      BY <3>1 DEF Cared
  <2>3. CASE t # w[1]
    <3>1. \A v \in Worker : v[1] = t => boot'[v] = boot[v]
      BY <2>1, <2>3 DEF TypeOK
    <3> QED
      BY <2>1, <3>1, Untouched
  <2> QED
    BY <2>2, <2>3
\* A boot about to reap, or to push, is no longer what the slot waits for.
<1>6. ASSUME NEW w \in Worker, BootReaps(w) \/ BootPush(w), NEW t \in Slot
      PROVE  Cared(t)'
  <2>1. /\ UNCHANGED <<desired, ctxDone, crashes, slotWorker, boots, mon, pending>>
        /\ boot' = [boot EXCEPT ![w] = NoBoot]
        /\ boot[w].at \in {"reap", "push"}
    BY <1>6 DEF BootReaps, BootPush
  <2>2. \A v \in Worker : boot[v].at \in {"starting", "doomed"} => boot'[v] = boot[v]
    BY <2>1 DEF TypeOK
  <2>3. Booting(t) => Booting(t)'
    BY <2>1, <2>2 DEF Booting
  <2> QED
    BY <2>1, <2>3 DEF Cared, Exceeded, Exceeds
<1> QED
  BY <1>1, <1>2, <1>3, <1>4, <1>5, <1>6 DEF BootSteps

LEMMA MonitorCares ==
  ASSUME CareInv,
         \/ \E w \in Worker : ProcExit(w) \/ MonitorSteps(w)
         \/ PurgePop \/ PurgePush
  PROVE  \A t \in Slot : Cared(t)'
<1> USE DEF CareInv
<1>1. ASSUME NEW w \in Worker, ProcExit(w), NEW t \in Slot PROVE Cared(t)'
  BY <1>1, Untouched DEF ProcExit
<1>2. ASSUME NEW w \in Worker, MonitorStale(w), NEW t \in Slot PROVE Cared(t)'
  <2>1. /\ UNCHANGED <<desired, ctxDone, crashes, slotWorker, boots, boot, pending>>
        /\ mon[w] = "wait" /\ mon' = [mon EXCEPT ![w] = "done"]
    BY <1>2 DEF MonitorStale
  <2>2. \A v \in Worker : mon[v] \in {"planned", "crash", "record"} => mon'[v] = mon[v]
    BY <2>1 DEF TypeOK
  <2>3. Booting(t) => Booting(t)'
    BY <2>1, <2>2 DEF Booting
  <2> QED
    BY <2>1, <2>3 DEF Cared, Exceeded, Exceeds
<1>3. ASSUME NEW w \in Worker, MonitorExit(w), NEW t \in Slot PROVE Cared(t)'
  <2>1. /\ UNCHANGED <<desired, ctxDone, crashes, boots, boot, pending>>
        /\ slotWorker' = [slotWorker EXCEPT ![w[1]] = 0] /\ w[1] \in Slot
        /\ \E m \in {"quit", "planned", "crash"} :
              /\ mon' = [mon EXCEPT ![w] = m]
              /\ m = "quit" => ctxDone \/ Retired(w[1])
    BY <1>3, WorkerParts DEF MonitorExit
  <2>2. PICK m \in {"quit", "planned", "crash"} :
              /\ mon' = [mon EXCEPT ![w] = m]
              /\ m = "quit" => ctxDone \/ Retired(w[1])
    BY <2>1
  <2>3. mon'[w] = m /\ \A v \in Worker : v # w => mon'[v] = mon[v]
    BY <2>2 DEF TypeOK
  <2>4. CASE t = w[1]
    <3>1. CASE m = "quit"
      <4>1. ctxDone' \/ ~(t <= desired')
        BY <2>1, <2>2, <2>4, <3>1 DEF Retired, TypeOK, Slot
      <4> QED
        BY <4>1 DEF Cared
    <3>2. CASE m # "quit"
      <4>1. Booting(t)'
        BY <2>3, <2>4, <3>2 DEF Booting
      <4> QED
        BY <4>1 DEF Cared
    <3> QED
      BY <3>1, <3>2
  <2>5. CASE t # w[1]
    <3>1. slotWorker'[t] = slotWorker[t]
      BY <2>1, <2>5 DEF TypeOK
    <3> QED
      BY <2>1, <2>3, <2>5, <3>1, Untouched
  <2> QED
    BY <2>4, <2>5
<1>4. ASSUME NEW w \in Worker, MonitorPurges(w), NEW t \in Slot PROVE Cared(t)'
  <2>1. /\ UNCHANGED <<desired, ctxDone, crashes, slotWorker, boots, boot>>
        /\ mon' = [mon EXCEPT ![w] = IF @ = "crash" THEN "record" ELSE "done"]
        /\ mon[w] \in {"quit", "planned", "crash"} /\ w[1] \in Slot
        /\ pending' = IF mon[w] = "planned"
                      THEN [pending EXCEPT ![w[1]]["planned"] = @ + 1] ELSE pending
    BY <1>4, WorkerParts DEF MonitorPurges
  <2>2. \A k \in Kind : pending[t][k] > 0 => pending'[t][k] > 0
    BY <2>1 DEF TypeOK, Kind
  <2>3. CASE mon[w] = "crash"
    <3>1. mon'[w] = "record" /\ \A v \in Worker : v # w => mon'[v] = mon[v]
      BY <2>1, <2>3 DEF TypeOK
    <3>2. Booting(t) => Booting(t)'
      BY <2>1, <2>2, <3>1 DEF Booting
    <3> QED
      BY <2>1, <3>2 DEF Cared, Exceeded, Exceeds
  <2>4. CASE mon[w] = "planned"
    <3>0. pending[w[1]] \in [Kind -> Nat] /\ "planned" \in Kind
      BY <2>1 DEF TypeOK, Kind
    <3>1. pending'[w[1]]["planned"] > 0 /\ \A v \in Worker : v # w => mon'[v] = mon[v]
      <4>1. pending'[w[1]] = [pending[w[1]] EXCEPT !["planned"] = @ + 1]
        BY <2>1, <2>4 DEF TypeOK
      <4>2. \A v \in Worker : v # w => mon'[v] = mon[v]
        BY <2>1 DEF TypeOK
      <4> QED
        BY <3>0, <4>1, <4>2
    <3>2. Booting(t) => Booting(t)'
      BY <2>1, <2>2, <3>1 DEF Booting, Kind
    <3> QED
      BY <2>1, <3>2 DEF Cared, Exceeded, Exceeds
  <2>5. CASE mon[w] = "quit"
    <3>1. \A v \in Worker : mon[v] # "quit" => mon'[v] = mon[v]
      BY <2>1, <2>5 DEF TypeOK
    <3>2. Booting(t) => Booting(t)'
      BY <2>1, <2>2, <3>1 DEF Booting
    <3> QED
      BY <2>1, <3>2 DEF Cared, Exceeded, Exceeds
  <2> QED
    BY <2>1, <2>3, <2>4, <2>5
<1>5. ASSUME NEW w \in Worker, MonitorRecords(w), NEW t \in Slot PROVE Cared(t)'
  <2>1. /\ UNCHANGED <<desired, ctxDone, slotWorker, boots, boot>>
        /\ mon' = [mon EXCEPT ![w] = "done"] /\ CrashRecorded(w[1]) /\ w[1] \in Slot
    BY <1>5, WorkerParts DEF MonitorRecords
  <2>2. CASE t = w[1]
    BY <2>1, <2>2, CrashCares
  <2>3. CASE t # w[1]
    <3>1. \A v \in Worker : v[1] = t => mon'[v] = mon[v]
      BY <2>1, <2>3 DEF TypeOK
    <3>2. crashes'[t] = crashes[t] /\ pending'[t] = pending[t]
      BY <2>1, <2>3, CrashCares
    <3> QED
      BY <2>1, <3>1, <3>2, Untouched
  <2> QED
    BY <2>2, <2>3
<1>6. ASSUME PurgePop \/ PurgePush, NEW t \in Slot PROVE Cared(t)'
  BY <1>6, Untouched DEF PurgePop, PurgePush
<1> QED
  BY <1>1, <1>2, <1>3, <1>4, <1>5, <1>6 DEF MonitorSteps

LEMMA ScaleCares == ASSUME CareInv, ScaleSteps PROVE \A t \in Slot : Cared(t)'
<1> USE DEF CareInv
<1>1. ASSUME NEW n \in Min..Max, SetDesired(n), NEW t \in Slot PROVE Cared(t)'
  <2>1. /\ desired' = Clamped(n) /\ UNCHANGED <<slotWorker, crashes>>
        /\ boots' = {s \in 1..Clamped(n) : slotWorker[s] = 0 /\ ~Exceeded(s)}
    BY <1>1 DEF SetDesired
  <2>2. Clamped(n) \in 0..Max
    BY PoolAssumption DEF PoolAssumption, Clamped
  <2>3. CASE t <= desired' /\ ~Exceeded(t) /\ slotWorker[t] = 0
    <3>1. t \in boots'
      BY <2>1, <2>2, <2>3 DEF Slot
    <3> QED
      BY <3>1 DEF Cared, Booting
  <2> QED
    BY <2>1, <2>3 DEF Cared, Exceeded, Exceeds
<1>2. ASSUME NEW w \in Worker, ScaleDrains(w), NEW t \in Slot PROVE Cared(t)'
  BY <1>2, Untouched DEF ScaleDrains
<1>3. ASSUME ScaleBoots, NEW t \in Slot PROVE Cared(t)'
  <2>1. /\ UNCHANGED <<desired, ctxDone, crashes, slotWorker, boot, mon>>
        /\ pending'[t] = IF t \in boots THEN [pending[t] EXCEPT !["scale"] = @ + 1]
                         ELSE pending[t]
    BY <1>3 DEF ScaleBoots
  <2>2. pending[t] \in [Kind -> Nat] /\ "scale" \in Kind
    BY DEF TypeOK, Kind
  <2>3. \A k \in Kind : pending[t][k] > 0 => pending'[t][k] > 0
    BY <2>1, <2>2
  <2>4. t \in boots => pending'[t]["scale"] > 0
    BY <2>1, <2>2
  <2> QED
    BY <2>1, <2>2, <2>3, <2>4, Untouched
<1> QED
  BY <1>1, <1>2, <1>3 DEF ScaleSteps

LEMMA InitCares == ASSUME Init PROVE CareInv
<1>1. ASSUME NEW s \in Slot, s <= InitDesired PROVE pending[s]["start"] = 1
  BY <1>1 DEF Init, Kind
<1>2. ASSUME NEW s \in Slot PROVE Cared(s)
  BY <1>1 DEF Init, Cared, Booting, Kind
<1> QED
  BY <1>2, InitTyped DEF CareInv, Init

LEMMA StepCares == ASSUME CareInv, [Next]_vars PROVE CareInv'
<1> USE DEF CareInv
<1>1. TypeOK'
  BY StepTyped
<1>2. (stopping => ctxDone)'
  <2>1. CASE Stop \/ Cancel
    BY <2>1 DEF Stop, Cancel
  <2>2. ASSUME NEW k \in Kind, NEW s \in Slot, BootBegin(s, k) \/ BootRefused(s, k)
        PROVE  UNCHANGED <<stopping, ctxDone>>
    BY <2>2 DEF BootBegin, BootRefused
  <2>3. ASSUME NEW w \in Worker, BootSteps(w) \/ MonitorSteps(w) \/ ProcExit(w)
        PROVE  UNCHANGED <<stopping, ctxDone>>
    BY <2>3 DEF BootSteps, BootFails, BootInstalls, BootTooLate, BootReaps, BootPush,
                MonitorSteps, MonitorStale, MonitorExit, MonitorPurges,
                MonitorRecords, ProcExit
  <2>4. ASSUME NEW r \in Requests, RequestSteps(r) PROVE UNCHANGED <<stopping, ctxDone>>
    BY <2>4 DEF RequestSteps, Arrive, TryMisses, AcquireEnds, Pop, Check, MarkBusy,
                Responds, Discard, DiscardEnds, Release, PutBack
  <2>5. CASE ScaleSteps \/ PurgePop \/ PurgePush \/ StartReturns
    BY <2>5 DEF ScaleSteps, SetDesired, ScaleDrains, ScaleBoots, PurgePop, PurgePush,
                StartReturns
  <2>6. ASSUME NEW t \in terms, TermSignals(t) \/ TermEnds(t)
        PROVE  UNCHANGED <<stopping, ctxDone>>
    BY <2>6 DEF TermSignals, TermEnds
  <2>7. CASE StopIdle \/ StopRest \/ StopKills \/ StopDone \/ UNCHANGED vars
    BY <2>7 DEF StopIdle, StopRest, StopKills, StopDone, vars
  <2> HIDE DEF CareInv
  <2> QED
    BY <2>1, <2>2, <2>3, <2>4, <2>5, <2>6, <2>7 DEF CareInv, Next, ProgramStep, Ended, StopSteps
<1>3. ASSUME NEW r \in Requests, RequestSteps(r), NEW t \in Slot PROVE Cared(t)'
  <2>1. UNCHANGED <<desired, ctxDone, crashes, slotWorker, pending, boots, boot, mon>>
    BY <1>3 DEF RequestSteps, Arrive, TryMisses, AcquireEnds, Pop, Check, MarkBusy,
                Responds, Discard, DiscardEnds, Release, PutBack
  <2> QED
    BY <2>1, Untouched
<1>4. ASSUME StartReturns \/ UNCHANGED vars, NEW t \in Slot PROVE Cared(t)'
  BY <1>4, Untouched DEF StartReturns, vars
<1>5. ASSUME NEW c \in terms, TermSignals(c) \/ TermEnds(c), NEW t \in Slot PROVE Cared(t)'
  BY <1>5, Untouched DEF TermSignals, TermEnds
<1>6. ASSUME StopSteps, NEW t \in Slot PROVE Cared(t)'
  <2>1. /\ UNCHANGED <<desired, crashes, slotWorker, pending, boots, boot, mon>>
        /\ ctxDone => ctxDone'
    BY <1>6 DEF StopSteps, Cancel, Stop, StopIdle, StopRest, StopKills, StopDone
  <2> QED
    BY <2>1, Untouched
<1> HIDE DEF CareInv
<1>7. \A t \in Slot : Cared(t)'
  BY <1>3, <1>4, <1>5, <1>6, BootCares, MonitorCares, ScaleCares
     DEF Next, ProgramStep, Ended
<1> QED
  BY <1>1, <1>2, <1>7 DEF CareInv

\* A slot that should run always has a worker or somebody who will boot one,
\* whatever the order of monitors, timers, failed boots and reconciliations: the
\* duty is handed over, never dropped, until the pool's context ends.
THEOREM SlotsRemembered == Spec => []NoSlotForgotten
<1>1. CareInv => NoSlotForgotten
  BY DEF CareInv, NoSlotForgotten, Cared
<1> QED
  BY <1>1, InitCares, StepCares, PTL DEF Spec

-----------------------------------------------------------------------------
(* What the end of Shutdown rests on                                       *)
(*                                                                         *)
(* That Shutdown returns is left to TLC, for it needs the fairness.  What  *)
(* the fairness works on is proved here: a pool that stops has less to do  *)
(* after each step of a boot or a monitor, and gets nothing new to do.     *)

\* The steps a boot, and a worker's monitor with its process, still have.
BootLeft(w) == CASE boot[w].at = "no" -> 0 [] boot[w].at = "starting" -> 2 [] OTHER -> 1
MonitorLeft(w) ==
    CASE mon[w] = "wait" -> IF proc[w] = "up" THEN 5 ELSE IF proc[w] = "term" THEN 4 ELSE 3
      [] mon[w] \in {"quit", "planned", "crash"} -> 2
      [] mon[w] = "record" -> 1
      [] OTHER -> 0
WorkerLeft(w) == BootLeft(w) + MonitorLeft(w)

\* A step may end the process or bring its end nearer; it may start none.
Fades(w) == proc'[w] = proc[w] \/ (Alive(w) /\ proc'[w] # "up")
NotMore(w) == WorkerLeft(w)' <= WorkerLeft(w)
Less(w) == WorkerLeft(w)' < WorkerLeft(w)
Asks(s) == \E k \in Kind : pending'[s][k] > pending[s][k]

LEMMA FadesNotMore ==
  ASSUME NEW w \in Worker, boot'[w] = boot[w], mon'[w] = mon[w], Fades(w)
  PROVE  NotMore(w)
BY DEF NotMore, WorkerLeft, BootLeft, MonitorLeft, Fades, Alive

LEMMA KilledFades ==
  ASSUME TypeOK, NEW v \in Worker,
         \/ proc' = [proc EXCEPT ![v] = Killed(v)]
         \/ proc' = [proc EXCEPT ![v] = Signalled(v)],
         NEW w \in Worker
  PROVE  Fades(w)
BY DEF TypeOK, Fades, Killed, Signalled, Alive

\* A boot under way in a stopping pool fails, reaps what it started or is done.
LEMMA BootGoesDown ==
  ASSUME TypeOK, stopping, NEW w \in Worker, BootSteps(w)
  PROVE  /\ Less(w) /\ \A v \in Worker : NotMore(v)
         /\ \A s \in Slot : Asks(s) => s = w[1]
<1>1. /\ boot \in [Worker -> Boot] /\ proc \in [Worker -> Proc]
      /\ pending \in [Slot -> [Kind -> Nat]] /\ "crash" \in Kind /\ w[1] \in Slot
  BY WorkerParts DEF TypeOK, Kind
<1>2. /\ mon' = mon
      /\ \/ boot[w].at = "starting" /\ boot' = [boot EXCEPT ![w] = BootAt(w, "reap")]
         \/ boot[w].at # "no" /\ boot' = [boot EXCEPT ![w] = NoBoot]
      /\ proc' = proc \/ proc' = [proc EXCEPT ![w] = Killed(w)]
  BY DEF BootSteps, BootFails, BootInstalls, BootTooLate, BootReaps, BootPush
<1>3. \A v \in Worker : Fades(v)
  BY <1>2, KilledFades DEF Fades
<1>4. BootLeft(w)' < BootLeft(w) /\ BootLeft(w)' \in Nat /\ BootLeft(w) \in Nat
  BY <1>1, <1>2 DEF BootLeft, BootAt, NoBoot
<1>5. MonitorLeft(w)' <= MonitorLeft(w) /\ MonitorLeft(w)' \in Nat /\ MonitorLeft(w) \in Nat
  BY <1>2, <1>3 DEF MonitorLeft, Fades, Alive
<1>6. Less(w)
  BY <1>4, <1>5 DEF Less, WorkerLeft
<1>7. ASSUME NEW v \in Worker PROVE NotMore(v)
  <2>1. CASE v = w
    BY <1>4, <1>5, <2>1 DEF NotMore, WorkerLeft
  <2>2. CASE v # w
    BY <1>1, <1>2, <1>3, <2>2, FadesNotMore
  <2> QED
    BY <2>1, <2>2
<1>8. ASSUME NEW s \in Slot, s # w[1] PROVE ~Asks(s)
  <2>1. pending'[s] = pending[s]
    BY <1>1, <1>8 DEF BootSteps, BootFails, CrashRecorded, BootInstalls, BootTooLate,
                      BootReaps, BootPush
  <2> QED
    BY <1>1, <2>1 DEF Asks
<1> QED
  BY <1>6, <1>7, <1>8

\* A monitor that acts comes nearer to its end.
LEMMA MonitorGoesDown ==
  ASSUME TypeOK, NEW w \in Worker, MonitorSteps(w)
  PROVE  /\ Less(w) /\ \A v \in Worker : NotMore(v)
         /\ \A s \in Slot : Asks(s) => s = w[1]
<1>1. /\ mon \in [Worker -> Monitor] /\ proc \in [Worker -> Proc]
      /\ pending \in [Slot -> [Kind -> Nat]] /\ "crash" \in Kind /\ w[1] \in Slot
  BY WorkerParts DEF TypeOK, Kind
<1>2. boot' = boot /\ \A v \in Worker : v # w => mon'[v] = mon[v] /\ proc'[v] = proc[v]
  BY <1>1 DEF MonitorSteps, MonitorStale, MonitorExit, MonitorPurges, MonitorRecords
<1>3. MonitorLeft(w)' < MonitorLeft(w) /\ MonitorLeft(w)' \in Nat /\ MonitorLeft(w) \in Nat
  <2>1. CASE MonitorStale(w) \/ MonitorExit(w)
    <3>1. mon[w] = "wait" /\ mon'[w] \in {"done", "quit", "planned", "crash"}
      BY <1>1, <2>1 DEF MonitorStale, MonitorExit
    <3> QED
      BY <3>1 DEF MonitorLeft
  <2>2. CASE MonitorPurges(w)
    <3>1. mon[w] \in {"quit", "planned", "crash"} /\ mon'[w] \in {"done", "record"}
      BY <1>1, <2>2 DEF MonitorPurges
    <3> QED
      BY <3>1 DEF MonitorLeft
  <2>3. CASE MonitorRecords(w)
    <3>1. mon[w] = "record" /\ mon'[w] = "done"
      BY <1>1, <2>3 DEF MonitorRecords
    <3> QED
      BY <3>1 DEF MonitorLeft
  <2> QED
    BY <2>1, <2>2, <2>3 DEF MonitorSteps
<1>4. BootLeft(w)' = BootLeft(w) /\ BootLeft(w) \in Nat
  BY <1>2 DEF BootLeft
<1>5. Less(w) /\ NotMore(w)
  BY <1>3, <1>4 DEF Less, NotMore, WorkerLeft
<1>6. ASSUME NEW v \in Worker, v # w PROVE NotMore(v)
  BY <1>2, <1>6, FadesNotMore DEF Fades
<1>7. ASSUME NEW s \in Slot, s # w[1] PROVE ~Asks(s)
  <2>1. pending'[s] = pending[s]
    BY <1>1, <1>7 DEF MonitorSteps, MonitorStale, MonitorExit, MonitorPurges,
                      MonitorRecords, CrashRecorded
  <2> QED
    BY <1>1, <2>1 DEF Asks
<1> QED
  BY <1>5, <1>6, <1>7

GoesDown ==
    stopping =>
      /\ \A w \in Worker : NotMore(w) /\ (BootSteps(w) \/ MonitorSteps(w) => Less(w))
      /\ \A s \in Slot : Asks(s) => \/ s \in boots /\ boots' = {}
                                    \/ \E w \in Worker : w[1] = s /\ Less(w)

\* A step of anybody else lets the pool's work stand or ends a process.
LEMMA OthersGoDown ==
  ASSUME TypeOK, UNCHANGED <<boot, mon>>, \A w \in Worker : Fades(w),
         \A s \in Slot : Asks(s) => s \in boots /\ boots' = {}
  PROVE  /\ \A w \in Worker : NotMore(w)
         /\ \A s \in Slot : Asks(s) => s \in boots /\ boots' = {}
BY FadesNotMore

LEMMA StepGoesDown == ASSUME TypeOK, [Next]_vars PROVE GoesDown
<1> SUFFICES ASSUME stopping PROVE GoesDown
  BY DEF GoesDown
<1>1. /\ proc \in [Worker -> Proc] /\ pending \in [Slot -> [Kind -> Nat]]
      /\ held \in [Requests -> Worker \cup {NoWorker}]
  BY DEF TypeOK
<1>2. \A w \in Worker : BootSteps(w) \/ MonitorSteps(w) => Less(w)
  BY BootGoesDown, MonitorGoesDown
<1> DEFINE Goal == /\ \A w \in Worker : NotMore(w)
                   /\ \A s \in Slot : Asks(s) => \/ s \in boots /\ boots' = {}
                                                 \/ \E w \in Worker : w[1] = s /\ Less(w)
<1>3. ASSUME NEW w \in Worker, BootSteps(w) \/ MonitorSteps(w) PROVE Goal
  BY <1>3, BootGoesDown, MonitorGoesDown
\* Nobody else asks for a boot but the rest of a SetDesired call.
<1>4. ASSUME pending' = pending PROVE \A s \in Slot : ~Asks(s)
  BY <1>1, <1>4 DEF Asks
<1>5. ASSUME UNCHANGED <<boot, mon, pending>>, \A w \in Worker : Fades(w) PROVE Goal
  BY <1>4, <1>5, OthersGoDown
<1> HIDE DEF Goal
<1>6. ASSUME NEW s \in Slot, NEW k \in Kind, BootBegin(s, k) \/ BootRefused(s, k) PROVE Goal
  <2>1. /\ UNCHANGED <<boot, mon, proc>>
        /\ pending' = [pending EXCEPT ![s][k] = @ - 1]
    BY <1>6 DEF BootBegin, BootRefused
  <2>2. \A u \in Slot : ~Asks(u)
    BY <1>1, <2>1 DEF Asks
  <2> QED
    BY <2>1, <2>2, OthersGoDown DEF Fades, Goal
<1>7. ASSUME NEW w \in Worker, ProcExit(w) PROVE Goal
  <2>1. /\ UNCHANGED <<boot, mon, pending>> /\ Alive(w)
        /\ \E p \in {"clean", "fail"} : proc' = [proc EXCEPT ![w] = p]
    BY <1>7 DEF ProcExit
  <2>2. \A v \in Worker : Fades(v)
    BY <1>1, <2>1 DEF Fades
  <2> QED
    BY <1>5, <2>1, <2>2
<1>8. ASSUME NEW r \in Requests, RequestSteps(r) PROVE Goal
  <2>1. UNCHANGED <<boot, mon, pending>>
    BY <1>8 DEF RequestSteps, Arrive, TryMisses, AcquireEnds, Pop, Check, MarkBusy,
                Responds, Discard, DiscardEnds, Release, PutBack
  <2>2. \/ proc' = proc
        \/ /\ at[r] \in {"busy", "answered", "recycle", "discard"}
           /\ \/ proc' = [proc EXCEPT ![held[r]] = Killed(held[r])]
              \/ proc' = [proc EXCEPT ![held[r]] = Signalled(held[r])]
    BY <1>8 DEF RequestSteps, Arrive, TryMisses, AcquireEnds, Pop, Check, MarkBusy,
                Responds, Discard, DiscardEnds, Release, PutBack
  <2>3. at[r] \in {"busy", "answered", "recycle", "discard"} => held[r] \in Worker
    BY <1>1 DEF TypeOK
  <2>4. \A v \in Worker : Fades(v)
    BY <2>2, <2>3, KilledFades DEF Fades
  <2> QED
    BY <1>5, <2>1, <2>4
<1>9. ASSUME ScaleSteps PROVE Goal
  <2>1. UNCHANGED <<boot, mon, proc>>
    BY <1>9 DEF ScaleSteps, SetDesired, ScaleDrains, ScaleBoots
  <2>2. ASSUME NEW s \in Slot, Asks(s) PROVE s \in boots /\ boots' = {}
    <3>1. CASE ScaleBoots
      <4>1. s \notin boots => pending'[s] = pending[s]
        BY <3>1 DEF ScaleBoots
      <4> QED
        BY <1>1, <2>2, <3>1, <4>1 DEF ScaleBoots, Asks
    <3>2. CASE pending' = pending
      BY <1>4, <2>2, <3>2
    <3> QED
      BY <1>9, <3>1, <3>2 DEF ScaleSteps, SetDesired, ScaleDrains
  <2> QED
    BY <2>1, <2>2, OthersGoDown DEF Fades, Goal
<1>10. ASSUME NEW t \in terms, TermSignals(t) \/ TermEnds(t) PROVE Goal
  <2>1. /\ UNCHANGED <<boot, mon, pending>> /\ t.w \in Worker
        /\ \/ proc' = [proc EXCEPT ![t.w] = Killed(t.w)]
           \/ proc' = [proc EXCEPT ![t.w] = Signalled(t.w)]
    BY <1>10 DEF TermSignals, TermEnds, TypeOK, Term
  <2>2. \A v \in Worker : Fades(v)
    BY <2>1, KilledFades
  <2> QED
    BY <1>5, <2>1, <2>2
<1>11. ASSUME StopSteps PROVE Goal
  <2>1. /\ UNCHANGED <<boot, mon, pending>>
        /\ \/ proc' = proc
           \/ proc' = [w \in Worker |-> IF Current(w) THEN Killed(w) ELSE proc[w]]
    BY <1>11 DEF StopSteps, Cancel, Stop, StopIdle, StopRest, StopKills, StopDone
  <2>2. \A v \in Worker : Fades(v)
    BY <2>1 DEF Fades, Killed, Alive
  <2> QED
    BY <1>5, <2>1, <2>2
<1>12. ASSUME StartReturns \/ PurgePop \/ PurgePush \/ UNCHANGED vars PROVE Goal
  <2>1. UNCHANGED <<boot, mon, pending, proc>>
    BY <1>12 DEF StartReturns, PurgePop, PurgePush, vars
  <2> QED
    BY <1>5, <2>1 DEF Fades
<1>13. Goal
  BY <1>3, <1>6, <1>7, <1>8, <1>9, <1>10, <1>11, <1>12 DEF Next, ProgramStep, Ended
<1> QED
  BY <1>2, <1>13 DEF GoesDown, Goal

\* What the pool has under way only shrinks once Shutdown has begun (the ends of
\* bootSlot, monitor and scheduleRestart after p.stopping): each step of a boot
\* or of a monitor brings its worker nearer to the end, no step of anybody takes
\* one back, and a boot is asked for only by a monitor or a boot that ended, or by
\* the SetDesired that was still handing out its own.
THEOREM StoppingGoesDown == Spec => [][GoesDown]_vars
<1>1. TypeOK /\ [Next]_vars => [GoesDown]_vars
  BY StepGoesDown
<1> QED
  BY <1>1, Typing, PTL DEF Spec

-----------------------------------------------------------------------------
(* The workers that were told to go                                        *)

Begun(w) == w[2] <= generation[w[1]]
\* SetDesired's drain, and terminateWorker in its goroutine or in Shutdown.
ToldToGo(w) == w \in drains \/ \E t \in terms : t.w = w
ToldBegun == \A w \in Worker : ToldToGo(w) => Begun(w)
Parting(w) == ToldToGo(w) \/ (Begun(w) /\ ~Alive(w))

\* A generation that was begun stays so, and its process does not come back.
Mortal(w) == Begun(w)' /\ (Alive(w)' => Alive(w))

LEMMA StepMortal == ASSUME TypeOK, [Next]_vars, NEW w \in Worker, Begun(w) PROVE Mortal(w)
<1>1. /\ proc \in [Worker -> Proc] /\ generation \in [Slot -> 0..MaxGen] /\ w[1] \in Slot
  BY WorkerParts DEF TypeOK
<1>2. ASSUME UNCHANGED generation,
             \/ proc' = proc
             \/ \E v \in Worker, p \in Proc : /\ proc' = [proc EXCEPT ![v] = p]
                                              /\ p \in {"up", "term"} => Alive(v)
      PROVE  Mortal(w)
  BY <1>1, <1>2 DEF Mortal, Begun, Alive
<1>3. \A v \in Worker : /\ Killed(v) \in Proc /\ Signalled(v) \in Proc
                        /\ Killed(v) \in {"up", "term"} => Alive(v)
                        /\ Signalled(v) \in {"up", "term"} => Alive(v)
  BY KilledTyped DEF Killed, Signalled, Alive
<1>4. ASSUME NEW s \in Slot, NEW k \in Kind, BootBegin(s, k) PROVE Mortal(w)
  <2>1. /\ generation' = [generation EXCEPT ![s] = @ + 1]
        /\ \E p \in {"none", "up"} : proc' = [proc EXCEPT ![<<s, generation[s] + 1>>] = p]
    BY <1>4 DEF BootBegin
  <2>2. w[2] \in Int /\ w # <<s, generation[s] + 1>>
    BY <1>1, WorkerParts DEF Begun
  <2>3. proc'[w] = proc[w]
    BY <1>1, <2>1, <2>2
  <2>4. Begun(w)'
    BY <1>1, <2>1, <2>2 DEF Begun
  <2> QED
    BY <2>3, <2>4 DEF Mortal, Alive
<1>5. ASSUME NEW s \in Slot, NEW k \in Kind, BootRefused(s, k) PROVE Mortal(w)
  BY <1>2, <1>5 DEF BootRefused
<1>6. ASSUME NEW v \in Worker, BootSteps(v) PROVE Mortal(w)
  <2>1. UNCHANGED generation /\ (proc' = proc \/ proc' = [proc EXCEPT ![v] = Killed(v)])
    BY <1>6 DEF BootSteps, BootFails, BootInstalls, BootTooLate, BootReaps, BootPush
  <2> QED
    BY <1>2, <1>3, <2>1
<1>7. ASSUME NEW v \in Worker, MonitorSteps(v) \/ ProcExit(v) PROVE Mortal(w)
  <2>1. /\ UNCHANGED generation
        /\ \/ proc' = proc
           \/ \E p \in {"clean", "fail", "reaped"} : proc' = [proc EXCEPT ![v] = p]
    BY <1>7 DEF MonitorSteps, MonitorStale, MonitorExit, MonitorPurges, MonitorRecords,
                ProcExit
  <2> QED
    BY <1>2, <2>1 DEF Proc
<1>8. ASSUME NEW r \in Requests, RequestSteps(r) PROVE Mortal(w)
  <2>1. UNCHANGED generation
    BY <1>8 DEF RequestSteps, Arrive, TryMisses, AcquireEnds, Pop, Check, MarkBusy,
                Responds, Discard, DiscardEnds, Release, PutBack
  <2>2. \/ proc' = proc
        \/ /\ at[r] \in {"busy", "answered", "recycle", "discard"}
           /\ \/ proc' = [proc EXCEPT ![held[r]] = Killed(held[r])]
              \/ proc' = [proc EXCEPT ![held[r]] = Signalled(held[r])]
    BY <1>8 DEF RequestSteps, Arrive, TryMisses, AcquireEnds, Pop, Check, MarkBusy,
                Responds, Discard, DiscardEnds, Release, PutBack
  <2>3. at[r] \in {"busy", "answered", "recycle", "discard"} => held[r] \in Worker
    BY DEF TypeOK
  <2> QED
    BY <1>2, <1>3, <2>1, <2>2, <2>3
<1>9. ASSUME NEW t \in terms, TermSignals(t) \/ TermEnds(t) PROVE Mortal(w)
  <2>1. /\ UNCHANGED generation /\ t.w \in Worker
        /\ \/ proc' = [proc EXCEPT ![t.w] = Killed(t.w)]
           \/ proc' = [proc EXCEPT ![t.w] = Signalled(t.w)]
    BY <1>9 DEF TermSignals, TermEnds, TypeOK, Term
  <2> QED
    BY <1>2, <1>3, <2>1
<1>10. CASE StopKills
  <2>1. /\ UNCHANGED generation
        /\ proc' = [v \in Worker |-> IF Current(v) THEN Killed(v) ELSE proc[v]]
    BY <1>10 DEF StopKills
  <2> QED
    BY <1>3, <2>1 DEF Mortal, Begun, Alive
<1>11. CASE \/ ScaleSteps \/ StartReturns \/ PurgePop \/ PurgePush \/ UNCHANGED vars
            \/ Cancel \/ Stop \/ StopIdle \/ StopRest \/ StopDone
  <2>1. UNCHANGED <<generation, proc>>
    BY <1>11 DEF ScaleSteps, SetDesired, ScaleDrains, ScaleBoots, StartReturns, PurgePop,
                 PurgePush, vars, Cancel, Stop, StopIdle, StopRest, StopDone
  <2> QED
    BY <1>2, <2>1
<1> QED
  BY <1>4, <1>5, <1>6, <1>7, <1>8, <1>9, <1>10, <1>11 DEF Next, ProgramStep, Ended, StopSteps

\* Only workers of the pool are told to go, and nobody lets one go untold but by
\* killing it.
Told(w) == /\ ToldToGo(w) => ToldToGo(w)' \/ ~Alive(w)'
           /\ ToldToGo(w)' => ToldToGo(w) \/ Begun(w)

LEMMA StepTold == ASSUME LeaseInv, [Next]_vars, NEW w \in Worker PROVE Told(w)
<1>1. TypeOK /\ terms \in SUBSET Term /\ proc \in [Worker -> Proc]
      /\ \A t \in Term : t.w \in Worker
  BY DEF LeaseInv, TypeOK, Term
\* A worker that was installed is of a generation that was begun.
<1>2. \A v \in Worker : wstate[v] # "none" => Begun(v)
  BY WorkerParts DEF LeaseInv, UninstalledNone, Uninstalled, Begun, TypeOK
<1>3. \A s \in Slot : slotWorker[s] # 0 => Begun(<<s, slotWorker[s]>>)
  BY <1>1, <1>2, SlotWorkerTyped DEF LeaseInv, SlotOut
<1>4. ASSUME UNCHANGED <<drains, terms>> PROVE Told(w)
  BY <1>4 DEF Told, ToldToGo
<1>5. ASSUME NEW n \in Min..Max, SetDesired(n) PROVE Told(w)
  <2>1. /\ drains = {} /\ terms' = terms
        /\ w \in drains' => \E s \in (Clamped(n) + 1)..Max : w = <<s, slotWorker[s]>>
    BY <1>5 DEF SetDesired
  <2>2. w \in drains' => w[2] = slotWorker[w[1]] /\ w[2] # 0 /\ w = <<w[1], w[2]>>
    BY <2>1 DEF Worker, Gen
  <2>3. w \in drains' => Begun(w)
    BY <1>3, <2>2, WorkerParts
  <2> QED
    BY <2>1, <2>3 DEF Told, ToldToGo
<1>6. ASSUME NEW v \in Worker, ScaleDrains(v) PROVE Told(w)
  <2>1. /\ v \in drains /\ drains' = drains \ {v}
        /\ terms' = terms \cup {[w |-> v, by |-> "scale", stage |-> "signal"]}
    BY <1>6 DEF ScaleDrains
  <2>2. [w |-> v, by |-> "scale", stage |-> "signal"].w = v
    OBVIOUS
  <2>3. (\E t \in terms' : t.w = w) <=> (w = v \/ \E t \in terms : t.w = w)
    BY <2>1, <2>2
  <2> QED
    BY <2>1, <2>3 DEF Told, ToldToGo
<1>7. ASSUME NEW t \in terms, TermSignals(t) PROVE Told(w)
  <2>1. /\ UNCHANGED drains
        /\ terms' = (terms \ {t}) \cup {[w |-> t.w, by |-> t.by, stage |-> "grace"]}
    BY <1>7 DEF TermSignals
  <2>2. [w |-> t.w, by |-> t.by, stage |-> "grace"].w = t.w
    OBVIOUS
  <2>3. (\E c \in terms' : c.w = w) <=> (\E c \in terms : c.w = w)
    BY <2>1, <2>2
  <2> QED
    BY <2>1, <2>3 DEF Told, ToldToGo
<1>8. ASSUME NEW t \in terms, TermEnds(t) PROVE Told(w)
  <2>1. /\ UNCHANGED drains /\ terms' = terms \ {t} /\ t.w \in Worker
        /\ proc' = [proc EXCEPT ![t.w] = Killed(t.w)]
    BY <1>1, <1>8 DEF TermEnds
  <2>2. proc'[t.w] \notin {"up", "term"}
    BY <1>1, <2>1 DEF Killed, Alive
  <2> QED
    BY <2>1, <2>2 DEF Told, ToldToGo, Alive
<1>9. CASE StopIdle
  <2>1. /\ idle # <<>> /\ UNCHANGED drains
        /\ terms' = terms \cup {[w |-> Head(idle), by |-> "stop", stage |-> "signal"]}
    BY <1>9 DEF StopIdle
  <2>2. Head(idle) \in Worker /\ Has(idle, Head(idle))
    BY <1>1, <2>1, PopTyped DEF Has, TypeOK
  <2>3. Begun(Head(idle))
    BY <1>2, <2>2 DEF LeaseInv, NoneOut, Offered
  <2> QED
    BY <2>1, <2>3 DEF Told, ToldToGo
<1>10. CASE StopRest
  <2>1. /\ UNCHANGED drains
        /\ terms' = terms \cup [w : {<<s, slotWorker[s]>> : s \in Installed},
                                by : {"stop"}, stage : {"signal"}]
    BY <1>10 DEF StopRest
  <2> QED
    BY <1>3, <2>1 DEF Told, ToldToGo, Installed
<1>11. CASE ~ScaleSteps /\ ~StopIdle /\ ~StopRest
            /\ \A t \in terms : ~TermSignals(t) /\ ~TermEnds(t)
  <2>1. UNCHANGED <<drains, terms>>
    <3>1. ASSUME NEW s \in Slot, NEW k \in Kind, BootBegin(s, k) \/ BootRefused(s, k)
          PROVE  UNCHANGED <<drains, terms>>
      BY <3>1 DEF BootBegin, BootRefused
    <3>2. ASSUME NEW v \in Worker, BootSteps(v) \/ MonitorSteps(v) \/ ProcExit(v)
          PROVE  UNCHANGED <<drains, terms>>
      BY <3>2 DEF BootSteps, BootFails, BootInstalls, BootTooLate, BootReaps, BootPush,
                  MonitorSteps, MonitorStale, MonitorExit, MonitorPurges,
                  MonitorRecords, ProcExit
    <3>3. ASSUME NEW r \in Requests, RequestSteps(r) PROVE UNCHANGED <<drains, terms>>
      BY <3>3 DEF RequestSteps, Arrive, TryMisses, AcquireEnds, Pop, Check, MarkBusy,
                  Responds, Discard, DiscardEnds, Release, PutBack
    <3>4. ASSUME \/ StartReturns \/ PurgePop \/ PurgePush \/ Cancel \/ Stop \/ StopKills
                 \/ StopDone \/ UNCHANGED vars
          PROVE  UNCHANGED <<drains, terms>>
      BY <3>4 DEF StartReturns, PurgePop, PurgePush, Cancel, Stop, StopKills, StopDone, vars
    <3> QED
      BY <1>11, <3>1, <3>2, <3>3, <3>4 DEF Next, ProgramStep, Ended, StopSteps
  <2> QED
    BY <1>4, <2>1
<1>12. ScaleSteps => \/ \E n \in Min..Max : SetDesired(n)
                     \/ \E v \in Worker : ScaleDrains(v)
                     \/ UNCHANGED <<drains, terms>>
  BY DEF ScaleSteps, ScaleBoots
<1> QED
  BY <1>4, <1>5, <1>6, <1>7, <1>8, <1>9, <1>10, <1>11, <1>12

\* A worker that a scale-down or Shutdown has picked is never forgotten (pool.go:
\* SetDesired's toDrain, terminateWorker): until its process is gone somebody is
\* about to signal it, or waits to kill it, and a process that is gone stays gone.
THEOREM PickedNeverForgotten ==
  Spec => [][\A w \in Worker : Parting(w) => Parting(w)']_vars
<1>1. Init => LeaseInv /\ ToldBegun
  <2> SUFFICES ASSUME Init PROVE LeaseInv /\ ToldBegun
    OBVIOUS
  <2> QED
    BY InitLease DEF Init, ToldBegun, ToldToGo
<1>2. ASSUME LeaseInv, ToldBegun, [Next]_vars, NEW w \in Worker
      PROVE  /\ ToldToGo(w)' => Begun(w)'
             /\ Parting(w) => Parting(w)'
  <2>1. Told(w) /\ (Begun(w) => Mortal(w))
    BY <1>2, StepTold, StepMortal DEF LeaseInv
  <2> QED
    BY <1>2, <2>1 DEF Told, Mortal, ToldBegun, Parting
<1>3. LeaseInv /\ ToldBegun /\ [Next]_vars => LeaseInv' /\ ToldBegun'
  <2> SUFFICES ASSUME LeaseInv, ToldBegun, [Next]_vars PROVE LeaseInv' /\ ToldBegun'
    OBVIOUS
  <2>1. ToldBegun'
    BY <1>2 DEF ToldBegun
  <2> QED
    BY <2>1, StepLease
<1>4. LeaseInv /\ ToldBegun /\ [Next]_vars
        => [\A w \in Worker : Parting(w) => Parting(w)']_vars
  BY <1>2
<1> QED
  BY <1>1, <1>3, <1>4, PTL DEF Spec

-----------------------------------------------------------------------------
(* What the end of a request, and of a purge, rests on                     *)

\* The steps a handler that was given a worker still has with it.
ServeLeft(r) ==
    CASE at[r] = "claimed" -> 4 [] at[r] = "busy" -> 3
      [] at[r] \in {"answered", "recycle", "discard"} -> 2
      [] at[r] = "putBack" -> 1 [] OTHER -> 0
\* Each round of purgeIdle's loop receives once and sends back once at most.
PurgeLeft == IF LockFree THEN 0
             ELSE IF purge.hand = NoWorker THEN 2 * purge.left ELSE 2 * purge.left - 1

ServesOn(r) ==
    /\ RequestSteps(r) /\ ServeLeft(r) > 0 => ServeLeft(r)' < ServeLeft(r)
    /\ ServeLeft(r) > 0 => \/ at'[r] = at[r] /\ held'[r] = held[r]
                           \/ ServeLeft(r)' < ServeLeft(r)
PurgesOn == ~LockFree => purge' = purge \/ PurgeLeft' < PurgeLeft

LEMMA PurgeStepsOn == ASSUME TypeOK, PurgePop \/ PurgePush PROVE PurgesOn
<1>1. /\ ~LockFree /\ purge.left \in Nat \ {0}
      /\ purge.hand \in Worker \cup {NoWorker}
  <2>1. purge # NoPurge
    BY DEF PurgePop, PurgePush, LockFree, NoPurge
  <2> QED
    BY <2>1 DEF TypeOK, Purge, LockFree
<1>2. CASE purge' = NoPurge
  BY <1>1, <1>2 DEF PurgesOn, PurgeLeft, LockFree
<1>3. CASE purge' # NoPurge /\ purge.hand # NoWorker
  <2>1. PurgeStepDone(NoWorker)
    BY <1>3 DEF PurgePop, PurgePush
  <2>2. purge'.left = purge.left - 1 /\ purge'.hand = NoWorker
    BY <1>3, <2>1 DEF PurgeStepDone
  <2> QED
    BY <1>1, <1>3, <2>2 DEF PurgesOn, PurgeLeft, LockFree
<1>4. CASE purge' # NoPurge /\ purge.hand = NoWorker
  <2>1. \E h : PurgeStepDone(h)
    BY <1>3, <1>4 DEF PurgePop, PurgePush
  <2>2. \/ purge'.hand = NoWorker /\ purge'.left = purge.left - 1
        \/ purge'.hand # NoWorker /\ purge'.left = purge.left
    BY <2>1, <1>4 DEF PurgeStepDone
  <2> QED
    BY <1>1, <1>4, <2>2 DEF PurgesOn, PurgeLeft, LockFree
<1> QED
  BY <1>2, <1>3, <1>4

LEMMA RequestServesOn ==
  ASSUME TypeOK, NEW r \in Requests, RequestSteps(r), NEW q \in Requests
  PROVE  /\ ServeLeft(r) > 0 => ServeLeft(r)' < ServeLeft(r)
         /\ q # r => at'[q] = at[q] /\ held'[q] = held[q]
<1>1. at \in [Requests -> ReqAt] /\ held \in [Requests -> Worker \cup {NoWorker}]
  BY DEF TypeOK
<1>2. q # r => at'[q] = at[q] /\ held'[q] = held[q]
  BY <1>1 DEF RequestSteps, Arrive, TryMisses, AcquireEnds, Pop, Check, MarkBusy,
              Responds, Discard, DiscardEnds, Release, PutBack, Leaves, Goes
<1>3. CASE Arrive(r) \/ TryMisses(r) \/ AcquireEnds(r) \/ Pop(r) \/ Check(r)
  BY <1>2, <1>3 DEF Arrive, TryMisses, AcquireEnds, Pop, Check, ServeLeft
<1>4. CASE MarkBusy(r) \/ Responds(r) \/ Discard(r)
  <2>1. \/ at[r] = "claimed" /\ at'[r] = "busy"
        \/ at[r] = "busy" /\ at'[r] \in {"answered", "recycle", "discard", "off"}
    BY <1>1, <1>4 DEF MarkBusy, Responds, Discard, Leaves, Goes
  <2> QED
    BY <1>2, <2>1 DEF ServeLeft
<1>5. CASE DiscardEnds(r) \/ Release(r) \/ PutBack(r)
  <2>1. \/ at[r] = "discard" /\ at'[r] = "off"
        \/ at[r] \in {"answered", "recycle"} /\ at'[r] \in {"off", "putBack"}
        \/ at[r] = "putBack" /\ at'[r] = "off"
    BY <1>1, <1>5 DEF DiscardEnds, Release, PutBack, Leaves, Goes
  <2> QED
    BY <1>2, <2>1 DEF ServeLeft
<1> QED
  BY <1>3, <1>4, <1>5 DEF RequestSteps

LEMMA StepServesOn ==
  ASSUME TypeOK, [Next]_vars
  PROVE  PurgesOn /\ \A r \in Requests : ServesOn(r)
<1>1. ASSUME UNCHANGED <<at, held>> PROVE \A r \in Requests : ServesOn(r)
  BY <1>1, RequestServesOn DEF ServesOn
<1>2. ASSUME LockFree \/ purge' = purge PROVE PurgesOn
  BY <1>2 DEF PurgesOn
<1>3. ASSUME NEW s \in Slot, NEW k \in Kind, BootBegin(s, k) \/ BootRefused(s, k)
      PROVE  UNCHANGED <<at, held>> /\ LockFree
  BY <1>3 DEF BootBegin, BootRefused
<1>4. ASSUME NEW w \in Worker, BootSteps(w) \/ MonitorSteps(w) \/ ProcExit(w)
      PROVE  UNCHANGED <<at, held>> /\ (LockFree \/ purge' = purge)
  BY <1>4 DEF BootSteps, BootFails, BootInstalls, BootTooLate, BootReaps, BootPush,
              MonitorSteps, MonitorStale, MonitorExit, MonitorPurges, MonitorRecords,
              PurgeBegins, ProcExit
<1>5. ASSUME NEW q \in Requests, RequestSteps(q)
      PROVE  PurgesOn /\ \A r \in Requests : ServesOn(r)
  <2>1. purge' = purge
    BY <1>5 DEF RequestSteps, Arrive, TryMisses, AcquireEnds, Pop, Check, MarkBusy,
                Responds, Discard, DiscardEnds, Release, PutBack
  <2>2. \A r \in Requests : ServesOn(r)
    BY <1>5, RequestServesOn DEF ServesOn
  <2> QED
    BY <1>2, <2>1, <2>2
<1>6. ASSUME \/ ScaleSteps \/ StartReturns \/ StopSteps \/ UNCHANGED vars
             \/ \E t \in terms : TermSignals(t) \/ TermEnds(t)
      PROVE  UNCHANGED <<at, held>> /\ (LockFree \/ purge' = purge)
  BY <1>6 DEF ScaleSteps, SetDesired, ScaleDrains, PurgeBegins, ScaleBoots, StartReturns,
              StopSteps, Cancel, Stop, StopIdle, StopRest, StopKills, StopDone, vars,
              TermSignals, TermEnds
<1>7. ASSUME PurgePop \/ PurgePush PROVE UNCHANGED <<at, held>> /\ PurgesOn
  BY <1>7, PurgeStepsOn DEF PurgePop, PurgePush
<1> QED
  BY <1>1, <1>2, <1>3, <1>4, <1>5, <1>6, <1>7 DEF Next, ProgramStep, Ended

\* A handler that was given a worker is through with it in four steps of its own
\* (setState, Send, Release or Discard, the send on p.idle), which nobody takes
\* back or does for it, and the lock those steps wait for is not kept: purgeIdle
\* comes to its end whatever other handlers put on the channel meanwhile.
THEOREM ServingGoesOn == Spec => [][PurgesOn /\ \A r \in Requests : ServesOn(r)]_vars
<1>1. TypeOK /\ [Next]_vars => [PurgesOn /\ \A r \in Requests : ServesOn(r)]_vars
  BY StepServesOn
<1> QED
  BY <1>1, Typing, PTL DEF Spec

=============================================================================
