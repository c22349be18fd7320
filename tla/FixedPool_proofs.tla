--------------------------- MODULE FixedPool_proofs ---------------------------
(***************************************************************************)
(* What WorkerPool keeps when nobody calls SetDesired: the four properties *)
(* that scaling breaks (PoolDoubleBoot, PoolBusyDrained, PoolOrphan show   *)
(* how), for every number of slots, requests and generations.              *)
(*                                                                         *)
(* The argument: without scaling a slot is under way at most once, as a    *)
(* boot that was asked for, one in progress, or a worker with its monitor. *)
(* Each step hands this one duty over, so two processes of a slot never    *)
(* meet, a slot over its limit has none, and what Shutdown waits for is    *)
(* all there is.                                                           *)
(***************************************************************************)
EXTENDS WorkerPool_proofs

USE DEF poolVars, slotVars, workVars, chanVars, reqVars, scaleVars,
        unchangedByRequest


Hands == {"starting", "doomed", "reap"}
Duty(w) == boot[w].at \in Hands \/ mon[w] \notin {"none", "done"}

\* A slot is under way once.
OneDuty(s) ==
    /\ \A k \in Kind : pending[s][k] <= 1
    /\ \A j, k \in Kind : pending[s][j] > 0 /\ pending[s][k] > 0 => j = k
    /\ \A w \in Worker : w[1] = s /\ Duty(w) => \A k \in Kind : pending[s][k] = 0
    /\ \A v, w \in Worker : v[1] = s /\ w[1] = s /\ Duty(v) /\ Duty(w) => v = w

\* The monitor of the slot's worker waits, and no other; a process that runs is
\* the slot's, or a boot has it in hand.
InHand(s) ==
    \A w \in Worker : w[1] = s =>
      /\ (mon[w] = "wait") <=> Current(w)
      /\ Alive(w) => boot[w].at \in Hands \/ mon[w] = "wait"
      /\ boot[w].at \in Hands => mon[w] = "none"

Spent(s) == Exceeded(s) => slotWorker[s] = 0 /\ ~Booting(s)

\* Whoever boots is counted by p.wg, once Start has returned.
Counted(s) ==
    /\ pending[s]["scale"] = 0
    /\ phase # "starting" => pending[s]["start"] = 0
    /\ \A w \in Worker : w[1] = s /\ boot[w].at # "no" =>
          /\ boot[w].kind # "scale"
          /\ phase # "starting" => boot[w].kind # "start"

Whole(s) == OneDuty(s) /\ InHand(s) /\ Spent(s) /\ Counted(s)
Unscaled == boots = {} /\ drains = {}
FixedInv == LeaseInv /\ Unscaled /\ \A s \in Slot : Whole(s)

-----------------------------------------------------------------------------
(* Slots                                                                   *)

\* A slot a step does not touch stays as it is.
LEMMA Untroubled ==
  ASSUME NEW s \in Slot, Whole(s), boots = {}, boots' = {}, phase' = phase,
         pending'[s] = pending[s], crashes'[s] = crashes[s],
         slotWorker'[s] = slotWorker[s],
         \A w \in Worker : w[1] = s =>
            /\ boot'[w] = boot[w] \/ (boot[w].at = "push" /\ boot'[w] = NoBoot)
            /\ mon'[w] = mon[w]
            /\ proc'[w] \in {"up", "term"} => Alive(w)
  PROVE  Whole(s)'
<1>1. \A w \in Worker : w[1] = s => /\ Duty(w)' <=> Duty(w)
                                    /\ (boot'[w].at \in Hands) <=> (boot[w].at \in Hands)
                                    /\ boot'[w].at # "no" => boot'[w] = boot[w]
  BY DEF Duty, Hands, NoBoot
<1>2. OneDuty(s)'
  BY <1>1 DEF Whole, OneDuty
<1>3. InHand(s)'
  BY <1>1 DEF Whole, InHand, Current, Alive
<1>4. Booting(s)' => Booting(s)
  BY DEF Booting, NoBoot
<1>5. Spent(s)'
  BY <1>4 DEF Whole, Spent, Exceeded, Exceeds
<1>6. Counted(s)'
  BY <1>1 DEF Whole, Counted
<1> QED
  BY <1>2, <1>3, <1>5, <1>6 DEF Whole

\* The slot whose duty is with w: nothing else of it is under way.
LEMMA Alone ==
  ASSUME TypeOK, NEW w \in Worker, Whole(w[1]), Duty(w)
  PROVE  /\ \A k \in Kind : pending[w[1]][k] = 0
         /\ \A v \in Worker : v[1] = w[1] /\ v # w =>
               /\ boot[v].at \notin Hands /\ mon[v] \in {"none", "done"}
               /\ ~Alive(v) /\ ~Current(v)
<1>1. \A k \in Kind : pending[w[1]][k] = 0
  BY DEF Whole, OneDuty
<1>2. ASSUME NEW v \in Worker, v[1] = w[1], v # w
      PROVE  /\ boot[v].at \notin Hands /\ mon[v] \in {"none", "done"}
             /\ ~Alive(v) /\ ~Current(v)
  <2>1. ~Duty(v)
    BY <1>2 DEF Whole, OneDuty
  <2> QED
    BY <1>2, <2>1 DEF Duty, Whole, InHand
<1> QED
  BY <1>1, <1>2

\* A slot whose worker is another's or nobody's has none.
LEMMA Empty ==
  ASSUME TypeOK, NEW s \in Slot, \A w \in Worker : w[1] = s => ~Current(w)
  PROVE  slotWorker[s] = 0
<1>1. slotWorker[s] # 0 => <<s, slotWorker[s]>> \in Worker
  BY SlotWorkerTyped
<1> QED
  BY <1>1 DEF Current

\* A slot that waits for its boot has nothing else.
LEMMA Asked ==
  ASSUME TypeOK, NEW s \in Slot, NEW k \in Kind, Whole(s), pending[s][k] > 0
  PROVE  /\ pending[s][k] = 1 /\ \A j \in Kind \ {k} : pending[s][j] = 0
         /\ \A w \in Worker : w[1] = s => /\ boot[w].at \notin Hands
                                          /\ mon[w] \in {"none", "done"}
                                          /\ ~Alive(w) /\ ~Current(w)
         /\ slotWorker[s] = 0 /\ ~Exceeded(s)
<1>1. pending[s] \in [Kind -> Nat]
  BY DEF TypeOK
<1>2. pending[s][k] = 1 /\ \A j \in Kind \ {k} : pending[s][j] = 0
  BY <1>1 DEF Whole, OneDuty
<1>3. ASSUME NEW w \in Worker, w[1] = s
      PROVE  /\ boot[w].at \notin Hands /\ mon[w] \in {"none", "done"}
             /\ ~Alive(w) /\ ~Current(w)
  <2>1. ~Duty(w)
    BY <1>2, <1>3 DEF Whole, OneDuty
  <2> QED
    BY <1>3, <2>1 DEF Duty, Whole, InHand
<1>4. slotWorker[s] = 0
  BY <1>3, Empty
<1>5. ~Exceeded(s)
  BY DEF Whole, Spent, Booting
<1> QED
  BY <1>2, <1>3, <1>4, <1>5

\* The crash that ends a slot's duty leaves a timer, or a slot over its limit
\* with nothing under way.
LEMMA Recorded ==
  ASSUME TypeOK, NEW s \in Slot, CrashRecorded(s), \A k \in Kind : pending[s][k] = 0
  PROVE  /\ \A k \in Kind \ {"crash"} : pending'[s][k] = 0
         /\ pending'[s]["crash"] \in {0, 1}
         /\ Exceeded(s)' => pending'[s]["crash"] = 0
         /\ \A t \in Slot : t # s => crashes'[t] = crashes[t] /\ pending'[t] = pending[t]
<1>1. PICK n \in 1..(crashes[s] + 1) :
        /\ crashes' = [crashes EXCEPT ![s] = n]
        /\ pending' = IF Exceeds(n) THEN pending ELSE [pending EXCEPT ![s]["crash"] = @ + 1]
  BY DEF CrashRecorded
<1>2. /\ crashes \in [Slot -> Nat] /\ pending \in [Slot -> [Kind -> Nat]] /\ "crash" \in Kind
  BY DEF TypeOK, Kind
<1>3. Exceeded(s)' <=> Exceeds(n)
  BY <1>1, <1>2 DEF Exceeded, Exceeds
<1>4. pending[s]["crash"] = 0
  BY <1>2
<1> QED
  BY <1>1, <1>2, <1>3, <1>4

\* What a step that takes the duty of w on has to leave.
Fine(w) ==
    /\ \A v \in Worker : v[1] = w[1] /\ v # w =>
          /\ boot[v].at \notin Hands /\ mon[v] \in {"none", "done"}
          /\ ~Alive(v) /\ ~Current(v)
    /\ \A k \in Kind : pending[w[1]][k] \in {0, 1}
    /\ \A j, k \in Kind : pending[w[1]][j] = 1 /\ pending[w[1]][k] = 1 => j = k
    /\ Duty(w) => \A k \in Kind : pending[w[1]][k] = 0
    /\ (mon[w] = "wait") <=> Current(w)
    /\ Alive(w) => boot[w].at \in Hands \/ mon[w] = "wait"
    /\ boot[w].at \in Hands => mon[w] = "none"

LEMMA FineIsSound ==
  ASSUME NEW w \in Worker, Fine(w)'
  PROVE  OneDuty(w[1])' /\ InHand(w[1])'
<1>1. \A v \in Worker : v[1] = w[1] /\ Duty(v)' => v = w
  BY DEF Fine, Duty
<1>2. OneDuty(w[1])'
  BY <1>1 DEF Fine, OneDuty
<1>3. ASSUME NEW v \in Worker, v[1] = w[1]
      PROVE  /\ (mon'[v] = "wait") <=> Current(v)'
             /\ Alive(v)' => boot'[v].at \in Hands \/ mon'[v] = "wait"
             /\ boot'[v].at \in Hands => mon'[v] = "none"
  BY <1>3 DEF Fine
<1> QED
  BY <1>2, <1>3 DEF InHand

\* bootSlot begins: the worker it begins was nobody's before.
LEMMA BeginWhole ==
  ASSUME FixedInv, TypeOK', NEW s \in Slot, NEW k \in Kind, BootBegin(s, k), NEW t \in Slot
  PROVE  Whole(t)'
<1>1. /\ pending[s][k] > 0 /\ generation[s] < MaxGen
      /\ pending' = [pending EXCEPT ![s][k] = @ - 1]
      /\ UNCHANGED <<phase, boots, slotWorker, crashes, mon>>
  BY DEF BootBegin
<1>2. generation[s] \in 0..MaxGen /\ MaxGen \in Nat
  BY PoolAssumption DEF FixedInv, LeaseInv, TypeOK, PoolAssumption
<1>3. PICK w \in Worker : w = <<s, generation[s] + 1>>
  <2>1. generation[s] + 1 \in 1..MaxGen
    BY <1>1, <1>2
  <2> QED
    BY <2>1 DEF Worker, Gen
<1>4. /\ w[1] = s /\ w[2] = generation[s] + 1 /\ w[2] # 0
      /\ \E place \in {"starting", "doomed"} :
            boot' = [boot EXCEPT ![w] = [at |-> place, kind |-> k]]
      /\ \E p \in {"none", "up"} : proc' = [proc EXCEPT ![w] = p]
  <2>1. w[1] = s /\ w[2] = generation[s] + 1 /\ w[2] # 0
    BY <1>2, <1>3
  <2>2. \E p \in {"none", "up"} : proc' = [proc EXCEPT ![<<s, generation[s] + 1>>] = p]
    BY DEF BootBegin
  <2>3. \E place \in {"starting", "doomed"} :
           boot' = [boot EXCEPT ![<<s, generation[s] + 1>>] = [at |-> place, kind |-> k]]
    BY BootPlace
  <2> QED
    BY <1>3, <2>1, <2>2, <2>3
<1>5. TypeOK /\ Whole(s) /\ Whole(t) /\ boots = {}
  BY DEF FixedInv, LeaseInv, Unscaled
<1>6. mon[w] = "none"
  <2>1. Uninstalled(w)
    BY <1>2, <1>4 DEF Uninstalled
  <2> QED
    BY <2>1 DEF FixedInv, LeaseInv, UninstalledNone, MonitorOut
<1>7. /\ \A v \in Worker : v # w => boot'[v] = boot[v] /\ proc'[v] = proc[v]
      /\ boot'[w].at \in {"starting", "doomed"} /\ boot'[w].kind = k
      /\ \A u \in Slot : u # s => pending'[u] = pending[u]
      /\ \A j \in Kind : pending'[s][j] = IF j = k THEN pending[s][k] - 1 ELSE pending[s][j]
  <2>1. /\ boot \in [Worker -> Boot] /\ proc \in [Worker -> Proc]
        /\ pending \in [Slot -> [Kind -> Nat]]
    BY <1>5 DEF TypeOK
  <2> QED
    BY <1>1, <1>4, <2>1
<1>8. CASE t # s
  BY <1>1, <1>4, <1>5, <1>7, <1>8, Untroubled DEF Alive
<1>9. CASE t = s
  <2>1. /\ pending[s][k] = 1 /\ \A j \in Kind \ {k} : pending[s][j] = 0
        /\ \A v \in Worker : v[1] = s => /\ boot[v].at \notin Hands
                                         /\ mon[v] \in {"none", "done"}
                                         /\ ~Alive(v) /\ ~Current(v)
        /\ slotWorker[s] = 0 /\ ~Exceeded(s)
    BY <1>1, <1>5, Asked
  <2>2. \A j \in Kind : pending'[s][j] = 0
    BY <1>7, <2>1
  <2>3. Fine(w)'
    BY <1>1, <1>4, <1>6, <1>7, <2>1, <2>2 DEF Fine, Duty, Hands, Alive, Current
  <2>4. OneDuty(s)' /\ InHand(s)'
    BY <1>4, <2>3, FineIsSound
  <2>5. Spent(s)'
    BY <1>1, <2>1 DEF Spent, Exceeded, Exceeds
  <2>6. Counted(s)'
    BY <1>1, <1>4, <1>5, <1>7, <2>2 DEF Counted, Whole, Kind
  <2> QED
    BY <1>9, <2>4, <2>5, <2>6 DEF Whole
<1> QED
  BY <1>8, <1>9

LEMMA RefusedWhole ==
  ASSUME FixedInv, NEW s \in Slot, NEW k \in Kind, BootRefused(s, k), NEW t \in Slot
  PROVE  Whole(t)'
<1>1. /\ pending[s][k] > 0
      /\ pending' = [pending EXCEPT ![s][k] = @ - 1]
      /\ UNCHANGED <<phase, boots, slotWorker, crashes, mon, boot, proc>>
  BY DEF BootRefused
<1>2. TypeOK /\ Whole(s) /\ Whole(t) /\ boots = {}
  BY DEF FixedInv, LeaseInv, Unscaled
<1>3. /\ \A u \in Slot : u # s => pending'[u] = pending[u]
      /\ \A j \in Kind : pending'[s][j] = IF j = k THEN pending[s][k] - 1 ELSE pending[s][j]
  BY <1>1, <1>2 DEF TypeOK
<1>4. CASE t # s
  BY <1>1, <1>2, <1>3, <1>4, Untroubled DEF Alive
<1>5. CASE t = s
  <2>1. pending[s][k] = 1 /\ ~Exceeded(s) /\ \A j \in Kind \ {k} : pending[s][j] = 0
    BY <1>1, <1>2, Asked
  <2>2. \A j \in Kind : pending'[s][j] = 0
    BY <1>3, <2>1
  <2>3. OneDuty(s)'
    BY <1>1, <1>2, <2>2 DEF OneDuty, Duty, Whole
  <2>4. InHand(s)'
    BY <1>1, <1>2 DEF InHand, Whole, Alive, Current
  <2>5. Spent(s)'
    BY <1>1, <2>1 DEF Spent, Exceeded, Exceeds
  <2>6. Counted(s)'
    BY <1>1, <1>2, <2>2 DEF Counted, Whole, Kind
  <2> QED
    BY <1>5, <2>3, <2>4, <2>5, <2>6 DEF Whole
<1> QED
  BY <1>4, <1>5

\* A boot that failed leaves a timer, or a slot over its limit.
LEMMA FailsWhole ==
  ASSUME FixedInv, NEW w \in Worker, BootFails(w), NEW t \in Slot
  PROVE  Whole(t)'
<1> DEFINE s == w[1]
<1>1. /\ boot[w].at \in {"doomed", "starting"}
      /\ proc' = [proc EXCEPT ![w] = Killed(w)]
      /\ boot' = [boot EXCEPT ![w] = NoBoot]
      /\ slotWorker' = [slotWorker EXCEPT ![s] = 0]
      /\ UNCHANGED <<phase, boots, mon>>
  BY DEF BootFails
<1>2. /\ TypeOK /\ s \in Slot /\ w[2] # 0 /\ Whole(s) /\ Whole(t) /\ boots = {}
  BY WorkerParts DEF FixedInv, LeaseInv, Unscaled, Worker, Gen
<1>3. /\ boot \in [Worker -> Boot] /\ proc \in [Worker -> Proc]
      /\ pending \in [Slot -> [Kind -> Nat]] /\ slotWorker \in [Slot -> 0..MaxGen]
  BY <1>2 DEF TypeOK
<1>4. /\ \A k \in Kind : pending[s][k] = 0
      /\ \A v \in Worker : v[1] = s /\ v # w =>
            /\ boot[v].at \notin Hands /\ mon[v] \in {"none", "done"}
            /\ ~Alive(v) /\ ~Current(v)
  BY <1>1, <1>2, Alone DEF Duty, Hands
<1>5. mon[w] = "none" /\ ~Exceeded(s) /\ slotWorker[s] = 0
  <2>1. mon[w] = "none" /\ ~Exceeded(s)
    BY <1>1, <1>2 DEF Whole, InHand, Hands, Spent, Booting
  <2>2. ~Current(w)
    BY <1>2, <2>1 DEF Whole, InHand
  <2> QED
    BY <1>2, <1>4, <2>1, <2>2, Empty
<1>6. /\ \A k \in Kind \ {"crash"} : pending'[s][k] = 0
      /\ pending'[s]["crash"] \in {0, 1}
      /\ Exceeded(s)' => pending'[s]["crash"] = 0
      /\ \A u \in Slot : u # s => crashes'[u] = crashes[u] /\ pending'[u] = pending[u]
  <2>1. CASE boot[w].kind = "crash"
    <3>1. CrashRecorded(s)
      BY <2>1 DEF BootFails
    <3> QED
      BY <1>2, <1>4, <3>1, Recorded
  <2>2. CASE boot[w].kind # "crash"
    <3>1. /\ pending' = [pending EXCEPT ![s]["crash"] = @ + 1] /\ crashes' = crashes
      BY <1>5, <2>2 DEF BootFails
    <3>2. Exceeded(s)' = Exceeded(s)
      BY <3>1 DEF Exceeded, Exceeds
    <3> QED
      BY <1>2, <1>3, <1>4, <1>5, <3>1, <3>2 DEF Kind
  <2> QED
    BY <2>1, <2>2
<1>7. /\ \A v \in Worker : v # w => boot'[v] = boot[v] /\ proc'[v] = proc[v]
      /\ boot'[w] = NoBoot /\ proc'[w] \notin {"up", "term"}
      /\ \A u \in Slot : u # s => slotWorker'[u] = slotWorker[u]
      /\ slotWorker'[s] = 0
  BY <1>1, <1>2, <1>3 DEF Killed, Alive
<1> HIDE DEF s
<1>8. CASE t # s
  BY <1>1, <1>2, <1>6, <1>7, <1>8, Untroubled DEF Alive, s
<1>9. CASE t = s
  <2>1. Fine(w)'
    BY <1>1, <1>2, <1>4, <1>5, <1>6, <1>7
       DEF Fine, Duty, Hands, Alive, Current, NoBoot, Kind, s
  <2>2. OneDuty(s)' /\ InHand(s)'
    BY <2>1, FineIsSound DEF s
  <2>3. Spent(s)'
    BY <1>1, <1>2, <1>4, <1>5, <1>6, <1>7
       DEF Spent, Booting, Hands, NoBoot, Kind, s
  <2>4. Counted(s)'
    BY <1>1, <1>2, <1>6, <1>7 DEF Counted, Whole, Kind, NoBoot, s
  <2> QED
    BY <1>9, <2>2, <2>3, <2>4 DEF Whole
<1> QED
  BY <1>8, <1>9

\* A slot is given its worker: it had none.
LEMMA InstallsWhole ==
  ASSUME FixedInv, NEW w \in Worker, BootInstalls(w), NEW t \in Slot
  PROVE  Whole(t)'
<1> DEFINE s == w[1]
<1>1. /\ boot[w].at = "starting"
      /\ slotWorker' = [slotWorker EXCEPT ![s] = w[2]]
      /\ mon' = [mon EXCEPT ![w] = "wait"]
      /\ boot' = [boot EXCEPT ![w] = IF HTTP THEN BootAt(w, "push") ELSE NoBoot]
      /\ UNCHANGED <<phase, boots, crashes, pending, proc>>
  BY DEF BootInstalls
<1>2. /\ TypeOK /\ s \in Slot /\ w[2] # 0 /\ Whole(s) /\ Whole(t) /\ boots = {}
  BY WorkerParts DEF FixedInv, LeaseInv, Unscaled, Worker, Gen
<1>3. /\ boot \in [Worker -> Boot] /\ mon \in [Worker -> Monitor]
      /\ slotWorker \in [Slot -> 0..MaxGen]
  BY <1>2 DEF TypeOK
<1>4. /\ \A k \in Kind : pending[s][k] = 0
      /\ \A v \in Worker : v[1] = s /\ v # w =>
            /\ boot[v].at \notin Hands /\ mon[v] \in {"none", "done"}
            /\ ~Alive(v) /\ ~Current(v)
  BY <1>1, <1>2, Alone DEF Duty, Hands
<1>5. ~Exceeded(s)
  BY <1>1, <1>2 DEF Whole, Spent, Booting
<1>6. /\ \A v \in Worker : v # w => boot'[v] = boot[v] /\ mon'[v] = mon[v]
      /\ boot'[w].at \notin Hands
      /\ boot'[w].at # "no" => boot'[w].kind = boot[w].kind
      /\ mon'[w] = "wait"
      /\ \A u \in Slot : u # s => slotWorker'[u] = slotWorker[u]
      /\ slotWorker'[s] = w[2]
  BY <1>1, <1>2, <1>3 DEF BootAt, NoBoot, Hands
<1>7. \A v \in Worker : v[1] = s /\ v # w => v[2] # w[2]
  BY DEF Worker
<1> HIDE DEF s
<1>8. CASE t # s
  BY <1>1, <1>2, <1>6, <1>8, Untroubled DEF Alive, s
<1>9. CASE t = s
  <2>1. Fine(w)'
    BY <1>1, <1>2, <1>4, <1>6, <1>7 DEF Fine, Alive, Current, s
  <2>2. OneDuty(s)' /\ InHand(s)'
    BY <2>1, FineIsSound DEF s
  <2>3. Spent(s)'
    BY <1>1, <1>5 DEF Spent, Exceeded, Exceeds
  <2>4. Counted(s)'
    BY <1>1, <1>2, <1>6 DEF Counted, Whole, s
  <2> QED
    BY <1>9, <2>2, <2>3, <2>4 DEF Whole
<1> QED
  BY <1>8, <1>9

\* A boot that is too late, and the end of it.
LEMMA LateWhole ==
  ASSUME FixedInv, NEW w \in Worker, BootTooLate(w) \/ BootReaps(w), NEW t \in Slot
  PROVE  Whole(t)'
<1> DEFINE s == w[1]
<1>1. /\ boot[w].at \in {"starting", "reap"}
      /\ \/ boot' = [boot EXCEPT ![w] = BootAt(w, "reap")] /\ proc' = proc
         \/ boot' = [boot EXCEPT ![w] = NoBoot] /\ proc' = [proc EXCEPT ![w] = Killed(w)]
      /\ UNCHANGED <<phase, boots, crashes, pending, slotWorker, mon>>
  BY DEF BootTooLate, BootReaps
<1>2. /\ TypeOK /\ s \in Slot /\ Whole(s) /\ Whole(t) /\ boots = {}
  BY WorkerParts DEF FixedInv, LeaseInv, Unscaled
<1>3. /\ boot \in [Worker -> Boot] /\ proc \in [Worker -> Proc]
  BY <1>2 DEF TypeOK
<1>4. /\ \A k \in Kind : pending[s][k] = 0
      /\ \A v \in Worker : v[1] = s /\ v # w =>
            /\ boot[v].at \notin Hands /\ mon[v] \in {"none", "done"}
            /\ ~Alive(v) /\ ~Current(v)
  BY <1>1, <1>2, Alone DEF Duty, Hands
<1>5. mon[w] = "none" /\ ~Current(w)
  BY <1>1, <1>2 DEF Whole, InHand, Hands
<1>6. /\ \A v \in Worker : v # w => boot'[v] = boot[v] /\ proc'[v] = proc[v]
      /\ \/ boot'[w].at = "reap" /\ boot'[w].kind = boot[w].kind
         \/ boot'[w].at = "no" /\ proc'[w] \notin {"up", "term"}
  BY <1>1, <1>3 DEF BootAt, NoBoot, Killed, Alive
<1> HIDE DEF s
<1>7. CASE t # s
  BY <1>1, <1>2, <1>6, <1>7, Untroubled DEF Alive, s
<1>8. CASE t = s
  <2>1. Fine(w)'
    BY <1>1, <1>2, <1>4, <1>5, <1>6 DEF Fine, Duty, Hands, Alive, Current, s
  <2>2. OneDuty(s)' /\ InHand(s)'
    BY <2>1, FineIsSound DEF s
  <2>3. Spent(s)'
    BY <1>1, <1>2, <1>6 DEF Whole, Spent, Booting, Exceeded, Exceeds, s
  <2>4. Counted(s)'
    BY <1>1, <1>2, <1>6 DEF Counted, Whole, s
  <2> QED
    BY <1>8, <2>2, <2>3, <2>4 DEF Whole
<1> QED
  BY <1>7, <1>8

\* The monitor takes the slot's worker away.
LEMMA ExitWhole ==
  ASSUME FixedInv, NEW w \in Worker, MonitorExit(w), NEW t \in Slot
  PROVE  Whole(t)'
<1> DEFINE s == w[1]
<1>1. /\ mon[w] = "wait" /\ slotWorker[s] = w[2]
      /\ \E m \in {"quit", "planned", "crash"} : mon' = [mon EXCEPT ![w] = m]
      /\ proc' = [proc EXCEPT ![w] = "reaped"]
      /\ slotWorker' = [slotWorker EXCEPT ![s] = 0]
      /\ UNCHANGED <<phase, boots, crashes, pending, boot>>
  BY DEF MonitorExit, Current
<1>2. /\ TypeOK /\ s \in Slot /\ w[2] # 0 /\ Whole(s) /\ Whole(t) /\ boots = {}
  BY WorkerParts DEF FixedInv, LeaseInv, Unscaled, Worker, Gen
<1>3. /\ mon \in [Worker -> Monitor] /\ proc \in [Worker -> Proc]
      /\ slotWorker \in [Slot -> 0..MaxGen]
  BY <1>2 DEF TypeOK
<1>4. /\ \A k \in Kind : pending[s][k] = 0
      /\ \A v \in Worker : v[1] = s /\ v # w =>
            /\ boot[v].at \notin Hands /\ mon[v] \in {"none", "done"}
            /\ ~Alive(v) /\ ~Current(v)
  BY <1>1, <1>2, Alone DEF Duty
<1>5. boot[w].at \notin Hands /\ ~Exceeded(s)
  BY <1>1, <1>2 DEF Whole, InHand, Spent
<1>6. /\ \A v \in Worker : v # w => mon'[v] = mon[v] /\ proc'[v] = proc[v]
      /\ mon'[w] \in {"quit", "planned", "crash"} /\ proc'[w] = "reaped"
      /\ \A u \in Slot : u # s => slotWorker'[u] = slotWorker[u]
      /\ slotWorker'[s] = 0
  BY <1>1, <1>2, <1>3
<1>7. \A v \in Worker : v[1] = s => v[2] # 0
  BY DEF Worker, Gen
<1> HIDE DEF s
<1>8. CASE t # s
  BY <1>1, <1>2, <1>6, <1>8, Untroubled DEF Alive, s
<1>9. CASE t = s
  <2>1. Fine(w)'
    BY <1>1, <1>2, <1>4, <1>5, <1>6, <1>7 DEF Fine, Alive, Current, s
  <2>2. OneDuty(s)' /\ InHand(s)'
    BY <2>1, FineIsSound DEF s
  <2>3. Spent(s)'
    BY <1>1, <1>5 DEF Spent, Exceeded, Exceeds
  <2>4. Counted(s)'
    BY <1>1, <1>2 DEF Counted, Whole
  <2> QED
    BY <1>9, <2>2, <2>3, <2>4 DEF Whole
<1> QED
  BY <1>8, <1>9

\* The monitor does what it decided and is done, or has the crash to record.
LEMMA MonitorWhole ==
  ASSUME FixedInv, NEW w \in Worker, MonitorPurges(w) \/ MonitorRecords(w), NEW t \in Slot
  PROVE  Whole(t)'
<1> DEFINE s == w[1]
<1>1. /\ mon[w] \in {"quit", "planned", "crash", "record"}
      /\ UNCHANGED <<phase, boots, boot, proc, slotWorker>>
  BY DEF MonitorPurges, MonitorRecords
<1>2. /\ TypeOK /\ s \in Slot /\ Whole(s) /\ Whole(t) /\ boots = {}
  BY WorkerParts DEF FixedInv, LeaseInv, Unscaled
<1>3. mon \in [Worker -> Monitor] /\ pending \in [Slot -> [Kind -> Nat]]
  BY <1>2 DEF TypeOK
<1>4. /\ \A k \in Kind : pending[s][k] = 0
      /\ \A v \in Worker : v[1] = s /\ v # w =>
            /\ boot[v].at \notin Hands /\ mon[v] \in {"none", "done"}
            /\ ~Alive(v) /\ ~Current(v)
  BY <1>1, <1>2, Alone DEF Duty
<1>5. boot[w].at \notin Hands /\ ~Alive(w) /\ ~Current(w) /\ slotWorker[s] = 0
  <2>1. boot[w].at \notin Hands /\ ~Alive(w) /\ ~Current(w)
    BY <1>1, <1>2 DEF Whole, InHand
  <2> QED
    BY <1>2, <1>4, <2>1, Empty
\* What is left of the duty: a crash to record, one timer, or nothing.
<1>6. /\ \A v \in Worker : v # w => mon'[v] = mon[v]
      /\ mon'[w] \in {"record", "done"}
      /\ mon'[w] = "record" => ~Exceeded(s)' /\ \A k \in Kind : pending'[s][k] = 0
      /\ \E k \in Restart : /\ \A j \in Kind \ {k} : pending'[s][j] = 0
                            /\ pending'[s][k] \in {0, 1}
                            /\ Exceeded(s)' => pending'[s][k] = 0
      /\ \A u \in Slot : u # s => crashes'[u] = crashes[u] /\ pending'[u] = pending[u]
  <2>1. CASE MonitorPurges(w)
    <3>1. /\ mon' = [mon EXCEPT ![w] = IF @ = "crash" THEN "record" ELSE "done"]
          /\ pending' = IF mon[w] = "planned"
                        THEN [pending EXCEPT ![s]["planned"] = @ + 1] ELSE pending
          /\ crashes' = crashes /\ mon[w] \in {"quit", "planned", "crash"}
      BY <2>1 DEF MonitorPurges
    <3>2. Exceeded(s)' = Exceeded(s)
      BY <3>1 DEF Exceeded, Exceeds
    <3>3. mon[w] \in {"planned", "crash"} => ~Exceeded(s)
      BY <1>2 DEF Whole, Spent, Booting
    <3>4. CASE mon[w] = "planned"
      <4>1. /\ mon'[w] = "done" /\ pending'[s]["planned"] = 1
            /\ \A j \in Kind \ {"planned"} : pending'[s][j] = 0
            /\ \A u \in Slot : u # s => pending'[u] = pending[u]
        BY <1>2, <1>3, <1>4, <3>1, <3>4 DEF Kind
      <4> QED
        BY <1>2, <1>3, <3>1, <3>2, <3>3, <3>4, <4>1 DEF Restart
    <3>5. CASE mon[w] # "planned"
      <4>1. /\ pending' = pending
            /\ mon'[w] = IF mon[w] = "crash" THEN "record" ELSE "done"
        BY <1>3, <3>1, <3>5
      <4> QED
        BY <1>2, <1>3, <1>4, <3>1, <3>2, <3>3, <3>5, <4>1 DEF Restart, Kind
    <3> QED
      BY <3>4, <3>5
  <2>2. CASE MonitorRecords(w)
    <3>1. mon' = [mon EXCEPT ![w] = "done"] /\ CrashRecorded(s)
      BY <2>2 DEF MonitorRecords
    <3>2. /\ \A k \in Kind \ {"crash"} : pending'[s][k] = 0
          /\ pending'[s]["crash"] \in {0, 1}
          /\ Exceeded(s)' => pending'[s]["crash"] = 0
          /\ \A u \in Slot : u # s => crashes'[u] = crashes[u] /\ pending'[u] = pending[u]
      BY <1>2, <1>4, <3>1, Recorded
    <3> QED
      BY <1>3, <3>1, <3>2 DEF Restart
  <2> QED
    BY <2>1, <2>2
<1> HIDE DEF s
<1>7. CASE t # s
  BY <1>1, <1>2, <1>6, <1>7, Untroubled DEF Alive, s
<1>8. CASE t = s
  <2>1. \A k \in Kind : pending'[s][k] \in {0, 1}
    BY <1>6 DEF Kind
  <2>2. Fine(w)'
    BY <1>1, <1>2, <1>4, <1>5, <1>6, <2>1 DEF Fine, Duty, Alive, Current, s
  <2>3. OneDuty(s)' /\ InHand(s)'
    BY <2>2, FineIsSound DEF s
  <2>4. Spent(s)'
    <3>1. Exceeded(s)' => \A k \in Kind : pending'[s][k] = 0
      BY <1>6
    <3>2. Exceeded(s)' => ~Booting(s)'
      BY <1>1, <1>2, <1>4, <1>5, <1>6, <3>1 DEF Booting, Hands, s
    <3> QED
      BY <1>1, <1>5, <3>2 DEF Spent
  <2>5. Counted(s)'
    BY <1>1, <1>2, <1>6 DEF Counted, Whole, Kind, Restart
  <2> QED
    BY <1>8, <2>3, <2>4, <2>5 DEF Whole
<1> QED
  BY <1>7, <1>8

\* A slot whose worker is what its monitor waits for meets no stale monitor.
LEMMA NeverStale == ASSUME FixedInv, NEW w \in Worker PROVE ~MonitorStale(w)
  BY WorkerParts DEF FixedInv, MonitorStale, Whole, InHand

\* The reconciler has no call left to make.
LEMMA NeverScales == ASSUME FixedInv, MaxScale = 0 PROVE ~ScaleSteps
<1>1. scales \in 0..0 /\ boots = {} /\ drains = {}
  BY DEF FixedInv, LeaseInv, TypeOK, Unscaled
<1> QED
  BY <1>1 DEF ScaleSteps, SetDesired, ScaleDrains, ScaleBoots

LEMMA InitFixed == ASSUME Init PROVE FixedInv
<1>1. LeaseInv /\ Unscaled
  BY InitLease DEF Init, Unscaled
<1>2. ASSUME NEW s \in Slot PROVE Whole(s)
  <2>1. \A k \in Kind : pending[s][k] \in {0, 1} /\ (pending[s][k] = 1 => k = "start")
    BY DEF Init
  <2>2. \A w \in Worker : /\ boot[w].at = "no" /\ mon[w] = "none" /\ ~Alive(w)
                          /\ w[1] = s => ~Current(w)
    BY DEF Init, NoBoot, Alive, Current, Worker, Gen
  <2>3. OneDuty(s) /\ InHand(s)
    BY <2>1, <2>2 DEF OneDuty, InHand, Duty, Hands
  <2>4. ~Exceeded(s)
    BY PoolAssumption DEF Init, Exceeded, Exceeds, PoolAssumption
  <2>5. Counted(s)
    BY <2>1, <2>2 DEF Counted, Kind, Init
  <2> QED
    BY <2>3, <2>4, <2>5 DEF Whole, Spent
<1> QED
  BY <1>1, <1>2 DEF FixedInv

\* Start returns when its boots have.
LEMMA StartWhole ==
  ASSUME FixedInv, StartReturns, NEW t \in Slot
  PROVE  Whole(t)'
<1>1. /\ pending[t]["start"] = 0
      /\ \A w \in Worker : boot[w].at # "no" => boot[w].kind # "start"
      /\ UNCHANGED <<pending, boots, boot, mon, proc, slotWorker, crashes>>
  BY DEF StartReturns
<1>2. Whole(t)
  BY DEF FixedInv
<1>3. OneDuty(t)' /\ InHand(t)'
  BY <1>1, <1>2 DEF Whole, OneDuty, InHand, Duty, Alive, Current
<1>4. Spent(t)'
  BY <1>1, <1>2 DEF Whole, Spent, Exceeded, Exceeds, Booting
<1>5. Counted(t)'
  BY <1>1, <1>2 DEF Whole, Counted
<1> QED
  BY <1>3, <1>4, <1>5 DEF Whole

\* Whatever else happens leaves the slots alone.
LEMMA RestWhole ==
  ASSUME FixedInv, NEW t \in Slot,
         UNCHANGED <<phase, pending, crashes, slotWorker, boots, mon>>,
         \A w \in Worker : /\ boot'[w] = boot[w] \/ (boot[w].at = "push" /\ boot'[w] = NoBoot)
                           /\ proc'[w] \in {"up", "term"} => Alive(w)
  PROVE  Whole(t)'
BY Untroubled DEF FixedInv, Unscaled

LEMMA StepFixed == ASSUME MaxScale = 0, FixedInv, [Next]_vars PROVE FixedInv'
<1>1. LeaseInv' /\ TypeOK'
  BY StepLease DEF FixedInv, LeaseInv
<1>2. TypeOK /\ proc \in [Worker -> Proc] /\ boot \in [Worker -> Boot]
  BY DEF FixedInv, LeaseInv, TypeOK
<1>3. \A w \in Worker : /\ Killed(w) \notin {"up", "term"}
                        /\ Signalled(w) \in {"up", "term"} => Alive(w)
  BY DEF Killed, Signalled, Alive
<1>4. boots = {} /\ drains = {} /\ ~ScaleSteps
  BY NeverScales DEF FixedInv, Unscaled
<1>5. ASSUME NEW s \in Slot, NEW k \in Kind, BootBegin(s, k) \/ BootRefused(s, k)
      PROVE  FixedInv'
  <2>1. \A t \in Slot : Whole(t)'
    BY <1>1, <1>5, BeginWhole, RefusedWhole
  <2>2. UNCHANGED <<boots, drains>>
    BY <1>5 DEF BootBegin, BootRefused
  <2> QED
    BY <1>1, <1>4, <2>1, <2>2 DEF FixedInv, Unscaled
<1>6. ASSUME NEW w \in Worker, BootSteps(w) PROVE FixedInv'
  <2>1. UNCHANGED <<boots, drains>>
    BY <1>6 DEF BootSteps, BootFails, BootInstalls, BootTooLate, BootReaps, BootPush
  <2>2. CASE BootPush(w)
    <3>1. /\ UNCHANGED <<phase, pending, crashes, slotWorker, boots, mon, proc>>
          /\ boot[w].at = "push" /\ boot' = [boot EXCEPT ![w] = NoBoot]
      BY <2>2 DEF BootPush
    <3>2. \A v \in Worker : boot'[v] = boot[v] \/ (boot[v].at = "push" /\ boot'[v] = NoBoot)
      BY <1>2, <3>1
    <3>3. \A t \in Slot : Whole(t)'
      BY <3>1, <3>2, RestWhole DEF Alive
    <3> QED
      BY <1>1, <1>4, <2>1, <3>3 DEF FixedInv, Unscaled
  <2>3. CASE ~BootPush(w)
    <3>1. \A t \in Slot : Whole(t)'
      BY <1>6, <2>3, FailsWhole, InstallsWhole, LateWhole DEF BootSteps
    <3> QED
      BY <1>1, <1>4, <2>1, <3>1 DEF FixedInv, Unscaled
  <2> QED
    BY <2>2, <2>3
<1>7. ASSUME NEW w \in Worker, MonitorSteps(w) PROVE FixedInv'
  <2>1. UNCHANGED <<boots, drains>>
    BY <1>7 DEF MonitorSteps, MonitorStale, MonitorExit, MonitorPurges, MonitorRecords
  <2>2. \A t \in Slot : Whole(t)'
    BY <1>7, NeverStale, ExitWhole, MonitorWhole DEF MonitorSteps
  <2> QED
    BY <1>1, <1>4, <2>1, <2>2 DEF FixedInv, Unscaled
<1>8. CASE StartReturns
  <2>1. \A t \in Slot : Whole(t)'
    BY <1>8, StartWhole
  <2>2. UNCHANGED <<boots, drains>>
    BY <1>8 DEF StartReturns
  <2> QED
    BY <1>1, <1>4, <2>1, <2>2 DEF FixedInv, Unscaled
\* The other steps.
<1>9. ASSUME UNCHANGED <<phase, pending, crashes, slotWorker, boots, drains, mon, boot>>,
             \A w \in Worker : proc'[w] \in {"up", "term"} => Alive(w)
      PROVE  FixedInv'
  <2>1. \A t \in Slot : Whole(t)'
    BY <1>9, RestWhole
  <2> QED
    BY <1>1, <1>4, <1>9, <2>1 DEF FixedInv, Unscaled
<1>10. ASSUME NEW w \in Worker, ProcExit(w) PROVE FixedInv'
  <2>1. /\ UNCHANGED <<phase, pending, crashes, slotWorker, boots, drains, mon, boot>>
        /\ \E p \in {"clean", "fail"} : proc' = [proc EXCEPT ![w] = p]
    BY <1>10 DEF ProcExit
  <2>2. \A v \in Worker : proc'[v] \in {"up", "term"} => Alive(v)
    BY <1>2, <2>1 DEF Alive
  <2> QED
    BY <1>9, <2>1, <2>2
<1>11. ASSUME NEW r \in Requests, RequestSteps(r) PROVE FixedInv'
  <2>1. UNCHANGED <<phase, pending, crashes, slotWorker, boots, drains, mon, boot>>
    BY <1>11 DEF RequestSteps, Arrive, TryMisses, AcquireEnds, Pop, Check, MarkBusy,
                 Responds, Discard, DiscardEnds, Release, PutBack
  <2>2. \/ proc' = proc
        \/ proc' = [proc EXCEPT ![held[r]] = Signalled(held[r])]
        \/ proc' = [proc EXCEPT ![held[r]] = Killed(held[r])]
    BY <1>11 DEF RequestSteps, Arrive, TryMisses, AcquireEnds, Pop, Check, MarkBusy,
                 Responds, Discard, DiscardEnds, Release, PutBack
  <2>3. \A v \in Worker : proc'[v] \in {"up", "term"} => Alive(v)
    BY <1>2, <1>3, <2>2 DEF Alive
  <2> QED
    BY <1>9, <2>1, <2>3
<1>12. ASSUME NEW t \in terms, TermSignals(t) \/ TermEnds(t) PROVE FixedInv'
  <2>1. /\ UNCHANGED <<phase, pending, crashes, slotWorker, boots, drains, mon, boot>>
        /\ \/ proc' = [proc EXCEPT ![t.w] = Signalled(t.w)]
           \/ proc' = [proc EXCEPT ![t.w] = Killed(t.w)]
    BY <1>12 DEF TermSignals, TermEnds
  <2>2. \A v \in Worker : proc'[v] \in {"up", "term"} => Alive(v)
    BY <1>2, <1>3, <2>1 DEF Alive
  <2> QED
    BY <1>9, <2>1, <2>2
<1>13. CASE StopSteps
  <2>1. /\ UNCHANGED <<phase, pending, crashes, slotWorker, boots, drains, mon, boot>>
        /\ \/ proc' = proc
           \/ proc' = [w \in Worker |-> IF Current(w) THEN Killed(w) ELSE proc[w]]
    BY <1>13 DEF StopSteps, Cancel, Stop, StopIdle, StopRest, StopKills, StopDone
  <2>2. \A v \in Worker : proc'[v] \in {"up", "term"} => Alive(v)
    BY <1>2, <1>3, <2>1 DEF Alive
  <2> QED
    BY <1>9, <2>1, <2>2
<1>14. CASE PurgePop \/ PurgePush \/ UNCHANGED vars
  <2>1. UNCHANGED <<phase, pending, crashes, slotWorker, boots, drains, mon, boot, proc>>
    BY <1>14 DEF PurgePop, PurgePush, vars
  <2> QED
    BY <1>9, <2>1 DEF Alive
<1> QED
  BY <1>4, <1>5, <1>6, <1>7, <1>8, <1>10, <1>11, <1>12, <1>13, <1>14
     DEF Next, ProgramStep, Ended

\* Without scaling two generations of a slot never run at once, however boots,
\* crashes, timers, drains and Shutdown interleave.
THEOREM OneProcess == ASSUME MaxScale = 0 PROVE Spec => []OneProcessPerSlot
<1>1. FixedInv => OneProcessPerSlot
  <2> SUFFICES ASSUME FixedInv, NEW v \in Worker, NEW w \in Worker,
                      Alive(v), Alive(w), v[1] = w[1]
               PROVE  v = w
    BY DEF OneProcessPerSlot
  <2>1. Whole(w[1])
    BY WorkerParts DEF FixedInv
  <2> QED
    BY <2>1 DEF Whole, InHand, OneDuty, Duty
<1>2. FixedInv /\ [Next]_vars => FixedInv'
  BY StepFixed
<1> QED
  BY <1>1, <1>2, InitFixed, PTL DEF Spec

\* Without scaling a slot over its restart limit is down for good: no worker, no
\* boot, no timer, no monitor that would ask for one.
THEOREM FailedStaysDown == ASSUME MaxScale = 0 PROVE Spec => []FailedSlotStaysDown
<1>1. FixedInv => FailedSlotStaysDown
  BY DEF FixedInv, Whole, Spent, FailedSlotStaysDown
<1>2. FixedInv /\ [Next]_vars => FixedInv'
  BY StepFixed
<1> QED
  BY <1>1, <1>2, InitFixed, PTL DEF Spec

-----------------------------------------------------------------------------
(* Shutdown                                                                *)

\* When Shutdown has returned nothing is under way; it has waited for the
\* boots of Start too, for those are over before it can be called.
Finished == \A w \in Worker : boot[w].at = "no" /\ mon[w] \in {"none", "done"}
Ending == /\ sd # "no" => stopping /\ phase = "running"
          /\ sd = "done" => Finished

LEMMA StepEnding == ASSUME FixedInv, Ending, [Next]_vars PROVE Ending'
<1>1. CASE StopDone
  <2>1. /\ sd # "no" /\ UNCHANGED <<stopping, phase, boot, mon>>
        /\ WaitGroupZero
    BY <1>1 DEF StopDone
  <2>2. ASSUME NEW w \in Worker PROVE boot[w].at = "no"
    <3>1. boot[w].kind \in Kind
      BY DEF FixedInv, LeaseInv, TypeOK, Boot
    <3>2. boot[w].at # "no" => boot[w].kind \notin {"scale", "start"}
      BY <2>1, WorkerParts DEF FixedInv, Whole, Counted, Ending
    <3> QED
      BY <2>1, <3>1, <3>2 DEF WaitGroupZero, Kind, Restart
  <2> QED
    BY <2>1, <2>2 DEF Ending, Finished, WaitGroupZero
<1>2. ASSUME UNCHANGED <<sd, stopping>>, phase' = phase \/ phase = "starting",
             Finished => UNCHANGED <<boot, mon>> \/ ~stopping
      PROVE  Ending'
  BY <1>2 DEF Ending, Finished
<1>3. ASSUME NEW s \in Slot, NEW k \in Kind, BootBegin(s, k) \/ BootRefused(s, k)
      PROVE  Ending'
  BY <1>2, <1>3 DEF BootBegin, BootRefused
<1>4. ASSUME NEW w \in Worker, BootSteps(w) \/ MonitorSteps(w) \/ ProcExit(w) PROVE Ending'
  <2>1. UNCHANGED <<sd, stopping, phase>>
    BY <1>4 DEF BootSteps, BootFails, BootInstalls, BootTooLate, BootReaps, BootPush,
                MonitorSteps, MonitorStale, MonitorExit, MonitorPurges, MonitorRecords,
                ProcExit
  <2>2. CASE ProcExit(w)
    BY <1>2, <2>1, <2>2 DEF ProcExit
  <2>3. CASE BootSteps(w) \/ MonitorSteps(w)
    <3>1. boot[w].at # "no" \/ mon[w] \notin {"none", "done"}
      BY <2>3 DEF BootSteps, BootFails, BootInstalls, BootTooLate, BootReaps, BootPush,
                  MonitorSteps, MonitorStale, MonitorExit, MonitorPurges, MonitorRecords
    <3> QED
      BY <1>2, <2>1, <3>1 DEF Finished
  <2> QED
    BY <1>4, <2>2, <2>3
<1>5. ASSUME NEW r \in Requests, RequestSteps(r) PROVE Ending'
  BY <1>2, <1>5 DEF RequestSteps, Arrive, TryMisses, AcquireEnds, Pop, Check, MarkBusy,
                    Responds, Discard, DiscardEnds, Release, PutBack
<1>6. ASSUME NEW t \in terms, TermSignals(t) \/ TermEnds(t) PROVE Ending'
  BY <1>2, <1>6 DEF TermSignals, TermEnds
<1>7. CASE PurgePop \/ PurgePush \/ UNCHANGED vars \/ StartReturns
  BY <1>2, <1>7 DEF PurgePop, PurgePush, vars, StartReturns
<1>8. CASE ScaleSteps
  BY <1>2, <1>8 DEF ScaleSteps, SetDesired, ScaleDrains, ScaleBoots
<1>9. CASE Cancel \/ Stop \/ StopIdle \/ StopRest \/ StopKills
  <2>1. CASE Cancel \/ StopIdle
    BY <1>2, <2>1 DEF Cancel, StopIdle
  <2>2. CASE Stop \/ StopRest \/ StopKills
    BY <2>2 DEF Stop, StopRest, StopKills, Ending
  <2> QED
    BY <1>9, <2>1, <2>2
<1> QED
  BY <1>1, <1>3, <1>4, <1>5, <1>6, <1>7, <1>8, <1>9
     DEF Next, ProgramStep, Ended, StopSteps

\* Without scaling Shutdown leaves no process behind: p.wg counts every boot
\* that can be under way by then, and every process has a monitor or a boot.
THEOREM StopIsClean == ASSUME MaxScale = 0 PROVE Spec => []StopLeavesNothing
<1>1. FixedInv /\ Ending => StopLeavesNothing
  <2> SUFFICES ASSUME FixedInv, Ending, sd = "done", NEW w \in Worker PROVE ~Alive(w)
    BY DEF StopLeavesNothing
  <2>1. Whole(w[1])
    BY WorkerParts DEF FixedInv
  <2> QED
    BY <2>1 DEF Whole, InHand, Ending, Finished, Hands
<1>2. FixedInv /\ [Next]_vars => FixedInv'
  BY StepFixed
<1>3. Init => Ending
  BY DEF Init, Ending
<1>4. FixedInv /\ Ending /\ [Next]_vars => Ending'
  BY StepEnding
<1> QED
  BY <1>1, <1>2, <1>3, <1>4, InitFixed, PTL DEF Spec

-----------------------------------------------------------------------------
(* Whom Shutdown waits for                                                 *)

\* A boot that may install its worker, and a monitor in cmd.Wait, have a process
\* that was spawned and not yet waited for.
Spawned == {"up", "term", "clean", "fail"}
Seen(w) == boot[w].at \in {"starting", "reap"} \/ mon[w] = "wait" => proc[w] \in Spawned
SeenInv == \A w \in Worker : Seen(w)

LEMMA KilledSeen ==
  ASSUME TypeOK, SeenInv, NEW v \in Worker,
         \/ proc' = [proc EXCEPT ![v] = Killed(v)]
         \/ proc' = [proc EXCEPT ![v] = Signalled(v)],
         \A w \in Worker : /\ boot'[w] = boot[w] \/ boot'[w] = NoBoot
                           /\ mon'[w] = mon[w]
  PROVE  SeenInv'
<1>1. proc \in [Worker -> Proc]
  BY DEF TypeOK
<1>2. \A w \in Worker : proc[w] \in Spawned => proc'[w] \in Spawned
  BY <1>1 DEF Killed, Signalled, Alive, Spawned
<1> QED
  BY <1>2 DEF SeenInv, Seen, NoBoot

LEMMA StepSeen == ASSUME LeaseInv, SeenInv, [Next]_vars PROVE SeenInv'
<1>1. /\ TypeOK /\ boot \in [Worker -> Boot] /\ proc \in [Worker -> Proc]
      /\ mon \in [Worker -> Monitor] /\ held \in [Requests -> Worker \cup {NoWorker}]
      /\ generation \in [Slot -> 0..MaxGen]
  BY DEF LeaseInv, TypeOK
<1>2. \A w \in Worker : boot[w].at \in {"starting", "doomed", "reap"} => mon[w] = "none"
  BY DEF LeaseInv, UninstalledNone, Uninstalled, MonitorOut
<1>3. ASSUME UNCHANGED <<boot, mon, proc>> PROVE SeenInv'
  BY <1>3 DEF SeenInv, Seen
<1>4. ASSUME NEW s \in Slot, NEW k \in Kind, BootBegin(s, k) PROVE SeenInv'
  <2> DEFINE b == <<s, generation[s] + 1>>
  <2>1. PICK p \in {"none", "up"} :
          /\ proc' = [proc EXCEPT ![b] = p]
          /\ boot' = [boot EXCEPT ![b] =
                [at |-> IF p = "none" \/ (HTTP /\ ctxDone) THEN "doomed" ELSE "starting",
                 kind |-> k]]
    BY <1>4 DEF BootBegin
  <2>2. mon' = mon /\ generation[s] < generation[s] + 1
    BY <1>1, <1>4 DEF BootBegin
  <2>3. ASSUME NEW w \in Worker PROVE Seen(w)'
    <3>1. CASE w = b
      <4>1. mon[w] = "none"
        <5>1. Uninstalled(w)
          BY <2>2, <3>1 DEF Uninstalled
        <5> QED
          BY <5>1 DEF LeaseInv, UninstalledNone, MonitorOut
      <4>2. proc'[w] = p /\ (boot'[w].at \in {"starting", "reap"} => p = "up")
        BY <1>1, <2>1, <3>1
      <4> QED
        BY <2>2, <4>1, <4>2 DEF Seen, Spawned
    <3>2. CASE w # b
      <4>1. proc'[w] = proc[w] /\ boot'[w] = boot[w]
        BY <1>1, <2>1, <3>2
      <4> QED
        BY <2>2, <4>1 DEF SeenInv, Seen
    <3> QED
      BY <3>1, <3>2
  <2> QED
    BY <2>3 DEF SeenInv
<1>5. ASSUME NEW s \in Slot, NEW k \in Kind, BootRefused(s, k) PROVE SeenInv'
  BY <1>3, <1>5 DEF BootRefused
<1>6. ASSUME NEW v \in Worker, BootFails(v) \/ BootReaps(v) PROVE SeenInv'
  <2>1. /\ proc' = [proc EXCEPT ![v] = Killed(v)] /\ mon' = mon
        /\ boot' = [boot EXCEPT ![v] = NoBoot]
    BY <1>6 DEF BootFails, BootReaps
  <2>2. \A w \in Worker : boot'[w] = boot[w] \/ boot'[w] = NoBoot
    BY <1>1, <2>1
  <2> QED
    BY <1>1, <2>1, <2>2, KilledSeen
<1>7. ASSUME NEW v \in Worker, BootInstalls(v) \/ BootTooLate(v) \/ BootPush(v)
      PROVE  SeenInv'
  <2>1. /\ proc' = proc /\ boot[v].at \in {"starting", "push"}
        /\ \A w \in Worker : w # v => boot'[w] = boot[w] /\ mon'[w] = mon[w]
        /\ boot[v].at = "push" => boot'[v] = NoBoot /\ mon' = mon
    BY <1>1, <1>7 DEF BootInstalls, BootTooLate, BootPush
  <2>2. boot[v].at = "starting" => proc[v] \in Spawned
    BY DEF SeenInv, Seen
  <2> QED
    BY <2>1, <2>2 DEF SeenInv, Seen, NoBoot
<1>8. ASSUME NEW v \in Worker, MonitorSteps(v) \/ ProcExit(v) PROVE SeenInv'
  <2>1. /\ boot' = boot
        /\ \A w \in Worker : w # v => mon'[w] = mon[w] /\ proc'[w] = proc[w]
    BY <1>1, <1>8 DEF MonitorSteps, MonitorStale, MonitorExit, MonitorPurges,
                      MonitorRecords, ProcExit
  <2>2. \/ mon[v] # "none" /\ mon'[v] # "wait"
        \/ mon'[v] = mon[v] /\ proc'[v] \in {"clean", "fail"}
    BY <1>1, <1>8 DEF MonitorSteps, MonitorStale, MonitorExit, MonitorPurges,
                      MonitorRecords, ProcExit
  <2> QED
    BY <1>2, <2>1, <2>2 DEF SeenInv, Seen, Spawned
<1>9. ASSUME NEW r \in Requests, RequestSteps(r) PROVE SeenInv'
  <2>1. UNCHANGED <<boot, mon>>
    BY <1>9 DEF RequestSteps, Arrive, TryMisses, AcquireEnds, Pop, Check, MarkBusy,
                Responds, Discard, DiscardEnds, Release, PutBack
  <2>2. \/ proc' = proc
        \/ /\ at[r] \in {"busy", "answered", "recycle", "discard"}
           /\ \/ proc' = [proc EXCEPT ![held[r]] = Killed(held[r])]
              \/ proc' = [proc EXCEPT ![held[r]] = Signalled(held[r])]
    BY <1>9 DEF RequestSteps, Arrive, TryMisses, AcquireEnds, Pop, Check, MarkBusy,
                Responds, Discard, DiscardEnds, Release, PutBack
  <2>3. at[r] \in {"busy", "answered", "recycle", "discard"} => held[r] \in Worker
    BY <1>1 DEF TypeOK
  <2> QED
    BY <1>1, <1>3, <2>1, <2>2, <2>3, KilledSeen
<1>10. ASSUME NEW t \in terms, TermSignals(t) \/ TermEnds(t) PROVE SeenInv'
  <2>1. /\ UNCHANGED <<boot, mon>> /\ t.w \in Worker
        /\ \/ proc' = [proc EXCEPT ![t.w] = Killed(t.w)]
           \/ proc' = [proc EXCEPT ![t.w] = Signalled(t.w)]
    BY <1>1, <1>10 DEF TermSignals, TermEnds, TypeOK, Term
  <2> QED
    BY <1>1, <2>1, KilledSeen
<1>11. CASE StopKills
  <2>1. /\ UNCHANGED <<boot, mon>>
        /\ proc' = [w \in Worker |-> IF Current(w) THEN Killed(w) ELSE proc[w]]
    BY <1>11 DEF StopKills
  <2>2. \A w \in Worker : proc[w] \in Spawned => proc'[w] \in Spawned
    BY <2>1 DEF Killed, Alive, Spawned
  <2> QED
    BY <2>1, <2>2 DEF SeenInv, Seen
<1>12. CASE \/ ScaleSteps \/ StartReturns \/ PurgePop \/ PurgePush \/ UNCHANGED vars
            \/ Cancel \/ Stop \/ StopIdle \/ StopRest \/ StopDone
  <2>1. UNCHANGED <<boot, mon, proc>>
    BY <1>12 DEF ScaleSteps, SetDesired, ScaleDrains, ScaleBoots, StartReturns, PurgePop,
                 PurgePush, vars, Cancel, Stop, StopIdle, StopRest, StopDone
  <2> QED
    BY <1>3, <2>1
<1> QED
  BY <1>4, <1>5, <1>6, <1>7, <1>8, <1>9, <1>10, <1>11, <1>12
     DEF BootSteps, Next, ProgramStep, Ended, StopSteps

\* Once Shutdown has gone through the slots, a worker whose monitor waits is
\* being terminated for as long as it runs.
Chased ==
    sd \in {"wait", "killed"} =>
       \A w \in Worker : mon[w] = "wait" /\ Alive(w) => \E t \in terms : t.w = w

LEMMA StepChased ==
  ASSUME FixedInv, Ending, Chased, drains' = {}, [Next]_vars PROVE Chased'
<1>1. LeaseInv /\ TypeOK /\ drains = {} /\ mon \in [Worker -> Monitor]
  BY DEF FixedInv, LeaseInv, TypeOK, Unscaled
<1>2. CASE StopRest
  <2>1. /\ UNCHANGED <<mon, proc>>
        /\ terms' = terms \cup [w : {<<s, slotWorker[s]>> : s \in Installed},
                                by : {"stop"}, stage : {"signal"}]
    BY <1>2 DEF StopRest
  <2>2. ASSUME NEW w \in Worker, mon[w] = "wait" PROVE \E t \in terms' : t.w = w
    <3>1. Whole(w[1]) /\ w[1] \in Slot
      BY WorkerParts DEF FixedInv
    <3>2. slotWorker[w[1]] = w[2] /\ w[2] # 0 /\ w = <<w[1], w[2]>>
      BY <2>2, <3>1 DEF Whole, InHand, Current, Worker, Gen
    <3>3. w \in {<<s, slotWorker[s]>> : s \in Installed}
      BY <3>1, <3>2 DEF Installed
    <3>4. [w |-> w, by |-> "stop", stage |-> "signal"] \in terms'
      BY <2>1, <3>3
    <3> QED
      BY <3>4
  <2> QED
    BY <2>1, <2>2 DEF Chased
<1>3. ASSUME ~StopRest, sd' \in {"wait", "killed"} PROVE sd \in {"wait", "killed"}
  <2>1. CASE StopKills
    BY <2>1 DEF StopKills
  <2>2. CASE sd' = sd
    BY <1>3, <2>2
  <2>3. CASE Stop \/ StopDone
    BY <1>3, <2>3 DEF Stop, StopDone
  <2>4. CASE ~StopSteps \/ Cancel \/ StopIdle
    <3>1. ASSUME NEW s \in Slot, NEW k \in Kind, BootBegin(s, k) \/ BootRefused(s, k)
          PROVE  sd' = sd
      BY <3>1 DEF BootBegin, BootRefused
    <3>2. ASSUME NEW v \in Worker, BootSteps(v) \/ MonitorSteps(v) \/ ProcExit(v)
          PROVE  sd' = sd
      BY <3>2 DEF BootSteps, BootFails, BootInstalls, BootTooLate, BootReaps, BootPush,
                  MonitorSteps, MonitorStale, MonitorExit, MonitorPurges,
                  MonitorRecords, ProcExit
    <3>3. ASSUME NEW r \in Requests, RequestSteps(r) PROVE sd' = sd
      BY <3>3 DEF RequestSteps, Arrive, TryMisses, AcquireEnds, Pop, Check, MarkBusy,
                  Responds, Discard, DiscardEnds, Release, PutBack
    <3>4. ASSUME \/ ScaleSteps \/ StartReturns \/ PurgePop \/ PurgePush \/ Cancel
                 \/ StopIdle \/ UNCHANGED vars \/ \E t \in terms : TermSignals(t) \/ TermEnds(t)
          PROVE  sd' = sd
      BY <3>4 DEF ScaleSteps, SetDesired, ScaleDrains, ScaleBoots, StartReturns, PurgePop,
                  PurgePush, Cancel, StopIdle, vars, TermSignals, TermEnds
    <3> QED
      BY <2>2, <2>4, <3>1, <3>2, <3>3, <3>4 DEF Next, ProgramStep, Ended
  <2> QED
    BY <1>3, <2>1, <2>3, <2>4 DEF StopSteps
\* Only bootSlot starts a monitor, and not in a pool that stops.
<1>4. ASSUME stopping, NEW w \in Worker, mon'[w] = "wait" PROVE mon[w] = "wait"
  <2>1. ASSUME NEW v \in Worker, BootSteps(v) PROVE mon' = mon
    BY <1>4, <2>1 DEF BootSteps, BootFails, BootInstalls, BootTooLate, BootReaps, BootPush
  <2>2. ASSUME NEW v \in Worker, MonitorSteps(v) PROVE mon[w] = "wait"
    BY <1>1, <1>4, <2>2 DEF MonitorSteps, MonitorStale, MonitorExit, MonitorPurges,
                            MonitorRecords
  <2>3. ASSUME NEW r \in Requests, RequestSteps(r) PROVE mon' = mon
    BY <2>3 DEF RequestSteps, Arrive, TryMisses, AcquireEnds, Pop, Check, MarkBusy,
                Responds, Discard, DiscardEnds, Release, PutBack
  <2>4. ASSUME NEW s \in Slot, NEW k \in Kind, BootBegin(s, k) \/ BootRefused(s, k)
        PROVE  mon' = mon
    BY <2>4 DEF BootBegin, BootRefused
  <2>5. ASSUME \/ ScaleSteps \/ StartReturns \/ PurgePop \/ PurgePush \/ StopSteps
               \/ UNCHANGED vars \/ \E t \in terms : TermSignals(t) \/ TermEnds(t)
               \/ \E v \in Worker : ProcExit(v)
        PROVE  mon' = mon
    BY <2>5 DEF ScaleSteps, SetDesired, ScaleDrains, ScaleBoots, StartReturns, PurgePop,
                PurgePush, StopSteps, Cancel, Stop, StopIdle, StopRest, StopKills, StopDone,
                vars, TermSignals, TermEnds, ProcExit
  <2> QED
    BY <1>4, <2>1, <2>2, <2>3, <2>4, <2>5 DEF Next, ProgramStep, Ended
<1>5. ASSUME ~StopRest, sd' \in {"wait", "killed"},
             NEW w \in Worker, mon'[w] = "wait", Alive(w)'
      PROVE  \E t \in terms' : t.w = w
  <2>1. sd \in {"wait", "killed"} /\ stopping
    BY <1>3, <1>5 DEF Ending
  <2>2. mon[w] = "wait"
    BY <1>4, <1>5, <2>1
  <2>3. Begun(w)
    <3>1. ~(generation[w[1]] < w[2])
      BY <1>1, <2>2 DEF LeaseInv, MonitorOut, UninstalledNone, Uninstalled
    <3>2. generation[w[1]] \in Nat /\ w[2] \in Nat
      BY <1>1, WorkerParts, PoolAssumption DEF TypeOK, PoolAssumption
    <3> QED
      BY <3>1, <3>2 DEF Begun
  <2>4. Alive(w)
    BY <1>1, <1>5, <2>3, StepMortal DEF Mortal
  <2>5. ToldToGo(w)
    BY <2>1, <2>2, <2>4 DEF Chased, ToldToGo
  <2> QED
    BY <1>1, <1>5, <2>5, StepTold DEF Told, ToldToGo
<1> QED
  BY <1>2, <1>5 DEF Chased

\* What Shutdown waits for can go on: a monitor still in cmd.Wait has an exit to
\* take, or somebody who will kill its process when grace has passed.
NeverStuck ==
    sd \in {"wait", "killed"} =>
      /\ Up /\ stopping
      /\ \A w \in Worker : mon[w] = "wait" =>
            proc[w] \in {"clean", "fail"} \/ \E t \in terms : t.w = w

\* Without scaling Shutdown never waits for a process that nobody ends (pool.go:
\* Shutdown's second pass over the slots, monitor, terminateWorker); with it, the
\* process of a double boot is such a one.
THEOREM ShutdownNeverStuck == ASSUME MaxScale = 0 PROVE Spec => []NeverStuck
<1>1. SeenInv /\ Ending /\ Chased => NeverStuck
  BY DEF SeenInv, Seen, Spawned, Ending, Chased, NeverStuck, Alive, Up
<1>2. FixedInv /\ [Next]_vars => FixedInv'
  BY StepFixed
<1>3. Init => Ending /\ SeenInv /\ Chased
  BY DEF Init, Ending, SeenInv, Seen, NoBoot, Chased
<1>4. FixedInv /\ Ending /\ [Next]_vars => Ending'
  BY StepEnding
<1>5. FixedInv /\ SeenInv /\ [Next]_vars => SeenInv'
  BY StepSeen DEF FixedInv
<1>6. FixedInv /\ FixedInv' /\ Ending /\ Chased /\ [Next]_vars => Chased'
  BY StepChased DEF FixedInv, Unscaled
<1> QED
  BY <1>1, <1>2, <1>3, <1>4, <1>5, <1>6, InitFixed, PTL DEF Spec

-----------------------------------------------------------------------------
(* Requests                                                                *)

\* Until Shutdown, who was sent SIGTERM is draining, and is not the worker of
\* a request that is being served.
Serves(r) == at[r] \in {"claimed", "busy", "answered", "recycle"}
Spared ==
    ~stopping => /\ terms = {}
                 /\ \A w \in Worker : proc[w] = "term" => wstate[w] = "draining"
                 /\ \A r \in Requests : Serves(r) => proc[held[r]] # "term"

\* A step that signals nobody and claims nobody keeps it.
LEMMA NobodySignalled ==
  ASSUME LeaseInv, Spared,
         UNCHANGED <<stopping, terms>>,
         \A w \in Worker : proc'[w] = "term" => proc[w] = "term" /\ wstate'[w] = wstate[w],
         \A r \in Requests : Serves(r)' => Serves(r) /\ held'[r] = held[r]
  PROVE  Spared'
<1>1. ASSUME NEW r \in Requests, Serves(r) PROVE held[r] \in Worker
  BY <1>1 DEF LeaseInv, TypeOK, Serves
<1> QED
  BY <1>1 DEF Spared

LEMMA RequestSpares ==
  ASSUME LeaseInv, Spared, NEW r \in Requests, RequestSteps(r)
  PROVE  Spared'
<1> DEFINE w == held[r]
<1>1. /\ proc \in [Worker -> Proc] /\ wstate \in [Worker -> WState]
      /\ at \in [Requests -> ReqAt] /\ held \in [Requests -> Worker \cup {NoWorker}]
      /\ at[r] \notin {"off", "try", "queued"} => w \in Worker
  BY DEF LeaseInv, TypeOK
<1>2. UNCHANGED <<stopping, terms>>
  BY DEF RequestSteps, Arrive, TryMisses, AcquireEnds, Pop, Check, MarkBusy,
         Responds, Discard, DiscardEnds, Release, PutBack
<1>3. \A q \in Requests : q # r /\ w # NoWorker => held[q] # w
  BY DEF LeaseInv, LeaseExclusive, HeldOnce
<1>4. CASE Arrive(r) \/ TryMisses(r) \/ AcquireEnds(r) \/ Pop(r) \/ PutBack(r)
  <2>1. /\ UNCHANGED <<proc, wstate>>
        /\ \E p \in {"off", "try", "queued", "tryHas", "queuedHas"} : at' = [at EXCEPT ![r] = p]
        /\ \/ UNCHANGED held
           \/ \E v : held' = [held EXCEPT ![r] = v]
    BY <1>4 DEF Arrive, TryMisses, AcquireEnds, Pop, PutBack, Goes, Leaves
  <2>2. \A q \in Requests : Serves(q)' => Serves(q) /\ held'[q] = held[q]
    BY <1>1, <2>1 DEF Serves
  <2> QED
    BY <1>2, <2>1, <2>2, NobodySignalled
<1>5. CASE Check(r)
  <2>1. UNCHANGED <<proc, wstate>>
    BY <1>5 DEF Check
  <2>2. \A q \in Requests : q # r /\ Serves(q)' => Serves(q) /\ held'[q] = held[q]
    BY <1>1, <1>5 DEF Check, Goes, Serves
  <2>3. Serves(r)' => held'[r] = w /\ wstate[w] = "idle" /\ w \in Worker
    BY <1>1, <1>5 DEF Check, Goes, Serves
  <2> QED
    BY <1>1, <1>2, <2>1, <2>2, <2>3 DEF Spared
<1>6. CASE MarkBusy(r) \/ Responds(r)
  <2>1. /\ UNCHANGED <<proc, held>> /\ Serves(r) /\ w \in Worker
        /\ \E p \in ReqAt : at' = [at EXCEPT ![r] = p]
        /\ \A v \in Worker : v # w => wstate'[v] = wstate[v]
    BY <1>1, <1>6 DEF MarkBusy, Responds, Goes, Serves, ReqAt
  <2>2. \A q \in Requests : Serves(q)' => Serves(q)
    BY <1>1, <2>1 DEF Serves
  <2> QED
    BY <1>1, <1>2, <2>1, <2>2 DEF Spared
<1>7. CASE Discard(r) \/ Release(r)
  <2>1. /\ w \in Worker /\ Serves(r) /\ ~Serves(r)'
        /\ \A q \in Requests : q # r => at'[q] = at[q] /\ held'[q] = held[q]
    BY <1>1, <1>7 DEF Discard, Release, Goes, Leaves, Serves
  <2>2. /\ \A v \in Worker : v # w => proc'[v] = proc[v] /\ wstate'[v] = wstate[v]
        /\ \/ proc'[w] = proc[w]
           \/ wstate'[w] = "draining"
    BY <1>1, <1>7, <2>1 DEF Discard, Release
  <2>3. ASSUME NEW q \in Requests, Serves(q)', ~stopping PROVE proc'[held'[q]] # "term"
    <3>1. q # r /\ Serves(q) /\ held'[q] = held[q]
      BY <2>1, <2>3 DEF Serves
    <3>2. held[q] # w /\ held[q] \in Worker
      BY <1>1, <1>3, <2>1, <3>1, NoWorkerIsNone DEF Serves, LeaseInv, TypeOK
    <3> QED
      BY <2>2, <2>3, <3>1, <3>2 DEF Spared
  <2>4. ~stopping => proc[w] # "term"
    BY <2>1 DEF Spared
  <2> QED
    BY <1>2, <2>1, <2>2, <2>3, <2>4 DEF Spared
<1>8. CASE DiscardEnds(r)
  <2>1. /\ w \in Worker /\ at' = [at EXCEPT ![r] = "off"] /\ wstate' = wstate
        /\ held' = [held EXCEPT ![r] = NoWorker]
        /\ proc' = [proc EXCEPT ![w] = Killed(w)]
    BY <1>1, <1>8 DEF DiscardEnds, Leaves, Goes
  <2>2. \A v \in Worker : proc'[v] = "term" => proc[v] = "term"
    BY <1>1, <2>1 DEF Killed
  <2>3. \A q \in Requests : Serves(q)' => Serves(q) /\ held'[q] = held[q]
    BY <1>1, <2>1 DEF Serves
  <2> QED
    BY <1>2, <2>1, <2>2, <2>3, NobodySignalled
<1> QED
  BY <1>4, <1>5, <1>6, <1>7, <1>8 DEF RequestSteps

\* A boot in progress is nobody's yet, so it installs no worker that was told
\* to go.
LEMMA BootSpares ==
  ASSUME LeaseInv, Spared,
         \/ \E s \in Slot, k \in Kind : BootBegin(s, k) \/ BootRefused(s, k)
         \/ \E w \in Worker : BootSteps(w)
  PROVE  Spared'
<1>1. proc \in [Worker -> Proc] /\ wstate \in [Worker -> WState]
  BY DEF LeaseInv, TypeOK
<1>2. ASSUME UNCHANGED <<stopping, terms, at, held>>,
             \A w \in Worker : proc'[w] = "term" => proc[w] = "term" /\ wstate'[w] = wstate[w]
      PROVE  Spared'
  BY <1>2, NobodySignalled DEF Serves
<1>3. ASSUME NEW s \in Slot, NEW k \in Kind, BootBegin(s, k) PROVE Spared'
  <2>1. /\ UNCHANGED <<stopping, terms, at, held, wstate>>
        /\ \E p \in {"none", "up"} : proc' = [proc EXCEPT ![<<s, generation[s] + 1>>] = p]
    BY <1>3 DEF BootBegin
  <2> QED
    BY <1>1, <1>2, <2>1
<1>4. ASSUME NEW s \in Slot, NEW k \in Kind, BootRefused(s, k) PROVE Spared'
  BY <1>2, <1>4 DEF BootRefused
<1>5. ASSUME NEW w \in Worker, BootInstalls(w) PROVE Spared'
  <2>1. /\ UNCHANGED <<stopping, terms, at, held, proc>>
        /\ boot[w].at = "starting" /\ wstate' = [wstate EXCEPT ![w] = "idle"]
    BY <1>5 DEF BootInstalls
  <2>2. wstate[w] = "none"
    BY <2>1 DEF LeaseInv, UninstalledNone, Uninstalled
  <2>3. ~stopping => proc[w] # "term"
    BY <2>2 DEF Spared
  <2>4. \A v \in Worker : v # w => wstate'[v] = wstate[v]
    BY <1>1, <2>1
  <2> QED
    BY <2>1, <2>3, <2>4 DEF Spared, Serves
<1>6. ASSUME NEW w \in Worker, BootFails(w) \/ BootReaps(w) PROVE Spared'
  <2>1. /\ UNCHANGED <<stopping, terms, at, held, wstate>>
        /\ proc' = [proc EXCEPT ![w] = Killed(w)]
    BY <1>6 DEF BootFails, BootReaps
  <2> QED
    BY <1>1, <1>2, <2>1 DEF Killed
<1>7. ASSUME NEW w \in Worker, BootTooLate(w) \/ BootPush(w) PROVE Spared'
  BY <1>2, <1>7 DEF BootTooLate, BootPush
<1> QED
  BY <1>3, <1>4, <1>5, <1>6, <1>7 DEF BootSteps

LEMMA MonitorSpares ==
  ASSUME LeaseInv, Spared, NEW w \in Worker, MonitorSteps(w) \/ ProcExit(w)
  PROVE  Spared'
<1>1. proc \in [Worker -> Proc] /\ wstate \in [Worker -> WState]
  BY DEF LeaseInv, TypeOK
<1>2. UNCHANGED <<stopping, terms, at, held>>
  BY DEF MonitorSteps, MonitorStale, MonitorExit, MonitorPurges, MonitorRecords, ProcExit
<1>3. /\ \A v \in Worker : v # w => wstate'[v] = wstate[v] /\ proc'[v] = proc[v]
      /\ UNCHANGED <<proc, wstate>> \/ proc'[w] \in {"clean", "fail", "reaped"}
  BY <1>1 DEF MonitorSteps, MonitorStale, MonitorExit, MonitorPurges, MonitorRecords, ProcExit
<1>4. \A v \in Worker : proc'[v] = "term" => proc[v] = "term" /\ wstate'[v] = wstate[v]
  BY <1>3
<1> QED
  BY <1>2, <1>4, NobodySignalled DEF Serves

LEMMA StepSpares == ASSUME MaxScale = 0, FixedInv, Ending, Spared, [Next]_vars PROVE Spared'
<1>1. LeaseInv /\ ~ScaleSteps
  BY NeverScales DEF FixedInv
<1>2. ASSUME NEW t \in terms, TermSignals(t) \/ TermEnds(t) PROVE Spared'
  <2>1. stopping /\ stopping' = stopping
    BY <1>2 DEF Spared, TermSignals, TermEnds
  <2> QED
    BY <2>1 DEF Spared
<1>3. CASE StartReturns \/ PurgePop \/ PurgePush \/ UNCHANGED vars \/ Cancel \/ StopDone
  <2>1. UNCHANGED <<stopping, terms, proc, wstate, at, held>>
    BY <1>3 DEF StartReturns, PurgePop, PurgePush, vars, Cancel, StopDone
  <2> QED
    BY <1>1, <2>1, NobodySignalled DEF Serves
<1>4. CASE Stop \/ StopIdle \/ StopRest \/ StopKills
  <2>1. stopping'
    BY <1>4 DEF Ending, Stop, StopIdle, StopRest, StopKills
  <2> QED
    BY <2>1 DEF Spared
<1> QED
  BY <1>1, <1>2, <1>3, <1>4, BootSpares, MonitorSpares, RequestSpares
     DEF Next, ProgramStep, Ended, StopSteps

\* Without scaling nobody signals a worker while it serves, whichever handlers,
\* monitors and boots run beside it, until the pool stops.
THEOREM ServingIsUndisturbed == ASSUME MaxScale = 0 PROVE Spec => []ServingUndisturbed
<1>1. Spared => ServingUndisturbed
  BY DEF Spared, Serves, ServingUndisturbed
<1>2. FixedInv /\ [Next]_vars => FixedInv'
  BY StepFixed
<1>3. Init => Ending /\ Spared
  <2> SUFFICES ASSUME Init PROVE Ending /\ Spared
    OBVIOUS
  <2> QED
    BY DEF Init, Ending, Spared, Serves
<1>4. FixedInv /\ Ending /\ [Next]_vars => Ending'
  BY StepEnding
<1>5. FixedInv /\ Ending /\ Spared /\ [Next]_vars => Spared'
  BY StepSpares
<1> QED
  BY <1>1, <1>2, <1>3, <1>4, <1>5, InitFixed, PTL DEF Spec

=============================================================================
