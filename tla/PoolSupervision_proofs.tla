------------------------ MODULE PoolSupervision_proofs ------------------------
(***************************************************************************)
(* The pool that is not scaled implements Supervision, for every number of *)
(* slots, requests and generations.                                        *)
(*                                                                         *)
(* The argument: what is under way for a slot (FixedPool_proofs) is what   *)
(* its life says, and there is one of it; so the step that takes the duty  *)
(* on moves the slot's life, and every other step leaves all lives alone   *)
(* and gives no slot a process.                                            *)
(***************************************************************************)
EXTENDS FixedPool_proofs

USE DEF poolVars, slotVars, workVars, chanVars, reqVars, scaleVars,
        unchangedByRequest

\* A slot beyond the first Start's is never asked for, and a boot or a monitor
\* gives up only when the pool stops.
Steady ==
    /\ desired = InitDesired /\ (stopping => ctxDone)
    /\ \A s \in Slot : s > InitDesired => /\ \A w \in Of(s) : ~Duty(w)
                                          /\ \A k \in Kind : pending[s][k] = 0
    /\ \A w \in Worker : boot[w].at = "reap" \/ mon[w] = "quit" => stopping

SoloInv == FixedInv /\ Steady

-----------------------------------------------------------------------------
(* Lives                                                                   *)

\* What a slot waits for, has in hand or runs is its life.
LEMMA LifeDue ==
  ASSUME SoloInv, NEW s \in Slot, NEW k \in Kind, pending[s][k] > 0
  PROVE  Life(s) = "due" /\ s <= InitDesired
<1>1. ~(s > InitDesired)
  <2>1. pending[s][k] # 0
    BY DEF SoloInv, FixedInv, LeaseInv, TypeOK
  <2> QED
    BY <2>1 DEF SoloInv, Steady
<1>2. s <= InitDesired
  BY <1>1, PoolAssumption DEF PoolAssumption, Slot
<1> QED
  BY <1>1, <1>2 DEF Life

LEMMA LifeInHand ==
  ASSUME SoloInv, NEW w \in Worker, Duty(w)
  PROVE  /\ Life(w[1]) = IF boot[w].at \in Hands THEN "boot" ELSE "up"
         /\ w[1] \in Slot /\ w[1] <= InitDesired
         /\ w[1] \in Inhabited <=> Alive(w)
<1>1. w[1] \in Slot /\ w \in Of(w[1])
  BY WorkerParts DEF Of
<1>2. ~(w[1] > InitDesired)
  BY <1>1 DEF SoloInv, Steady
<1>3. w[1] <= InitDesired
  BY <1>1, <1>2, PoolAssumption DEF Slot, PoolAssumption
<1>4. /\ \A k \in Kind : pending[w[1]][k] = 0
      /\ \A v \in Worker : v[1] = w[1] /\ v # w =>
            /\ boot[v].at \notin Hands /\ mon[v] \in {"none", "done"}
            /\ ~Alive(v) /\ ~Current(v)
  BY <1>1, Alone DEF SoloInv, FixedInv, LeaseInv
<1>5. Life(w[1]) = IF boot[w].at \in Hands THEN "boot" ELSE "up"
  BY <1>1, <1>2, <1>4 DEF Life, Of, Hands, Duty
<1>6. w[1] \in Inhabited <=> Alive(w)
  BY <1>1, <1>4 DEF Inhabited, Of
<1> QED
  BY <1>1, <1>3, <1>5, <1>6

\* The lives after a step of one slot.
LEMMA OneLife ==
  ASSUME NEW s \in Slot, NEW l, Life(s)' = l,
         \A t \in Slot : t # s => pending'[t] = pending[t],
         \A w \in Worker : w[1] # s =>
            /\ boot'[w].at \in Hands <=> boot[w].at \in Hands
            /\ mon'[w] = mon[w]
  PROVE  Lives' = [Lives EXCEPT ![s] = l]
<1>1. ASSUME NEW t \in Slot, t # s PROVE Life(t)' = Life(t)
  BY <1>1 DEF Life, Of, Hands
<1> QED
  BY <1>1 DEF Lives

LEMMA SameLives ==
  ASSUME UNCHANGED pending,
         \A w \in Worker :
            /\ boot'[w].at \in Hands <=> boot[w].at \in Hands
            /\ mon'[w] \in {"none", "done"} <=> mon[w] \in {"none", "done"}
  PROVE  Lives' = Lives
<1>1. ASSUME NEW t \in Slot PROVE Life(t)' = Life(t)
  BY <1>1 DEF Life, Of, Hands
<1> QED
  BY <1>1 DEF Lives

\* A step that takes no duty on and starts no process at most ends some.
SupStep == Supervised!Next \/ UNCHANGED Supervised!supervisionVars

LEMMA OnlyDies ==
  ASSUME UNCHANGED <<pending, crashes, ctxDone, stopping>>,
         \A w \in Worker :
            /\ boot'[w].at \in Hands <=> boot[w].at \in Hands
            /\ mon'[w] \in {"none", "done"} <=> mon[w] \in {"none", "done"}
            /\ Alive(w)' => Alive(w)
  PROVE  SupStep
<1>1. Lives' = Lives
  BY SameLives
<1>2. Inhabited' \subseteq Inhabited
  BY DEF Inhabited, Of
<1>3. AllIf(ctxDone)' = AllIf(ctxDone) /\ AllIf(stopping)' = AllIf(stopping)
  BY DEF AllIf
<1>4. Supervised!Dies
  BY <1>1, <1>2, <1>3 DEF Supervised!Dies
<1> QED
  BY <1>4 DEF SupStep, Supervised!Next

\* Whom the program has told stays told.
LEMMA ToldSame ==
  ASSUME UNCHANGED <<ctxDone, stopping>>
  PROVE  AllIf(ctxDone)' = AllIf(ctxDone) /\ AllIf(stopping)' = AllIf(stopping)
BY DEF AllIf

LEMMA OverSame == \A n : Supervised!Over(n) <=> Exceeds(n)
BY DEF Supervised!Over, Exceeds

\* The crash that ends a slot's duty is a strike.
LEMMA CrashStrikes ==
  ASSUME TypeOK, NEW s \in Slot, s <= InitDesired,
         CrashRecorded(s), \A k \in Kind : pending[s][k] = 0,
         \A w \in Of(s) : boot'[w].at \notin Hands /\ mon'[w] \in {"none", "done"},
         \A w \in Worker : w[1] # s =>
            /\ boot'[w].at \in Hands <=> boot[w].at \in Hands
            /\ mon'[w] = mon[w]
  PROVE  Supervised!Struck(s)
<1>1. PICK n \in 1..(crashes[s] + 1) :
        /\ crashes' = [crashes EXCEPT ![s] = n]
        /\ pending' = IF Exceeds(n) THEN pending ELSE [pending EXCEPT ![s]["crash"] = @ + 1]
  BY DEF CrashRecorded
<1>2. /\ pending \in [Slot -> [Kind -> Nat]] /\ "crash" \in Kind
      /\ ~(s > InitDesired)
  <2>1. ~(s > InitDesired)
    BY PoolAssumption DEF PoolAssumption, Slot
  <2> QED
    BY <2>1 DEF TypeOK, Kind
<1>3. \A t \in Slot : t # s => pending'[t] = pending[t]
  BY <1>1, <1>2
<1>4. CASE Exceeds(n)
  <2>1. Life(s)' = "off"
    BY <1>1, <1>2, <1>4 DEF Life, Hands
  <2>2. Lives' = [Lives EXCEPT ![s] = "off"]
    BY <1>3, <2>1, OneLife
  <2> QED
    BY <1>1, <1>4, <2>2, OverSame DEF Supervised!Struck, Supervised!Becomes
<1>5. CASE ~Exceeds(n)
  <2>1. pending'[s]["crash"] > 0
    BY <1>1, <1>2, <1>5
  <2>2. Life(s)' = "due"
    BY <1>2, <2>1 DEF Life
  <2>3. Lives' = [Lives EXCEPT ![s] = "due"]
    BY <1>3, <2>2, OneLife
  <2> QED
    BY <1>1, <1>5, <2>3, OverSame DEF Supervised!Struck, Supervised!Becomes
<1> QED
  BY <1>4, <1>5

-----------------------------------------------------------------------------
(* Boots                                                                   *)

LEMMA BeginSupervised ==
  ASSUME SoloInv, NEW s \in Slot, NEW k \in Kind, BootBegin(s, k)
  PROVE  SupStep /\ Steady'
<1>1. /\ pending[s][k] > 0 /\ ~stopping /\ generation[s] < MaxGen
      /\ pending' = [pending EXCEPT ![s][k] = @ - 1]
      /\ UNCHANGED <<desired, ctxDone, stopping, crashes, mon>>
  BY DEF BootBegin
<1>2. TypeOK /\ Whole(s)
  BY DEF SoloInv, FixedInv, LeaseInv
<1>3. PICK w \in Worker : w = <<s, generation[s] + 1>>
  <2>1. generation[s] + 1 \in 1..MaxGen
    BY <1>1, <1>2, PoolAssumption DEF TypeOK, PoolAssumption
  <2> QED
    BY <2>1 DEF Worker, Gen
<1>4. /\ w[1] = s
      /\ \E place \in {"starting", "doomed"} :
            boot' = [boot EXCEPT ![w] = [at |-> place, kind |-> k]]
      /\ \E p \in {"none", "up"} : proc' = [proc EXCEPT ![w] = p]
  BY <1>3, BootPlace DEF BootBegin
<1>5. /\ pending[s][k] = 1 /\ \A j \in Kind \ {k} : pending[s][j] = 0
      /\ \A v \in Worker : v[1] = s => /\ boot[v].at \notin Hands
                                       /\ mon[v] \in {"none", "done"}
                                       /\ ~Alive(v) /\ ~Current(v)
  BY <1>1, <1>2, Asked
<1>6. /\ \A v \in Worker : v # w => boot'[v] = boot[v] /\ proc'[v] = proc[v]
      /\ boot'[w].at \in {"starting", "doomed"} /\ proc'[w] \in {"none", "up"}
      /\ \A t \in Slot : t # s => pending'[t] = pending[t]
      /\ \A j \in Kind : pending'[s][j] = 0
  <2>1. /\ boot \in [Worker -> Boot] /\ proc \in [Worker -> Proc]
        /\ pending \in [Slot -> [Kind -> Nat]]
    BY <1>2 DEF TypeOK
  <2> QED
    BY <1>1, <1>4, <1>5, <2>1
<1>7. Life(s) = "due" /\ s <= InitDesired
  BY <1>1, LifeDue
<1>8. ~(s > InitDesired)
  BY <1>7, PoolAssumption DEF PoolAssumption, Slot
<1>9. Lives' = [Lives EXCEPT ![s] = "boot"]
  <2>1. w \in Of(s) /\ boot'[w].at \in {"starting", "doomed", "reap"}
    BY <1>4, <1>6 DEF Of
  <2>2. Life(s)' = "boot"
    BY <1>6, <1>8, <2>1 DEF Life
  <2> QED
    BY <1>1, <1>4, <1>6, <2>2, OneLife
<1>10. s \notin Inhabited /\ Inhabited' \in {Inhabited, Inhabited \cup {s}}
  <2>1. s \notin Inhabited
    BY <1>5 DEF Inhabited, Of
  <2>2. \A t \in Slot : t # s => (t \in Inhabited' <=> t \in Inhabited)
    BY <1>4, <1>6 DEF Inhabited, Of, Alive
  <2> QED
    BY <2>1, <2>2 DEF Inhabited
<1>11. Supervised!Begins(s)
  <2>1. AllIf(stopping) = {} /\ Lives[s] = "due"
    BY <1>1, <1>7 DEF AllIf, Lives
  <2> QED
    BY <1>1, <1>9, <1>10, <2>1, ToldSame DEF Supervised!Begins, Supervised!Becomes
<1>12. Steady'
  BY <1>1, <1>4, <1>6, <1>8 DEF SoloInv, Steady, Duty, Hands, Of
<1> QED
  BY <1>11, <1>12 DEF SupStep, Supervised!Next, Supervised!SlotStep

LEMMA RefusedSupervised ==
  ASSUME SoloInv, NEW s \in Slot, NEW k \in Kind, BootRefused(s, k)
  PROVE  SupStep /\ Steady'
<1>1. /\ pending[s][k] > 0 /\ (stopping \/ Retired(s) \/ ctxDone)
      /\ pending' = [pending EXCEPT ![s][k] = @ - 1]
      /\ UNCHANGED <<desired, ctxDone, stopping, crashes, mon, boot, proc>>
  BY DEF BootRefused
<1>2. TypeOK /\ Whole(s)
  BY DEF SoloInv, FixedInv, LeaseInv
<1>3. /\ pending[s][k] = 1 /\ \A j \in Kind \ {k} : pending[s][j] = 0
      /\ \A v \in Worker : v[1] = s => boot[v].at \notin Hands /\ mon[v] \in {"none", "done"}
  BY <1>1, <1>2, Asked
<1>4. /\ \A t \in Slot : t # s => pending'[t] = pending[t]
      /\ \A j \in Kind : pending'[s][j] = 0
  <2>1. pending \in [Slot -> [Kind -> Nat]]
    BY <1>2 DEF TypeOK
  <2> QED
    BY <1>1, <1>3, <2>1
<1>5. Life(s) = "due" /\ s <= InitDesired
  BY <1>1, LifeDue
<1>6. ~(s > InitDesired)
  BY <1>5, PoolAssumption DEF PoolAssumption, Slot
<1>7. ctxDone
  BY <1>1, <1>6 DEF SoloInv, Steady, Retired
<1>8. Lives' = [Lives EXCEPT ![s] = "off"]
  <2>1. Life(s)' = "off"
    BY <1>1, <1>3, <1>4, <1>6 DEF Life, Of, Hands
  <2> QED
    BY <1>1, <1>4, <2>1, OneLife
<1>9. Inhabited' = Inhabited
  BY <1>1 DEF Inhabited, Alive
<1>10. Supervised!Quits(s)
  <2>1. s \in AllIf(ctxDone) /\ Lives[s] = "due"
    BY <1>5, <1>7 DEF AllIf, Lives
  <2> QED
    BY <1>1, <1>8, <1>9, <2>1, ToldSame DEF Supervised!Quits, Supervised!Becomes
<1>11. Steady'
  BY <1>1, <1>4, <1>6 DEF SoloInv, Steady, Duty
<1> QED
  BY <1>10, <1>11 DEF SupStep, Supervised!Next, Supervised!SlotStep

\* A boot in hand: what holds of it, and of the rest of its slot.
LEMMA BootHeld ==
  ASSUME SoloInv, NEW w \in Worker, boot[w].at \in Hands
  PROVE  /\ TypeOK /\ w[1] \in Slot /\ w \in Of(w[1])
         /\ w[1] <= InitDesired /\ ~(w[1] > InitDesired)
         /\ Lives[w[1]] = "boot" /\ mon[w] = "none"
         /\ boot[w].at # "reap" => ~Exceeded(w[1])
         /\ \A k \in Kind : pending[w[1]][k] = 0
         /\ \A v \in Of(w[1]) : v # w =>
               boot[v].at \notin Hands /\ mon[v] \in {"none", "done"} /\ ~Alive(v)
<1>1. Duty(w) /\ TypeOK /\ w[1] \in Slot /\ w \in Of(w[1])
  BY WorkerParts DEF SoloInv, FixedInv, LeaseInv, Duty, Of
<1>2. Whole(w[1])
  BY <1>1 DEF SoloInv, FixedInv
<1>3. Lives[w[1]] = "boot" /\ w[1] <= InitDesired
  BY <1>1, LifeInHand DEF Lives
<1>4. ~(w[1] > InitDesired)
  BY <1>1 DEF SoloInv, Steady
<1>5. mon[w] = "none" /\ (boot[w].at # "reap" => ~Exceeded(w[1]))
  BY <1>1, <1>2 DEF Whole, InHand, Hands, Spent, Booting
<1>6. /\ \A k \in Kind : pending[w[1]][k] = 0
      /\ \A v \in Of(w[1]) : v # w =>
            boot[v].at \notin Hands /\ mon[v] \in {"none", "done"} /\ ~Alive(v)
  BY <1>1, <1>2, Alone DEF Of
<1> QED
  BY <1>1, <1>3, <1>4, <1>5, <1>6

\* The processes of the others are left alone, so the slot's is all that may go.
LEMMA GoneFrom ==
  ASSUME NEW w \in Worker, w[1] \in Slot,
         \A v \in Worker : v # w => proc'[v] = proc[v],
         proc'[w] \notin {"up", "term"},
         \A v \in Of(w[1]) : v # w => ~Alive(v)
  PROVE  Inhabited' = Inhabited \ {w[1]}
BY DEF Inhabited, Of, Alive

LEMMA FailsSupervised ==
  ASSUME SoloInv, NEW w \in Worker, BootFails(w)
  PROVE  SupStep /\ Steady'
<1> DEFINE s == w[1]
<1>1. /\ boot[w].at \in Hands /\ boot[w].at # "reap"
      /\ proc' = [proc EXCEPT ![w] = Killed(w)]
      /\ boot' = [boot EXCEPT ![w] = NoBoot]
      /\ UNCHANGED <<desired, ctxDone, stopping, mon>>
  BY DEF BootFails, Hands
<1>2. /\ TypeOK /\ s \in Slot /\ w \in Of(s) /\ s <= InitDesired /\ ~(s > InitDesired)
      /\ Lives[s] = "boot" /\ mon[w] = "none" /\ ~Exceeded(s)
      /\ \A k \in Kind : pending[s][k] = 0
      /\ \A v \in Of(s) : v # w =>
            boot[v].at \notin Hands /\ mon[v] \in {"none", "done"} /\ ~Alive(v)
  BY <1>1, BootHeld
<1>3. /\ \A v \in Worker : v # w => boot'[v] = boot[v] /\ proc'[v] = proc[v]
      /\ boot'[w] = NoBoot /\ proc'[w] \notin {"up", "term"}
  <2>1. boot \in [Worker -> Boot] /\ proc \in [Worker -> Proc]
    BY <1>2 DEF TypeOK
  <2> QED
    BY <1>1, <2>1 DEF Killed, Alive
<1>4. /\ \A v \in Of(s) : boot'[v].at \notin Hands /\ mon'[v] \in {"none", "done"}
      /\ \A v \in Worker : v[1] # s => boot'[v] = boot[v] /\ mon'[v] = mon[v]
  BY <1>1, <1>2, <1>3 DEF NoBoot, Hands, Of
<1>5. Inhabited' = Inhabited \ {s}
  BY <1>2, <1>3, GoneFrom
<1> HIDE DEF s
<1>6. Supervised!Struck(s) \/ Supervised!Restarted(s)
  <2>1. CASE boot[w].kind = "crash"
    <3>1. CrashRecorded(s)
      BY <2>1 DEF BootFails, s
    <3> QED
      BY <1>2, <1>4, <3>1, CrashStrikes
  <2>2. CASE boot[w].kind # "crash"
    <3>1. pending' = [pending EXCEPT ![s]["crash"] = @ + 1] /\ crashes' = crashes
      BY <1>2, <2>2 DEF BootFails, s
    <3>2. /\ \A t \in Slot : t # s => pending'[t] = pending[t]
          /\ pending'[s]["crash"] > 0 /\ "crash" \in Kind
      BY <1>2, <3>1 DEF TypeOK, Kind
    <3>3. Life(s)' = "due"
      BY <1>2, <3>2 DEF Life
    <3>4. Lives' = [Lives EXCEPT ![s] = "due"]
      BY <1>2, <1>4, <3>2, <3>3, OneLife
    <3> QED
      BY <3>1, <3>4 DEF Supervised!Restarted, Supervised!Becomes
  <2> QED
    BY <2>1, <2>2
<1>7. Supervised!Failed(s)
  BY <1>1, <1>2, <1>5, <1>6, ToldSame DEF Supervised!Failed
<1>8. Steady'
  <2>1. \A t \in Slot : t # s => pending'[t] = pending[t]
    <3>1. CASE boot[w].kind = "crash"
      BY <1>2, <3>1 DEF BootFails, CrashRecorded, s, TypeOK
    <3>2. CASE boot[w].kind # "crash"
      BY <1>2, <3>2 DEF BootFails, s, TypeOK
    <3> QED
      BY <3>1, <3>2
  <2> QED
    BY <1>1, <1>2, <1>3, <2>1 DEF SoloInv, Steady, Duty, Hands, NoBoot, Of
<1> QED
  BY <1>2, <1>7, <1>8 DEF SupStep, Supervised!Next, Supervised!SlotStep

LEMMA InstallsSupervised ==
  ASSUME SoloInv, NEW w \in Worker, BootInstalls(w)
  PROVE  SupStep /\ Steady'
<1> DEFINE s == w[1]
<1>1. /\ boot[w].at \in Hands /\ ~stopping
      /\ mon' = [mon EXCEPT ![w] = "wait"]
      /\ boot' = [boot EXCEPT ![w] = IF HTTP THEN BootAt(w, "push") ELSE NoBoot]
      /\ UNCHANGED <<desired, ctxDone, stopping, pending, crashes, proc>>
  BY DEF BootInstalls, Hands
<1>2. /\ TypeOK /\ s \in Slot /\ w \in Of(s) /\ s <= InitDesired /\ ~(s > InitDesired)
      /\ Lives[s] = "boot"
      /\ \A k \in Kind : pending[s][k] = 0
      /\ \A v \in Of(s) : v # w => boot[v].at \notin Hands /\ mon[v] \in {"none", "done"}
  BY <1>1, BootHeld
<1>3. /\ \A v \in Worker : v # w => boot'[v] = boot[v] /\ mon'[v] = mon[v]
      /\ boot'[w].at \in {"push", "no"} /\ mon'[w] = "wait"
  <2>1. boot \in [Worker -> Boot] /\ mon \in [Worker -> Monitor]
    BY <1>2 DEF TypeOK
  <2> QED
    BY <1>1, <2>1 DEF BootAt, NoBoot
<1>4. Life(s)' = "up"
  <2>1. /\ \A v \in Of(s) : boot'[v].at \notin {"starting", "doomed", "reap"}
        /\ \E v \in Of(s) : mon'[v] \notin {"none", "done"}
    BY <1>2, <1>3 DEF Hands, Of
  <2> QED
    BY <1>1, <1>2, <2>1 DEF Life
<1>5. Lives' = [Lives EXCEPT ![s] = "up"] /\ Inhabited' = Inhabited
  BY <1>1, <1>2, <1>3, <1>4, OneLife DEF Inhabited, Alive
<1> HIDE DEF s
<1>6. Supervised!Installed(s)
  <2>1. AllIf(stopping) = {}
    BY <1>1 DEF AllIf
  <2> QED
    BY <1>1, <1>2, <1>5, <2>1, ToldSame DEF Supervised!Installed, Supervised!Becomes
<1>7. Steady'
  BY <1>1, <1>2, <1>3 DEF SoloInv, Steady, Duty, Hands, Of, s
<1> QED
  BY <1>2, <1>6, <1>7 DEF SupStep, Supervised!Next, Supervised!SlotStep

LEMMA ReapsSupervised ==
  ASSUME SoloInv, NEW w \in Worker, BootReaps(w)
  PROVE  SupStep /\ Steady'
<1> DEFINE s == w[1]
<1>1. /\ boot[w].at = "reap" /\ boot[w].at \in Hands
      /\ proc' = [proc EXCEPT ![w] = Killed(w)]
      /\ boot' = [boot EXCEPT ![w] = NoBoot]
      /\ UNCHANGED <<desired, ctxDone, stopping, pending, crashes, mon>>
  BY DEF BootReaps, Hands
<1>2. /\ TypeOK /\ s \in Slot /\ w \in Of(s) /\ s <= InitDesired /\ ~(s > InitDesired)
      /\ Lives[s] = "boot" /\ mon[w] = "none"
      /\ \A k \in Kind : pending[s][k] = 0
      /\ \A v \in Of(s) : v # w =>
            boot[v].at \notin Hands /\ mon[v] \in {"none", "done"} /\ ~Alive(v)
  BY <1>1, BootHeld
<1>3. /\ \A v \in Worker : v # w => boot'[v] = boot[v] /\ proc'[v] = proc[v]
      /\ boot'[w] = NoBoot /\ proc'[w] \notin {"up", "term"}
  <2>1. boot \in [Worker -> Boot] /\ proc \in [Worker -> Proc]
    BY <1>2 DEF TypeOK
  <2> QED
    BY <1>1, <2>1 DEF Killed, Alive
<1>4. stopping
  BY <1>1 DEF SoloInv, Steady
<1>5. Life(s)' = "off"
  <2>1. \A v \in Of(s) : /\ boot'[v].at \notin {"starting", "doomed", "reap"}
                         /\ mon'[v] \in {"none", "done"}
    BY <1>1, <1>2, <1>3 DEF Hands, NoBoot, Of
  <2> QED
    BY <1>1, <1>2, <2>1 DEF Life
<1>6. Lives' = [Lives EXCEPT ![s] = "off"] /\ Inhabited' = Inhabited \ {s}
  BY <1>1, <1>2, <1>3, <1>5, OneLife, GoneFrom
<1> HIDE DEF s
<1>7. Supervised!Abandoned(s)
  <2>1. s \in AllIf(stopping)
    BY <1>2, <1>4 DEF AllIf
  <2> QED
    BY <1>1, <1>2, <1>6, <2>1, ToldSame DEF Supervised!Abandoned, Supervised!Becomes
<1>8. Steady'
  BY <1>1, <1>2, <1>3, <1>4 DEF SoloInv, Steady, Duty, Hands, NoBoot, Of
<1> QED
  BY <1>2, <1>7, <1>8 DEF SupStep, Supervised!Next, Supervised!SlotStep

LEMMA BootSupervised ==
  ASSUME SoloInv, NEW w \in Worker, BootSteps(w)
  PROVE  SupStep /\ Steady'
<1>1. boot \in [Worker -> Boot]
  BY DEF SoloInv, FixedInv, LeaseInv, TypeOK
<1>2. CASE BootTooLate(w)
  <2>1. /\ boot[w].at = "starting" /\ (stopping \/ Retired(w[1]))
        /\ boot' = [boot EXCEPT ![w] = BootAt(w, "reap")]
        /\ UNCHANGED <<desired, ctxDone, stopping, pending, crashes, proc, mon>>
    BY <1>2 DEF BootTooLate
  <2>2. stopping
    BY <2>1, BootHeld DEF SoloInv, Steady, Retired, Hands
  <2>3. \A v \in Worker : /\ v # w => boot'[v] = boot[v]
                          /\ boot'[w].at = "reap"
    BY <1>1, <2>1 DEF BootAt
  <2>4. SupStep
    BY <2>1, <2>3, OnlyDies DEF Hands, Alive
  <2>5. Steady'
    BY <2>1, <2>2, <2>3 DEF SoloInv, Steady, Duty, Hands, Of
  <2> QED
    BY <2>4, <2>5
<1>3. CASE BootPush(w)
  <2>1. /\ boot[w].at = "push" /\ boot' = [boot EXCEPT ![w] = NoBoot]
        /\ UNCHANGED <<desired, ctxDone, stopping, pending, crashes, proc, mon>>
    BY <1>3 DEF BootPush
  <2>2. \A v \in Worker : /\ v # w => boot'[v] = boot[v]
                          /\ boot'[w].at = "no"
    BY <1>1, <2>1 DEF NoBoot
  <2>3. SupStep
    BY <2>1, <2>2, OnlyDies DEF Hands, Alive
  <2>4. Steady'
    BY <2>1, <2>2 DEF SoloInv, Steady, Duty, Hands, Of
  <2> QED
    BY <2>3, <2>4
<1> QED
  BY <1>2, <1>3, FailsSupervised, InstallsSupervised, ReapsSupervised DEF BootSteps

-----------------------------------------------------------------------------
(* Monitors                                                                *)

\* The monitor takes the worker away and goes on: the slot's life is as it was.
LEMMA ExitSupervised ==
  ASSUME SoloInv, NEW w \in Worker, MonitorExit(w)
  PROVE  SupStep /\ Steady'
<1>1. /\ mon[w] = "wait"
      /\ proc' = [proc EXCEPT ![w] = "reaped"]
      /\ UNCHANGED <<desired, ctxDone, stopping, pending, crashes, boot>>
  BY DEF MonitorExit
<1>2. /\ mon \in [Worker -> Monitor] /\ proc \in [Worker -> Proc] /\ w[1] \in Slot
  BY WorkerParts DEF SoloInv, FixedInv, LeaseInv, TypeOK
<1>3. /\ \A v \in Worker : v # w => mon'[v] = mon[v] /\ proc'[v] = proc[v]
      /\ mon'[w] \in {"quit", "planned", "crash"} /\ proc'[w] = "reaped"
      /\ mon'[w] = "quit" => stopping \/ Retired(w[1])
  BY <1>2 DEF MonitorExit
<1>4. ~Retired(w[1])
  <2>1. Duty(w) /\ w \in Of(w[1])
    BY <1>1 DEF Duty, Of
  <2> QED
    BY <1>2, <2>1 DEF SoloInv, Steady, Retired
<1>5. SupStep
  BY <1>1, <1>3, OnlyDies DEF Alive
<1>6. Steady'
  BY <1>1, <1>3, <1>4 DEF SoloInv, Steady, Duty, Of
<1> QED
  BY <1>5, <1>6

LEMMA MonitorSupervised ==
  ASSUME SoloInv, NEW w \in Worker, MonitorPurges(w) \/ MonitorRecords(w)
  PROVE  SupStep /\ Steady'
<1> DEFINE s == w[1]
<1>1. /\ mon[w] \in {"quit", "planned", "crash", "record"}
      /\ UNCHANGED <<desired, ctxDone, stopping, boot, proc>>
      /\ \E m \in {"record", "done"} : mon' = [mon EXCEPT ![w] = m]
  BY DEF MonitorPurges, MonitorRecords
<1>2. TypeOK /\ s \in Slot /\ w \in Of(s) /\ Whole(s) /\ Duty(w)
  BY <1>1, WorkerParts DEF SoloInv, FixedInv, LeaseInv, Duty, Of
<1>3. boot[w].at \notin Hands /\ ~Alive(w)
  BY <1>1, <1>2 DEF Whole, InHand
<1>4. /\ Lives[s] = "up" /\ s <= InitDesired /\ ~(s > InitDesired) /\ s \notin Inhabited
  <2>1. ~(s > InitDesired)
    BY <1>2 DEF SoloInv, Steady
  <2> QED
    BY <1>2, <1>3, <2>1, LifeInHand DEF Lives
<1>5. /\ \A k \in Kind : pending[s][k] = 0
      /\ \A v \in Of(s) : v # w => boot[v].at \notin Hands /\ mon[v] \in {"none", "done"}
  BY <1>2, Alone DEF Of
<1>6. /\ \A v \in Worker : v # w => mon'[v] = mon[v]
      /\ mon'[w] \in {"record", "done"}
  BY <1>1, <1>2 DEF TypeOK
<1>7. Inhabited' = Inhabited
  BY <1>1 DEF Inhabited, Alive
<1>8. /\ \A v \in Worker : v[1] # s => boot'[v] = boot[v] /\ mon'[v] = mon[v]
      /\ \A v \in Of(s) : boot'[v].at \notin Hands
      /\ mon'[w] = "done" => \A v \in Of(s) : mon'[v] \in {"none", "done"}
  BY <1>1, <1>3, <1>5, <1>6 DEF Of
<1> HIDE DEF s
<1>9. CASE MonitorRecords(w)
  <2>1. CrashRecorded(s) /\ mon'[w] = "done"
    BY <1>2, <1>9 DEF MonitorRecords, s, TypeOK
  <2>2. Supervised!Struck(s)
    BY <1>2, <1>4, <1>5, <1>8, <2>1, CrashStrikes
  <2>3. Supervised!Ended(s)
    BY <1>1, <1>4, <1>7, <2>2, ToldSame DEF Supervised!Ended
  <2>4. \A t \in Slot : t # s => pending'[t] = pending[t]
    BY <1>2, <2>1 DEF CrashRecorded, TypeOK
  <2>5. Steady'
    BY <1>1, <1>2, <1>4, <1>6, <2>4 DEF SoloInv, Steady, Duty, Of
  <2> QED
    BY <1>2, <2>3, <2>5 DEF SupStep, Supervised!Next, Supervised!SlotStep
<1>10. CASE MonitorPurges(w) /\ mon[w] = "planned"
  <2>1. /\ pending' = [pending EXCEPT ![s]["planned"] = @ + 1] /\ crashes' = crashes
    BY <1>10 DEF MonitorPurges, s
  <2>2. /\ pending'[s]["planned"] > 0 /\ "planned" \in Kind
        /\ \A t \in Slot : t # s => pending'[t] = pending[t]
    BY <1>2, <2>1 DEF TypeOK, Kind
  <2>3. Life(s)' = "due"
    BY <1>4, <2>2 DEF Life
  <2>4. Lives' = [Lives EXCEPT ![s] = "due"]
    BY <1>2, <1>8, <2>2, <2>3, OneLife
  <2>5. Supervised!Ended(s)
    BY <1>1, <1>4, <1>7, <2>1, <2>4, ToldSame
       DEF Supervised!Ended, Supervised!Restarted, Supervised!Becomes
  <2>6. Steady'
    BY <1>1, <1>2, <1>4, <1>6, <2>2 DEF SoloInv, Steady, Duty, Of
  <2> QED
    BY <1>2, <2>5, <2>6 DEF SupStep, Supervised!Next, Supervised!SlotStep
<1>11. CASE MonitorPurges(w) /\ mon[w] = "quit"
  <2>1. /\ UNCHANGED <<pending, crashes>> /\ mon'[w] = "done" /\ stopping
    BY <1>2, <1>11 DEF MonitorPurges, SoloInv, Steady, TypeOK
  <2>2. Life(s)' = "off"
    BY <1>4, <1>5, <1>8, <2>1 DEF Life, Hands
  <2>3. Lives' = [Lives EXCEPT ![s] = "off"]
    BY <1>2, <1>8, <2>1, <2>2, OneLife
  <2>4. Supervised!Ended(s)
    <3>1. s \in AllIf(stopping)
      BY <1>2, <2>1 DEF AllIf
    <3> QED
      BY <1>1, <1>4, <1>7, <2>1, <2>3, <3>1, ToldSame
         DEF Supervised!Ended, Supervised!Becomes
  <2>5. Steady'
    BY <1>1, <1>6, <2>1 DEF SoloInv, Steady, Duty, Of
  <2> QED
    BY <1>2, <2>4, <2>5 DEF SupStep, Supervised!Next, Supervised!SlotStep
<1>12. CASE MonitorPurges(w) /\ mon[w] = "crash"
  <2>1. UNCHANGED <<pending, crashes>> /\ mon'[w] = "record"
    BY <1>2, <1>12 DEF MonitorPurges, TypeOK
  <2>2. SupStep
    BY <1>1, <1>6, <1>12, <2>1, OnlyDies DEF Alive
  <2>3. Steady'
    BY <1>1, <1>2, <1>4, <1>6, <2>1 DEF SoloInv, Steady, Duty, Of
  <2> QED
    BY <2>2, <2>3
<1> QED
  BY <1>9, <1>10, <1>11, <1>12 DEF MonitorPurges

-----------------------------------------------------------------------------
(* Processes, requests, Shutdown                                           *)

\* Whoever signals or kills a process that runs leaves the slots alone.
LEMMA ProcSupervised ==
  ASSUME SoloInv, UNCHANGED <<desired, ctxDone, stopping, pending, crashes, boot, mon>>,
         \A w \in Worker : proc'[w] \in {"up", "term"} => Alive(w)
  PROVE  SupStep /\ Steady'
<1>1. SupStep
  BY OnlyDies DEF Alive
<1>2. Steady'
  BY DEF SoloInv, Steady, Duty
<1> QED
  BY <1>1, <1>2

LEMMA TellSupervised ==
  ASSUME SoloInv, Cancel \/ Stop
  PROVE  SupStep /\ Steady'
<1>1. /\ UNCHANGED <<desired, pending, crashes, boot, mon, proc>>
      /\ ctxDone' = TRUE /\ (stopping' = TRUE \/ stopping' = stopping)
  BY DEF Cancel, Stop
<1>2. Lives' = Lives /\ Inhabited' = Inhabited
  BY <1>1, SameLives DEF Inhabited, Alive
<1>3. AllIf(ctxDone)' = AllIf(ctxDone) \cup Slot
  BY <1>1 DEF AllIf
<1>4. ASSUME Cancel PROVE SupStep
  <2>1. AllIf(stopping)' = AllIf(stopping)
    BY <1>4 DEF Cancel, AllIf
  <2>2. Supervised!Cancelled(Slot)
    BY <1>1, <1>2, <1>3, <2>1 DEF Supervised!Cancelled
  <2>3. Slot \in SUBSET Slot
    OBVIOUS
  <2> QED
    BY <2>2, <2>3 DEF SupStep, Supervised!Next
<1>5. ASSUME Stop PROVE SupStep
  <2>1. AllIf(stopping)' = AllIf(stopping) \cup Slot
    BY <1>5 DEF Stop, AllIf
  <2>2. Supervised!Stopped(Slot)
    BY <1>1, <1>2, <1>3, <2>1 DEF Supervised!Stopped
  <2>3. Slot \in SUBSET Slot
    OBVIOUS
  <2> QED
    BY <2>2, <2>3 DEF SupStep, Supervised!Next
<1>6. SupStep
  BY <1>4, <1>5
<1>7. Steady'
  BY <1>1 DEF SoloInv, Steady, Duty
<1> QED
  BY <1>6, <1>7

LEMMA StepSupervised ==
  ASSUME MaxScale = 0, SoloInv, [Next]_vars
  PROVE  SupStep /\ Steady'
<1>1. TypeOK /\ proc \in [Worker -> Proc] /\ ~ScaleSteps
  BY NeverScales DEF SoloInv, FixedInv, LeaseInv, TypeOK
<1>2. \A w \in Worker : /\ Killed(w) \notin {"up", "term"}
                        /\ Signalled(w) \in {"up", "term"} => Alive(w)
  BY DEF Killed, Signalled, Alive
<1>3. ASSUME NEW s \in Slot, NEW k \in Kind, BootBegin(s, k) \/ BootRefused(s, k)
      PROVE  SupStep /\ Steady'
  BY <1>3, BeginSupervised, RefusedSupervised
<1>4. ASSUME NEW w \in Worker, MonitorSteps(w) PROVE SupStep /\ Steady'
  <2>1. ~MonitorStale(w)
    BY NeverStale DEF SoloInv
  <2> QED
    BY <1>4, <2>1, ExitSupervised, MonitorSupervised DEF MonitorSteps
<1>5. ASSUME NEW w \in Worker, ProcExit(w) PROVE SupStep /\ Steady'
  <2>1. /\ UNCHANGED <<desired, ctxDone, stopping, pending, crashes, boot, mon>>
        /\ \E p \in {"clean", "fail"} : proc' = [proc EXCEPT ![w] = p]
    BY <1>5 DEF ProcExit
  <2>2. \A v \in Worker : proc'[v] \in {"up", "term"} => Alive(v)
    BY <1>1, <2>1 DEF Alive
  <2> QED
    BY <2>1, <2>2, ProcSupervised
<1>6. ASSUME NEW r \in Requests, RequestSteps(r) PROVE SupStep /\ Steady'
  <2>1. UNCHANGED <<desired, ctxDone, stopping, pending, crashes, boot, mon>>
    BY <1>6 DEF RequestSteps, Arrive, TryMisses, AcquireEnds, Pop, Check, MarkBusy,
                Responds, Discard, DiscardEnds, Release, PutBack
  <2>2. \/ proc' = proc
        \/ proc' = [proc EXCEPT ![held[r]] = Signalled(held[r])]
        \/ proc' = [proc EXCEPT ![held[r]] = Killed(held[r])]
    BY <1>6 DEF RequestSteps, Arrive, TryMisses, AcquireEnds, Pop, Check, MarkBusy,
                Responds, Discard, DiscardEnds, Release, PutBack
  <2>3. \A v \in Worker : proc'[v] \in {"up", "term"} => Alive(v)
    BY <1>1, <1>2, <2>2 DEF Alive
  <2> QED
    BY <2>1, <2>3, ProcSupervised
<1>7. ASSUME NEW t \in terms, TermSignals(t) \/ TermEnds(t) PROVE SupStep /\ Steady'
  <2>1. /\ UNCHANGED <<desired, ctxDone, stopping, pending, crashes, boot, mon>>
        /\ \/ proc' = [proc EXCEPT ![t.w] = Signalled(t.w)]
           \/ proc' = [proc EXCEPT ![t.w] = Killed(t.w)]
    BY <1>7 DEF TermSignals, TermEnds
  <2>2. \A v \in Worker : proc'[v] \in {"up", "term"} => Alive(v)
    BY <1>1, <1>2, <2>1 DEF Alive
  <2> QED
    BY <2>1, <2>2, ProcSupervised
<1>8. CASE StopIdle \/ StopRest \/ StopKills \/ StopDone
  <2>1. /\ UNCHANGED <<desired, ctxDone, stopping, pending, crashes, boot, mon>>
        /\ \/ proc' = proc
           \/ proc' = [w \in Worker |-> IF Current(w) THEN Killed(w) ELSE proc[w]]
    BY <1>8 DEF StopIdle, StopRest, StopKills, StopDone
  <2>2. \A v \in Worker : proc'[v] \in {"up", "term"} => Alive(v)
    BY <1>1, <1>2, <2>1 DEF Alive
  <2> QED
    BY <2>1, <2>2, ProcSupervised
<1>9. CASE StartReturns \/ PurgePop \/ PurgePush \/ UNCHANGED vars
  <2>1. UNCHANGED <<desired, ctxDone, stopping, pending, crashes, boot, mon, proc>>
    BY <1>9 DEF StartReturns, PurgePop, PurgePush, vars
  <2> QED
    BY <2>1, ProcSupervised DEF Alive
<1> QED
  BY <1>1, <1>3, <1>4, <1>5, <1>6, <1>7, <1>8, <1>9, BootSupervised, TellSupervised
     DEF Next, ProgramStep, Ended, StopSteps

LEMMA InitSupervised == ASSUME Init PROVE Supervised!Init /\ Steady
<1>1. /\ \A w \in Worker : boot[w].at = "no" /\ mon[w] = "none" /\ ~Alive(w)
      /\ desired = InitDesired /\ ~ctxDone /\ ~stopping
  BY DEF Init, NoBoot, Alive
<1>2. \A s \in Slot : /\ s > InitDesired => \A k \in Kind : pending[s][k] = 0
                      /\ s <= InitDesired => pending[s]["start"] = 1
                      /\ s <= InitDesired \/ s > InitDesired
  BY PoolAssumption DEF Init, Slot, Kind, PoolAssumption
<1>3. ASSUME NEW s \in Slot PROVE Life(s) \in {"new", "due"}
  <2>1. CASE s > InitDesired
    BY <2>1 DEF Life
  <2>2. CASE ~(s > InitDesired)
    <3>1. pending[s]["start"] > 0 /\ "start" \in Kind
      BY <1>2, <2>2 DEF Kind
    <3> QED
      BY <2>2, <3>1 DEF Life
  <2> QED
    BY <2>1, <2>2
<1>4. Inhabited = {} /\ AllIf(ctxDone) = {} /\ AllIf(stopping) = {}
  BY <1>1 DEF Inhabited, Of, AllIf
<1>5. Supervised!Init
  BY <1>3, <1>4 DEF Supervised!Init, Lives, Init
<1>6. Steady
  BY <1>1, <1>2 DEF Steady, Duty, Hands, Of
<1> QED
  BY <1>5, <1>6

\* Without scaling every step of the pool, with goroutines, crashes, timers and
\* Shutdown in any order, is one step of the supervision or changes nothing in it.
THEOREM PoolSupervises == ASSUME MaxScale = 0 PROVE Spec => Supervises
<1>1. Init => SoloInv /\ Supervised!Init
  BY InitFixed, InitSupervised DEF SoloInv
<1>2. SoloInv /\ [Next]_vars => SoloInv' /\ [Supervised!Next]_(Supervised!supervisionVars)
  <2> SUFFICES ASSUME SoloInv, [Next]_vars
               PROVE  SoloInv' /\ [Supervised!Next]_(Supervised!supervisionVars)
    OBVIOUS
  <2>1. FixedInv'
    BY StepFixed DEF SoloInv
  <2> QED
    BY <2>1, StepSupervised DEF SoloInv, SupStep
<1> QED
  BY <1>1, <1>2, PTL DEF Spec, Supervises, Supervised!Spec

-----------------------------------------------------------------------------
(* What the supervision promises holds of its implementation               *)

Promised == INSTANCE Supervision_proofs WITH
    Limit <- RestartLimit, life <- Lives, alive <- Inhabited, strikes <- crashes,
    done <- AllIf(ctxDone), stopped <- AllIf(stopping)

\* The two instances of the supervision are one specification.
LEMMA SamePromise == Supervised!Spec => Promised!Spec
<1>1. Supervised!Init => Promised!Init
  BY DEF Supervised!Init, Promised!Init
<1>2. Supervised!Next => Promised!Next
  BY DEF Supervised!Over, Supervised!Becomes, Supervised!Struck, Supervised!Restarted,
        Supervised!Asked, Supervised!Begins, Supervised!Spawned, Supervised!Installed,
        Supervised!Failed, Supervised!Abandoned, Supervised!Quits, Supervised!Ended,
        Supervised!Dies, Supervised!Cancelled, Supervised!Stopped, Supervised!SlotStep,
        Supervised!Next,
        Promised!Over, Promised!Becomes, Promised!Struck, Promised!Restarted, Promised!Asked,
        Promised!Begins, Promised!Spawned, Promised!Installed, Promised!Failed,
        Promised!Abandoned, Promised!Quits, Promised!Ended, Promised!Dies, Promised!Cancelled,
        Promised!Stopped, Promised!SlotStep, Promised!Next
<1>3. [Supervised!Next]_(Supervised!supervisionVars)
      => [Promised!Next]_(Promised!supervisionVars)
  BY <1>2 DEF Supervised!supervisionVars, Promised!supervisionVars
<1> QED
  BY <1>1, <1>3, PTL DEF Supervised!Spec, Promised!Spec

\* In the unscaled pool no process outlives its slot, a slot is given up only when
\* its restarts are used up or the pool's context has ended, and a slot given up
\* has no process and is never booted again (bootSlot, monitor, scheduleRestart).
THEOREM PoolKeepsPromise ==
  ASSUME MaxScale = 0
  PROVE  Spec => []Promised!SlotInv /\ Promised!OffForGood
<1>1. RestartLimit \in Nat
  BY PoolAssumption DEF PoolAssumption
<1>2. Promised!Spec => []Promised!SlotInv /\ Promised!OffForGood
  BY <1>1, Promised!SlotsSound, Promised!NeverBack
<1> QED
  BY <1>2, SamePromise, PoolSupervises DEF Supervises

=============================================================================
