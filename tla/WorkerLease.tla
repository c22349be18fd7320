---------------------------- MODULE WorkerLease -----------------------------
(***************************************************************************)
(* What a pool promises the requests, without slots, locks or channels     *)
(* (Pool.Acquire, TryAcquire, Release, Discard, src/internal/worker):      *)
(* a worker is issued once, is then either on offer, lent to one request,  *)
(* or gone, and only a request that was lent it can put it back on offer.  *)
(***************************************************************************)
CONSTANTS Worker, Requests, NoWorker

VARIABLES issued,   \* workers that were ever on offer
          offered,  \* workers a request may take
          owner     \* the worker each request was lent, or NoWorker

leaseVars == <<issued, offered, owner>>

Init ==
    /\ issued = {} /\ offered = {}
    /\ owner = [r \in Requests |-> NoWorker]

Issue(w) ==
    /\ w \notin issued
    /\ issued' = issued \cup {w}
    /\ offered' = offered \cup {w}
    /\ UNCHANGED owner

\* The pool drops a worker nobody was lent.
Withdraw(w) ==
    /\ w \in offered
    /\ offered' = offered \ {w}
    /\ UNCHANGED <<issued, owner>>

Take(r, w) ==
    /\ owner[r] = NoWorker /\ w \in offered
    /\ owner' = [owner EXCEPT ![r] = w]
    /\ offered' = offered \ {w}
    /\ UNCHANGED issued

Return(r) ==
    /\ owner[r] # NoWorker
    /\ offered' = offered \cup {owner[r]}
    /\ owner' = [owner EXCEPT ![r] = NoWorker]
    /\ UNCHANGED issued

\* The worker was recycled, discarded, stale, or the pool is stopping.
Forfeit(r) ==
    /\ owner[r] # NoWorker
    /\ owner' = [owner EXCEPT ![r] = NoWorker]
    /\ UNCHANGED <<issued, offered>>

Next ==
    \/ \E w \in Worker : Issue(w) \/ Withdraw(w)
    \/ \E r \in Requests : Return(r) \/ Forfeit(r) \/ \E w \in Worker : Take(r, w)

Spec == Init /\ [][Next]_leaseVars

=============================================================================
