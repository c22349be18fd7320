---------------------------- MODULE MCWorkerPool ----------------------------
(* WorkerPool for TLC: the requests are interchangeable, and so are the    *)
(* slots of a pool that is not scaled.                                     *)
EXTENDS WorkerPool, TLC

RequestSymmetry == Permutations(Requests)

\* Of three boots of two slots two are the first slot's: the states where they are
\* the other's differ from these in the names of the slots only.
FirstSlotAgain == \A s \in Slot \ {1} : generation[s] <= 1

\* Bound: the other slots' workers do not end while a request is inside, until
\* the pool stops; the first slot's do.
NeighbourHolds ==
    \/ stopping \/ \A r \in Requests : at[r] = "off"
    \/ \A s \in Slot \ {1} : \A g \in Gen : proc[<<s, g>>] \in {"none", "up", "term"}

\* Bound: of three scalings and two requests, both requests are inside after two
\* scalings at most, one after three.
ScaledOrCrowded == scales + Cardinality({r \in Requests : at[r] # "off"}) <= 4

\* Bound: while the third scaling is under way or over, no request is inside.
ThirdAlone == scales = 3 => \A r \in Requests : at[r] = "off"

=============================================================================
