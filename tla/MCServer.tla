------------------------------- MODULE MCServer -------------------------------
(* Server for TLC: an HTTP pool and a consumer pool.                        *)
EXTENDS Server

CONSTANTS h1, c, web, jobs

PoolsOf == [w \in Worker |-> IF w = c THEN jobs ELSE web]
NeedOne == [p \in Pools |-> IF p = web THEN 1 ELSE 0]

\* Bound: requests come, or the consumer crashes, and not both in one behaviour:
\* the two pools share nothing but the order Run stops them in.
OneTrouble == crashes[c] = 0 \/ \A r \in Requests : at[r] = "off"

=============================================================================
