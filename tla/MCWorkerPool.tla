---------------------------- MODULE MCWorkerPool ----------------------------
(***************************************************************************)
(* WorkerPool with its constants given values for TLC.                     *)
(***************************************************************************)
EXTENDS WorkerPool, TLC

CONSTANTS w1, w2, w3, w4, w5, w6, p1, p2, x, y

\* Six jobs of two origins; one is bound to the second proxy, one is refused.
SixJobs == <<w1, w2, w3, w4, w5, w6>>
TwoOrigins == [j \in Job |-> IF j \in {w3, w5, w6} THEN y ELSE x]
MixedRequests == [j \in Job |-> IF j = w4 THEN p2 ELSE AnyProxy]

FirstPreferred == [p \in Proxy |-> IF p = p1 THEN 1 ELSE 2]
TwoEach == [p \in Proxy |-> 2]
=============================================================================
