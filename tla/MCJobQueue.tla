----------------------------- MODULE MCJobQueue -----------------------------
(* Instances of JobQueue for TLC. *)
EXTENDS JobQueue, TLC

CONSTANTS j1, j2, n1, n2, w1, w2, k1, k2, Attempts

SameAttempts == [j \in Jobs |-> Attempts]

\* One goroutine on each node.
OneEach == [w \in Workers |-> IF w = w1 THEN n1 ELSE n2]

\* Every node has every handler; or the second node cannot do the second job.
AllHandled == [n \in Nodes |-> Jobs]
SomeHandled == [n \in Nodes |-> IF n = n1 THEN Jobs ELSE Jobs \ {j2}]

\* A token is random: nothing tells two of them apart.
TokenSymmetry == Permutations(Tokens)

\* Whom a lost attempt is laid to guards no step, and only jobs_deploy asks for it.
WithoutBlame == <<rowVars, poolVars, faults>>
=============================================================================
