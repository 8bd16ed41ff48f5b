----------------------------- MODULE FleetJoin ------------------------------
(***************************************************************************)
(* What a batch of agents promises the Gateway that asked for it (the head *)
(* comments of src/orchestrator/internal/app/fleet.go and of CloseFleet in *)
(* internal/store/sqlstore/agent.go): every member is accounted for        *)
(* exactly once, the batch ends once, only when all are, and the Gateway   *)
(* is woken at most once, with all of it, never after a cancel.            *)
(*                                                                         *)
(* Fleet implements it with rows, jobs, reports that get lost, a tracker   *)
(* in memory, a sweep and a timer.                                         *)
(***************************************************************************)
EXTENDS Naturals

CONSTANT Members

VARIABLES
  result,     \* what is known of each member: none yet, out, done or failed
  batch,      \* none, running, done or cancelled
  wakes       \* how often the Gateway was woken

vars == <<result, batch, wakes>>

Back == \A m \in Members : result[m] \in {"done", "failed"}
NobodyOut == \A m \in Members : result[m] # "out"

Init ==
  /\ result = [m \in Members |-> "none"]
  /\ batch = "none"
  /\ wakes = 0

Start ==
  /\ batch = "none"
  /\ batch' = "running"
  /\ UNCHANGED <<result, wakes>>

\* Every member is given its task at once.
Give ==
  /\ batch = "running" /\ \A m \in Members : result[m] = "none"
  /\ result' = [m \in Members |-> "out"]
  /\ UNCHANGED <<batch, wakes>>

\* A member's result, which nothing overwrites.
Bring(m, r) ==
  /\ batch = "running" /\ result[m] = "out"
  /\ result' = [result EXCEPT ![m] = r]
  /\ UNCHANGED <<batch, wakes>>

\* Out of time, or cancelled: whoever is still out is written off.
WriteOff ==
  /\ batch = "running"
  /\ result' = [m \in Members |-> IF result[m] = "out" THEN "failed" ELSE result[m]]
  /\ UNCHANGED <<batch, wakes>>

\* It ends with everybody back, and the Gateway is woken then or never.
Close ==
  /\ batch = "running" /\ Back
  /\ batch' = "done"
  /\ wakes' \in {0, 1}
  /\ UNCHANGED result

Cancel ==
  /\ batch = "running" /\ NobodyOut
  /\ batch' = "cancelled"
  /\ UNCHANGED <<result, wakes>>

Next ==
  \/ Start \/ Give \/ WriteOff \/ Close \/ Cancel
  \/ \E m \in Members, r \in {"done", "failed"} : Bring(m, r)

Spec == Init /\ [][Next]_vars
=============================================================================
