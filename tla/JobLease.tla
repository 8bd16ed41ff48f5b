------------------------------ MODULE JobLease ------------------------------
(***************************************************************************)
(* What the job table promises those who enqueue a job and those who work  *)
(* (store.JobStore, which src/orchestrator/internal/store/sqlstore/jobs.go *)
(* and src/orchestrator/internal/worker/pool.go implement): a job is in    *)
(* one worker's hands or in none; each time it is given out counts, unless *)
(* it is handed back whole, and it is given out no more than allowed; it   *)
(* leaves the hands it is in by that worker's own doing, or once nothing   *)
(* was heard of it for the length of a lease; and its ending is final.     *)
(*                                                                         *)
(* JobQueue implements it with rows that bear a token for each call, an    *)
(* UPDATE and a read that may find something else, a heartbeat, and        *)
(* workers that come back late.                                            *)
(***************************************************************************)
EXTENDS Naturals

CONSTANTS
  Jobs, Workers,
  Nobody,
  MaxAttempts     \* how often a job may be given out

VARIABLES
  status,         \* "none", "pending", "running", "completed" or "dead"
  tries,          \* how often it was given out and not handed back
  lapsed,         \* running jobs nothing was heard of for the length of a lease
  hands,          \* the worker whose hands a job is in
  busy            \* the workers that have not come back from what they were given

vars == <<status, tries, lapsed, hands, busy>>

Init ==
  /\ status = [j \in Jobs |-> "none"]
  /\ tries = [j \in Jobs |-> 0]
  /\ lapsed = {}
  /\ hands = [j \in Jobs |-> Nobody]
  /\ busy = {}

Enqueue(batch) ==
  /\ \A j \in batch : status[j] = "none"
  /\ status' = [j \in Jobs |-> IF j \in batch THEN "pending" ELSE status[j]]
  /\ UNCHANGED <<tries, lapsed, hands, busy>>

Give(w, j) ==
  /\ w \notin busy
  /\ hands[j] = Nobody /\ \A k \in Jobs : hands[k] # w
  /\ status[j] = "pending" /\ tries[j] < MaxAttempts[j]
  /\ status' = [status EXCEPT ![j] = "running"]
  /\ tries' = [tries EXCEPT ![j] = @ + 1]
  /\ hands' = [hands EXCEPT ![j] = w]
  /\ busy' = busy \cup {w}
  /\ UNCHANGED lapsed

\* The worker comes back with the job in its hands: it is done with, ...
Back(w, j, ending) ==
  /\ w \in busy /\ hands[j] = w
  /\ status' = [status EXCEPT ![j] = ending]
  /\ hands' = [hands EXCEPT ![j] = Nobody]
  /\ busy' = busy \ {w}
  /\ lapsed' = lapsed \ {j}

Complete(w, j) == Back(w, j, "completed") /\ UNCHANGED tries

\* ... it failed, and is tried again unless it was given out often enough, ...
Again(j) == IF tries[j] < MaxAttempts[j] THEN "pending" ELSE "dead"
Fail(w, j) == Back(w, j, Again(j)) /\ UNCHANGED tries

\* ... or it was not tried at all, and that it was given out does not count.
Release(w, j) ==
  /\ Back(w, j, "pending")
  /\ tries[j] > 0
  /\ tries' = [tries EXCEPT ![j] = @ - 1]

\* Workers come back with nothing, or never: what they had is in nobody's hands.
Drop(W) ==
  /\ hands' = [j \in Jobs |-> IF hands[j] \in W THEN Nobody ELSE hands[j]]
  /\ busy' = busy \ W
  /\ UNCHANGED <<status, tries, lapsed>>

\* A lease runs out, or the worker is heard of again.
Lapse(j) ==
  /\ status[j] = "running"
  /\ lapsed' = lapsed \cup {j}
  /\ UNCHANGED <<status, tries, hands, busy>>

Renew(j) ==
  /\ hands[j] \in busy
  /\ lapsed' = lapsed \ {j}
  /\ UNCHANGED <<status, tries, hands, busy>>

\* What lapsed is taken out of the hands it was in; that it was given out counts.
Reclaim ==
  /\ status' = [j \in Jobs |-> IF j \in lapsed THEN Again(j) ELSE status[j]]
  /\ hands' = [j \in Jobs |-> IF j \in lapsed THEN Nobody ELSE hands[j]]
  /\ lapsed' = {}
  /\ UNCHANGED <<tries, busy>>

Next ==
  \/ \E batch \in SUBSET Jobs : Enqueue(batch)
  \/ \E w \in Workers, j \in Jobs : Give(w, j) \/ Complete(w, j) \/ Fail(w, j) \/ Release(w, j)
  \/ \E W \in SUBSET Workers : Drop(W)
  \/ \E j \in Jobs : Lapse(j) \/ Renew(j)
  \/ Reclaim

Spec == Init /\ [][Next]_vars
=============================================================================
