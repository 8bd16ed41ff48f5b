------------------------------ MODULE JobQueue ------------------------------
(***************************************************************************)
(* The job table and the worker pools that serve it:                       *)
(* src/orchestrator/internal/store/sqlstore/jobs.go and                    *)
(* src/orchestrator/internal/worker/pool.go.                               *)
(*                                                                         *)
(* A job is a row.  A worker goroutine claims the oldest runnable row with *)
(* one UPDATE under a token minted for that call, reads back what it took, *)
(* runs the handler while a second goroutine renews the lease, and records *)
(* the ending under the same token.  A node may stall, be asked to stop or *)
(* die anywhere in between; a scan on any other node returns the rows      *)
(* whose lease ran out.                                                    *)
(*                                                                         *)
(* A message from the broker only wakes a goroutine that would sweep       *)
(* anyway, so a wake-up is not state: a free goroutine may claim whenever  *)
(* it is scheduled.                                                        *)
(***************************************************************************)
EXTENDS Naturals, Sequences, FiniteSets

CONSTANTS
  Jobs,           \* the rows that may be enqueued
  MaxAttempts,    \* jobs.max_attempts
  Nodes,          \* worker processes
  Workers,        \* pool goroutines
  NodeOf,         \* the process of each goroutine
  Handled,        \* the jobs whose kind has a handler on a node
  Tokens,         \* the random half of a claim
  NoClaim, NoJob,
  Env,            \* bound: the kinds of outside event this instance explores
  MaxFaults       \* bound: crashes, stalls and failed store calls together

ASSUME JobConstants ==
  /\ MaxAttempts \in [Jobs -> Nat \ {0}]
  /\ NodeOf \in [Workers -> Nodes]
  /\ Handled \in [Nodes -> SUBSET Jobs]
  /\ NoClaim \notin Workers \cup (Workers \X Tokens)
  /\ NoJob \notin Jobs
  /\ Env \subseteq {"crash", "stall", "stop", "quiesce", "store", "error"}
  /\ MaxFaults \in Nat

VARIABLES
  \* the jobs table
  status,         \* jobs.status, "none" before the row exists
  attempts,       \* jobs.attempts
  lockedBy,       \* jobs.locked_by
  fresh,          \* jobs.locked_at is younger than the stale window
  line,           \* rows whose run_after has passed, by run_after
  \* the processes
  node,           \* "up", "stopping" (its context is cancelled) or "down"
  quiescing,      \* Pool.quiescing
  pc,             \* where the goroutine stands
  claim,          \* the claim of the take it is in
  job,            \* the row the take read back
  cancelled,      \* its runCtx is cancelled
  outcome,        \* what the handler returned
  \* history and bounds
  blamed,         \* jobs that lost an attempt to something other than being asked to stop
  faults

rowVars == <<status, attempts, lockedBy, fresh, line>>
poolVars == <<node, quiescing, pc, claim, job, cancelled, outcome>>
vars == <<rowVars, poolVars, blamed, faults>>

Claims == Workers \X Tokens
Terminal == {"completed", "dead"}

\* The types of everything but the line.
Typed ==
  /\ status \in [Jobs -> {"none", "pending", "running"} \cup Terminal]
  /\ attempts \in [Jobs -> Nat]
  /\ lockedBy \in [Jobs -> Claims \cup {NoClaim}]
  /\ fresh \in [Jobs -> BOOLEAN]
  /\ node \in [Nodes -> {"up", "stopping", "down"}]
  /\ quiescing \in [Nodes -> BOOLEAN]
  /\ pc \in [Workers -> {"free", "reading", "wrong door", "working", "settling", "gone"}]
  /\ claim \in [Workers -> Claims \cup {NoClaim}]
  /\ job \in [Workers -> Jobs \cup {NoJob}]
  /\ cancelled \in [Workers -> BOOLEAN]
  /\ outcome \in [Workers -> {"none", "nil", "canceled", "error"}]
  /\ blamed \subseteq Jobs
  /\ faults \in Nat

TypeOK == Typed /\ line \in Seq(Jobs)

Init ==
  /\ status = [j \in Jobs |-> "none"]
  /\ attempts = [j \in Jobs |-> 0]
  /\ lockedBy = [j \in Jobs |-> NoClaim]
  /\ fresh = [j \in Jobs |-> FALSE]
  /\ line = <<>>
  /\ node = [n \in Nodes |-> "up"]
  /\ quiescing = [n \in Nodes |-> FALSE]
  /\ pc = [w \in Workers |-> "free"]
  /\ claim = [w \in Workers |-> NoClaim]
  /\ job = [w \in Workers |-> NoJob]
  /\ cancelled = [w \in Workers |-> FALSE]
  /\ outcome = [w \in Workers |-> "none"]
  /\ blamed = {}
  /\ faults = 0

\* Something outside the program goes wrong.
Fault(kind) == kind \in Env /\ faults < MaxFaults /\ faults' = faults + 1

-----------------------------------------------------------------------------
(* The statements of jobs.go *)

InLine(j) == \E i \in DOMAIN line : line[i] = j

\* Out of the line: the run_after of these rows has moved into the future.
Postponed(rows) ==
  LET kept[i \in 0 .. Len(line)] ==
        IF i = 0 THEN <<>>
        ELSE IF line[i] \in rows THEN kept[i - 1]
        ELSE Append(kept[i - 1], line[i])
  IN  kept[Len(line)]

\* Complete, Fail, Release and Heartbeat are scoped to the claim.
OwnsAnything(j, c) == TRUE                        \* mutant: an ending is recorded by id alone
Owns(j, c) == lockedBy[j] = c

\* attempts >= max_attempts
SpentLate(j) == attempts[j] > MaxAttempts[j]      \* mutant: one attempt too many
Spent(j) == attempts[j] >= MaxAttempts[j]

\* GREATEST(attempts - 1, 0)
HandedBackTwice(j) == IF attempts[j] > 0 THEN attempts[j] - 2 ELSE 0  \* mutant: returned twice
HandedBack(j) == IF attempts[j] > 0 THEN attempts[j] - 1 ELSE 0

\* locked_by = NULL, locked_at = NULL
Unlock(j) ==
  /\ lockedBy' = [lockedBy EXCEPT ![j] = NoClaim]
  /\ fresh' = [fresh EXCEPT ![j] = FALSE]

\* Enqueue and EnqueueMany: one transaction writes the whole batch, pending.
Enqueue(batch) ==
  /\ batch # {}
  /\ \A j \in batch : status[j] = "none"
  /\ status' = [j \in Jobs |-> IF j \in batch THEN "pending" ELSE status[j]]
  /\ UNCHANGED <<attempts, lockedBy, fresh, line, poolVars, blamed, faults>>

\* The database clock reaches a row's run_after.
Ripen(j) ==
  /\ status[j] = "pending"
  /\ ~InLine(j)
  /\ line' = Append(line, j)
  /\ UNCHANGED <<status, attempts, lockedBy, fresh, poolVars, blamed, faults>>

\* A lease outlives the stale window.  While its holder beats it does not.
Beating(j) ==
  \E w \in Workers : /\ pc[w] \in {"working", "settling"}
                     /\ claim[w] = lockedBy[j]
                     /\ ~cancelled[w]

Age(j) ==
  /\ status[j] = "running" /\ fresh[j]
  /\ fresh' = [fresh EXCEPT ![j] = FALSE]
  /\ \/ ~Beating(j) /\ UNCHANGED faults
     \/ Beating(j) /\ Fault("stall")
  /\ UNCHANGED <<status, attempts, lockedBy, line, poolVars, blamed>>

\* A row returned by Complete (won), Fail or Reclaim (spent attempt kept).
Completed(j) == status' = [status EXCEPT ![j] = "completed"]
Returned(j) ==
  /\ status' = [status EXCEPT ![j] = IF Spent(j) THEN "dead" ELSE "pending"]
  /\ line' = Postponed({j})

-----------------------------------------------------------------------------
(* pool.go: one goroutine *)

Up(w) == node[NodeOf[w]] = "up"
Idle(w) ==
  /\ pc' = [pc EXCEPT ![w] = "free"]
  /\ claim' = [claim EXCEPT ![w] = NoClaim]
  /\ job' = [job EXCEPT ![w] = NoJob]
  /\ cancelled' = [cancelled EXCEPT ![w] = FALSE]
  /\ outcome' = [outcome EXCEPT ![w] = "none"]

\* token(): different for every call, so nothing bears it yet.
MintedOnce(w, c) == c = <<w, CHOOSE x \in Tokens : TRUE>>  \* mutant: it names the worker, not the call
Minted(w, c) ==
  /\ c[1] = w
  /\ \A j \in Jobs : lockedBy[j] # c

\* WHERE status = pending AND run_after <= now ORDER BY run_after LIMIT 1
Oldest(j) ==
  \E i \in DOMAIN line :
    /\ line[i] = j
    /\ status[j] = "pending"
    /\ \A k \in 1 .. i - 1 : status[line[k]] # "pending"

\* serve and take up to Claim's UPDATE.
Take(w) ==
  /\ pc[w] = "free" /\ Up(w) /\ ~quiescing[NodeOf[w]]
  /\ \E j \in Jobs, c \in Claims :
       /\ Oldest(j)
       /\ Minted(w, c)
       /\ status' = [status EXCEPT ![j] = "running"]
       /\ attempts' = [attempts EXCEPT ![j] = @ + 1]
       /\ lockedBy' = [lockedBy EXCEPT ![j] = c]
       /\ fresh' = [fresh EXCEPT ![j] = TRUE]
       /\ claim' = [claim EXCEPT ![w] = c]
  /\ pc' = [pc EXCEPT ![w] = "reading"]
  /\ UNCHANGED <<line, node, quiescing, job, cancelled, outcome, blamed, faults>>

\* Claim's SELECT: the rows that bear the claim.
Bears(c, j) == lockedBy[j] = c /\ status[j] = "running"

\* ... it returns the row, the oldest one if there were two; work looks its kind up.
ReadBack(w, j) ==
  /\ pc[w] = "reading" /\ Up(w)
  /\ Bears(claim[w], j)
  /\ \A i, k \in DOMAIN line : line[k] = j /\ i < k => ~Bears(claim[w], line[i])
  /\ pc' = [pc EXCEPT ![w] = IF j \in Handled[NodeOf[w]] THEN "working" ELSE "wrong door"]
  /\ job' = [job EXCEPT ![w] = j]
  /\ UNCHANGED <<rowVars, node, quiescing, claim, cancelled, outcome, blamed, faults>>

\* ... it finds nothing: the row was reclaimed in between.
ReadNothing(w) ==
  /\ pc[w] = "reading" /\ Up(w)
  /\ \A j \in Jobs : ~Bears(claim[w], j)
  /\ Idle(w)
  /\ UNCHANGED <<rowVars, node, quiescing, blamed, faults>>

\* ... it fails, the context being cancelled or the store away: abandon.
Abandon(w) ==
  /\ pc[w] = "reading"
  /\ \/ node[NodeOf[w]] = "stopping" /\ UNCHANGED faults
     \/ Up(w) /\ Fault("store")
  /\ status' = [j \in Jobs |-> IF Bears(claim[w], j) THEN "pending" ELSE status[j]]
  /\ attempts' = [j \in Jobs |-> IF Bears(claim[w], j) THEN HandedBack(j) ELSE attempts[j]]
  /\ lockedBy' = [j \in Jobs |-> IF Bears(claim[w], j) THEN NoClaim ELSE lockedBy[j]]
  /\ fresh' = [j \in Jobs |-> IF Bears(claim[w], j) THEN FALSE ELSE fresh[j]]
  /\ Idle(w)
  /\ UNCHANGED <<line, node, quiescing, blamed>>

\* Release.
Released(j, c) ==
  \/ /\ Bears(c, j)
     /\ status' = [status EXCEPT ![j] = "pending"]
     /\ attempts' = [attempts EXCEPT ![j] = HandedBack(j)]
     /\ Unlock(j)
  \/ ~Bears(c, j) /\ UNCHANGED <<status, attempts, lockedBy, fresh>>

\* work without a handler releases the row on the process's own context, so a
\* node that is stopping fails to.
WrongDoor(w) ==
  /\ pc[w] = "wrong door"
  /\ \/ Up(w) /\ Released(job[w], claim[w])
     \/ ~Up(w) /\ UNCHANGED <<status, attempts, lockedBy, fresh>>
  /\ Idle(w)
  /\ UNCHANGED <<line, node, quiescing, blamed, faults>>

\* The handler returns: finished, cancelled (only if it was), or with an error.
HandlerEnds(w, how) ==
  /\ pc[w] = "working"
  /\ how = "canceled" => cancelled[w]
  /\ how = "error" => "error" \in Env
  /\ pc' = [pc EXCEPT ![w] = "settling"]
  /\ outcome' = [outcome EXCEPT ![w] = how]
  /\ UNCHANGED <<rowVars, node, quiescing, claim, job, cancelled, blamed, faults>>

\* Mutant: the heartbeat takes "no row changed" for an answer and goes on.
BeatDeaf(w) ==
  /\ pc[w] = "working" /\ ~cancelled[w]
  /\ Bears(claim[w], job[w]) /\ ~fresh[job[w]]
  /\ fresh' = [fresh EXCEPT ![job[w]] = TRUE]
  /\ UNCHANGED <<status, attempts, lockedBy, line, poolVars, blamed, faults>>

\* beat: renew the lease, or learn that the claim is gone and stop the handler.
Beat(w) ==
  /\ pc[w] \in {"working", "settling"} /\ ~cancelled[w]
  /\ \/ /\ Bears(claim[w], job[w])
        /\ ~fresh[job[w]]
        /\ fresh' = [fresh EXCEPT ![job[w]] = TRUE]
        /\ UNCHANGED cancelled
     \/ /\ ~Bears(claim[w], job[w])
        /\ cancelled' = [cancelled EXCEPT ![w] = TRUE]
        /\ UNCHANGED fresh
  /\ UNCHANGED <<status, attempts, lockedBy, line, node, quiescing, pc, claim, job,
                 outcome, blamed, faults>>

\* The handler's ending reaches the row only through the claim.
Complete(w) ==
  /\ pc[w] = "settling" /\ outcome[w] = "nil"
  /\ \/ Owns(job[w], claim[w]) /\ Completed(job[w]) /\ Unlock(job[w])
     \/ ~Owns(job[w], claim[w]) /\ UNCHANGED <<status, lockedBy, fresh>>
  /\ Idle(w)
  /\ UNCHANGED <<attempts, line, node, quiescing, blamed, faults>>

\* errors.Is(err, context.Canceled) && p.stopping()
HandsBack(w) == outcome[w] = "canceled" /\ quiescing[NodeOf[w]]

ReleaseOnStop(w) ==
  /\ pc[w] = "settling" /\ HandsBack(w)
  /\ Released(job[w], claim[w])
  /\ Idle(w)
  /\ UNCHANGED <<line, node, quiescing, blamed, faults>>

Fail(w) ==
  /\ pc[w] = "settling" /\ outcome[w] \in {"canceled", "error"} /\ ~HandsBack(w)
  /\ \/ Owns(job[w], claim[w]) /\ Returned(job[w]) /\ Unlock(job[w])
     \/ ~Owns(job[w], claim[w]) /\ UNCHANGED <<status, line, lockedBy, fresh>>
  /\ blamed' = IF outcome[w] = "error" THEN blamed \cup {job[w]} ELSE blamed
  /\ Idle(w)
  /\ UNCHANGED <<attempts, node, quiescing, faults>>

\* The store refuses the ending, or the answer to Claim's UPDATE is lost: it is
\* logged, and the row stays running under a claim nobody holds.
Unrecorded(w) ==
  /\ pc[w] \in {"reading", "wrong door", "settling"} /\ node[NodeOf[w]] # "down"
  /\ Fault("store")
  /\ Idle(w)
  /\ UNCHANGED <<rowVars, node, quiescing, blamed>>

-----------------------------------------------------------------------------
(* pool.go and worker.go: one process *)

\* scan: return every row whose lease is older than the stale window.
StaleNever(j) == FALSE                            \* mutant: no row ever looks stale
Stale(j) == status[j] = "running" /\ ~fresh[j]

Reclaim(n) ==
  /\ node[n] = "up" /\ ~quiescing[n]
  /\ \E j \in Jobs : Stale(j)
  /\ status' = [j \in Jobs |-> IF ~Stale(j) THEN status[j]
                               ELSE IF Spent(j) THEN "dead" ELSE "pending"]
  /\ lockedBy' = [j \in Jobs |-> IF Stale(j) THEN NoClaim ELSE lockedBy[j]]
  /\ line' = Postponed({j \in Jobs : Stale(j)})
  /\ blamed' = blamed \cup {j \in Jobs : Stale(j)}
  /\ UNCHANGED <<attempts, fresh, poolVars, faults>>

\* Pool.Quiesce, which the process's own shutdown path never calls.
Quiesce(n) ==
  /\ "quiesce" \in Env
  /\ node[n] = "up" /\ ~quiescing[n]
  /\ quiescing' = [quiescing EXCEPT ![n] = TRUE]
  /\ UNCHANGED <<rowVars, node, pc, claim, job, cancelled, outcome, blamed, faults>>

\* The process is asked to stop: its context, and every runCtx, is cancelled.
Stop(n) ==
  /\ "stop" \in Env
  /\ node[n] = "up"
  /\ node' = [node EXCEPT ![n] = "stopping"]
  /\ cancelled' = [w \in Workers |-> cancelled[w] \/ (NodeOf[w] = n /\ pc[w] \in {"working", "settling"})]
  /\ UNCHANGED <<rowVars, quiescing, pc, claim, job, outcome, blamed, faults>>

\* The process is gone: worker.Run returns as soon as its context is cancelled,
\* without waiting for the pools; or it crashed.
Down(n) ==
  /\ \/ node[n] = "stopping" /\ UNCHANGED faults
     \/ node[n] = "up" /\ Fault("crash")
  /\ node' = [node EXCEPT ![n] = "down"]
  /\ quiescing' = [quiescing EXCEPT ![n] = FALSE]
  /\ pc' = [w \in Workers |-> IF NodeOf[w] = n THEN "gone" ELSE pc[w]]
  /\ claim' = [w \in Workers |-> IF NodeOf[w] = n THEN NoClaim ELSE claim[w]]
  /\ job' = [w \in Workers |-> IF NodeOf[w] = n THEN NoJob ELSE job[w]]
  /\ cancelled' = [w \in Workers |-> IF NodeOf[w] = n THEN FALSE ELSE cancelled[w]]
  /\ outcome' = [w \in Workers |-> IF NodeOf[w] = n THEN "none" ELSE outcome[w]]
  /\ UNCHANGED <<rowVars, blamed>>

\* A new process, with a new instance name.
Boot(n) ==
  /\ node[n] = "down"
  /\ node' = [node EXCEPT ![n] = "up"]
  /\ pc' = [w \in Workers |-> IF NodeOf[w] = n THEN "free" ELSE pc[w]]
  /\ UNCHANGED <<rowVars, quiescing, claim, job, cancelled, outcome, blamed, faults>>

-----------------------------------------------------------------------------
WorkerStep(w) ==
  \/ Take(w)
  \/ \E j \in Jobs : ReadBack(w, j)
  \/ ReadNothing(w)
  \/ Abandon(w)
  \/ WrongDoor(w)
  \/ \E how \in {"nil", "canceled", "error"} : HandlerEnds(w, how)
  \/ Beat(w)
  \/ Complete(w)
  \/ ReleaseOnStop(w)
  \/ Fail(w)
  \/ Unrecorded(w)

NodeStep(n) == Reclaim(n) \/ Quiesce(n) \/ Stop(n) \/ Down(n) \/ Boot(n)

Next ==
  \/ \E batch \in SUBSET Jobs : Enqueue(batch)
  \/ \E j \in Jobs : Ripen(j) \/ Age(j)
  \/ \E w \in Workers : WorkerStep(w)
  \/ \E n \in Nodes : NodeStep(n)

Spec == Init /\ [][Next]_vars

(* Fairness.  Time passes; the sweep, the scan and the heartbeat are tickers  *)
(* of a live process; Go schedules a runnable goroutine; a supervisor starts  *)
(* a process that died.  A handler whose context is cancelled returns; one    *)
(* whose context is not may run for ever.                                     *)
CancelledReturns(w) == cancelled[w] /\ HandlerEnds(w, "canceled")

Fairness ==
  /\ \A j \in Jobs : WF_vars(Ripen(j)) /\ WF_vars(~Beating(j) /\ Age(j))
  /\ \A w \in Workers :
       /\ WF_vars(Take(w))
       /\ WF_vars(\E j \in Jobs : ReadBack(w, j))
       /\ WF_vars(ReadNothing(w) \/ WrongDoor(w))
       /\ WF_vars(Beat(w))
       /\ WF_vars(CancelledReturns(w))
       /\ WF_vars(Complete(w) \/ ReleaseOnStop(w) \/ Fail(w))
  /\ \A n \in Nodes : WF_vars(Reclaim(n)) /\ WF_vars(Boot(n))

FairSpec == Spec /\ Fairness

-----------------------------------------------------------------------------
(* Properties *)

\* What a goroutine carries at each place: the claim it minted from the take to
\* the ending, the row from the read-back to the ending, and nothing otherwise; the
\* goroutines of a process that is down are gone.
PoolFacts ==
  \A w \in Workers :
    /\ claim[w] # NoClaim => claim[w][1] = w
    /\ pc[w] \in {"reading", "wrong door", "working", "settling"} => claim[w] # NoClaim
    /\ pc[w] \in {"free", "reading", "gone"} => job[w] = NoJob
    /\ pc[w] \in {"wrong door", "working", "settling"} => job[w] # NoJob
    /\ node[NodeOf[w]] = "down" => pc[w] = "gone"

\* The goroutine's handler is under way and the row is still its own.
Holds(w) == pc[w] \in {"working", "settling"} /\ Bears(claim[w], job[w])

\* One claim never locks two rows, and never a row other than the one its
\* goroutine read back: the reason locked_by carries a token minted per call and
\* not the worker's name, whatever claims a dead process left behind.
ClaimIsExact ==
  /\ \A j, k \in Jobs : lockedBy[j] = lockedBy[k] /\ lockedBy[j] # NoClaim => j = k
  /\ \A w \in Workers, j \in Jobs :
       claim[w] # NoClaim /\ lockedBy[j] = claim[w] => job[w] \in {NoJob, j}

\* A row carries a claim exactly while it runs, and no attempt beyond
\* max_attempts is ever handed out: a row waiting to be claimed has one left,
\* through every Fail, Release, abandon and Reclaim.
AttemptsBounded ==
  \A j \in Jobs :
    /\ lockedBy[j] # NoClaim <=> status[j] = "running"
    /\ attempts[j] <= MaxAttempts[j]
    /\ status[j] \in {"none", "pending"} => attempts[j] < MaxAttempts[j]
    /\ status[j] = "running" => attempts[j] > 0

\* A row whose holder beats in time leaves `running` only by that holder's own
\* step: a goroutine that stalled, lost the job and comes back late cannot finish,
\* fail or release somebody else's run of it.
OthersRunIsSafe ==
  [][\A w \in Workers :
       Holds(w) /\ fresh[job[w]] /\ status'[job[w]] # "running" => pc'[w] # pc[w]]_vars

\* completed and dead are endings: no late Complete, Fail, Release or Reclaim
\* moves the row again, although Complete and Fail do not ask for its status.
EndingIsFinal ==
  [][\A j \in Jobs : status[j] \in Terminal => status'[j] = status[j]]_vars

\* A row nobody announces, a row whose worker died between any two steps and a
\* row whose lease ran out are all found again: every pending job reaches an
\* ending or the hands of a worker that holds it.
EveryJobIsServed ==
  \A j \in Jobs :
    status[j] = "pending" ~>
      status[j] \in Terminal \/ \E w \in Workers : Holds(w) /\ job[w] = j

\* A goroutine whose job was given to somebody else learns it from its heartbeat
\* and stops its handler, although the handler would never have ended by itself.
LostClaimStops ==
  \A w \in Workers :
    pc[w] = "working" /\ ~Bears(claim[w], job[w]) ~> pc[w] # "working"

\* Being asked to stop is not a failure: a job is left dead only if an attempt
\* ended in an error of its own or in a worker that vanished.
NotKilledByStopping == \A j \in Jobs : status[j] = "dead" => j \in blamed

\* The table and its pools keep JobLease's promise, whatever stalls, crashes, stops and
\* comes back late: a job is in one goroutine's hands or in none, it leaves them by that
\* goroutine's own step or when its lease has run out, each time it is taken counts unless
\* it is handed back whole, and its ending is final.
Carrier(j) ==
  IF lockedBy[j] # NoClaim /\ claim[lockedBy[j][1]] = lockedBy[j] THEN lockedBy[j][1] ELSE NoClaim
Lease == INSTANCE JobLease WITH
  Nobody <- NoClaim,
  tries <- attempts,
  lapsed <- {j \in Jobs : Stale(j)},
  hands <- [j \in Jobs |-> Carrier(j)],
  busy <- {w \in Workers : pc[w] \notin {"free", "gone"}}
LeaseIsKept == Lease!Spec

=============================================================================
