----------------------------- MODULE LeaseProofs -----------------------------
(***************************************************************************)
(* That the job table and its pools keep JobLease's promise: every step of *)
(* JobQueue is a step of JobLease or leaves what it speaks of alone, for   *)
(* any number of jobs, processes and goroutines.                           *)
(*                                                                         *)
(* Besides JobInv it takes that a goroutine that is at nothing remembers   *)
(* no claim (IdleFacts): so the one it mints next is all it carries.       *)
(***************************************************************************)
EXTENDS JobQueueProofs

USE JobConstants

AtNothing == {"free", "gone"}
IdleFacts == \A w \in Workers : pc[w] \in AtNothing => claim[w] = NoClaim

\* What the refinement rests on.
LeaseInv == JobInv /\ IdleFacts

\* A goroutine forgets its claim with the row, and a process with its goroutines.
LEMMA IdleStep ==
  ASSUME Typed, PoolFacts, IdleFacts, [Next]_vars
  PROVE  IdleFacts'
<1>1. CASE UNCHANGED <<pc, claim>>
  BY <1>1 DEF IdleFacts
<1>2. ASSUME NEW w \in Workers, Idle(w) PROVE IdleFacts'
  BY <1>2 DEF Typed, Idle, IdleFacts
<1>3. ASSUME NEW w \in Workers, Take(w) PROVE IdleFacts'
  <2>1. PICK c \in Claims : claim' = [claim EXCEPT ![w] = c]
    BY <1>3 DEF Take
  <2>2. pc' = [pc EXCEPT ![w] = "reading"]
    BY <1>3 DEF Take
  <2>3. ASSUME NEW v \in Workers, pc'[v] \in AtNothing PROVE claim'[v] = NoClaim
    <3>1. v # w
      BY <2>2, <2>3 DEF Typed, AtNothing
    <3>2. pc'[v] = pc[v] /\ claim'[v] = claim[v]
      BY <2>1, <2>2, <3>1 DEF Typed
    <3>3. QED
      BY <2>3, <3>2 DEF IdleFacts
  <2>4. QED
    BY <2>3 DEF IdleFacts
<1>4. ASSUME NEW w \in Workers, NEW j \in Jobs, ReadBack(w, j) PROVE IdleFacts'
  BY <1>4 DEF Typed, ReadBack, IdleFacts, AtNothing
<1>5. ASSUME NEW w \in Workers, NEW how \in {"nil", "canceled", "error"}, HandlerEnds(w, how)
      PROVE  IdleFacts'
  BY <1>5 DEF Typed, HandlerEnds, IdleFacts, AtNothing
<1>6. ASSUME NEW n \in Nodes, Down(n) PROVE IdleFacts'
  BY <1>6 DEF Typed, Down, IdleFacts, AtNothing
<1>7. ASSUME NEW n \in Nodes, Boot(n) PROVE IdleFacts'
  BY <1>7 DEF Typed, Boot, PoolFacts, IdleFacts, AtNothing
<1>8. QED
  BY <1>1, <1>2, <1>3, <1>4, <1>5, <1>6, <1>7
  DEF Next, WorkerStep, NodeStep, vars, poolVars, Enqueue, Ripen, Age, ReadNothing, Abandon,
      WrongDoor, Beat, Complete, ReleaseOnStop, Fail, Unrecorded, Reclaim, Quiesce, Stop

\* LeaseInv holds throughout.
THEOREM LeaseInvariant == Spec => []LeaseInv
<1>1. Init => IdleFacts
  BY DEF Init, IdleFacts, AtNothing
<1>2. JobInv /\ IdleFacts /\ [Next]_vars => IdleFacts'
  BY IdleStep DEF JobInv
<1>3. QED
  BY <1>1, <1>2, JobInvariant, PTL DEF Spec, LeaseInv

-----------------------------------------------------------------------------
(* The refinement *)

\* A row is in the hands of the goroutine that bears its claim, and of no other.
LEMMA CarrierBears ==
  ASSUME Typed, PoolFacts, NEW w \in Workers, NEW j \in Jobs
  PROVE  Carrier(j) = w <=> lockedBy[j] # NoClaim /\ lockedBy[j] = claim[w]
BY DEF Typed, PoolFacts, Carrier, Claims

\* The rows, the claims and who is at work are all that the promise speaks of.
LEMMA Unseen ==
  ASSUME UNCHANGED <<status, attempts, lockedBy, fresh, claim>>,
         \A w \in Workers : pc'[w] \in {"free", "gone"} <=> pc[w] \in {"free", "gone"}
  PROVE  UNCHANGED Lease!vars
BY DEF Lease!vars, Carrier, Stale

\* A goroutine that goes idle and changes no row comes back with nothing.
LEMMA Drops ==
  ASSUME Typed, PoolFacts, NEW w \in Workers, Idle(w),
         UNCHANGED <<status, attempts, lockedBy, fresh>>
  PROVE  [Lease!Next]_(Lease!vars)
<1>1. ASSUME NEW j \in Jobs
      PROVE  Carrier(j)' = IF Carrier(j) \in {w} THEN NoClaim ELSE Carrier(j)
  <2>1. lockedBy'[j] = lockedBy[j] /\ (lockedBy[j] # NoClaim => lockedBy[j][1] \in Workers)
    BY DEF Typed, Claims
  <2>2. \A v \in Workers : claim'[v] = IF v = w THEN NoClaim ELSE claim[v]
    BY DEF Typed, Idle
  <2>3. NoClaim # w
    OBVIOUS
  <2>4. QED
    BY <2>1, <2>2, <2>3 DEF Carrier
<1>2. \A v \in Workers : pc'[v] \in AtNothing <=> v = w \/ pc[v] \in AtNothing
  BY DEF Typed, Idle, AtNothing
<1>3. Lease!Drop({w})
  BY <1>1, <1>2 DEF Lease!Drop, Stale, AtNothing
<1>4. QED
  BY <1>3 DEF Lease!Next

\* One that records an ending of the row in its hands, or gives it back, has it in them
\* no longer, and no other row.
LEMMA ComesBack ==
  ASSUME Typed, PoolFacts, ClaimIsExact, AttemptsBounded,
         NEW w \in Workers, pc[w] \notin AtNothing, Idle(w),
         NEW j \in Jobs, claim[w] # NoClaim, lockedBy[j] = claim[w],
         NEW s, s # "running",
         status' = [status EXCEPT ![j] = s], Unlock(j)
  PROVE  Lease!Back(w, j, s)
<1>1. \A k \in Jobs : Carrier(k)' = IF k = j THEN NoClaim ELSE Carrier(k)
  <2>1. Carrier(j)' = NoClaim
    BY DEF Typed, Unlock, Carrier
  <2>2. ASSUME NEW k \in Jobs, k # j PROVE Carrier(k)' = Carrier(k)
    <3>1. lockedBy'[k] = lockedBy[k] /\ lockedBy[k] # claim[w]
      BY <2>2 DEF Typed, ClaimIsExact, Unlock
    <3>2. lockedBy[k] # NoClaim => lockedBy[k][1] \in Workers
      BY DEF Typed, Claims
    <3>3. \A v \in Workers : claim'[v] = IF v = w THEN NoClaim ELSE claim[v]
      BY DEF Typed, Idle
    <3>4. QED
      BY <3>1, <3>2, <3>3 DEF Carrier
  <2>3. QED
    BY <2>1, <2>2
<1>2. Carrier(j) = w
  BY CarrierBears
<1>3. [k \in Jobs |-> Carrier(k)]' = [[k \in Jobs |-> Carrier(k)] EXCEPT ![j] = NoClaim]
  BY <1>1
<1>4. {v \in Workers : pc'[v] \notin {"free", "gone"}}
        = {v \in Workers : pc[v] \notin {"free", "gone"}} \ {w}
  BY DEF Typed, Idle
<1>5. {k \in Jobs : Stale(k)}' = {k \in Jobs : Stale(k)} \ {j}
  BY DEF Typed, Unlock, Stale
<1>6. QED
  BY <1>2, <1>3, <1>4, <1>5 DEF Lease!Back, AtNothing

\* A release gives the row back whole, if it is still the releaser's.
LEMMA Releases ==
  ASSUME Typed, PoolFacts, ClaimIsExact, AttemptsBounded,
         NEW w \in Workers, pc[w] \notin AtNothing, claim[w] # NoClaim, Idle(w),
         NEW j \in Jobs, Released(j, claim[w])
  PROVE  [Lease!Next]_(Lease!vars)
<1>1. CASE ~Bears(claim[w], j) /\ UNCHANGED <<status, attempts, lockedBy, fresh>>
  BY <1>1, Drops
<1>2. CASE /\ Bears(claim[w], j)
           /\ status' = [status EXCEPT ![j] = "pending"]
           /\ attempts' = [attempts EXCEPT ![j] = HandedBack(j)]
           /\ Unlock(j)
  <2>1. Lease!Back(w, j, "pending")
    BY <1>2, ComesBack DEF Bears
  <2>2. attempts[j] > 0 /\ HandedBack(j) = attempts[j] - 1
    BY <1>2 DEF Bears, AttemptsBounded, HandedBack
  <2>3. Lease!Release(w, j)
    BY <1>2, <2>1, <2>2 DEF Lease!Release, Typed
  <2>4. QED
    BY <2>3 DEF Lease!Next
<1>3. QED
  BY <1>1, <1>2 DEF Released

\* A goroutine at work on a row bears a claim.
LEMMA AtWork ==
  ASSUME Typed, PoolFacts, NEW w \in Workers, pc[w] \in {"wrong door", "working", "settling"}
  PROVE  pc[w] \notin AtNothing /\ claim[w] # NoClaim /\ job[w] \in Jobs
<1>1. claim[w] # NoClaim /\ job[w] # NoJob
  BY DEF PoolFacts
<1>2. job[w] \in Jobs \cup {NoJob}
  BY DEF Typed
<1>3. QED
  BY <1>1, <1>2 DEF AtNothing

\* A row is out of attempts exactly when it is not to be given out again.
LEMMA SpentOrAgain ==
  ASSUME Typed, NEW j \in Jobs
  PROVE  (IF Spent(j) THEN "dead" ELSE "pending") = Lease!Again(j)
<1>1. attempts[j] \in Nat /\ MaxAttempts[j] \in Nat
  BY DEF Typed
<1>2. Spent(j) <=> ~(attempts[j] < MaxAttempts[j])
  BY <1>1 DEF Spent
<1>3. QED
  BY <1>2 DEF Lease!Again

\* Every step of the table and the pools is a step of the promise, or none.
LEMMA LeaseMove ==
  ASSUME Typed, PoolFacts, ClaimIsExact, AttemptsBounded, IdleFacts, [Next]_vars
  PROVE  [Lease!Next]_(Lease!vars)
<1>1. CASE UNCHANGED <<status, attempts, lockedBy, fresh, claim, pc>>
  BY <1>1, Unseen
<1>2. ASSUME NEW batch \in SUBSET Jobs, Enqueue(batch) PROVE [Lease!Next]_(Lease!vars)
  <2>1. {j \in Jobs : Stale(j)}' = {j \in Jobs : Stale(j)}
    BY <1>2 DEF Enqueue, Stale, Typed
  <2>2. Lease!Enqueue(batch)
    BY <1>2, <2>1 DEF Enqueue, poolVars, Carrier, Lease!Enqueue
  <2>3. QED
    BY <2>2 DEF Lease!Next
<1>3. ASSUME NEW j \in Jobs, Age(j) PROVE [Lease!Next]_(Lease!vars)
  <2>1. {k \in Jobs : Stale(k)}' = {k \in Jobs : Stale(k)} \cup {j}
    <3>1. status[j] = "running" /\ UNCHANGED status /\ fresh' = [fresh EXCEPT ![j] = FALSE]
      BY <1>3 DEF Age
    <3>2. \A k \in Jobs : Stale(k)' <=> Stale(k) \/ k = j
      BY <3>1 DEF Stale, Typed
    <3>3. QED
      BY <3>2
  <2>2. Lease!Lapse(j)
    BY <1>3, <2>1 DEF Age, poolVars, Carrier, Lease!Lapse
  <2>3. QED
    BY <2>2 DEF Lease!Next
<1>4. ASSUME NEW w \in Workers, Take(w) PROVE [Lease!Next]_(Lease!vars)
  <2>1. PICK j \in Jobs, c \in Claims :
          /\ Oldest(j) /\ Minted(w, c)
          /\ status' = [status EXCEPT ![j] = "running"]
          /\ attempts' = [attempts EXCEPT ![j] = @ + 1]
          /\ lockedBy' = [lockedBy EXCEPT ![j] = c]
          /\ fresh' = [fresh EXCEPT ![j] = TRUE]
          /\ claim' = [claim EXCEPT ![w] = c]
    BY <1>4 DEF Take
  <2>2. pc[w] = "free" /\ pc' = [pc EXCEPT ![w] = "reading"] /\ claim[w] = NoClaim
    BY <1>4 DEF Take, IdleFacts, AtNothing
  <2>3. status[j] = "pending" /\ lockedBy[j] = NoClaim /\ attempts[j] < MaxAttempts[j]
    BY <2>1 DEF Oldest, AttemptsBounded
  <2>4. c[1] = w /\ c # NoClaim /\ \A k \in Jobs : lockedBy[k] # c
    BY <2>1 DEF Minted, Claims
  <2>5. Carrier(j) = NoClaim /\ \A k \in Jobs : Carrier(k) # w
    BY <2>2, <2>3, CarrierBears DEF Carrier
  <2>6. \A k \in Jobs : Carrier(k)' = IF k = j THEN w ELSE Carrier(k)
    <3>1. Carrier(j)' = w
      BY <2>1, <2>4 DEF Typed, Carrier
    <3>2. ASSUME NEW k \in Jobs, k # j PROVE Carrier(k)' = Carrier(k)
      <4>1. lockedBy'[k] = lockedBy[k] /\ lockedBy[k] # c
        BY <2>1, <2>4, <3>2 DEF Typed
      <4>2. lockedBy[k] # NoClaim => lockedBy[k][1] \in Workers
        BY DEF Typed, Claims
      <4>3. \A v \in Workers : claim'[v] = IF v = w THEN c ELSE claim[v]
        BY <2>1 DEF Typed
      <4>4. QED
        BY <2>2, <4>1, <4>2, <4>3 DEF Carrier
    <3>3. QED
      BY <3>1, <3>2
  <2>7. [k \in Jobs |-> Carrier(k)]' = [[k \in Jobs |-> Carrier(k)] EXCEPT ![j] = w]
    BY <2>6
  <2>8. {v \in Workers : pc'[v] \notin {"free", "gone"}}
          = {v \in Workers : pc[v] \notin {"free", "gone"}} \cup {w}
    <3>1. \A v \in Workers : pc'[v] = IF v = w THEN "reading" ELSE pc[v]
      BY <2>2 DEF Typed
    <3>2. QED
      BY <3>1
  <2>9. {k \in Jobs : Stale(k)}' = {k \in Jobs : Stale(k)}
    BY <2>1, <2>3 DEF Typed, Stale
  <2>10. Lease!Give(w, j)
    BY <2>1, <2>2, <2>3, <2>5, <2>7, <2>8, <2>9 DEF Lease!Give
  <2>11. QED
    BY <2>10 DEF Lease!Next
<1>5. ASSUME NEW w \in Workers, NEW j \in Jobs, ReadBack(w, j) PROVE [Lease!Next]_(Lease!vars)
  <2>1. \A v \in Workers : pc'[v] \in {"free", "gone"} <=> pc[v] \in {"free", "gone"}
    BY <1>5 DEF ReadBack, Typed
  <2>2. QED
    BY <1>5, <2>1, Unseen DEF ReadBack, rowVars
<1>6. ASSUME NEW w \in Workers, NEW how \in {"nil", "canceled", "error"}, HandlerEnds(w, how)
      PROVE  [Lease!Next]_(Lease!vars)
  <2>1. \A v \in Workers : pc'[v] \in {"free", "gone"} <=> pc[v] \in {"free", "gone"}
    BY <1>6 DEF HandlerEnds, Typed
  <2>2. QED
    BY <1>6, <2>1, Unseen DEF HandlerEnds, rowVars
<1>7. ASSUME NEW w \in Workers, ReadNothing(w) \/ Unrecorded(w) PROVE [Lease!Next]_(Lease!vars)
  BY <1>7, Drops DEF ReadNothing, Unrecorded, rowVars
<1>8. ASSUME NEW w \in Workers, Abandon(w) PROVE [Lease!Next]_(Lease!vars)
  <2>1. Idle(w) /\ pc[w] \notin AtNothing /\ claim[w] # NoClaim
    BY <1>8 DEF Abandon, PoolFacts, AtNothing
  <2>2. CASE \A j \in Jobs : ~Bears(claim[w], j)
    <3>1. UNCHANGED <<status, attempts, lockedBy, fresh>>
      BY <1>8, <2>2 DEF Abandon, Typed
    <3>2. QED
      BY <2>1, <3>1, Drops
  <2>3. ASSUME NEW j \in Jobs, Bears(claim[w], j) PROVE [Lease!Next]_(Lease!vars)
    <3>1. \A k \in Jobs : Bears(claim[w], k) <=> k = j
      BY <2>1, <2>3 DEF Bears, ClaimIsExact
    <3>2. /\ status' = [status EXCEPT ![j] = "pending"]
          /\ attempts' = [attempts EXCEPT ![j] = HandedBack(j)]
          /\ lockedBy' = [lockedBy EXCEPT ![j] = NoClaim]
          /\ fresh' = [fresh EXCEPT ![j] = FALSE]
      <4>1. \A k \in Jobs : status'[k] = IF k = j THEN "pending" ELSE status[k]
        BY <1>8, <3>1 DEF Abandon
      <4>2. \A k \in Jobs : attempts'[k] = IF k = j THEN HandedBack(j) ELSE attempts[k]
        BY <1>8, <3>1 DEF Abandon
      <4>3. \A k \in Jobs : /\ lockedBy'[k] = IF k = j THEN NoClaim ELSE lockedBy[k]
                           /\ fresh'[k] = IF k = j THEN FALSE ELSE fresh[k]
        BY <1>8, <3>1 DEF Abandon
      <4>4. status' = [status EXCEPT ![j] = "pending"]
        BY <1>8, <4>1 DEF Abandon, Typed
      <4>5. attempts' = [attempts EXCEPT ![j] = HandedBack(j)]
        BY <1>8, <4>2 DEF Abandon, Typed
      <4>6. lockedBy' = [lockedBy EXCEPT ![j] = NoClaim]
        BY <1>8, <4>3 DEF Abandon, Typed
      <4>7. fresh' = [fresh EXCEPT ![j] = FALSE]
        BY <1>8, <4>3 DEF Abandon, Typed
      <4>8. QED
        BY <4>4, <4>5, <4>6, <4>7
    <3>3. Released(j, claim[w])
      BY <2>3, <3>2 DEF Released, Unlock
    <3>4. QED
      BY <2>1, <3>3, Releases
  <2>4. QED
    BY <2>2, <2>3
<1>9. ASSUME NEW w \in Workers, WrongDoor(w) \/ ReleaseOnStop(w) PROVE [Lease!Next]_(Lease!vars)
  <2>1. Idle(w) /\ pc[w] \notin AtNothing /\ claim[w] # NoClaim /\ job[w] \in Jobs
    <3>1. Idle(w) /\ pc[w] \in {"wrong door", "settling"}
      BY <1>9 DEF WrongDoor, ReleaseOnStop
    <3>2. QED
      BY <3>1, AtWork
  <2>2. Released(job[w], claim[w]) \/ UNCHANGED <<status, attempts, lockedBy, fresh>>
    BY <1>9 DEF WrongDoor, ReleaseOnStop
  <2>3. QED
    BY <2>1, <2>2, Releases, Drops
<1>10. ASSUME NEW w \in Workers, Beat(w) PROVE [Lease!Next]_(Lease!vars)
  <2>1. CASE Bears(claim[w], job[w]) /\ fresh' = [fresh EXCEPT ![job[w]] = TRUE]
    <3>1. job[w] \in Jobs /\ claim[w] # NoClaim /\ pc[w] \notin {"free", "gone"}
      BY <1>10, AtWork DEF Beat, AtNothing
    <3>2. Carrier(job[w]) = w
      BY <2>1, <3>1, CarrierBears DEF Bears
    <3>3. {k \in Jobs : Stale(k)}' = {k \in Jobs : Stale(k)} \ {job[w]}
      BY <1>10, <2>1, <3>1 DEF Beat, Stale, Typed
    <3>4. Lease!Renew(job[w])
      BY <1>10, <3>1, <3>2, <3>3 DEF Beat, Carrier, Lease!Renew
    <3>5. QED
      BY <3>1, <3>4 DEF Lease!Next
  <2>2. CASE UNCHANGED fresh
    BY <1>10, <2>2, Unseen DEF Beat
  <2>3. QED
    BY <1>10, <2>1, <2>2 DEF Beat
<1>11. ASSUME NEW w \in Workers, Complete(w) PROVE [Lease!Next]_(Lease!vars)
  <2>1. Idle(w) /\ pc[w] \notin AtNothing /\ claim[w] # NoClaim /\ job[w] \in Jobs
    <3>1. Idle(w) /\ pc[w] = "settling"
      BY <1>11 DEF Complete
    <3>2. QED
      BY <3>1, AtWork
  <2>2. CASE ~Owns(job[w], claim[w])
    BY <1>11, <2>1, <2>2, Drops DEF Complete
  <2>3. CASE Owns(job[w], claim[w])
    <3>1. Lease!Back(w, job[w], "completed")
      BY <1>11, <2>1, <2>3, ComesBack DEF Complete, Completed, Owns
    <3>2. Lease!Complete(w, job[w])
      BY <1>11, <3>1 DEF Complete, Lease!Complete
    <3>3. QED
      BY <2>1, <3>2 DEF Lease!Next
  <2>4. QED
    BY <2>2, <2>3
<1>12. ASSUME NEW w \in Workers, Fail(w) PROVE [Lease!Next]_(Lease!vars)
  <2>1. Idle(w) /\ pc[w] \notin AtNothing /\ claim[w] # NoClaim /\ job[w] \in Jobs
    <3>1. Idle(w) /\ pc[w] = "settling"
      BY <1>12 DEF Fail
    <3>2. QED
      BY <3>1, AtWork
  <2>2. CASE ~Owns(job[w], claim[w])
    BY <1>12, <2>1, <2>2, Drops DEF Fail
  <2>3. CASE Owns(job[w], claim[w])
    <3>1. /\ status' = [status EXCEPT ![job[w]] = Lease!Again(job[w])]
          /\ Unlock(job[w]) /\ lockedBy[job[w]] = claim[w]
      BY <1>12, <2>1, <2>3, SpentOrAgain DEF Fail, Returned, Owns
    <3>2. Lease!Again(job[w]) # "running"
      BY DEF Lease!Again
    <3>3. Lease!Back(w, job[w], Lease!Again(job[w]))
      BY <2>1, <3>1, <3>2, ComesBack DEF Lease!Back
    <3>4. Lease!Fail(w, job[w])
      BY <1>12, <3>3 DEF Fail, Lease!Fail
    <3>5. QED
      BY <2>1, <3>4 DEF Lease!Next
  <2>4. QED
    BY <2>2, <2>3
<1>13. ASSUME NEW n \in Nodes, Reclaim(n) PROVE [Lease!Next]_(Lease!vars)
  <2>1. \A j \in Jobs : status'[j] = IF Stale(j) THEN Lease!Again(j) ELSE status[j]
    BY <1>13, SpentOrAgain DEF Reclaim
  <2>2. \A j \in Jobs : Carrier(j)' = IF Stale(j) THEN NoClaim ELSE Carrier(j)
    BY <1>13 DEF Reclaim, poolVars, Carrier
  <2>3. {j \in Jobs : Stale(j)}' = {}
    BY <1>13, <2>1 DEF Reclaim, Stale, Lease!Again
  <2>4. Lease!Reclaim
    BY <1>13, <2>1, <2>2, <2>3 DEF Reclaim, poolVars, Lease!Reclaim
  <2>5. QED
    BY <2>4 DEF Lease!Next
<1>14. ASSUME NEW n \in Nodes, Down(n) PROVE [Lease!Next]_(Lease!vars)
  <2> DEFINE W == {w \in Workers : NodeOf[w] = n}
  <2>1. \A j \in Jobs : Carrier(j)' = IF Carrier(j) \in W THEN NoClaim ELSE Carrier(j)
    BY <1>14 DEF Down, rowVars, Carrier, Typed, Claims
  <2>2. {w \in Workers : pc'[w] \notin {"free", "gone"}}
          = {w \in Workers : pc[w] \notin {"free", "gone"}} \ W
    BY <1>14 DEF Down
  <2>3. Lease!Drop(W)
    BY <1>14, <2>1, <2>2 DEF Down, rowVars, Stale, Lease!Drop
  <2>4. W \in SUBSET Workers
    OBVIOUS
  <2>5. QED
    BY <2>3, <2>4 DEF Lease!Next
<1>15. ASSUME NEW n \in Nodes, Boot(n) PROVE [Lease!Next]_(Lease!vars)
  <2>1. \A w \in Workers : pc'[w] \in {"free", "gone"} <=> pc[w] \in {"free", "gone"}
    BY <1>15 DEF Boot, PoolFacts
  <2>2. QED
    BY <1>15, <2>1, Unseen DEF Boot, rowVars
<1>16. QED
  BY <1>1, <1>2, <1>3, <1>4, <1>5, <1>6, <1>7, <1>8, <1>9, <1>10, <1>11, <1>12, <1>13, <1>14,
     <1>15
  DEF Next, WorkerStep, NodeStep, vars, rowVars, poolVars, Ripen, Quiesce, Stop

\* LeaseIsKept: whichever processes stall, are asked to stop or die, whatever the store
\* refuses and whoever comes back late, the table and its pools do what JobLease promises.
THEOREM LeaseIsKeptHolds == Spec => LeaseIsKept
<1>1. Init => Lease!Init
  BY DEF Init, Lease!Init, Carrier, Stale
<1>2. LeaseInv /\ [Next]_vars => [Lease!Next]_(Lease!vars)
  BY LeaseMove DEF LeaseInv, JobInv
<1>3. QED
  BY <1>1, <1>2, LeaseInvariant, PTL DEF Spec, LeaseIsKept, Lease!Spec

=============================================================================
