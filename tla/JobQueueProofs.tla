--------------------------- MODULE JobQueueProofs ---------------------------
(***************************************************************************)
(* What holds of the job table and its pools for any number of jobs,       *)
(* processes and goroutines, whatever crashes, stalls and fails.           *)
(*                                                                         *)
(* No single property is inductive.  That an ending is final needs a row   *)
(* to carry a claim only while it runs; that needs every goroutine that    *)
(* records an ending to have minted its claim (PoolFacts); and that a      *)
(* claim is exact needs a claim to name the goroutine that minted it.      *)
(***************************************************************************)
EXTENDS JobQueue, WellFoundedInduction, TLAPS

USE JobConstants

JobInv == Typed /\ PoolFacts /\ ClaimIsExact /\ AttemptsBounded

\* A goroutine that goes idle forgets its claim, its row and its verdict.
LEMMA IdleKeeps ==
  ASSUME Typed, PoolFacts, NEW w \in Workers, pc[w] # "gone", Idle(w), UNCHANGED node
  PROVE  /\ pc' \in [Workers -> {"free", "reading", "wrong door", "working", "settling", "gone"}]
         /\ claim' \in [Workers -> Claims \cup {NoClaim}]
         /\ job' \in [Workers -> Jobs \cup {NoJob}]
         /\ cancelled' \in [Workers -> BOOLEAN]
         /\ outcome' \in [Workers -> {"none", "nil", "canceled", "error"}]
         /\ PoolFacts'
<1>1. pc' \in [Workers -> {"free", "reading", "wrong door", "working", "settling", "gone"}]
    BY DEF Typed, Idle
<1>2. claim' \in [Workers -> Claims \cup {NoClaim}] /\ job' \in [Workers -> Jobs \cup {NoJob}]
    BY DEF Typed, Idle
<1>3. cancelled' \in [Workers -> BOOLEAN]
    BY DEF Typed, Idle
<1>4. outcome' \in [Workers -> {"none", "nil", "canceled", "error"}]
    BY DEF Typed, Idle
<1>5. PoolFacts'
    <2> SUFFICES ASSUME NEW v \in Workers PROVE PoolFacts!(v)'
      BY DEF PoolFacts
    <2>1. CASE v = w
      BY <2>1 DEF Typed, Idle, PoolFacts
    <2>2. CASE v # w
      <3>1. UNCHANGED <<claim[v], job[v], pc[v], node>>
        BY <2>2 DEF Typed, Idle
      <3>2. QED
        BY <3>1 DEF PoolFacts
    <2>3. QED
      BY <2>1, <2>2
<1>6. QED
    BY <1>1, <1>2, <1>3, <1>4, <1>5

\* GREATEST(attempts - 1, 0) leaves a running row an attempt to be claimed with.
LEMMA HandedBackBounds ==
  ASSUME Typed, AttemptsBounded, NEW j \in Jobs, status[j] = "running"
  PROVE  HandedBack(j) \in Nat /\ HandedBack(j) < MaxAttempts[j]
<1>1. attempts[j] \in Nat /\ MaxAttempts[j] \in Nat
    BY DEF Typed
<1>2. attempts[j] > 0 /\ attempts[j] <= MaxAttempts[j]
    BY DEF AttemptsBounded
<1>3. QED
    BY <1>1, <1>2 DEF HandedBack

\* The table stays well typed and bounded when a claim gives its row back whole.
LEMMA ReleasedKeeps ==
  ASSUME Typed, AttemptsBounded, NEW j \in Jobs, NEW c, Released(j, c)
  PROVE  /\ status' \in [Jobs -> {"none", "pending", "running"} \cup Terminal]
         /\ attempts' \in [Jobs -> Nat]
         /\ lockedBy' \in [Jobs -> Claims \cup {NoClaim}]
         /\ fresh' \in [Jobs -> BOOLEAN]
         /\ AttemptsBounded'
         /\ \A k \in Jobs : lockedBy'[k] \in {lockedBy[k], NoClaim}
<1>1. CASE ~Bears(c, j) /\ UNCHANGED <<status, attempts, lockedBy, fresh>>
    BY <1>1 DEF Typed, AttemptsBounded
<1>2. CASE /\ Bears(c, j)
           /\ status' = [status EXCEPT ![j] = "pending"]
           /\ attempts' = [attempts EXCEPT ![j] = HandedBack(j)]
           /\ Unlock(j)
    <2>1. HandedBack(j) \in Nat /\ HandedBack(j) < MaxAttempts[j]
      BY <1>2, HandedBackBounds DEF Bears
    <2>2. fresh' \in [Jobs -> BOOLEAN]
      BY <1>2 DEF Unlock, Typed
    <2>3. AttemptsBounded'
      <3> SUFFICES ASSUME NEW k \in Jobs PROVE AttemptsBounded!(k)'
        BY DEF AttemptsBounded
      <3>1. CASE k = j
        <4>1. status'[j] = "pending" /\ lockedBy'[j] = NoClaim /\ attempts'[j] = HandedBack(j)
          BY <1>2 DEF Typed, Unlock
        <4>2. MaxAttempts[j] \in Nat /\ HandedBack(j) <= MaxAttempts[j]
          BY <2>1
        <4>3. QED
          BY <2>1, <3>1, <4>1, <4>2
      <3>2. CASE k # j
        BY <1>2, <3>2 DEF AttemptsBounded, Typed, Unlock
      <3>3. QED
        BY <3>1, <3>2
    <2>4. QED
      BY <1>2, <2>1, <2>2, <2>3 DEF Typed, Unlock
<1>3. QED
    BY <1>1, <1>2 DEF Released

\* ... and when a claim ends its row, or sends it back for another attempt.
LEMMA EndedKeeps ==
  ASSUME Typed, AttemptsBounded, NEW j \in Jobs, NEW c \in Claims, Owns(j, c),
         NEW s \in {"pending"} \cup Terminal, s = "pending" => ~Spent(j),
         status' = [status EXCEPT ![j] = s], Unlock(j), UNCHANGED attempts
  PROVE  /\ status' \in [Jobs -> {"none", "pending", "running"} \cup Terminal]
         /\ lockedBy' \in [Jobs -> Claims \cup {NoClaim}]
         /\ fresh' \in [Jobs -> BOOLEAN]
         /\ AttemptsBounded'
         /\ \A k \in Jobs : lockedBy'[k] \in {lockedBy[k], NoClaim}
<1>1. fresh' \in [Jobs -> BOOLEAN]
    BY DEF Typed, Unlock
<1>2. /\ status[j] = "running" /\ attempts[j] <= MaxAttempts[j]
      /\ attempts[j] \in Nat /\ MaxAttempts[j] \in Nat
    <2>1. c # NoClaim
      BY DEF Claims
    <2>2. status[j] = "running" /\ attempts[j] <= MaxAttempts[j]
      BY <2>1 DEF AttemptsBounded, Owns
    <2>3. attempts[j] \in Nat /\ MaxAttempts[j] \in Nat
      BY DEF Typed
    <2>4. QED
      BY <2>2, <2>3
<1>3. s = "pending" => attempts[j] < MaxAttempts[j]
    BY <1>2 DEF Spent
<1>4. s # "running" /\ s # "none"
    BY DEF Terminal
<1>5. AttemptsBounded'
    BY <1>2, <1>3, <1>4 DEF AttemptsBounded, Unlock, Typed
<1>6. QED
    BY <1>1, <1>5 DEF Typed, Unlock

\* Claims that are only given up stay exact.
LEMMA ExactKept ==
  ASSUME Typed, ClaimIsExact, NEW w \in Workers, Idle(w),
         \A k \in Jobs : lockedBy'[k] \in {lockedBy[k], NoClaim}
  PROVE  ClaimIsExact'
BY DEF Typed, ClaimIsExact, Idle

\* Every statement of jobs.go and every step of a goroutine or a process keeps the
\* table and the pools consistent.
LEMMA JobStep == JobInv /\ [Next]_vars => JobInv'
<1> SUFFICES ASSUME Typed, PoolFacts, ClaimIsExact, AttemptsBounded, [Next]_vars PROVE JobInv'
  BY DEF JobInv
<1>1. ASSUME NEW batch \in SUBSET Jobs, Enqueue(batch) PROVE JobInv'
    <2>1. Typed'
      BY <1>1 DEF Enqueue, Typed, Claims, Terminal, rowVars, poolVars
    <2>2. PoolFacts'
      BY <1>1 DEF Enqueue, PoolFacts, Typed, Claims, rowVars, poolVars
    <2>3. ClaimIsExact'
      BY <1>1 DEF Enqueue, ClaimIsExact, PoolFacts, Typed, Claims, rowVars, poolVars
    <2>4. AttemptsBounded'
      BY <1>1 DEF Enqueue, AttemptsBounded, Typed, Terminal, rowVars, poolVars
    <2>5. QED
      BY <2>1, <2>2, <2>3, <2>4 DEF JobInv
<1>2. ASSUME NEW j \in Jobs, Ripen(j) PROVE JobInv'
    <2>1. Typed'
      BY <1>2 DEF Ripen, Typed, Claims, Terminal, rowVars, poolVars
    <2>2. PoolFacts'
      BY <1>2 DEF Ripen, PoolFacts, Typed, Claims, rowVars, poolVars
    <2>3. ClaimIsExact'
      BY <1>2 DEF Ripen, ClaimIsExact, PoolFacts, Typed, Claims, rowVars, poolVars
    <2>4. AttemptsBounded'
      BY <1>2 DEF Ripen, AttemptsBounded, Typed, Terminal, rowVars, poolVars
    <2>5. QED
      BY <2>1, <2>2, <2>3, <2>4 DEF JobInv
<1>3. ASSUME NEW j \in Jobs, Age(j) PROVE JobInv'
    <2>0. faults' \in Nat
      <3>1. faults \in Nat /\ faults' \in {faults, faults + 1}
        BY <1>3 DEF Age, Fault, Typed
      <3>2. QED
        BY <3>1
    <2>1. Typed'
      BY <1>3, <2>0 DEF Age, Fault, Typed, rowVars, poolVars
    <2>2. PoolFacts'
      BY <1>3 DEF Age, Fault, PoolFacts, Typed, Claims, rowVars, poolVars
    <2>3. ClaimIsExact'
      BY <1>3 DEF Age, Fault, ClaimIsExact, PoolFacts, Typed, Claims, rowVars, poolVars
    <2>4. AttemptsBounded'
      BY <1>3 DEF Age, Fault, AttemptsBounded, Typed, Terminal, rowVars, poolVars
    <2>5. QED
      BY <2>1, <2>2, <2>3, <2>4 DEF JobInv
<1>4. ASSUME NEW w \in Workers, Take(w) PROVE JobInv'
    <2>1. PICK j \in Jobs, c \in Claims :
            /\ Oldest(j) /\ Minted(w, c)
            /\ status' = [status EXCEPT ![j] = "running"]
            /\ attempts' = [attempts EXCEPT ![j] = @ + 1]
            /\ lockedBy' = [lockedBy EXCEPT ![j] = c]
            /\ fresh' = [fresh EXCEPT ![j] = TRUE]
            /\ claim' = [claim EXCEPT ![w] = c]
      BY <1>4 DEF Take
    <2>2. pc[w] = "free" /\ pc' = [pc EXCEPT ![w] = "reading"]
          /\ UNCHANGED <<node, quiescing, job, cancelled, outcome, blamed, faults>>
      BY <1>4 DEF Take
    <2>3. status[j] = "pending" /\ attempts[j] \in Nat /\ attempts[j] < MaxAttempts[j] /\ MaxAttempts[j] \in Nat
      BY <2>1 DEF Oldest, AttemptsBounded, Typed
    <2>4. c[1] = w /\ (\A k \in Jobs : lockedBy[k] # c) /\ c # NoClaim
      BY <2>1 DEF Minted, Claims
    <2>5. Typed'
      <3>1. attempts' \in [Jobs -> Nat]
        <4>1. attempts[j] + 1 \in Nat
          BY <2>3
        <4>2. QED
          BY <2>1, <4>1 DEF Typed
      <3>2. fresh' \in [Jobs -> BOOLEAN]
        BY <2>1 DEF Typed
      <3>3. QED
        BY <2>1, <2>2, <3>1, <3>2 DEF Typed
    <2>6. PoolFacts'
      <3> SUFFICES ASSUME NEW v \in Workers PROVE PoolFacts!(v)'
        BY DEF PoolFacts
      <3>1. CASE v = w
        BY <2>1, <2>2, <2>4, <3>1 DEF PoolFacts, Typed
      <3>2. CASE v # w
        <4>1. UNCHANGED <<claim[v], job[v], pc[v], node>>
          BY <2>1, <2>2, <3>2 DEF Typed
        <4>2. QED
          BY <4>1 DEF PoolFacts
      <3>3. QED
        BY <3>1, <3>2
    <2>7. ClaimIsExact'
      <3>1. \A v \in Workers : v # w => claim[v] # c
        BY <2>4 DEF PoolFacts
      <3>2. job[w] = NoJob
        BY <2>2 DEF PoolFacts
      <3>3. QED
        BY <2>1, <2>2, <2>4, <3>1, <3>2 DEF ClaimIsExact, Typed
    <2>8. AttemptsBounded'
      <3> SUFFICES ASSUME NEW k \in Jobs PROVE AttemptsBounded!(k)'
        BY DEF AttemptsBounded
      <3>1. CASE k = j
        <4>1. status'[j] = "running" /\ lockedBy'[j] = c /\ attempts'[j] = attempts[j] + 1
          BY <2>1 DEF Typed
        <4>2. attempts[j] + 1 <= MaxAttempts[j] /\ attempts[j] + 1 > 0
          BY <2>3
        <4>3. QED
          BY <2>4, <3>1, <4>1, <4>2
      <3>2. CASE k # j
        BY <2>1, <3>2 DEF AttemptsBounded, Typed
      <3>3. QED
        BY <3>1, <3>2
    <2>9. QED
      BY <2>5, <2>6, <2>7, <2>8 DEF JobInv
<1>5. ASSUME NEW w \in Workers, NEW j \in Jobs, ReadBack(w, j) PROVE JobInv'
    <2>1. Typed'
      BY <1>5 DEF ReadBack, Bears, Typed, Claims, Terminal, rowVars, poolVars
    <2>2. PoolFacts'
      BY <1>5 DEF ReadBack, Bears, PoolFacts, Typed, Claims, rowVars, poolVars
    <2>3. ClaimIsExact'
      <3>1. UNCHANGED <<lockedBy, claim>> /\ lockedBy[j] = claim[w] /\ claim[w] # NoClaim
        BY <1>5 DEF ReadBack, Bears, PoolFacts, rowVars
      <3>2. job' = [job EXCEPT ![w] = j]
        BY <1>5 DEF ReadBack
      <3>3. QED
        BY <3>1, <3>2 DEF ClaimIsExact, Typed
    <2>4. AttemptsBounded'
      BY <1>5 DEF ReadBack, Bears, AttemptsBounded, Typed, Terminal, rowVars, poolVars
    <2>5. QED
      BY <2>1, <2>2, <2>3, <2>4 DEF JobInv
<1>6. ASSUME NEW w \in Workers, ReadNothing(w) PROVE JobInv'
    <2>1. Typed'
      BY <1>6, IdleKeeps DEF ReadNothing, Bears, Typed, Claims, Terminal, rowVars, poolVars
    <2>2. PoolFacts'
      BY <1>6, IdleKeeps DEF ReadNothing, Bears, PoolFacts, rowVars, poolVars
    <2>3. ClaimIsExact'
      BY <1>6 DEF ReadNothing, Bears, Idle, ClaimIsExact, PoolFacts, Typed, Claims, rowVars,
         poolVars
    <2>4. AttemptsBounded'
      BY <1>6 DEF ReadNothing, Bears, AttemptsBounded, Typed, Terminal, rowVars, poolVars
    <2>5. QED
      BY <2>1, <2>2, <2>3, <2>4 DEF JobInv
<1>7. ASSUME NEW w \in Workers, Abandon(w) PROVE JobInv'
    <2>0. \A k \in Jobs : Bears(claim[w], k) => HandedBack(k) \in Nat /\ HandedBack(k) < MaxAttempts[k]
      BY HandedBackBounds DEF Bears
    <2>1. Typed'
      <3>1. faults' \in Nat
        <4>1. faults \in Nat /\ faults' \in {faults, faults + 1}
          BY <1>7 DEF Abandon, Fault, Typed
        <4>2. QED
          BY <4>1
      <3>2. attempts' \in [Jobs -> Nat]
        BY <1>7, <2>0 DEF Abandon, Typed
      <3>3. fresh' \in [Jobs -> BOOLEAN]
        BY <1>7 DEF Abandon, Typed
      <3>4. QED
        BY <1>7, <3>1, <3>2, <3>3, IdleKeeps DEF Abandon, Typed
    <2>2. PoolFacts'
      BY <1>7, IdleKeeps DEF Abandon, Bears, HandedBack, Fault, PoolFacts, rowVars, poolVars
    <2>3. ClaimIsExact'
      BY <1>7 DEF Abandon, Bears, HandedBack, Fault, Idle, ClaimIsExact, PoolFacts, Typed,
         Claims, rowVars, poolVars
    <2>4. AttemptsBounded'
      <3> SUFFICES ASSUME NEW k \in Jobs PROVE AttemptsBounded!(k)'
        BY DEF AttemptsBounded
      <3>1. CASE Bears(claim[w], k)
        <4>1. status'[k] = "pending" /\ lockedBy'[k] = NoClaim /\ attempts'[k] = HandedBack(k)
          BY <1>7, <3>1 DEF Abandon
        <4>2. MaxAttempts[k] \in Nat /\ HandedBack(k) \in Nat /\ HandedBack(k) < MaxAttempts[k]
          BY <2>0, <3>1
        <4>3. HandedBack(k) <= MaxAttempts[k]
          BY <4>2
        <4>4. QED
          BY <4>1, <4>2, <4>3
      <3>2. CASE ~Bears(claim[w], k)
        BY <1>7, <3>2 DEF Abandon, AttemptsBounded, Typed
      <3>3. QED
        BY <3>1, <3>2
    <2>5. QED
      BY <2>1, <2>2, <2>3, <2>4 DEF JobInv
<1>8. ASSUME NEW w \in Workers, WrongDoor(w) PROVE JobInv'
    <2>1. job[w] \in Jobs
      <3>1. pc[w] \in {"wrong door", "settling"}
        BY <1>8 DEF WrongDoor
      <3>2. job[w] # NoJob
        BY <3>1 DEF PoolFacts
      <3>3. QED
        BY <3>2 DEF Typed
    <2>2. Released(job[w], claim[w]) \/ UNCHANGED <<status, attempts, lockedBy, fresh>>
      BY <1>8 DEF WrongDoor
    <2>3. pc[w] # "gone" /\ Idle(w) /\ UNCHANGED <<node, quiescing, blamed, faults>>
      BY <1>8 DEF WrongDoor
    <2>4. /\ status' \in [Jobs -> {"none", "pending", "running"} \cup Terminal]
          /\ attempts' \in [Jobs -> Nat]
          /\ lockedBy' \in [Jobs -> Claims \cup {NoClaim}]
          /\ fresh' \in [Jobs -> BOOLEAN]
          /\ AttemptsBounded'
          /\ \A k \in Jobs : lockedBy'[k] \in {lockedBy[k], NoClaim}
      <3>1. CASE Released(job[w], claim[w])
        BY <2>1, <3>1, ReleasedKeeps
      <3>2. CASE UNCHANGED <<status, attempts, lockedBy, fresh>>
        BY <3>2 DEF Typed, AttemptsBounded
      <3>3. QED
        BY <2>2, <3>1, <3>2
    <2>5. Typed'
      BY <2>3, <2>4, IdleKeeps DEF Typed
    <2>6. PoolFacts' /\ ClaimIsExact'
      BY <2>3, <2>4, IdleKeeps, ExactKept
    <2>7. QED
      BY <2>4, <2>5, <2>6 DEF JobInv
<1>9. ASSUME NEW w \in Workers, NEW how \in {"nil", "canceled", "error"}, HandlerEnds(w, how)
      PROVE JobInv'
    <2>1. Typed'
      BY <1>9 DEF HandlerEnds, Typed, Claims, Terminal, rowVars, poolVars
    <2>2. PoolFacts'
      BY <1>9 DEF HandlerEnds, PoolFacts, Typed, rowVars
    <2>3. ClaimIsExact'
      BY <1>9 DEF HandlerEnds, ClaimIsExact, PoolFacts, Typed, Claims, rowVars, poolVars
    <2>4. AttemptsBounded'
      BY <1>9 DEF HandlerEnds, AttemptsBounded, Typed, Terminal, rowVars, poolVars
    <2>5. QED
      BY <2>1, <2>2, <2>3, <2>4 DEF JobInv
<1>10. ASSUME NEW w \in Workers, Beat(w) PROVE JobInv'
    <2>1. Typed'
      BY <1>10 DEF Beat, Bears, Typed, Claims, Terminal, rowVars, poolVars
    <2>2. PoolFacts'
      BY <1>10 DEF Beat, Bears, PoolFacts, Typed, Claims, rowVars, poolVars
    <2>3. ClaimIsExact'
      BY <1>10 DEF Beat, Bears, ClaimIsExact, PoolFacts, Typed, Claims, rowVars, poolVars
    <2>4. AttemptsBounded'
      BY <1>10 DEF Beat, Bears, AttemptsBounded, Typed, Terminal, rowVars, poolVars
    <2>5. QED
      BY <2>1, <2>2, <2>3, <2>4 DEF JobInv
<1>11. ASSUME NEW w \in Workers, Complete(w) PROVE JobInv'
    <2>1. job[w] \in Jobs /\ claim[w] \in Claims
      BY <1>11 DEF Complete, PoolFacts, Typed
    <2>2. pc[w] # "gone" /\ Idle(w) /\ UNCHANGED <<attempts, node, quiescing, faults>>
      BY <1>11 DEF Complete
    <2>3. blamed' \subseteq Jobs
      BY <1>11, <2>1 DEF Complete, Typed
    <2>4. /\ status' \in [Jobs -> {"none", "pending", "running"} \cup Terminal]
          /\ lockedBy' \in [Jobs -> Claims \cup {NoClaim}]
          /\ fresh' \in [Jobs -> BOOLEAN]
          /\ AttemptsBounded'
          /\ \A k \in Jobs : lockedBy'[k] \in {lockedBy[k], NoClaim}
      <3>1. CASE Owns(job[w], claim[w])
        <4> DEFINE s == "completed"
        <4>1. s \in {"pending"} \cup Terminal /\ (s = "pending" => ~Spent(job[w]))
          BY DEF Terminal
        <4>2. status' = [status EXCEPT ![job[w]] = s] /\ Unlock(job[w])
          BY <1>11, <3>1 DEF Complete, Completed
        <4> HIDE DEF s
        <4>3. QED
          BY <2>1, <2>2, <3>1, <4>1, <4>2, EndedKeeps
      <3>2. CASE ~Owns(job[w], claim[w])
        <4>1. UNCHANGED <<status, lockedBy, fresh>>
          BY <1>11, <3>2 DEF Complete
        <4>2. QED
          BY <2>2, <4>1 DEF Typed, AttemptsBounded
      <3>3. QED
        BY <3>1, <3>2
    <2>5. Typed'
      BY <2>2, <2>3, <2>4, IdleKeeps DEF Typed
    <2>6. PoolFacts' /\ ClaimIsExact'
      BY <2>2, <2>4, IdleKeeps, ExactKept
    <2>7. QED
      BY <2>4, <2>5, <2>6 DEF JobInv
<1>12. ASSUME NEW w \in Workers, ReleaseOnStop(w) PROVE JobInv'
    <2>1. job[w] \in Jobs
      <3>1. pc[w] \in {"wrong door", "settling"}
        BY <1>12 DEF ReleaseOnStop
      <3>2. job[w] # NoJob
        BY <3>1 DEF PoolFacts
      <3>3. QED
        BY <3>2 DEF Typed
    <2>2. Released(job[w], claim[w]) \/ UNCHANGED <<status, attempts, lockedBy, fresh>>
      BY <1>12 DEF ReleaseOnStop
    <2>3. pc[w] # "gone" /\ Idle(w) /\ UNCHANGED <<node, quiescing, blamed, faults>>
      BY <1>12 DEF ReleaseOnStop
    <2>4. /\ status' \in [Jobs -> {"none", "pending", "running"} \cup Terminal]
          /\ attempts' \in [Jobs -> Nat]
          /\ lockedBy' \in [Jobs -> Claims \cup {NoClaim}]
          /\ fresh' \in [Jobs -> BOOLEAN]
          /\ AttemptsBounded'
          /\ \A k \in Jobs : lockedBy'[k] \in {lockedBy[k], NoClaim}
      <3>1. CASE Released(job[w], claim[w])
        BY <2>1, <3>1, ReleasedKeeps
      <3>2. CASE UNCHANGED <<status, attempts, lockedBy, fresh>>
        BY <3>2 DEF Typed, AttemptsBounded
      <3>3. QED
        BY <2>2, <3>1, <3>2
    <2>5. Typed'
      BY <2>3, <2>4, IdleKeeps DEF Typed
    <2>6. PoolFacts' /\ ClaimIsExact'
      BY <2>3, <2>4, IdleKeeps, ExactKept
    <2>7. QED
      BY <2>4, <2>5, <2>6 DEF JobInv
<1>13. ASSUME NEW w \in Workers, Fail(w) PROVE JobInv'
    <2>1. job[w] \in Jobs /\ claim[w] \in Claims
      BY <1>13 DEF Fail, PoolFacts, Typed
    <2>2. pc[w] # "gone" /\ Idle(w) /\ UNCHANGED <<attempts, node, quiescing, faults>>
      BY <1>13 DEF Fail
    <2>3. blamed' \subseteq Jobs
      BY <1>13, <2>1 DEF Fail, Typed
    <2>4. /\ status' \in [Jobs -> {"none", "pending", "running"} \cup Terminal]
          /\ lockedBy' \in [Jobs -> Claims \cup {NoClaim}]
          /\ fresh' \in [Jobs -> BOOLEAN]
          /\ AttemptsBounded'
          /\ \A k \in Jobs : lockedBy'[k] \in {lockedBy[k], NoClaim}
      <3>1. CASE Owns(job[w], claim[w])
        <4> DEFINE s == IF Spent(job[w]) THEN "dead" ELSE "pending"
        <4>1. s \in {"pending"} \cup Terminal /\ (s = "pending" => ~Spent(job[w]))
          BY DEF Terminal
        <4>2. status' = [status EXCEPT ![job[w]] = s] /\ Unlock(job[w])
          BY <1>13, <3>1 DEF Fail, Returned
        <4> HIDE DEF s
        <4>3. QED
          BY <2>1, <2>2, <3>1, <4>1, <4>2, EndedKeeps
      <3>2. CASE ~Owns(job[w], claim[w])
        <4>1. UNCHANGED <<status, lockedBy, fresh>>
          BY <1>13, <3>2 DEF Fail
        <4>2. QED
          BY <2>2, <4>1 DEF Typed, AttemptsBounded
      <3>3. QED
        BY <3>1, <3>2
    <2>5. Typed'
      BY <2>2, <2>3, <2>4, IdleKeeps DEF Typed
    <2>6. PoolFacts' /\ ClaimIsExact'
      BY <2>2, <2>4, IdleKeeps, ExactKept
    <2>7. QED
      BY <2>4, <2>5, <2>6 DEF JobInv
<1>14. ASSUME NEW w \in Workers, Unrecorded(w) PROVE JobInv'
    <2>0. faults' \in Nat
      <3>1. faults \in Nat /\ faults' \in {faults, faults + 1}
        BY <1>14 DEF Unrecorded, Fault, Typed
      <3>2. QED
        BY <3>1
    <2>1. Typed'
      BY <1>14, <2>0, IdleKeeps DEF Unrecorded, Fault, Typed, rowVars, poolVars
    <2>2. PoolFacts'
      BY <1>14, IdleKeeps DEF Unrecorded, Fault, PoolFacts, rowVars, poolVars
    <2>3. ClaimIsExact'
      BY <1>14 DEF Unrecorded, Fault, Idle, ClaimIsExact, PoolFacts, Typed, Claims, rowVars,
         poolVars
    <2>4. AttemptsBounded'
      BY <1>14 DEF Unrecorded, Fault, AttemptsBounded, Typed, Terminal, rowVars, poolVars
    <2>5. QED
      BY <2>1, <2>2, <2>3, <2>4 DEF JobInv
<1>15. ASSUME NEW n \in Nodes, Reclaim(n) PROVE JobInv'
    <2>1. Typed'
      BY <1>15 DEF Reclaim, Stale, Spent, Typed, Claims, Terminal, rowVars, poolVars
    <2>2. PoolFacts'
      BY <1>15 DEF Reclaim, Stale, Spent, PoolFacts, Typed, Claims, rowVars, poolVars
    <2>3. ClaimIsExact'
      BY <1>15 DEF Reclaim, Stale, Spent, ClaimIsExact, PoolFacts, Typed, Claims, rowVars,
         poolVars
    <2>4. AttemptsBounded'
      <3> SUFFICES ASSUME NEW k \in Jobs PROVE AttemptsBounded!(k)'
        BY DEF AttemptsBounded
      <3>1. attempts[k] \in Nat /\ MaxAttempts[k] \in Nat /\ attempts' = attempts
        BY <1>15 DEF Reclaim, Typed
      <3>2. status'[k] = IF ~Stale(k) THEN status[k] ELSE IF Spent(k) THEN "dead" ELSE "pending"
        BY <1>15 DEF Reclaim
      <3>3. lockedBy'[k] = IF Stale(k) THEN NoClaim ELSE lockedBy[k]
        BY <1>15 DEF Reclaim
      <3>4. QED
        BY <3>1, <3>2, <3>3 DEF AttemptsBounded, Stale, Spent
    <2>5. QED
      BY <2>1, <2>2, <2>3, <2>4 DEF JobInv
<1>16. ASSUME NEW n \in Nodes, Quiesce(n) PROVE JobInv'
    <2>1. Typed'
      BY <1>16 DEF Quiesce, Typed, Claims, Terminal, rowVars, poolVars
    <2>2. PoolFacts'
      BY <1>16 DEF Quiesce, PoolFacts, Typed, Claims, rowVars, poolVars
    <2>3. ClaimIsExact'
      BY <1>16 DEF Quiesce, ClaimIsExact, PoolFacts, Typed, Claims, rowVars, poolVars
    <2>4. AttemptsBounded'
      BY <1>16 DEF Quiesce, AttemptsBounded, Typed, Terminal, rowVars, poolVars
    <2>5. QED
      BY <2>1, <2>2, <2>3, <2>4 DEF JobInv
<1>17. ASSUME NEW n \in Nodes, Stop(n) PROVE JobInv'
    <2>1. Typed'
      BY <1>17 DEF Stop, Typed, Claims, Terminal, rowVars, poolVars
    <2>2. PoolFacts'
      BY <1>17 DEF Stop, PoolFacts, Typed, Claims, rowVars, poolVars
    <2>3. ClaimIsExact'
      BY <1>17 DEF Stop, ClaimIsExact, PoolFacts, Typed, Claims, rowVars, poolVars
    <2>4. AttemptsBounded'
      BY <1>17 DEF Stop, AttemptsBounded, Typed, Terminal, rowVars, poolVars
    <2>5. QED
      BY <2>1, <2>2, <2>3, <2>4 DEF JobInv
<1>18. ASSUME NEW n \in Nodes, Down(n) PROVE JobInv'
    <2>0. faults' \in Nat
      <3>1. faults \in Nat /\ faults' \in {faults, faults + 1}
        BY <1>18 DEF Down, Fault, Typed
      <3>2. QED
        BY <3>1
    <2>1. Typed'
      BY <1>18, <2>0 DEF Down, Fault, Typed, rowVars, poolVars
    <2>2. PoolFacts'
      BY <1>18 DEF Down, Fault, PoolFacts, Typed, Claims, rowVars, poolVars
    <2>3. ClaimIsExact'
      BY <1>18 DEF Down, Fault, ClaimIsExact, PoolFacts, Typed, Claims, rowVars, poolVars
    <2>4. AttemptsBounded'
      BY <1>18 DEF Down, Fault, AttemptsBounded, Typed, Terminal, rowVars, poolVars
    <2>5. QED
      BY <2>1, <2>2, <2>3, <2>4 DEF JobInv
<1>19. ASSUME NEW n \in Nodes, Boot(n) PROVE JobInv'
    <2>1. Typed'
      BY <1>19 DEF Boot, Typed, Claims, Terminal, rowVars, poolVars
    <2>2. PoolFacts'
      <3>1. UNCHANGED <<claim, job>> /\ node' = [node EXCEPT ![n] = "up"]
        BY <1>19 DEF Boot
      <3>2. \A v \in Workers : (pc'[v] = pc[v] /\ NodeOf[v] # n) \/ (pc'[v] = "free" /\ job[v] = NoJob /\ NodeOf[v] = n)
        BY <1>19 DEF Boot, PoolFacts, Typed
      <3> SUFFICES ASSUME NEW v \in Workers PROVE PoolFacts!(v)'
        BY DEF PoolFacts
      <3>3. CASE pc'[v] = pc[v] /\ NodeOf[v] # n
        <4>1. node'[NodeOf[v]] = node[NodeOf[v]]
          BY <3>1, <3>3 DEF Typed
        <4>2. QED
          BY <3>1, <3>3, <4>1 DEF PoolFacts
      <3>4. CASE pc'[v] = "free" /\ job[v] = NoJob /\ NodeOf[v] = n
        <4>1. node'[NodeOf[v]] = "up"
          BY <3>1, <3>4 DEF Typed
        <4>2. QED
          BY <3>1, <3>4, <4>1 DEF PoolFacts
      <3>5. QED
        BY <3>2, <3>3, <3>4
    <2>3. ClaimIsExact'
      BY <1>19 DEF Boot, ClaimIsExact, PoolFacts, Typed, Claims, rowVars, poolVars
    <2>4. AttemptsBounded'
      BY <1>19 DEF Boot, AttemptsBounded, Typed, Terminal, rowVars, poolVars
    <2>5. QED
      BY <2>1, <2>2, <2>3, <2>4 DEF JobInv
<1>20. CASE UNCHANGED vars
    BY <1>20 DEF JobInv, Typed, PoolFacts, ClaimIsExact, AttemptsBounded, vars, rowVars,
       poolVars
<1>21. QED
    BY <1>1, <1>2, <1>3, <1>4, <1>5, <1>6, <1>7, <1>8, <1>9, <1>10, <1>11, <1>12, <1>13,
       <1>14, <1>15, <1>16, <1>17, <1>18, <1>19, <1>20 DEF Next, WorkerStep, NodeStep


\* The table starts empty and the goroutines free.
LEMMA JobInit == Init => JobInv
<1> SUFFICES ASSUME Init PROVE JobInv
  OBVIOUS
<1>1. Typed
    BY DEF Init, Typed, Claims
<1>2. PoolFacts
    BY DEF Init, PoolFacts
<1>3. ClaimIsExact
    BY DEF Init, ClaimIsExact
<1>4. AttemptsBounded
    BY DEF Init, AttemptsBounded
<1>5. QED
    BY <1>1, <1>2, <1>3, <1>4 DEF JobInv

\* The jobs, the claims and the goroutines stay well typed and consistent.
LEMMA JobInvariant == Spec => []JobInv
<1>1. QED
    BY JobInit, JobStep, PTL DEF Spec

\* One claim never locks two rows, and never one its goroutine did not read back:
\* the token minted for each call of Claim is what makes the read-back exact.
THEOREM ClaimsAreExact == Spec => []ClaimIsExact
<1>1. JobInv => ClaimIsExact
    BY DEF JobInv
<1>2. QED
    BY <1>1, JobInvariant, PTL

\* No attempt beyond max_attempts is handed out, and a row carries a claim exactly
\* while it runs, through every Fail, Release, abandon and Reclaim.
THEOREM AttemptsAreBounded == Spec => []AttemptsBounded
<1>1. JobInv => AttemptsBounded
    BY DEF JobInv
<1>2. QED
    BY <1>1, JobInvariant, PTL

\* A step leaves a row that is completed or dead as it is.
LEMMA EndingStep ==
  ASSUME JobInv, Next, NEW j \in Jobs, status[j] \in Terminal
  PROVE  status'[j] = status[j]
<1> USE DEF Terminal
<1>1. lockedBy[j] = NoClaim /\ status[j] \notin {"none", "pending", "running"}
    BY DEF JobInv, AttemptsBounded
<1>2. ASSUME NEW batch \in SUBSET Jobs, Enqueue(batch) PROVE status'[j] = status[j]
    BY <1>1, <1>2 DEF Enqueue
<1>3. ASSUME NEW w \in Workers, Take(w) PROVE status'[j] = status[j]
    BY <1>1, <1>3 DEF Take, Oldest, JobInv, Typed
<1>4. ASSUME NEW w \in Workers, Abandon(w) PROVE status'[j] = status[j]
    BY <1>1, <1>4 DEF Abandon, Bears
<1>5. ASSUME NEW w \in Workers, WrongDoor(w) \/ ReleaseOnStop(w) PROVE status'[j] = status[j]
    BY <1>1, <1>5 DEF WrongDoor, ReleaseOnStop, Released, Bears, JobInv, Typed
<1>6. ASSUME NEW w \in Workers, Complete(w) \/ Fail(w) PROVE status'[j] = status[j]
    <2>1. claim[w] # NoClaim
      BY <1>6 DEF Complete, Fail, JobInv, PoolFacts
    <2>2. UNCHANGED status \/ (Owns(job[w], claim[w]) /\ \E s : status' = [status EXCEPT ![job[w]] = s])
      BY <1>6 DEF Complete, Fail, Completed, Returned
    <2>3. QED
      BY <1>1, <2>1, <2>2 DEF Owns, JobInv, Typed
<1>7. ASSUME NEW n \in Nodes, Reclaim(n) PROVE status'[j] = status[j]
    BY <1>1, <1>7 DEF Reclaim, Stale
<1>8. ASSUME NEW k \in Jobs, Ripen(k) \/ Age(k) PROVE status'[j] = status[j]
    BY <1>8 DEF Ripen, Age
<1>9. ASSUME NEW w \in Workers, NEW k \in Jobs, ReadBack(w, k) PROVE status'[j] = status[j]
    BY <1>9 DEF ReadBack, rowVars
<1>10. ASSUME NEW w \in Workers, NEW how, HandlerEnds(w, how) PROVE status'[j] = status[j]
    BY <1>10 DEF HandlerEnds, rowVars
<1>11. ASSUME NEW w \in Workers, ReadNothing(w) \/ Beat(w) \/ Unrecorded(w)
       PROVE status'[j] = status[j]
    BY <1>11 DEF ReadNothing, Beat, Unrecorded, rowVars
<1>12. ASSUME NEW n \in Nodes, Quiesce(n) \/ Stop(n) \/ Down(n) \/ Boot(n)
       PROVE status'[j] = status[j]
    BY <1>12 DEF Quiesce, Stop, Down, Boot, rowVars
<1>13. QED
    BY <1>2, <1>3, <1>4, <1>5, <1>6, <1>7, <1>8, <1>9, <1>10, <1>11, <1>12 DEF Next,
       WorkerStep, NodeStep

\* completed and dead are final: a worker that lost its job and comes back late
\* cannot move a row somebody else has ended, although Complete and Fail never ask
\* for the row's status.
THEOREM EndingsAreFinal == Spec => EndingIsFinal
<1>1. JobInv /\ [Next]_vars => [\A j \in Jobs : status[j] \in Terminal => status'[j] = status[j]]_vars
    BY EndingStep
<1>2. QED
    BY <1>1, JobInvariant, PTL DEF Spec, EndingIsFinal

\* No step takes a row from a goroutine that holds it and beats in time: whoever
\* else records an ending bears another claim, and the scan passes a fresh row by.
LEMMA OthersRunStep ==
  ASSUME JobInv, Next, NEW w \in Workers, Holds(w), fresh[job[w]]
  PROVE  status'[job[w]] = "running" \/ pc'[w] # pc[w]
<1>1. /\ job[w] \in Jobs /\ claim[w] \in Claims /\ claim[w][1] = w
      /\ status[job[w]] = "running" /\ lockedBy[job[w]] = claim[w]
      /\ pc[w] \in {"working", "settling"}
    <2>1. /\ pc[w] \in {"working", "settling"}
          /\ status[job[w]] = "running" /\ lockedBy[job[w]] = claim[w]
      BY DEF Holds, Bears
    <2>2. job[w] # NoJob /\ claim[w] # NoClaim /\ claim[w][1] = w
      BY <2>1 DEF JobInv, PoolFacts
    <2>3. QED
      BY <2>1, <2>2 DEF JobInv, Typed
<1>2. ASSUME NEW v \in Workers, v # w, claim[v] # NoClaim PROVE lockedBy[job[w]] # claim[v]
    BY <1>1, <1>2 DEF JobInv, PoolFacts
<1>3. ASSUME NEW v \in Workers, Idle(v) PROVE v = w => pc'[w] # pc[w]
    BY <1>1, <1>3 DEF Idle, JobInv, Typed
<1>4. ASSUME NEW batch \in SUBSET Jobs, Enqueue(batch) PROVE status'[job[w]] = "running"
    BY <1>1, <1>4 DEF Enqueue
<1>5. ASSUME NEW v \in Workers, Take(v) PROVE status'[job[w]] = "running"
    <2>1. PICK j \in Jobs : status' = [status EXCEPT ![j] = "running"]
      BY <1>5 DEF Take
    <2>2. QED
      BY <1>1, <2>1 DEF JobInv, Typed
<1>6. ASSUME NEW v \in Workers, Abandon(v) PROVE status'[job[w]] = "running"
    <2>1. claim[v] # NoClaim /\ v # w
      BY <1>1, <1>6 DEF Abandon, JobInv, PoolFacts
    <2>2. ~Bears(claim[v], job[w])
      BY <1>2, <2>1 DEF Bears
    <2>3. QED
      BY <1>1, <1>6, <2>2 DEF Abandon
<1>7. ASSUME NEW v \in Workers, WrongDoor(v) \/ ReleaseOnStop(v) \/ Complete(v) \/ Fail(v)
      PROVE status'[job[w]] = "running" \/ pc'[w] # pc[w]
    <2>1. Idle(v) /\ claim[v] # NoClaim
      BY <1>7 DEF WrongDoor, ReleaseOnStop, Complete, Fail, JobInv, PoolFacts
    <2>2. CASE v = w
      BY <1>3, <2>1, <2>2
    <2>3. CASE v # w
      <3>1. lockedBy[job[w]] # claim[v]
        BY <1>2, <2>1, <2>3
      <3>2. UNCHANGED status \/ (lockedBy[job[v]] = claim[v] /\ \E s : status' = [status EXCEPT ![job[v]] = s])
        BY <1>7 DEF WrongDoor, ReleaseOnStop, Complete, Fail, Completed, Returned, Released,
           Bears, Owns
      <3>3. QED
        BY <1>1, <3>1, <3>2 DEF JobInv, Typed
    <2>4. QED
      BY <2>2, <2>3
<1>8. ASSUME NEW n \in Nodes, Reclaim(n) PROVE status'[job[w]] = "running"
    BY <1>1, <1>8 DEF Reclaim, Stale
<1>9. ASSUME NEW k \in Jobs, Ripen(k) \/ Age(k) PROVE status'[job[w]] = "running"
    BY <1>1, <1>9 DEF Ripen, Age
<1>10. ASSUME NEW v \in Workers, NEW k \in Jobs, ReadBack(v, k)
       PROVE status'[job[w]] = "running"
    BY <1>1, <1>10 DEF ReadBack, rowVars
<1>11. ASSUME NEW v \in Workers, NEW how, HandlerEnds(v, how) PROVE status'[job[w]] = "running"
    BY <1>1, <1>11 DEF HandlerEnds, rowVars
<1>12. ASSUME NEW v \in Workers, ReadNothing(v) \/ Beat(v) \/ Unrecorded(v)
       PROVE status'[job[w]] = "running"
    BY <1>1, <1>12 DEF ReadNothing, Beat, Unrecorded, rowVars
<1>13. ASSUME NEW n \in Nodes, Quiesce(n) \/ Stop(n) \/ Down(n) \/ Boot(n)
       PROVE status'[job[w]] = "running"
    BY <1>1, <1>13 DEF Quiesce, Stop, Down, Boot, rowVars
<1>14. QED
    BY <1>4, <1>5, <1>6, <1>7, <1>8, <1>9, <1>10, <1>11, <1>12, <1>13 DEF Next, WorkerStep,
       NodeStep

\* A row whose holder beats in time leaves `running` only by that holder's own step,
\* however many goroutines stalled, lost the job and come back late.
THEOREM OthersRunIsSafeHolds == Spec => OthersRunIsSafe
<1>1. ASSUME JobInv, [Next]_vars
      PROVE  [\A w \in Workers :
                Holds(w) /\ fresh[job[w]] /\ status'[job[w]] # "running" => pc'[w] # pc[w]]_vars
    BY <1>1, OthersRunStep
<1>2. QED
    BY <1>1, JobInvariant, PTL DEF Spec, OthersRunIsSafe

-----------------------------------------------------------------------------
(* The line *)

\* A set of numbers that is not empty has a least one.
LEMMA LeastOf ==
  ASSUME NEW S, S \subseteq Nat, S # {}
  PROVE  \E n \in S : \A m \in S : ~(m < n)
<1>1. \E n \in S : \A m \in S : ~(<<m, n>> \in OpToRel(<, Nat))
  BY NatLessThanWellFounded, WFMin
<1>2. QED
  BY <1>1 DEF OpToRel

\* Induction over the numbers, of a set and not of a predicate.
LEMMA NumbersIn ==
  ASSUME NEW S, 0 \in S, \A n \in Nat : n \in S => n + 1 \in S
  PROVE  Nat \subseteq S
<1> SUFFICES ASSUME Nat \ S # {} PROVE FALSE
  OBVIOUS
<1>1. PICK n \in Nat \ S : \A m \in Nat \ S : ~(m < n)
  BY LeastOf
<1>2. n # 0 /\ n - 1 \in Nat /\ n - 1 < n
  BY <1>1
<1>3. n - 1 \in S
  BY <1>1, <1>2
<1>4. QED
  BY <1>1, <1>2, <1>3

\* What Fail and Reclaim leave of the line is a line: the rows it keeps are collected one
\* by one, and that there is such a collection up to every place is itself an induction.
LEMMA PostponedTyped ==
  ASSUME line \in Seq(Jobs), NEW rows
  PROVE  Postponed(rows) \in Seq(Jobs)
<1> DEFINE N == Len(line)
           keep(g, i) == IF i = 0 THEN <<>>
                       ELSE IF line[i] \in rows THEN g[i - 1]
                       ELSE Append(g[i - 1], line[i])
           kept == CHOOSE f : f = [i \in 0 .. N |-> keep(f, i)]
           Upto(n) == \E g \in [0 .. n -> Seq(Jobs)] : \A i \in 0 .. n : g[i] = keep(g, i)
           Defined == {n \in Nat : n <= N => Upto(n)}
           Typical == {n \in Nat : n <= N => kept[n] \in Seq(Jobs)}
<1>0. N \in Nat /\ \A i \in 1 .. N : line[i] \in Jobs
  OBVIOUS
<1>1. Postponed(rows) = kept[N]
  BY DEF Postponed
<1>2. 0 \in Defined
  <2>1. \A i \in 0 .. 0 : [k \in 0 .. 0 |-> <<>>][i] = keep([k \in 0 .. 0 |-> <<>>], i)
    OBVIOUS
  <2>2. [k \in 0 .. 0 |-> <<>>] \in [0 .. 0 -> Seq(Jobs)]
    OBVIOUS
  <2>3. QED
    BY <2>1, <2>2
<1>3. ASSUME NEW n \in Nat, n \in Defined PROVE n + 1 \in Defined
  <2> SUFFICES ASSUME n + 1 <= N PROVE Upto(n + 1)
    <3> HIDE DEF Upto
    <3> QED
      BY <1>3
  <2>0. Upto(n)
    <3> HIDE DEF Upto
    <3> QED
      BY <1>0, <1>3
  <2>1. PICK g \in [0 .. n -> Seq(Jobs)] : \A i \in 0 .. n : g[i] = keep(g, i)
    BY <2>0
  <2> DEFINE h == [i \in 0 .. n + 1 |-> IF i <= n THEN g[i] ELSE keep(g, n + 1)]
  <2>2. keep(g, n + 1) \in Seq(Jobs)
    BY <1>0
  <2>3. h \in [0 .. n + 1 -> Seq(Jobs)]
    <3> HIDE DEF keep
    <3>1. \A i \in 0 .. n + 1 : i <= n => g[i] \in Seq(Jobs)
      OBVIOUS
    <3>2. QED
      BY <2>2, <3>1
  <2>4. ASSUME NEW i \in 0 .. n + 1 PROVE h[i] = keep(h, i)
    <3>1. CASE i = n + 1
      <4>1. i # 0 /\ i - 1 = n /\ n \in 0 .. n + 1 /\ n <= n
        BY <3>1
      <4>2. h[n] = g[n]
        BY <4>1
      <4>3. h[i] = keep(g, n + 1)
        <5> HIDE DEF keep
        <5> QED
          BY <3>1
      <4>4. QED
        BY <3>1, <4>1, <4>2, <4>3
    <3>2. CASE i # n + 1
      <4>1. i \in 0 .. n /\ i <= n /\ (i # 0 => i - 1 \in 0 .. n + 1 /\ i - 1 <= n)
        BY <3>2
      <4>2. h[i] = g[i] /\ (i # 0 => h[i - 1] = g[i - 1])
        <5> HIDE DEF keep
        <5> QED
          BY <4>1
      <4>3. g[i] = keep(g, i)
        BY <2>1, <4>1
      <4>4. QED
        <5> HIDE DEF h
        <5> QED
          BY <4>2, <4>3
    <3>3. QED
      BY <3>1, <3>2
  <2>5. QED
    BY <2>3, <2>4
<1>4. N \in Defined
  <2> HIDE DEF Defined
  <2>1. Nat \subseteq Defined
    BY <1>2, <1>3, NumbersIn
  <2>2. QED
    BY <1>0, <2>1
<1>5. kept = [i \in 0 .. N |-> keep(kept, i)]
  <2>0. Upto(N)
    <3> HIDE DEF Upto
    <3> QED
      BY <1>0, <1>4
  <2>1. PICK g \in [0 .. N -> Seq(Jobs)] : \A i \in 0 .. N : g[i] = keep(g, i)
    BY <2>0
  <2>2. g = [i \in 0 .. N |-> keep(g, i)]
    BY <2>1
  <2>3. QED
    BY <2>2
<1> HIDE DEF kept
<1>6. 0 \in Typical
  BY <1>0, <1>5
<1>7. ASSUME NEW n \in Nat, n \in Typical PROVE n + 1 \in Typical
  <2> SUFFICES ASSUME n + 1 <= N PROVE kept[n + 1] \in Seq(Jobs)
    OBVIOUS
  <2>1. kept[n] \in Seq(Jobs) /\ line[n + 1] \in Jobs
    BY <1>0, <1>7
  <2>2. n + 1 \in 0 .. N /\ n + 1 # 0 /\ (n + 1) - 1 = n
    BY <1>0
  <2>3. kept[n + 1] = keep(kept, n + 1)
    <3> HIDE DEF keep
    <3> QED
      BY <1>5, <2>2
  <2>4. QED
    BY <2>1, <2>2, <2>3
<1>8. N \in Typical
  <2> HIDE DEF Typical
  <2>1. Nat \subseteq Typical
    BY <1>6, <1>7, NumbersIn
  <2>2. QED
    BY <1>0, <2>1
<1>9. QED
  BY <1>0, <1>1, <1>8

LineTyped == line \in Seq(Jobs)

\* Rows join the line at its end and leave it where a run_after moves.
LEMMA LineStep == LineTyped /\ [Next]_vars => LineTyped'
<1> SUFFICES ASSUME line \in Seq(Jobs), [Next]_vars PROVE line' \in Seq(Jobs)
  BY DEF LineTyped
<1>1. CASE UNCHANGED line
  BY <1>1
<1>2. ASSUME NEW j \in Jobs, Ripen(j) PROVE line' \in Seq(Jobs)
  BY <1>2 DEF Ripen
<1>3. ASSUME NEW w \in Workers, Fail(w) PROVE line' \in Seq(Jobs)
  BY <1>3, PostponedTyped DEF Fail, Returned
<1>4. ASSUME NEW n \in Nodes, Reclaim(n) PROVE line' \in Seq(Jobs)
  BY <1>4, PostponedTyped DEF Reclaim
<1>5. QED
  BY <1>1, <1>2, <1>3, <1>4
  DEF Next, WorkerStep, NodeStep, vars, rowVars, Enqueue, Age, Take, ReadBack, ReadNothing,
      Abandon, WrongDoor, HandlerEnds, Beat, Complete, ReleaseOnStop, Unrecorded, Quiesce,
      Stop, Down, Boot

\* The table, its line and the pools keep their types, however many rows, processes and
\* goroutines there are.
THEOREM JobsTypeCorrect == Spec => []TypeOK
<1>1. Init => LineTyped
  BY DEF Init, LineTyped
<1>2. JobInv /\ LineTyped => TypeOK
  BY DEF JobInv, LineTyped, TypeOK
<1>3. QED
  BY <1>1, <1>2, LineStep, JobInvariant, PTL DEF Spec

=============================================================================
