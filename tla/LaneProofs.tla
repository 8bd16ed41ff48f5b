----------------------------- MODULE LaneProofs -----------------------------
(***************************************************************************)
(* That run.Manager keeps the lane's promise: every step of RunManager is  *)
(* a step of ConversationLane or leaves what it speaks of alone, for every *)
(* set of conversations and turns.                                         *)
(*                                                                         *)
(* Three things are known of a reachable state besides the lane, the queue *)
(* and the rows (RunManagerProofs): that the queue is only for turns that  *)
(* nobody waits for, that a run is Done from its last frame on and at no   *)
(* time before, and that execute's status is an ending by the time it is   *)
(* recorded (TurnFacts).                                                   *)
(***************************************************************************)
EXTENDS RunManagerProofs

USE ConstantsOK

\* The places of a turn that has not come to execute.
Unheard == {"new", "queued", "requeue", "look", "record", "claim"}

TurnFacts ==
  /\ \A t \in Turns : pc[t] \in {"queued", "requeue"} => t \in ServerTurns
  /\ \A t \in Turns : pc[t] \in Unheard \cup RunnerSteps => ~done[t]
  /\ \A t \in Turns : pc[t] = "recording" => done[t]
  /\ \A t \in Turns : pc[t] \in {"final"} \cup SettleSteps => verdict[t] \in Lane!Endings
  /\ \A t \in Turns : pc[t] = "over" => row[t] # "none"

\* What the refinement rests on.
KeptInv == RowInv /\ LaneFacts /\ TurnFacts

-----------------------------------------------------------------------------
(* The invariant *)

\* Done is set by a last frame and by settle, the status by the runner's end and by
\* the judgement on it; a refusal leaves both as they were before Start.
LEMMA TurnStepKept ==
  ASSUME TypeOK, QueueIntact, RowFacts, TurnFacts, [Next]_vars
  PROVE  TurnFacts'
<1>1. CASE UNCHANGED <<pc, row, verdict, done, pending>>
  BY <1>1 DEF TurnFacts, Unheard, Executing, RunnerSteps, SettleSteps, Lane!Endings
<1>2. ASSUME NEW t \in Turns, Prompt(t) PROVE TurnFacts'
  BY <1>2 DEF TypeOK, TurnFacts, Unheard, Prompt, Goto, dbVars, RowFacts, Executing,
     RunnerSteps, SettleSteps, Lane!Endings
<1>3. ASSUME NEW t \in Turns, Schedule(t) PROVE TurnFacts'
  BY <1>3 DEF TypeOK, TurnFacts, Unheard, Schedule, Goto, dbVars, RowFacts, Executing,
     RunnerSteps, SettleSteps, Lane!Endings
<1>4. ASSUME NEW t \in Turns, StartLook(t) PROVE TurnFacts'
  BY <1>4 DEF TypeOK, TurnFacts, Unheard, StartLook, Goto, RefusedTo, dbVars, RowFacts,
     Executing, RunnerSteps, SettleSteps, Lane!Endings
<1>5. ASSUME NEW t \in Turns, StartRecord(t) PROVE TurnFacts'
  <2>1. CASE RefusedTo(t) /\ UNCHANGED row
    BY <1>5, <2>1 DEF TypeOK, TurnFacts, Unheard, Goto, RefusedTo, StartRecord, Executing,
       RunnerSteps, SettleSteps, Lane!Endings
  <2>2. CASE row' = [row EXCEPT ![t] = "running"] /\ Goto(t, "claim")
    BY <1>5, <2>2 DEF TypeOK, TurnFacts, Unheard, Goto, StartRecord, Executing, RunnerSteps,
       SettleSteps, Lane!Endings
  <2>3. QED
    BY <1>5, <2>1, <2>2 DEF StartRecord
<1>6. ASSUME NEW t \in Turns, StartClaim(t) PROVE TurnFacts'
  <2>1. CASE row' = [row EXCEPT ![t] = "none"] /\ RefusedTo(t)
    BY <1>6, <2>1 DEF TypeOK, TurnFacts, Unheard, Goto, RefusedTo, StartClaim, Executing,
       RunnerSteps, SettleSteps, Lane!Endings
  <2>2. CASE UNCHANGED row /\ Goto(t, "running")
    BY <1>6, <2>2 DEF TypeOK, TurnFacts, Unheard, Goto, StartClaim, Executing, RunnerSteps,
       SettleSteps, Lane!Endings
  <2>3. QED
    BY <1>6, <2>1, <2>2 DEF StartClaim
<1>7. ASSUME NEW t \in Turns, Requeue(t) PROVE TurnFacts'
  BY <1>7 DEF TypeOK, TurnFacts, Unheard, Requeue, MayStrand, Goto, dbVars, RowFacts, Executing,
     RunnerSteps, SettleSteps, Lane!Endings
<1>8. ASSUME NEW t \in Turns, RunnerBreaks(t) PROVE TurnFacts'
  BY <1>8 DEF TypeOK, TurnFacts, Unheard, RunnerBreaks, Goto, dbVars, RowFacts, Executing,
     RunnerSteps, SettleSteps, Lane!Endings
<1>9. ASSUME NEW t \in Turns, RunnerParks(t) PROVE TurnFacts'
  BY <1>9 DEF TypeOK, TurnFacts, Unheard, RunnerParks, Goto, dbVars, RowFacts, Executing,
     RunnerSteps, SettleSteps, Lane!Endings
<1>10. ASSUME NEW t \in Turns, RunnerWaits(t) PROVE TurnFacts'
  BY <1>10 DEF TypeOK, TurnFacts, Unheard, RunnerWaits, Goto, dbVars, RowFacts, Executing,
     RunnerSteps, SettleSteps, Lane!Endings
<1>11. ASSUME NEW t \in Turns, RunnerFinal(t) PROVE TurnFacts'
  BY <1>11 DEF TypeOK, TurnFacts, Unheard, RunnerFinal, Goto, dbVars, RowFacts, Executing,
     RunnerSteps, SettleSteps, Lane!Endings
<1>12. ASSUME NEW t \in Turns, Judge(t) PROVE TurnFacts'
  BY <1>12 DEF TypeOK, TurnFacts, Unheard, Judge, Goto, Judged, dbVars, RowFacts, Executing,
     RunnerSteps, SettleSteps, Lane!Endings
<1>13. ASSUME NEW t \in Turns, StopFrame(t) PROVE TurnFacts'
  BY <1>13 DEF TypeOK, TurnFacts, Unheard, StopFrame, Goto, dbVars, RowFacts, Executing,
     RunnerSteps, SettleSteps, Lane!Endings
<1>14. ASSUME NEW t \in Turns, MarkCancelled(t) PROVE TurnFacts'
  BY <1>14 DEF TypeOK, TurnFacts, Unheard, MarkCancelled, Goto, dbVars, RowFacts, Executing,
     RunnerSteps, SettleSteps, Lane!Endings
<1>15. ASSUME NEW t \in Turns, SettleFinish(t) PROVE TurnFacts'
  BY <1>15 DEF TypeOK, TurnFacts, Unheard, SettleFinish, Goto, dbVars, RowFacts, Executing,
     RunnerSteps, SettleSteps, Lane!Endings
<1>16. ASSUME NEW t \in Turns, SettleRecord(t) PROVE TurnFacts'
  BY <1>16 DEF TypeOK, TurnFacts, Unheard, SettleRecord, Goto, dbVars, RowFacts, Executing,
     RunnerSteps, SettleSteps, Lane!Endings
<1>17. ASSUME NEW t \in Turns, NEW u \in Turns, AnswerCard(t, u) PROVE TurnFacts'
  BY <1>17 DEF TypeOK, TurnFacts, Unheard, AnswerCard, Goto, dbVars, Executing, RunnerSteps,
     SettleSteps, Lane!Endings
<1>18. ASSUME NEW t \in Turns, NEW outcome \in {"completed", "failed"},
              RunnerEnds(t, outcome)
       PROVE  TurnFacts'
  BY <1>18 DEF TypeOK, TurnFacts, Unheard, RunnerEnds, Goto, dbVars, Executing, RunnerSteps,
     SettleSteps, Lane!Endings
<1>19. ASSUME NEW s \in Sessions, DrainPop(s) PROVE TurnFacts'
  <2>1. /\ UNCHANGED <<row, verdict, done>>
        /\ \A v \in Turns : pc'[v] = pc[v] \/ (pc[v] = "queued" /\ pc'[v] = "look")
    BY <1>19, PopsQueued DEF DrainPop, dbVars
  <2>2. QED
    BY <2>1 DEF TurnFacts, Unheard, Executing, RunnerSteps, SettleSteps, Lane!Endings
<1>20. CASE Quiesce
  BY <1>20 DEF TypeOK, TurnFacts, Unheard, Quiesce, dbVars, Executing, RunnerSteps,
     SettleSteps, Lane!Endings, Over
<1>21. CASE Restart
  BY <1>21 DEF TypeOK, TurnFacts, Unheard, Restart, Recovered, Executing, RunnerSteps,
     SettleSteps, Lane!Endings, Over
<1>22. QED
  BY <1>1, <1>2, <1>3, <1>4, <1>5, <1>6, <1>7, <1>8, <1>9, <1>10, <1>11, <1>12, <1>13, <1>14,
     <1>15, <1>16, <1>17, <1>18, <1>19, <1>20, <1>21
  DEF Next, Ask, TurnStep, DrainStep, Environment, vars, memVars, drainVars, turnVars, dbVars,
      boundVars, Evict, GoQuiet, DrainLook, DrainAsk, Cancel, Hold, Release, RaiseDetached,
      AnswerDetached, ExpireCard, Shutdown

\* KeptInv holds throughout.
THEOREM KeptInvariant == Spec => []KeptInv
<1>1. Init => TurnFacts
  <2> SUFFICES ASSUME Init PROVE TurnFacts
    OBVIOUS
  <2>1. \A t \in Turns : pc[t] = "new" /\ ~done[t]
    BY DEF Init
  <2>2. QED
    BY <2>1 DEF TurnFacts, Unheard, Executing, RunnerSteps, SettleSteps
<1>2. RowInv /\ TurnFacts /\ [Next]_vars => TurnFacts'
  BY TurnStepKept DEF RowInv
<1>3. LiveTurnIsFound /\ HeldLaneIsQuiet => LaneFacts
  BY DEF LaneFacts
<1>4. QED
  BY <1>1, <1>2, <1>3, RowInvariant, LaneIsExclusive, PTL DEF Spec, KeptInv

-----------------------------------------------------------------------------
(* The refinement *)

\* The lane sees where turns stand, its holds and the rows, nothing else.
LEMMA Unseen ==
  ASSUME UNCHANGED <<pc, done, row, held>>
  PROVE  UNCHANGED Lane!vars
BY DEF Lane!vars, Stands, Live

\* A turn that goes from one place to another of a run it has not left, or stays as Done
\* as it was, stands where it stood.
LEMMA Stays ==
  ASSUME TypeOK, NEW t \in Turns, NEW place \in Places, Goto(t, place),
         UNCHANGED <<row, held>>,
         \A v \in Turns : v # t => done'[v] = done[v],
         Stands(t)' = Stands(t)
  PROVE  UNCHANGED Lane!vars
<1>1. \A v \in Turns : Stands(v)' = Stands(v)
  BY DEF TypeOK, Goto, Stands, Live
<1>2. QED
  BY <1>1 DEF Lane!vars

\* A turn that goes to another place by itself.
LEMMA Moves ==
  ASSUME TypeOK, NEW t \in Turns, NEW place \in Places, Goto(t, place),
         \A v \in Turns : v # t => done'[v] = done[v],
         NEW from, NEW to, Stands(t) = from, Stands(t)' = to
  PROVE  Lane!Goes(t, from, to)
<1>1. \A v \in Turns : v # t => Stands(v)' = Stands(v)
  BY DEF TypeOK, Goto, Stands, Live
<1>2. QED
  BY <1>1 DEF Lane!Goes

\* What a refused Start is to the lane: somebody is told no, or a turn that nobody
\* waits for is on its way back to the queue.
LEMMA Refused ==
  ASSUME TypeOK, NEW t \in Turns, pc[t] \in StartSteps, RefusedTo(t),
         UNCHANGED <<done, held>>,
         [v \in Turns |-> IF row[v] \in {"none", "running"} THEN "open" ELSE row[v]]'
           = [v \in Turns |-> IF row[v] \in {"none", "running"} THEN "open" ELSE row[v]]
  PROVE  [Lane!Next]_(Lane!vars)
<1> DEFINE to == IF t \in ResumeTurns THEN "new" ELSE "refused"
<1>1. CASE t \in ServerTurns
  <2>1. Goto(t, "requeue")
    BY <1>1 DEF RefusedTo
  <2>2. \A v \in Turns : Stands(v)' = Stands(v)
    BY <2>1 DEF TypeOK, Goto, Stands, Live, StartSteps, Executing, RunnerSteps, SettleSteps
  <2>3. QED
    BY <2>2 DEF Lane!vars
<1>2. CASE t \notin ServerTurns
  <2>1. Goto(t, to)
    BY <1>2 DEF RefusedTo
  <2>2. to \in Places /\ Stands(t) = "asked" /\ Stands(t)' = to
    BY <2>1 DEF TypeOK, Goto, Stands, Live, Places, Over, StartSteps, Executing, RunnerSteps,
       SettleSteps
  <2>3. Lane!Goes(t, "asked", to)
    BY <2>1, <2>2, Moves
  <2>4. Lane!Refuse(t)
    BY <1>2, <2>3 DEF Lane!Refuse
  <2>5. QED
    BY <2>4 DEF Lane!Next
<1>3. QED
  BY <1>1, <1>2

\* Every step of the manager is a step of the lane, or none.
LEMMA LaneMove ==
  ASSUME TypeOK, QueueIntact, RowFacts, LaneFacts, TurnFacts, [Next]_vars
  PROVE  [Lane!Next]_(Lane!vars)
<1>1. CASE UNCHANGED <<pc, done, row, held>>
  BY <1>1, Unseen
<1>2. ASSUME NEW t \in Turns, Prompt(t) PROVE [Lane!Next]_(Lane!vars)
  <2>1. Goto(t, "look") /\ "look" \in Places /\ UNCHANGED <<done, row, held>>
    BY <1>2 DEF Prompt, memVars, dbVars, Places, StartSteps, Executing, RunnerSteps, Over
  <2>2. Stands(t) = "new" /\ Stands(t)' = "asked"
    BY <1>2, <2>1 DEF Prompt, Goto, TypeOK, TurnFacts, Unheard, Stands, Live, StartSteps,
       Executing, RunnerSteps, SettleSteps
  <2>3. Lane!Goes(t, "new", "asked")
    BY <2>1, <2>2, Moves
  <2>4. Lane!Ask(t)
    BY <1>2, <2>1, <2>3 DEF Prompt, Lane!Ask
  <2>5. QED
    BY <2>4 DEF Lane!Next
<1>3. ASSUME NEW t \in Turns, NEW u \in Turns, AnswerCard(t, u) PROVE [Lane!Next]_(Lane!vars)
  <2>1. Goto(t, "look") /\ "look" \in Places /\ UNCHANGED <<done, row, held>>
    BY <1>3 DEF AnswerCard, memVars, dbVars, Places, StartSteps, Executing, RunnerSteps, Over
  <2>2. Stands(t) = "new" /\ Stands(t)' = "asked"
    BY <1>3, <2>1 DEF AnswerCard, Goto, TypeOK, TurnFacts, Unheard, Stands, Live, StartSteps,
       Executing, RunnerSteps, SettleSteps
  <2>3. Lane!Goes(t, "new", "asked")
    BY <2>1, <2>2, Moves
  <2>4. Lane!Ask(t)
    BY <1>3, <2>1, <2>3 DEF AnswerCard, Lane!Ask
  <2>5. QED
    BY <2>4 DEF Lane!Next
<1>4. ASSUME NEW t \in Turns, Schedule(t) PROVE [Lane!Next]_(Lane!vars)
  <2>1. Goto(t, "queued") /\ "queued" \in Places /\ UNCHANGED <<done, row, held>>
    BY <1>4 DEF Schedule, memVars, dbVars, Places, StartSteps, Executing, RunnerSteps, Over
  <2>2. Stands(t) = "new" /\ Stands(t)' = "waiting"
    BY <1>4, <2>1 DEF Schedule, Goto, TypeOK, TurnFacts, Unheard, Stands, Live, StartSteps,
       Executing, RunnerSteps, SettleSteps
  <2>3. Lane!Goes(t, "new", "waiting")
    BY <2>1, <2>2, Moves
  <2>4. Lane!Leave(t)
    BY <1>4, <2>1, <2>3 DEF Schedule, Lane!Leave
  <2>5. QED
    BY <2>4 DEF Lane!Next
<1>5. ASSUME NEW t \in Turns, Requeue(t) PROVE [Lane!Next]_(Lane!vars)
  <2>1. Goto(t, "queued") /\ "queued" \in Places /\ UNCHANGED <<done, row, held>>
    BY <1>5 DEF Requeue, MayStrand, memVars, dbVars, Places, StartSteps, Executing,
       RunnerSteps, Over
  <2>2. Stands(t) = "asked" /\ Stands(t)' = "waiting"
    BY <1>5, <2>1 DEF Requeue, MayStrand, Goto, TypeOK, TurnFacts, Unheard, Stands, Live,
       StartSteps,
       Executing, RunnerSteps, SettleSteps
  <2>3. Lane!Goes(t, "asked", "waiting")
    BY <2>1, <2>2, Moves
  <2>4. Lane!PutBack(t)
    BY <1>5, <2>1, <2>3 DEF Requeue, MayStrand, Lane!PutBack, TurnFacts
  <2>5. QED
    BY <2>4 DEF Lane!Next
<1>6. ASSUME NEW t \in Turns, StartLook(t) PROVE [Lane!Next]_(Lane!vars)
  <2>1. pc[t] \in StartSteps /\ UNCHANGED <<done, row, held>>
    BY <1>6 DEF StartLook, StartSteps, memVars
  <2>2. CASE RefusedTo(t)
    BY <2>1, <2>2, Refused
  <2>3. CASE Goto(t, "record")
    <3>1. Stands(t)' = Stands(t) /\ "record" \in Places
      BY <2>1, <2>3 DEF TypeOK, Goto, Stands, Live, StartSteps, Executing, RunnerSteps,
         SettleSteps, Places
    <3>2. QED
      BY <2>1, <2>3, <3>1, Stays
  <2>4. QED
    BY <1>6, <2>2, <2>3 DEF StartLook
<1>7. ASSUME NEW t \in Turns, StartRecord(t) PROVE [Lane!Next]_(Lane!vars)
  <2>1. pc[t] \in StartSteps /\ row[t] = "none" /\ UNCHANGED <<done, held>>
    BY <1>7 DEF StartRecord, StartSteps, memVars, RowFacts
  <2>2. CASE RefusedTo(t) /\ UNCHANGED row
    BY <2>1, <2>2, Refused
  <2>3. CASE row' = [row EXCEPT ![t] = "running"] /\ Goto(t, "claim")
    <3>1. \A v \in Turns : Stands(v)' = Stands(v)
      BY <2>1, <2>3 DEF TypeOK, Goto, Stands, Live, StartSteps, Executing, RunnerSteps,
         SettleSteps
    <3>2. \A v \in Turns : row'[v] = row[v] \/ (row[v] = "none" /\ row'[v] = "running")
      BY <2>1, <2>3 DEF TypeOK
    <3>3. QED
      BY <2>1, <3>1, <3>2 DEF Lane!vars
  <2>4. QED
    BY <1>7, <2>2, <2>3 DEF StartRecord
<1>8. ASSUME NEW t \in Turns, StartClaim(t) PROVE [Lane!Next]_(Lane!vars)
  <2>1. pc[t] \in StartSteps /\ row[t] = "running" /\ ~done[t] /\ UNCHANGED <<done, held>>
    BY <1>8 DEF StartClaim, StartSteps, RowFacts, TurnFacts, Unheard
  <2>2. CASE row' = [row EXCEPT ![t] = "none"] /\ RefusedTo(t)
    <3>1. \A v \in Turns : row'[v] = row[v] \/ (row[v] = "running" /\ row'[v] = "none")
      BY <2>1, <2>2 DEF TypeOK
    <3>2. QED
      BY <2>1, <2>2, <3>1, Refused
  <2>3. CASE ~LaneTaken(SessionOf[t]) /\ UNCHANGED row /\ Goto(t, "running")
    <3>1. \A v \in Turns : SessionOf[v] = SessionOf[t] => Stands(v) # "running"
      <4>1. \A v \in Turns : Stands(v) = "running" => Live(v)
        BY DEF TypeOK, Places, Over, Stands, Live, StartSteps, Executing, RunnerSteps,
           SettleSteps
      <4>2. QED
        BY <2>3, <4>1 DEF LaneTaken, Busy, LaneFacts, LiveTurnIsFound, Live, TypeOK
    <3>2. Lane!Free(SessionOf[t])
      BY <2>3, <3>1 DEF LaneTaken, Lane!Free, Lane!Running
    <3>3. Stands(t) = "asked" /\ Stands(t)' = "running" /\ "running" \in Places
      BY <2>1, <2>3 DEF TypeOK, Goto, Stands, Live, StartSteps, Executing, RunnerSteps,
         SettleSteps, Places
    <3>4. Lane!Run(t)
      BY <2>1, <2>3, <3>2, <3>3, Moves DEF Lane!Run
    <3>5. QED
      BY <3>4 DEF Lane!Next
  <2>4. QED
    BY <1>8, <2>2, <2>3 DEF StartClaim
<1>9. ASSUME NEW t \in Turns, NEW outcome \in {"completed", "failed"},
             RunnerEnds(t, outcome)
      PROVE  [Lane!Next]_(Lane!vars)
  <2>1. Goto(t, "final") /\ "final" \in Places /\ UNCHANGED <<done, row, held>>
    BY <1>9 DEF RunnerEnds, memVars, dbVars, Places, Executing, RunnerSteps, SettleSteps
  <2>2. Stands(t)' = Stands(t)
    BY <1>9, <2>1 DEF RunnerEnds, Goto, TypeOK, Stands, Live, StartSteps, Executing,
       RunnerSteps, SettleSteps
  <2>3. QED
    BY <2>1, <2>2, Stays
<1>10. ASSUME NEW t \in Turns, RunnerBreaks(t) PROVE [Lane!Next]_(Lane!vars)
  <2>1. Goto(t, "returned") /\ "returned" \in Places /\ UNCHANGED <<done, row, held>>
    BY <1>10 DEF RunnerBreaks, memVars, dbVars, Places, Executing, RunnerSteps, SettleSteps
  <2>2. Stands(t)' = Stands(t)
    BY <1>10, <2>1 DEF RunnerBreaks, Goto, TypeOK, Stands, Live, StartSteps, Executing,
       RunnerSteps, SettleSteps
  <2>3. QED
    BY <2>1, <2>2, Stays
<1>11. ASSUME NEW t \in Turns, RunnerParks(t) PROVE [Lane!Next]_(Lane!vars)
  <2>1. Goto(t, "carded") /\ "carded" \in Places /\ UNCHANGED <<done, row, held>>
    BY <1>11 DEF RunnerParks, memVars, dbVars, Places, Executing, RunnerSteps, SettleSteps
  <2>2. Stands(t)' = Stands(t)
    BY <1>11, <2>1 DEF RunnerParks, Goto, TypeOK, Stands, Live, StartSteps, Executing,
       RunnerSteps, SettleSteps
  <2>3. QED
    BY <2>1, <2>2, Stays
<1>12. ASSUME NEW t \in Turns, RunnerWaits(t) PROVE [Lane!Next]_(Lane!vars)
  <2>1. Goto(t, "final") /\ "final" \in Places /\ UNCHANGED <<done, row, held>>
    BY <1>12 DEF RunnerWaits, memVars, dbVars, Places, Executing, RunnerSteps, SettleSteps
  <2>2. Stands(t)' = Stands(t)
    BY <1>12, <2>1 DEF RunnerWaits, Goto, TypeOK, Stands, Live, StartSteps, Executing,
       RunnerSteps, SettleSteps
  <2>3. QED
    BY <2>1, <2>2, Stays
<1>13. ASSUME NEW t \in Turns, MarkCancelled(t) PROVE [Lane!Next]_(Lane!vars)
  <2>1. Goto(t, "settling") /\ "settling" \in Places /\ UNCHANGED <<done, row, held>>
    BY <1>13 DEF MarkCancelled, memVars, dbVars, Places, Executing, RunnerSteps, SettleSteps
  <2>2. Stands(t)' = Stands(t)
    BY <1>13, <2>1 DEF MarkCancelled, Goto, TypeOK, Stands, Live, StartSteps, Executing,
       RunnerSteps, SettleSteps
  <2>3. QED
    BY <2>1, <2>2, Stays
<1>14. ASSUME NEW t \in Turns, Judge(t) PROVE [Lane!Next]_(Lane!vars)
  <2>1. PICK place \in {"stopping", "settling"} : Goto(t, place)
    BY <1>14 DEF Judge
  <2>2. place \in Places /\ UNCHANGED <<done, row, held>>
    BY <1>14 DEF Judge, memVars, dbVars, Places, Executing, SettleSteps
  <2>3. Stands(t)' = Stands(t)
    BY <1>14, <2>1, <2>2 DEF Judge, Goto, TypeOK, Stands, Live, StartSteps, Executing,
       RunnerSteps, SettleSteps
  <2>4. QED
    BY <2>1, <2>2, <2>3, Stays
<1>15. ASSUME NEW t \in Turns, RunnerFinal(t) PROVE [Lane!Next]_(Lane!vars)
  <2>1. /\ Goto(t, "returned") /\ "returned" \in Places /\ UNCHANGED <<row, held>>
        /\ done' = [done EXCEPT ![t] = TRUE] /\ pc[t] = "final"
    BY <1>15 DEF RunnerFinal, memVars, dbVars, Places, Executing, SettleSteps
  <2>2. Stands(t)' = "spoken" /\ \A v \in Turns : v # t => done'[v] = done[v]
    BY <2>1 DEF Goto, TypeOK, Stands, Live, StartSteps, Executing, RunnerSteps, SettleSteps
  <2>3. CASE done[t]
    <3>1. Stands(t)' = Stands(t)
      BY <2>1, <2>2, <2>3 DEF Stands, Live, StartSteps, Executing, RunnerSteps, SettleSteps
    <3>2. QED
      BY <2>1, <2>2, <3>1, Stays
  <2>4. CASE ~done[t]
    <3>1. Stands(t) = "running"
      BY <2>1, <2>4 DEF Stands, Live, StartSteps, Executing, RunnerSteps, SettleSteps
    <3>2. Lane!Speak(t)
      BY <2>1, <2>2, <3>1, Moves DEF Lane!Speak
    <3>3. QED
      BY <3>2 DEF Lane!Next
  <2>5. QED
    BY <2>3, <2>4
<1>16. ASSUME NEW t \in Turns, StopFrame(t) PROVE [Lane!Next]_(Lane!vars)
  <2>1. /\ Goto(t, "marking") /\ "marking" \in Places /\ UNCHANGED <<row, held>>
        /\ done' = [done EXCEPT ![t] = TRUE] /\ pc[t] = "stopping"
    BY <1>16 DEF StopFrame, memVars, dbVars, Places, Executing, SettleSteps
  <2>2. Stands(t)' = "spoken" /\ \A v \in Turns : v # t => done'[v] = done[v]
    BY <2>1 DEF Goto, TypeOK, Stands, Live, StartSteps, Executing, RunnerSteps, SettleSteps
  <2>3. CASE done[t]
    <3>1. Stands(t)' = Stands(t)
      BY <2>1, <2>2, <2>3 DEF Stands, Live, StartSteps, Executing, RunnerSteps, SettleSteps
    <3>2. QED
      BY <2>1, <2>2, <3>1, Stays
  <2>4. CASE ~done[t]
    <3>1. Stands(t) = "running"
      BY <2>1, <2>4 DEF Stands, Live, StartSteps, Executing, RunnerSteps, SettleSteps
    <3>2. Lane!Speak(t)
      BY <2>1, <2>2, <3>1, Moves DEF Lane!Speak
    <3>3. QED
      BY <3>2 DEF Lane!Next
  <2>5. QED
    BY <2>3, <2>4
<1>17. ASSUME NEW t \in Turns, SettleFinish(t) PROVE [Lane!Next]_(Lane!vars)
  <2>1. /\ Goto(t, "recording") /\ "recording" \in Places /\ UNCHANGED <<row, held>>
        /\ done' = [done EXCEPT ![t] = TRUE] /\ pc[t] = "settling"
    BY <1>17 DEF SettleFinish, memVars, dbVars, Places, Executing, SettleSteps
  <2>2. Stands(t)' = "spoken" /\ \A v \in Turns : v # t => done'[v] = done[v]
    BY <2>1 DEF Goto, TypeOK, Stands, Live, StartSteps, Executing, RunnerSteps, SettleSteps
  <2>3. CASE done[t]
    <3>1. Stands(t)' = Stands(t)
      BY <2>1, <2>2, <2>3 DEF Stands, Live, StartSteps, Executing, RunnerSteps, SettleSteps
    <3>2. QED
      BY <2>1, <2>2, <3>1, Stays
  <2>4. CASE ~done[t]
    <3>1. Stands(t) = "running"
      BY <2>1, <2>4 DEF Stands, Live, StartSteps, Executing, RunnerSteps, SettleSteps
    <3>2. Lane!Speak(t)
      BY <2>1, <2>2, <3>1, Moves DEF Lane!Speak
    <3>3. QED
      BY <3>2 DEF Lane!Next
  <2>5. QED
    BY <2>3, <2>4
<1>18. ASSUME NEW t \in Turns, SettleRecord(t) PROVE [Lane!Next]_(Lane!vars)
  <2>1. /\ pc[t] = "recording" /\ Goto(t, "over") /\ "over" \in Places
        /\ row[t] = "running" /\ done[t] /\ UNCHANGED <<done, held>>
    BY <1>18 DEF SettleRecord, memVars, Places, Over, RowFacts, TurnFacts, Executing,
       SettleSteps
  <2>2. Stands(t) = "spoken" /\ Stands(t)' = "over"
    BY <2>1 DEF Goto, TypeOK, Stands, Live, StartSteps, Executing, RunnerSteps, SettleSteps
  <2>3. Lane!Goes(t, "spoken", "over")
    BY <2>1, <2>2, Moves
  <2>4. PICK r \in Lane!Endings \cup {"running"} : row' = [row EXCEPT ![t] = r]
    <3>1. verdict[t] \in Lane!Endings
      BY <2>1 DEF TurnFacts, SettleSteps
    <3>2. row' = [row EXCEPT ![t] = verdict[t]] \/ row' = [row EXCEPT ![t] = "running"]
      BY <1>18, <2>1 DEF SettleRecord, MayStrand, TypeOK
    <3>3. QED
      BY <3>1, <3>2
  <2>5. Lane!Record(t)
    <3> DEFINE e == IF r = "running" THEN "open" ELSE r
    <3>1. e \in Lane!Endings \cup {"open"}
      OBVIOUS
    <3>2. \A v \in Turns : row'[v] = IF v = t THEN r ELSE row[v]
      BY <2>4 DEF TypeOK
    <3>3. [v \in Turns |-> IF row'[v] \in {"none", "running"} THEN "open" ELSE row'[v]]
            = [[v \in Turns |-> IF row[v] \in {"none", "running"} THEN "open" ELSE row[v]]
                 EXCEPT ![t] = e]
      BY <3>2 DEF Lane!Endings
    <3>4. QED
      BY <2>1, <2>3, <3>1, <3>3 DEF Lane!Record
  <2>6. QED
    BY <2>5 DEF Lane!Next
<1>19. ASSUME NEW s \in Sessions, DrainPop(s) PROVE [Lane!Next]_(Lane!vars)
  <2>1. UNCHANGED <<done, row, held>>
    BY <1>19 DEF DrainPop, dbVars
  <2>2. CASE pending[s] = <<>>
    BY <1>19, <2>1, <2>2, Unseen DEF DrainPop
  <2>3. CASE pending[s] # <<>>
    <3>1. Head(pending[s]) \in Queued(s)
      BY <2>3, QueueByQueue, HoldsTail DEF TypeOK
    <3>2. PICK t \in Turns : pc[t] = "queued" /\ Goto(t, "look")
      BY <1>19, <2>3, <3>1 DEF DrainPop, Queued
    <3>3. Stands(t) = "waiting" /\ Stands(t)' = "asked" /\ "look" \in Places
      BY <3>2 DEF Goto, TypeOK, Stands, StartSteps, Places
    <3>4. Lane!Try(t)
      BY <2>1, <3>2, <3>3, Moves DEF Lane!Try
    <3>5. QED
      BY <3>4 DEF Lane!Next
  <2>4. QED
    BY <2>2, <2>3
<1>20. ASSUME NEW s \in Sessions, Hold(s) PROVE [Lane!Next]_(Lane!vars)
  <2>1. UNCHANGED <<pc, done, row>>
    BY <1>20 DEF Hold, turnVars, dbVars
  <2>2. \A v \in Turns : SessionOf[v] = s => Stands(v) # "running"
    <3>1. \A v \in Turns : Stands(v) = "running" => Live(v)
      BY DEF TypeOK, Places, Over, Stands, Live, StartSteps, Executing, RunnerSteps, SettleSteps
    <3>2. QED
      BY <1>20, <3>1 DEF Hold, Busy, LaneFacts, LiveTurnIsFound, Live, TypeOK
  <2>3. Lane!Hold(s)
    BY <1>20, <2>1, <2>2 DEF Hold, Lane!Hold, Lane!Free, Lane!Running, Stands, Live
  <2>4. QED
    BY <2>3 DEF Lane!Next
<1>21. ASSUME NEW s \in Sessions, Release(s) PROVE [Lane!Next]_(Lane!vars)
  <2>1. Lane!Release(s)
    BY <1>21 DEF Release, AfterHold, turnVars, dbVars, Lane!Release, Stands, Live
  <2>2. QED
    BY <2>1 DEF Lane!Next
<1>22. CASE Quiesce
  <2>1. UNCHANGED <<done, row, held>>
    BY <1>22 DEF Quiesce, dbVars
  <2>2. \A t \in Turns : Stands(t)' = IF Stands(t) = "waiting" THEN "lost" ELSE Stands(t)
    BY <1>22, <2>1 DEF Quiesce, TypeOK, Places, Over, Stands, Live, StartSteps, Executing,
       RunnerSteps, SettleSteps
  <2>3. Lane!Drop
    BY <2>1, <2>2 DEF Lane!Drop
  <2>4. QED
    BY <2>3 DEF Lane!Next
<1>23. CASE Restart
  <2>1. \A t \in Turns :
          Stands(t)' = IF Stands(t) \in {"new", "over", "refused"} THEN Stands(t) ELSE "lost"
    BY <1>23 DEF Restart, TypeOK, Places, Over, Stands, Live, StartSteps, Executing,
       RunnerSteps, SettleSteps
  <2>2. held' = [s \in Sessions |-> FALSE] /\ row' = [t \in Turns |-> Recovered(row[t])]
    BY <1>23 DEF Restart
  <2>3. Lane!Crash
    <3> DEFINE said(r) == IF r \in {"none", "running"} THEN "open" ELSE r
    <3>1. \A t \in Turns : said(row'[t]) \in Lane!Endings \cup {"open", "interrupted"}
      BY <2>2 DEF Recovered, TypeOK, RunStatus, Lane!Endings
    <3>2. ASSUME NEW t \in Turns, row[t] = "running"
          PROVE  /\ said(row'[t]) = "interrupted" /\ said(row[t]) = "open"
                 /\ Stands(t) \in {"asked", "running", "spoken", "over"}
      <4>1. row'[t] = "interrupted"
        BY <2>2, <3>2 DEF Recovered
      <4>2. pc[t] \in {"claim", "over"} \cup Executing
        BY <3>2 DEF RowFacts, TypeOK, Places, Over, StartSteps, Executing, RunnerSteps,
           SettleSteps
      <4>3. QED
        BY <3>2, <4>1, <4>2 DEF Stands, Live, StartSteps, Executing, RunnerSteps, SettleSteps
    <3>3. ASSUME NEW t \in Turns, row[t] # "running"
          PROVE  /\ said(row'[t]) = said(row[t])
                 /\ said(row[t]) = "open" => Stands(t) \notin {"running", "spoken", "over"}
      <4>1. row'[t] = row[t]
        BY <2>2, <3>3 DEF Recovered
      <4>2. said(row[t]) = "open" => row[t] = "none"
        BY <3>3 DEF TypeOK, RunStatus
      <4>3. row[t] = "none" => pc[t] \notin {"over"} \cup Executing
        BY DEF RowFacts, TurnFacts
      <4>4. QED
        BY <4>1, <4>2, <4>3 DEF TypeOK, Places, Over, Stands, Live, StartSteps, Executing,
           RunnerSteps, SettleSteps
    <3>4. QED
      BY <2>1, <2>2, <3>1, <3>2, <3>3 DEF Lane!Crash
  <2>4. QED
    BY <2>3 DEF Lane!Next
<1>24. QED
  BY <1>1, <1>2, <1>3, <1>4, <1>5, <1>6, <1>7, <1>8, <1>9, <1>10, <1>11, <1>12, <1>13, <1>14,
     <1>15, <1>16, <1>17, <1>18, <1>19, <1>20, <1>21, <1>22, <1>23
  DEF Next, Ask, TurnStep, DrainStep, Environment, vars, memVars, drainVars, turnVars, dbVars,
      boundVars, Evict, GoQuiet, DrainLook, DrainAsk, Cancel, RaiseDetached, AnswerDetached,
      ExpireCard, Shutdown

\* LaneIsKept: whatever the manager does, its goroutines, people, silence, the store and
\* restarts in any order, is what ConversationLane promises of the lane.
THEOREM LaneIsKeptHolds == Spec => LaneIsKept
<1>1. Init => Lane!Init
  BY DEF Init, Lane!Init, Stands, Live, StartSteps, Executing, RunnerSteps, SettleSteps
<1>2. KeptInv /\ [Next]_vars => [Lane!Next]_(Lane!vars)
  BY LaneMove DEF KeptInv, RowInv
<1>3. QED
  BY <1>1, <1>2, KeptInvariant, PTL DEF Spec, LaneIsKept, Lane!Spec

=============================================================================
