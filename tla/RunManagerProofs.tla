-------------------------- MODULE RunManagerProofs --------------------------
(***************************************************************************)
(* What holds of run.Manager for every set of conversations and turns.     *)
(*                                                                         *)
(* The lane argument needs one strengthening: a run that can still speak   *)
(* is the one byChat names (LiveTurnIsFound), so the single look at byChat *)
(* that Start and Hold make under the lock really is a look at every run   *)
(* of the conversation.                                                    *)
(*                                                                         *)
(* The queue holds each turn waiting at it once and no other: a turn says  *)
(* "queued" exactly where it is appended, and a drain pops the head or     *)
(* puts back the one it popped.  So a drain starts only turns that never   *)
(* ran and have no row (RowFacts), on which a row that never outlives its  *)
(* turn (NoGhostRow), an ending that is final and a turn that runs once    *)
(* rest.                                                                   *)
(*                                                                         *)
(* A lane that looks busy has a turn that will settle, and only            *)
(* completions wait in a queue (WatchFacts), on which the watch over a     *)
(* queue (QueueIsWatched) is handed from step to step.                     *)
(***************************************************************************)
EXTENDS RunManager, TLAPS

USE ConstantsOK

\* A refused Start leaves the turn's place, the cards and the answers well typed.
LEMMA RefusedTyped ==
  ASSUME TypeOK, NEW t \in Turns, RefusedTo(t)
  PROVE  /\ pc' \in [Turns -> Places]
         /\ park' \in [Turns -> {"none", "pending", "answered", "expired"}]
         /\ answers' \in [Turns -> Turns \cup {NoTurn}]
<1>1. pc' \in [Turns -> Places]
    BY DEF TypeOK, RefusedTo, Goto, Places, StartSteps, Executing, RunnerSteps, SettleSteps,
       Over
<1>2. park' \in [Turns -> {"none", "pending", "answered", "expired"}]
    BY DEF TypeOK, RefusedTo
<1>3. answers' \in [Turns -> Turns \cup {NoTurn}]
    BY DEF TypeOK, RefusedTo
<1>4. QED
    BY <1>1, <1>2, <1>3

\* Every step of the manager keeps its state well typed.
LEMMA TypeStep == TypeOK /\ [Next]_vars => TypeOK'
<1> SUFFICES ASSUME TypeOK, [Next]_vars PROVE TypeOK'
  OBVIOUS
<1>1. ASSUME NEW t \in Turns, Prompt(t) PROVE TypeOK'
    BY <1>1 DEF Prompt, Goto, TypeOK, RunStatus, SessionStatus, memVars, drainVars, turnVars,
       dbVars, boundVars, Places, StartSteps, Executing, RunnerSteps, SettleSteps, Over
<1>2. ASSUME NEW t \in Turns, Schedule(t) PROVE TypeOK'
    <2> USE <1>2 DEF Schedule, TypeOK
    <2>1. pc' \in [Turns -> Places]
      BY DEF Goto, Places
    <2>2. pending' \in [Sessions -> Seq(Turns)] /\ looking' \in [Sessions -> Nat]
      <3>1. SessionOf[t] \in Sessions /\ looking[SessionOf[t]] + 1 \in Nat
        OBVIOUS
      <3>2. QED
        BY <3>1 DEF Drains
    <2>3. QED
      BY <2>1, <2>2 DEF dbVars, boundVars
<1>3. ASSUME NEW t \in Turns, StartLook(t) PROVE TypeOK'
    <2> USE <1>3 DEF StartLook, TypeOK, RunStatus, SessionStatus, memVars, drainVars, turnVars, dbVars, boundVars
    <2>1. CASE quiescing \/ held[SessionOf[t]]
      BY <2>1, RefusedTyped
    <2>2. CASE ~(quiescing \/ held[SessionOf[t]])
      BY <2>2 DEF Goto, Places, StartSteps, Executing, RunnerSteps, SettleSteps, Over
    <2>3. QED
      BY <2>1, <2>2
<1>4. ASSUME NEW t \in Turns, StartRecord(t) PROVE TypeOK'
    <2> USE <1>4 DEF StartRecord, TypeOK, RunStatus, SessionStatus, memVars, drainVars, turnVars, dbVars, boundVars
    <2>1. CASE RefusedTo(t) /\ UNCHANGED row
      BY <2>1, RefusedTyped
    <2>2. CASE Goto(t, "claim") /\ row' = [row EXCEPT ![t] = "running"] /\ UNCHANGED <<park, answers>>
      BY <2>2 DEF Goto, Places, StartSteps, Executing, RunnerSteps, SettleSteps, Over
    <2>3. QED
      BY <2>1, <2>2
<1>5. ASSUME NEW t \in Turns, StartClaim(t) PROVE TypeOK'
    <2>1. pc' \in [Turns -> Places] /\ answers' \in [Turns -> Turns \cup {NoTurn}]
      BY <1>5, RefusedTyped DEF StartClaim, LaneTaken, Goto, TypeOK, Places, StartSteps,
         Executing, RunnerSteps
    <2>2. park' \in [Turns -> {"none", "pending", "answered", "expired"}]
      BY <1>5, RefusedTyped DEF StartClaim, LaneTaken, TypeOK
    <2>3. row' \in [Turns -> RunStatus]
      BY <1>5 DEF StartClaim, LaneTaken, TypeOK, RunStatus
    <2>4. stray' \subseteq Turns \X Nat /\ byUID' \subseteq Turns
      BY <1>5 DEF StartClaim, LaneTaken, TypeOK
    <2>5. byChat' \in [Sessions -> Turns \cup {NoTurn}]
      <3>1. byChat' = byChat \/ byChat' = [byChat EXCEPT ![SessionOf[t]] = t]
        BY <1>5 DEF StartClaim, LaneTaken
      <3>2. byChat \in [Sessions -> Turns \cup {NoTurn}]
        BY DEF TypeOK
      <3>3. QED
        BY <3>1, <3>2
    <2>6. QED
      BY <1>5, <2>1, <2>2, <2>3, <2>4, <2>5 DEF StartClaim, LaneTaken, TypeOK, drainVars,
         boundVars
<1>6. ASSUME NEW t \in Turns, Requeue(t) PROVE TypeOK'
    <2> USE <1>6 DEF Requeue, TypeOK
    <2>1. pc' \in [Turns -> Places]
      BY DEF Goto, Places
    <2>2. pending' \in [Sessions -> Seq(Turns)]
      BY DEF PutBack
    <2>3. SessionOf[t] \in Sessions /\ stranded' \subseteq Sessions
      BY DEF MayStrand
    <2>4. QED
      BY <2>1, <2>2, <2>3 DEF drainVars, dbVars
<1>7. ASSUME NEW t \in Turns, RunnerBreaks(t) PROVE TypeOK'
    BY <1>7 DEF RunnerBreaks, Goto, TypeOK, RunStatus, SessionStatus, memVars, drainVars,
       turnVars, dbVars, boundVars, Places, StartSteps, Executing, RunnerSteps, SettleSteps,
       Over
<1>8. ASSUME NEW t \in Turns, RunnerParks(t) PROVE TypeOK'
    BY <1>8 DEF RunnerParks, Goto, TypeOK, RunStatus, SessionStatus, memVars, drainVars,
       turnVars, dbVars, boundVars, Places, StartSteps, Executing, RunnerSteps, SettleSteps,
       Over
<1>9. ASSUME NEW t \in Turns, RunnerWaits(t) PROVE TypeOK'
    BY <1>9 DEF RunnerWaits, Goto, WriteSession, TypeOK, RunStatus, SessionStatus, memVars,
       drainVars, turnVars, dbVars, boundVars, Places, StartSteps, Executing, RunnerSteps,
       SettleSteps, Over
<1>10. ASSUME NEW t \in Turns, RunnerFinal(t) PROVE TypeOK'
    BY <1>10 DEF RunnerFinal, Goto, TypeOK, RunStatus, SessionStatus, memVars, drainVars,
       turnVars, dbVars, boundVars, Places, StartSteps, Executing, RunnerSteps, SettleSteps,
       Over
<1>11. ASSUME NEW t \in Turns, Judge(t) PROVE TypeOK'
    BY <1>11 DEF Judge, Goto, Judged, TypeOK, RunStatus, SessionStatus, memVars, drainVars,
       turnVars, dbVars, boundVars, Places, StartSteps, Executing, RunnerSteps, SettleSteps,
       Over
<1>12. ASSUME NEW t \in Turns, StopFrame(t) PROVE TypeOK'
    BY <1>12 DEF StopFrame, Goto, TypeOK, RunStatus, SessionStatus, memVars, drainVars,
       turnVars, dbVars, boundVars, Places, StartSteps, Executing, RunnerSteps, SettleSteps,
       Over
<1>13. ASSUME NEW t \in Turns, MarkCancelled(t) PROVE TypeOK'
    BY <1>13 DEF MarkCancelled, Goto, TypeOK, RunStatus, SessionStatus, memVars, drainVars,
       turnVars, dbVars, boundVars, Places, StartSteps, Executing, RunnerSteps, SettleSteps,
       Over
<1>14. ASSUME NEW t \in Turns, SettleFinish(t) PROVE TypeOK'
    BY <1>14 DEF SettleFinish, Goto, TypeOK, RunStatus, SessionStatus, memVars, drainVars,
       turnVars, dbVars, boundVars, Places, StartSteps, Executing, RunnerSteps, SettleSteps,
       Over
<1>15. ASSUME NEW t \in Turns, SettleRecord(t) PROVE TypeOK'
    <2> USE <1>15 DEF SettleRecord, TypeOK
    <2>1. row' \in [Turns -> RunStatus] /\ verdict' \in [Turns -> RunStatus]
      BY DEF RunStatus
    <2>2. looking' \in [Sessions -> Nat]
      <3>1. SessionOf[t] \in Sessions /\ looking[SessionOf[t]] + 1 \in Nat
        OBVIOUS
      <3>2. QED
        BY <3>1 DEF Drains
    <2>3. pc' \in [Turns -> Places]
      BY DEF Goto, Places, Over
    <2>4. SessionOf[t] \in Sessions /\ stranded' \subseteq Sessions
      BY DEF MayStrand
    <2>5. QED
      BY <2>1, <2>2, <2>3, <2>4 DEF memVars
<1>16. ASSUME NEW t \in Turns, Evict(t) PROVE TypeOK'
    BY <1>16 DEF Evict, IsLatest, TypeOK, RunStatus, SessionStatus, memVars, drainVars,
       turnVars, dbVars, boundVars, Places, StartSteps, Executing, RunnerSteps, SettleSteps,
       Over
<1>17. ASSUME NEW t \in Turns, GoQuiet(t) PROVE TypeOK'
    BY <1>17 DEF GoQuiet, TypeOK, RunStatus, SessionStatus, memVars, drainVars, turnVars,
       dbVars, boundVars, Places, StartSteps, Executing, RunnerSteps, SettleSteps, Over
<1>18. ASSUME NEW t \in Turns, NEW u \in Turns, AnswerCard(t, u) PROVE TypeOK'
    BY <1>18 DEF AnswerCard, Goto, TypeOK, RunStatus, SessionStatus, memVars, drainVars,
       turnVars, dbVars, boundVars, Places, StartSteps, Executing, RunnerSteps, SettleSteps,
       Over
<1>19. ASSUME NEW t \in Turns, NEW outcome \in {"completed", "failed"},
               RunnerEnds(t, outcome) PROVE TypeOK'
    BY <1>19 DEF RunnerEnds, Goto, WriteSession, TypeOK, RunStatus, SessionStatus, memVars,
       drainVars, turnVars, dbVars, boundVars, Places, StartSteps, Executing, RunnerSteps,
       SettleSteps, Over
<1>20. ASSUME NEW s \in Sessions, DrainLook(s) PROVE TypeOK'
    <2> USE <1>20 DEF DrainLook, TypeOK
    <2>1. looking' \in [Sessions -> Nat]
      <3>1. looking[s] - 1 \in Nat
        OBVIOUS
      <3>2. QED
        BY <3>1
    <2>2. asking' \in [Sessions -> Nat]
      OBVIOUS
    <2>3. QED
      BY <2>1, <2>2 DEF memVars, turnVars, dbVars, boundVars
<1>21. ASSUME NEW s \in Sessions, DrainAsk(s) PROVE TypeOK'
    <2> USE <1>21 DEF DrainAsk, TypeOK
    <2>1. asking' \in [Sessions -> Nat]
      <3>1. asking[s] - 1 \in Nat
        OBVIOUS
      <3>2. QED
        BY <3>1
    <2>2. popping' \in [Sessions -> Nat]
      OBVIOUS
    <2>3. QED
      BY <2>1, <2>2 DEF memVars, turnVars, dbVars, boundVars
<1>22. ASSUME NEW s \in Sessions, DrainPop(s) PROVE TypeOK'
    <2> USE <1>22 DEF DrainPop, AfterPop, TypeOK
    <2>1. popping' \in [Sessions -> Nat]
      <3>1. popping[s] - 1 \in Nat
        OBVIOUS
      <3>2. QED
        BY <3>1
    <2>2. pending' \in [Sessions -> Seq(Turns)] /\ pc' \in [Turns -> Places]
      <3>1. CASE pending[s] = <<>>
        BY <3>1
      <3>2. CASE pending[s] # <<>>
        <4>1. Tail(pending[s]) \in Seq(Turns) /\ Head(pending[s]) \in Turns
          BY <3>2
        <4>2. pending' \in [Sessions -> Seq(Turns)]
          BY <3>2, <4>1
        <4>3. pc' \in [Turns -> Places]
          BY <3>2, <4>1 DEF Goto, Places, StartSteps
        <4>4. QED
          BY <4>2, <4>3
      <3>3. QED
        BY <3>1, <3>2
    <2>3. QED
      BY <2>1, <2>2 DEF dbVars, boundVars
<1>23. ASSUME NEW s \in Sessions, Cancel(s) PROVE TypeOK'
    <2> USE <1>23 DEF Cancel, Busy, TypeOK
    <2>1. cancelled' \subseteq Turns
      OBVIOUS
    <2>2. QED
      BY <2>1 DEF memVars, drainVars, dbVars, boundVars
<1>24. ASSUME NEW s \in Sessions, Hold(s) PROVE TypeOK'
    BY <1>24 DEF Hold, Busy, TypeOK, RunStatus, SessionStatus, memVars, drainVars, turnVars,
       dbVars, boundVars, Places, StartSteps, Executing, RunnerSteps, SettleSteps, Over
<1>25. ASSUME NEW s \in Sessions, Release(s) PROVE TypeOK'
    BY <1>25 DEF Release, AfterHold, Drains, TypeOK, RunStatus, SessionStatus, memVars,
       drainVars,
       turnVars, dbVars, boundVars, Places, StartSteps, Executing, RunnerSteps, SettleSteps,
       Over
<1>26. ASSUME NEW s \in Sessions, RaiseDetached(s) PROVE TypeOK'
    BY <1>26 DEF RaiseDetached, TypeOK, RunStatus, SessionStatus, memVars, drainVars,
       turnVars, dbVars, boundVars, Places, StartSteps, Executing, RunnerSteps, SettleSteps,
       Over
<1>27. ASSUME NEW s \in Sessions, AnswerDetached(s) PROVE TypeOK'
    <2> USE <1>27 DEF AnswerDetached, TypeOK
    <2>1. looking' \in [Sessions -> Nat]
      <3>1. looking[s] + 1 \in Nat
        OBVIOUS
      <3>2. QED
        BY <3>1 DEF Drains
    <2>2. dcard' \in [Sessions -> BOOLEAN] /\ sessStatus' \in [Sessions -> SessionStatus]
      BY DEF SessionStatus
    <2>3. QED
      BY <2>1, <2>2 DEF memVars, turnVars, boundVars
<1>28. ASSUME NEW s \in Sessions, ExpireCard(s) PROVE TypeOK'
    BY <1>28 DEF ExpireCard, MayStrand, CardUp, TypeOK, RunStatus, SessionStatus, memVars,
       drainVars,
       turnVars, dbVars, boundVars, Places, StartSteps, Executing, RunnerSteps, SettleSteps,
       Over
<1>29. CASE Quiesce
    BY <1>29 DEF Quiesce, TypeOK, RunStatus, SessionStatus, memVars, drainVars, turnVars,
       dbVars, boundVars, Places, StartSteps, Executing, RunnerSteps, SettleSteps, Over
<1>30. CASE Shutdown
    BY <1>30 DEF Shutdown, TypeOK, RunStatus, SessionStatus, memVars, drainVars, turnVars,
       dbVars, boundVars, Places, StartSteps, Executing, RunnerSteps, SettleSteps, Over
<1>31. CASE Restart
    <2> USE <1>31 DEF Restart, Recovered
    <2>1. pc' \in [Turns -> Places]
      BY DEF TypeOK, Places, Over
    <2>2. row' \in [Turns -> RunStatus] /\ verdict' \in [Turns -> RunStatus]
      BY DEF TypeOK, RunStatus
    <2>3. pending' \in [Sessions -> Seq(Turns)] /\ held' \in [Sessions -> BOOLEAN]
      OBVIOUS
    <2>4. looking' \in [Sessions -> Nat] /\ asking' \in [Sessions -> Nat] /\ popping' \in [Sessions -> Nat]
      OBVIOUS
    <2>5. done' \in [Turns -> BOOLEAN] /\ answers' \in [Turns -> Turns \cup {NoTurn}]
      OBVIOUS
    <2>6. byChat' \in [Sessions -> Turns \cup {NoTurn}] /\ byUID' \subseteq Turns /\ quiescing' \in BOOLEAN
      OBVIOUS
    <2>7. restarts' \in Nat /\ cancelled' \subseteq Turns /\ stranded' \subseteq Sessions /\ stray' \subseteq Turns \X Nat
      BY DEF TypeOK
    <2>8. QED
      BY <2>1, <2>2, <2>3, <2>4, <2>5, <2>6, <2>7 DEF TypeOK
<1>32. CASE UNCHANGED vars
    BY <1>32 DEF vars, TypeOK, RunStatus, SessionStatus, memVars, drainVars, turnVars, dbVars,
       boundVars, Places, StartSteps, Executing, RunnerSteps, SettleSteps, Over
<1>33. QED
    BY <1>1, <1>2, <1>3, <1>4, <1>5, <1>6, <1>7, <1>8, <1>9, <1>10, <1>11, <1>12, <1>13,
       <1>14, <1>15, <1>16, <1>17, <1>18, <1>19, <1>20, <1>21, <1>22, <1>23, <1>24, <1>25,
       <1>26, <1>27, <1>28, <1>29, <1>30, <1>31, <1>32
    DEF Next, Ask, TurnStep, DrainStep, Environment

\* The manager's memory, its goroutines and its rows keep their types in every
\* behaviour of the specification.
THEOREM TypeCorrect == Spec => []TypeOK
<1>1. Init => TypeOK
  <2> SUFFICES ASSUME Init PROVE TypeOK
    OBVIOUS
  <2>1. pc \in [Turns -> Places] /\ row \in [Turns -> RunStatus] /\ verdict \in [Turns -> RunStatus]
    BY DEF Init, Places, RunStatus
  <2>2. sessStatus \in [Sessions -> SessionStatus]
    BY DEF Init, SessionStatus
  <2>3. pending \in [Sessions -> Seq(Turns)]
    BY DEF Init
  <2>4. looking \in [Sessions -> Nat] /\ asking \in [Sessions -> Nat] /\ popping \in [Sessions -> Nat]
    BY DEF Init
  <2>5. QED
    BY <2>1, <2>2, <2>3, <2>4 DEF Init, TypeOK
<1>2. QED
  BY <1>1, TypeStep, PTL DEF Spec

-----------------------------------------------------------------------------
(* The lane *)

LaneFacts == LiveTurnIsFound /\ HeldLaneIsQuiet

\* Every step keeps the two facts: Start claims the lane only when the run byChat
\* names is Done and nothing holds the lane, Hold only when that run is Done, and
\* an eviction drops only runs that are over.
LEMMA LaneStep == TypeOK /\ LaneFacts /\ [Next]_vars => LaneFacts'
<1> SUFFICES ASSUME TypeOK, LaneFacts, [Next]_vars PROVE LaneFacts'
  OBVIOUS
<1>1. ASSUME NEW t \in Turns, Prompt(t) PROVE LaneFacts'
    BY <1>1 DEF Prompt, Goto, LaneFacts, LiveTurnIsFound, HeldLaneIsQuiet, Live, TypeOK,
       memVars, drainVars, turnVars, dbVars, boundVars, Places, StartSteps, Executing,
       RunnerSteps, SettleSteps, Over
<1>2. ASSUME NEW t \in Turns, Schedule(t) PROVE LaneFacts'
    BY <1>2 DEF Schedule, Goto, Drains, LaneFacts, LiveTurnIsFound, HeldLaneIsQuiet, Live,
       TypeOK, memVars, drainVars, turnVars, dbVars, boundVars, Places, StartSteps, Executing,
       RunnerSteps, SettleSteps, Over
<1>3. ASSUME NEW t \in Turns, StartLook(t) PROVE LaneFacts'
    BY <1>3 DEF StartLook, Goto, RefusedTo, LaneFacts, LiveTurnIsFound, HeldLaneIsQuiet, Live,
       TypeOK, memVars, drainVars, turnVars, dbVars, boundVars, Places, StartSteps, Executing,
       RunnerSteps, SettleSteps, Over
<1>4. ASSUME NEW t \in Turns, StartRecord(t) PROVE LaneFacts'
    BY <1>4 DEF StartRecord, Goto, RefusedTo, LaneFacts, LiveTurnIsFound, HeldLaneIsQuiet,
       Live, TypeOK, memVars, drainVars, turnVars, dbVars, boundVars, Places, StartSteps,
       Executing, RunnerSteps, SettleSteps, Over
<1>5. ASSUME NEW t \in Turns, StartClaim(t) PROVE LaneFacts'
    <2> DEFINE s == SessionOf[t]
    <2>1. s \in Sessions /\ pc[t] = "claim"
      BY <1>5 DEF StartClaim, LaneTaken
    <2>2. CASE held[s] \/ Busy(s)
      <3>1. /\ UNCHANGED <<byUID, byChat, held, done>>
            /\ pc' = [pc EXCEPT ![t] = pc'[t]] /\ pc'[t] \notin Executing
        BY <1>5, <2>2 DEF StartClaim, LaneTaken, RefusedTo, Goto, TypeOK, Executing,
           RunnerSteps, SettleSteps
      <3>2. QED
        BY <3>1 DEF LaneFacts, LiveTurnIsFound, HeldLaneIsQuiet, Live, TypeOK
    <2>3. CASE ~(held[s] \/ Busy(s))
      <3>1. \A u \in Turns : SessionOf[u] = s => ~Live(u)
        BY <2>3 DEF LaneFacts, LiveTurnIsFound, Live, Busy
      <3>2. /\ byUID' = byUID \cup {t} /\ byChat' = [byChat EXCEPT ![s] = t]
            /\ pc' = [pc EXCEPT ![t] = "running"] /\ UNCHANGED <<held, done>>
        BY <1>5, <2>3 DEF StartClaim, LaneTaken, Goto
      <3>3. ASSUME NEW u \in Turns, Live(u)'
            PROVE  u \in byUID' /\ byChat'[SessionOf[u]] = u /\ ~held'[SessionOf[u]]
        <4>1. CASE u = t
          BY <4>1, <2>1, <2>3, <3>2 DEF TypeOK
        <4>2. CASE u # t
          <5>1. Live(u)
            BY <4>2, <3>2, <3>3 DEF Live, TypeOK
          <5>2. SessionOf[u] # s
            BY <5>1, <3>1
          <5>3. QED
            BY <5>1, <5>2, <3>2 DEF LaneFacts, LiveTurnIsFound, HeldLaneIsQuiet, TypeOK
        <4>3. QED
          BY <4>1, <4>2
      <3>4. QED
        BY <3>3 DEF LaneFacts, LiveTurnIsFound, HeldLaneIsQuiet
    <2>4. QED
      BY <2>2, <2>3
<1>6. ASSUME NEW t \in Turns, Requeue(t) PROVE LaneFacts'
    BY <1>6 DEF Requeue, MayStrand, PutBack, Goto, LaneFacts, LiveTurnIsFound,
       HeldLaneIsQuiet, Live,
       TypeOK, memVars, drainVars, turnVars, dbVars, boundVars, Places, StartSteps, Executing,
       RunnerSteps, SettleSteps, Over
<1>7. ASSUME NEW t \in Turns, RunnerBreaks(t) PROVE LaneFacts'
    BY <1>7 DEF RunnerBreaks, Goto, LaneFacts, LiveTurnIsFound, HeldLaneIsQuiet, Live, TypeOK,
       memVars, drainVars, turnVars, dbVars, boundVars, Places, StartSteps, Executing,
       RunnerSteps, SettleSteps, Over
<1>8. ASSUME NEW t \in Turns, RunnerParks(t) PROVE LaneFacts'
    BY <1>8 DEF RunnerParks, Goto, LaneFacts, LiveTurnIsFound, HeldLaneIsQuiet, Live, TypeOK,
       memVars, drainVars, turnVars, dbVars, boundVars, Places, StartSteps, Executing,
       RunnerSteps, SettleSteps, Over
<1>9. ASSUME NEW t \in Turns, RunnerWaits(t) PROVE LaneFacts'
    BY <1>9 DEF RunnerWaits, Goto, WriteSession, LaneFacts, LiveTurnIsFound, HeldLaneIsQuiet,
       Live, TypeOK, memVars, drainVars, turnVars, dbVars, boundVars, Places, StartSteps,
       Executing, RunnerSteps, SettleSteps, Over
<1>10. ASSUME NEW t \in Turns, RunnerFinal(t) PROVE LaneFacts'
    BY <1>10 DEF RunnerFinal, Goto, LaneFacts, LiveTurnIsFound, HeldLaneIsQuiet, Live, TypeOK,
       memVars, drainVars, turnVars, dbVars, boundVars, Places, StartSteps, Executing,
       RunnerSteps, SettleSteps, Over
<1>11. ASSUME NEW t \in Turns, Judge(t) PROVE LaneFacts'
    BY <1>11 DEF Judge, Goto, Judged, LaneFacts, LiveTurnIsFound, HeldLaneIsQuiet, Live,
       TypeOK, memVars, drainVars, turnVars, dbVars, boundVars, Places, StartSteps, Executing,
       RunnerSteps, SettleSteps, Over
<1>12. ASSUME NEW t \in Turns, StopFrame(t) PROVE LaneFacts'
    BY <1>12 DEF StopFrame, Goto, LaneFacts, LiveTurnIsFound, HeldLaneIsQuiet, Live, TypeOK,
       memVars, drainVars, turnVars, dbVars, boundVars, Places, StartSteps, Executing,
       RunnerSteps, SettleSteps, Over
<1>13. ASSUME NEW t \in Turns, MarkCancelled(t) PROVE LaneFacts'
    BY <1>13 DEF MarkCancelled, Goto, LaneFacts, LiveTurnIsFound, HeldLaneIsQuiet, Live,
       TypeOK, memVars, drainVars, turnVars, dbVars, boundVars, Places, StartSteps, Executing,
       RunnerSteps, SettleSteps, Over
<1>14. ASSUME NEW t \in Turns, SettleFinish(t) PROVE LaneFacts'
    BY <1>14 DEF SettleFinish, Goto, LaneFacts, LiveTurnIsFound, HeldLaneIsQuiet, Live,
       TypeOK, memVars, drainVars, turnVars, dbVars, boundVars, Places, StartSteps, Executing,
       RunnerSteps, SettleSteps, Over
<1>15. ASSUME NEW t \in Turns, SettleRecord(t) PROVE LaneFacts'
    BY <1>15 DEF SettleRecord, Goto, Drains, LaneFacts, LiveTurnIsFound, HeldLaneIsQuiet,
       Live, TypeOK, memVars, drainVars, turnVars, dbVars, boundVars, Places, StartSteps,
       Executing, RunnerSteps, SettleSteps, Over
<1>16. ASSUME NEW t \in Turns, Evict(t) PROVE LaneFacts'
    BY <1>16 DEF Evict, IsLatest, LaneFacts, LiveTurnIsFound, HeldLaneIsQuiet, Live, TypeOK,
       memVars, drainVars, turnVars, dbVars, boundVars, Places, StartSteps, Executing,
       RunnerSteps, SettleSteps, Over
<1>17. ASSUME NEW t \in Turns, GoQuiet(t) PROVE LaneFacts'
    BY <1>17 DEF GoQuiet, LaneFacts, LiveTurnIsFound, HeldLaneIsQuiet, Live, TypeOK, memVars,
       drainVars, turnVars, dbVars, boundVars, Places, StartSteps, Executing, RunnerSteps,
       SettleSteps, Over
<1>18. ASSUME NEW t \in Turns, NEW u \in Turns, AnswerCard(t, u) PROVE LaneFacts'
    BY <1>18 DEF AnswerCard, Goto, LaneFacts, LiveTurnIsFound, HeldLaneIsQuiet, Live, TypeOK,
       memVars, drainVars, turnVars, dbVars, boundVars, Places, StartSteps, Executing,
       RunnerSteps, SettleSteps, Over
<1>19. ASSUME NEW t \in Turns, NEW outcome \in {"completed", "failed"},
               RunnerEnds(t, outcome) PROVE LaneFacts'
    BY <1>19 DEF RunnerEnds, Goto, WriteSession, LaneFacts, LiveTurnIsFound, HeldLaneIsQuiet,
       Live, TypeOK, memVars, drainVars, turnVars, dbVars, boundVars, Places, StartSteps,
       Executing, RunnerSteps, SettleSteps, Over
<1>20. ASSUME NEW s \in Sessions, DrainLook(s) PROVE LaneFacts'
    BY <1>20 DEF DrainLook, LaneFacts, LiveTurnIsFound, HeldLaneIsQuiet, Live, TypeOK,
       memVars, drainVars, turnVars, dbVars, boundVars, Places, StartSteps, Executing,
       RunnerSteps, SettleSteps, Over
<1>21. ASSUME NEW s \in Sessions, DrainAsk(s) PROVE LaneFacts'
    BY <1>21 DEF DrainAsk, LaneFacts, LiveTurnIsFound, HeldLaneIsQuiet, Live, TypeOK, memVars,
       drainVars, turnVars, dbVars, boundVars, Places, StartSteps, Executing, RunnerSteps,
       SettleSteps, Over
<1>22. ASSUME NEW s \in Sessions, DrainPop(s) PROVE LaneFacts'
    <2>1. \A u \in Turns : pc'[u] = pc[u] \/ pc'[u] = "look"
      <3>1. CASE pending[s] = <<>>
        BY <3>1, <1>22 DEF DrainPop, AfterPop
      <3>2. CASE pending[s] # <<>>
        BY <3>2, <1>22 DEF DrainPop, AfterPop, Goto, TypeOK
      <3>3. QED
        BY <3>1, <3>2
    <2>2. \A u \in Turns : Live(u)' => Live(u)
      BY <2>1, <1>22 DEF DrainPop, AfterPop, Live, Executing, RunnerSteps, SettleSteps
    <2>3. QED
      BY <2>2, <1>22 DEF DrainPop, AfterPop, LaneFacts, LiveTurnIsFound, HeldLaneIsQuiet
<1>23. ASSUME NEW s \in Sessions, Cancel(s) PROVE LaneFacts'
    BY <1>23 DEF Cancel, Busy, LaneFacts, LiveTurnIsFound, HeldLaneIsQuiet, Live, TypeOK,
       memVars, drainVars, turnVars, dbVars, boundVars, Places, StartSteps, Executing,
       RunnerSteps, SettleSteps, Over
<1>24. ASSUME NEW s \in Sessions, Hold(s) PROVE LaneFacts'
    BY <1>24 DEF Hold, Busy, LaneFacts, LiveTurnIsFound, HeldLaneIsQuiet, Live, TypeOK,
       memVars, drainVars, turnVars, dbVars, boundVars, Places, StartSteps, Executing,
       RunnerSteps, SettleSteps, Over
<1>25. ASSUME NEW s \in Sessions, Release(s) PROVE LaneFacts'
    BY <1>25 DEF Release, AfterHold, Drains, LaneFacts, LiveTurnIsFound, HeldLaneIsQuiet,
       Live, TypeOK,
       memVars, drainVars, turnVars, dbVars, boundVars, Places, StartSteps, Executing,
       RunnerSteps, SettleSteps, Over
<1>26. ASSUME NEW s \in Sessions, RaiseDetached(s) PROVE LaneFacts'
    BY <1>26 DEF RaiseDetached, LaneFacts, LiveTurnIsFound, HeldLaneIsQuiet, Live, TypeOK,
       memVars, drainVars, turnVars, dbVars, boundVars, Places, StartSteps, Executing,
       RunnerSteps, SettleSteps, Over
<1>27. ASSUME NEW s \in Sessions, AnswerDetached(s) PROVE LaneFacts'
    BY <1>27 DEF AnswerDetached, Drains, LaneFacts, LiveTurnIsFound, HeldLaneIsQuiet, Live,
       TypeOK, memVars, drainVars, turnVars, dbVars, boundVars, Places, StartSteps, Executing,
       RunnerSteps, SettleSteps, Over
<1>28. ASSUME NEW s \in Sessions, ExpireCard(s) PROVE LaneFacts'
    BY <1>28 DEF ExpireCard, MayStrand, CardUp, LaneFacts, LiveTurnIsFound, HeldLaneIsQuiet,
       Live,
       TypeOK, memVars, drainVars, turnVars, dbVars, boundVars, Places, StartSteps, Executing,
       RunnerSteps, SettleSteps, Over
<1>29. CASE Quiesce
    BY <1>29 DEF Quiesce, LaneFacts, LiveTurnIsFound, HeldLaneIsQuiet, Live, TypeOK, memVars,
       drainVars, turnVars, dbVars, boundVars, Places, StartSteps, Executing, RunnerSteps,
       SettleSteps, Over
<1>30. CASE Shutdown
    BY <1>30 DEF Shutdown, LaneFacts, LiveTurnIsFound, HeldLaneIsQuiet, Live, TypeOK, memVars,
       drainVars, turnVars, dbVars, boundVars, Places, StartSteps, Executing, RunnerSteps,
       SettleSteps, Over
<1>31. CASE Restart
    BY <1>31 DEF Restart, Recovered, LaneFacts, LiveTurnIsFound, HeldLaneIsQuiet, Live,
       TypeOK, memVars, drainVars, turnVars, dbVars, boundVars, Places, StartSteps, Executing,
       RunnerSteps, SettleSteps, Over
<1>32. CASE UNCHANGED vars
    BY <1>32 DEF vars, LaneFacts, LiveTurnIsFound, HeldLaneIsQuiet, Live, TypeOK, memVars,
       drainVars, turnVars, dbVars, boundVars, Places, StartSteps, Executing, RunnerSteps,
       SettleSteps, Over
<1>33. QED
    BY <1>1, <1>2, <1>3, <1>4, <1>5, <1>6, <1>7, <1>8, <1>9, <1>10, <1>11, <1>12, <1>13,
       <1>14, <1>15, <1>16, <1>17, <1>18, <1>19, <1>20, <1>21, <1>22, <1>23, <1>24, <1>25,
       <1>26, <1>27, <1>28, <1>29, <1>30, <1>31, <1>32
    DEF Next, Ask, TurnStep, DrainStep, Environment

\* A run that can still speak is always the one the conversation's lane names, and
\* never shares the lane with a compaction, for any number of conversations,
\* turns, drains and restarts.
THEOREM LaneIsExclusive == Spec => [](LiveTurnIsFound /\ HeldLaneIsQuiet)
<1>1. Init => LaneFacts
  BY DEF Init, LaneFacts, LiveTurnIsFound, HeldLaneIsQuiet, Live, Executing, RunnerSteps,
     SettleSteps
<1>2. LaneFacts => LiveTurnIsFound /\ HeldLaneIsQuiet
  BY DEF LaneFacts
<1>3. QED
  BY <1>1, <1>2, LaneStep, TypeCorrect, PTL DEF Spec

\* HeldLaneIsQuiet on its own: a conversation held for a compaction has no run that can
\* still write a frame.
THEOREM HeldLaneIsQuietHolds == Spec => []HeldLaneIsQuiet
<1>1. LiveTurnIsFound /\ HeldLaneIsQuiet => HeldLaneIsQuiet
  OBVIOUS
<1>2. QED
  BY <1>1, LaneIsExclusive, PTL

\* One conversation, one turn at a time: no two runs of a conversation can ever
\* write frames in the same state.
THEOREM TurnsAreExclusive == Spec => []OneTurnAtATime
<1>1. LiveTurnIsFound /\ HeldLaneIsQuiet => OneTurnAtATime
  BY DEF LiveTurnIsFound, OneTurnAtATime
<1>2. QED
  BY <1>1, LaneIsExclusive, PTL

-----------------------------------------------------------------------------
(* The queue *)

\* A queue that holds each of T once, and nothing else.
Holds(queue, T) ==
  /\ \A i, j \in 1 .. Len(queue) : queue[i] = queue[j] => i = j
  /\ {queue[i] : i \in 1 .. Len(queue)} = T

Queued(s) == {t \in Turns : pc[t] = "queued" /\ SessionOf[t] = s}

\* Schedule's append ...
LEMMA HoldsAppend ==
  ASSUME NEW queue \in Seq(Turns), NEW T, Holds(queue, T), NEW t \in Turns, t \notin T
  PROVE  Holds(Append(queue, t), T \cup {t})
<1> DEFINE longer == Append(queue, t)
<1>1. /\ Len(queue) \in Nat /\ Len(longer) = Len(queue) + 1
      /\ longer[Len(queue) + 1] = t
      /\ \A i \in 1 .. Len(queue) : longer[i] = queue[i]
  OBVIOUS
<1>2. \A i \in 1 .. Len(queue) : queue[i] \in T /\ queue[i] # t
  BY DEF Holds
<1>3. \A i \in 1 .. Len(longer) : i \in 1 .. Len(queue) \/ i = Len(queue) + 1
  BY <1>1
<1> HIDE DEF longer
<1>4. \A i, j \in 1 .. Len(longer) : longer[i] = longer[j] => i = j
  BY <1>1, <1>2, <1>3 DEF Holds
<1>5. {longer[i] : i \in 1 .. Len(longer)} = T \cup {t}
  <2>1. \A i \in 1 .. Len(longer) : longer[i] \in T \cup {t}
    BY <1>1, <1>2, <1>3
  <2>2. ASSUME NEW u \in T \cup {t} PROVE \E i \in 1 .. Len(longer) : longer[i] = u
    <3>1. CASE u = t
      <4>1. Len(queue) + 1 \in 1 .. Len(longer)
        BY <1>1
      <4>2. QED
        BY <1>1, <3>1, <4>1
    <3>2. CASE u \in T
      <4>1. PICK i \in 1 .. Len(queue) : queue[i] = u
        BY <3>2 DEF Holds
      <4>2. i \in 1 .. Len(longer)
        BY <1>1
      <4>3. QED
        BY <1>1, <4>1, <4>2
    <3>3. QED
      BY <2>2, <3>1, <3>2
  <2>3. QED
    BY <2>1, <2>2
<1>6. QED
  BY <1>4, <1>5 DEF Holds, longer

\* ... startNextPending's pop ...
LEMMA HoldsTail ==
  ASSUME NEW queue \in Seq(Turns), NEW T, Holds(queue, T), queue # <<>>
  PROVE  Head(queue) \in T /\ Holds(Tail(queue), T \ {Head(queue)})
<1> DEFINE rest == Tail(queue)
<1>1. /\ Len(queue) \in Nat \ {0} /\ Len(rest) = Len(queue) - 1
      /\ Head(queue) = queue[1]
      /\ \A i \in 1 .. Len(rest) : rest[i] = queue[i + 1]
  OBVIOUS
<1> HIDE DEF rest
<1>2. \A i \in 1 .. Len(rest) : i + 1 \in 1 .. Len(queue) /\ i + 1 # 1
  BY <1>1
<1>3. \A i \in 1 .. Len(queue) : i = 1 \/ (i - 1 \in 1 .. Len(rest) /\ i = (i - 1) + 1)
  BY <1>1
<1>4. 1 \in 1 .. Len(queue)
  BY <1>1
<1>5. Head(queue) \in T
  BY <1>1, <1>4 DEF Holds
<1>6. \A i, j \in 1 .. Len(rest) : rest[i] = rest[j] => i = j
  <2> SUFFICES ASSUME NEW i \in 1 .. Len(rest), NEW j \in 1 .. Len(rest), rest[i] = rest[j]
               PROVE  i = j
    OBVIOUS
  <2>1. i + 1 = j + 1
    BY <1>1, <1>2 DEF Holds
  <2>2. QED
    BY <2>1
<1>7. {rest[i] : i \in 1 .. Len(rest)} = T \ {Head(queue)}
  <2>1. ASSUME NEW i \in 1 .. Len(rest) PROVE rest[i] \in T \ {Head(queue)}
    <3>1. rest[i] = queue[i + 1] /\ i + 1 \in 1 .. Len(queue) /\ i + 1 # 1
      BY <1>1, <1>2
    <3>2. queue[i + 1] # queue[1]
      BY <1>4, <3>1 DEF Holds
    <3>3. QED
      BY <1>1, <3>1, <3>2 DEF Holds
  <2>2. ASSUME NEW u \in T \ {Head(queue)} PROVE \E i \in 1 .. Len(rest) : rest[i] = u
    <3>1. PICK i \in 1 .. Len(queue) : queue[i] = u
      BY DEF Holds
    <3>2. i # 1
      BY <1>1, <2>2, <3>1
    <3>3. i - 1 \in 1 .. Len(rest) /\ rest[i - 1] = queue[i]
      BY <1>1, <1>3, <3>2
    <3>4. QED
      BY <3>1, <3>3
  <2>3. QED
    BY <2>1, <2>2
<1>8. QED
  BY <1>5, <1>6, <1>7 DEF Holds, rest

\* ... and the refused turn put back at the front.
LEMMA HoldsFront ==
  ASSUME NEW queue \in Seq(Turns), NEW T, Holds(queue, T), NEW t \in Turns, t \notin T
  PROVE  Holds(<<t>> \o queue, T \cup {t})
<1> DEFINE longer == <<t>> \o queue
<1>1. /\ Len(queue) \in Nat /\ Len(longer) = Len(queue) + 1
      /\ longer[1] = t
      /\ \A i \in 1 .. Len(queue) : longer[i + 1] = queue[i]
  OBVIOUS
<1> HIDE DEF longer
<1>2. \A i \in 1 .. Len(queue) : queue[i] \in T /\ queue[i] # t
  BY DEF Holds
<1>3. \A i \in 1 .. Len(longer) :
        i = 1 \/ (i - 1 \in 1 .. Len(queue) /\ longer[i] = queue[i - 1])
  <2> SUFFICES ASSUME NEW i \in 1 .. Len(longer), i # 1
               PROVE  i - 1 \in 1 .. Len(queue) /\ longer[i] = queue[i - 1]
    OBVIOUS
  <2>1. i - 1 \in 1 .. Len(queue) /\ (i - 1) + 1 = i
    BY <1>1
  <2>2. QED
    BY <1>1, <2>1
<1>4. \A i, j \in 1 .. Len(longer) : longer[i] = longer[j] => i = j
  <2> SUFFICES ASSUME NEW i \in 1 .. Len(longer), NEW j \in 1 .. Len(longer),
                      longer[i] = longer[j]
               PROVE  i = j
    OBVIOUS
  <2>1. CASE i = 1 \/ j = 1
    BY <1>1, <1>2, <1>3, <2>1
  <2>2. CASE i # 1 /\ j # 1
    <3>1. i - 1 = j - 1
      BY <1>3, <2>2 DEF Holds
    <3>2. QED
      BY <3>1
  <2>3. QED
    BY <2>1, <2>2
<1>5. {longer[i] : i \in 1 .. Len(longer)} = T \cup {t}
  <2>1. \A i \in 1 .. Len(longer) : longer[i] \in T \cup {t}
    BY <1>1, <1>2, <1>3
  <2>2. ASSUME NEW u \in T \cup {t} PROVE \E i \in 1 .. Len(longer) : longer[i] = u
    <3>1. CASE u = t
      <4>1. 1 \in 1 .. Len(longer)
        BY <1>1
      <4>2. QED
        BY <1>1, <3>1, <4>1
    <3>2. CASE u \in T
      <4>1. PICK i \in 1 .. Len(queue) : queue[i] = u
        BY <3>2 DEF Holds
      <4>2. i + 1 \in 1 .. Len(longer)
        BY <1>1
      <4>3. QED
        BY <1>1, <4>1, <4>2
    <3>3. QED
      BY <2>2, <3>1, <3>2
  <2>3. QED
    BY <2>1, <2>2
<1>6. QED
  BY <1>4, <1>5 DEF Holds, longer

\* QueueIntact, queue by queue.
LEMMA QueueByQueue == QueueIntact <=> \A s \in Sessions : Holds(pending[s], Queued(s))
BY DEF QueueIntact, Holds, Queued

\* A step that neither touches a queue nor makes or unmakes a queued turn.
LEMMA QueueKept ==
  ASSUME QueueIntact, UNCHANGED pending, \A v \in Turns : pc'[v] = "queued" <=> pc[v] = "queued"
  PROVE  QueueIntact'
<1>1. \A s \in Sessions : Queued(s)' = Queued(s)
  BY DEF Queued
<1>2. QED
  BY <1>1 DEF QueueIntact, Queued

\* A step that changes the queue of one conversation.
LEMMA QueueChanged ==
  ASSUME QueueIntact, NEW s \in Sessions, Holds(pending'[s], Queued(s)'),
         \A r \in Sessions : r # s => pending'[r] = pending[r],
         \A v \in Turns : SessionOf[v] # s => pc'[v] = pc[v]
  PROVE  QueueIntact'
<1>1. \A r \in Sessions : r # s => Queued(r)' = Queued(r)
  BY DEF Queued
<1>2. \A r \in Sessions : Holds(pending'[r], Queued(r)')
  BY <1>1, QueueByQueue
<1>3. QED
  BY <1>2 DEF QueueIntact, Holds, Queued

\* Schedule, startNextPending and Quiesce keep the queues and the turns in step.
LEMMA QueueStep ==
  ASSUME TypeOK, QueueIntact, [Next]_vars
  PROVE  QueueIntact'
<1>1. CASE UNCHANGED <<pc, row, pending>>
  BY <1>1, QueueKept
<1>2. ASSUME NEW t \in Turns, Prompt(t) PROVE QueueIntact'
  <2>1. UNCHANGED pending /\ \A v \in Turns : pc'[v] = "queued" <=> pc[v] = "queued"
    BY <1>2 DEF TypeOK, Prompt, Goto, memVars, Executing, RunnerSteps, SettleSteps
  <2>2. QED
    BY <2>1, QueueKept
<1>3. ASSUME NEW t \in Turns, Schedule(t) PROVE QueueIntact'
  <2>1. /\ pc' = [pc EXCEPT ![t] = "queued"]
        /\ pending' = [pending EXCEPT ![SessionOf[t]] = Append(@, t)]
        /\ SessionOf[t] \in Sessions /\ pc[t] = "new"
    BY <1>3 DEF Schedule, Goto
  <2>2. t \notin Queued(SessionOf[t]) /\ Queued(SessionOf[t])' = Queued(SessionOf[t]) \cup {t}
    BY <2>1 DEF TypeOK, Queued
  <2>3. pending[SessionOf[t]] \in Seq(Turns) /\ Holds(pending[SessionOf[t]], Queued(SessionOf[t]))
    BY <2>1, QueueByQueue DEF TypeOK
  <2>4. pending'[SessionOf[t]] = Append(pending[SessionOf[t]], t)
    BY <2>1 DEF TypeOK
  <2>5. Holds(pending'[SessionOf[t]], Queued(SessionOf[t])')
    BY <2>2, <2>3, <2>4, HoldsAppend
  <2>6. QED
    BY <2>1, <2>5, QueueChanged DEF TypeOK
<1>4. ASSUME NEW t \in Turns, StartLook(t) PROVE QueueIntact'
  <2>1. UNCHANGED pending /\ \A v \in Turns : pc'[v] = "queued" <=> pc[v] = "queued"
    BY <1>4 DEF TypeOK, StartLook, Goto, RefusedTo, memVars, Executing, RunnerSteps, SettleSteps
  <2>2. QED
    BY <2>1, QueueKept
<1>5. ASSUME NEW t \in Turns, StartRecord(t) PROVE QueueIntact'
  <2>1. UNCHANGED pending /\ \A v \in Turns : pc'[v] = "queued" <=> pc[v] = "queued"
    BY <1>5 DEF TypeOK, StartRecord, Goto, RefusedTo, memVars, Executing, RunnerSteps,
       SettleSteps
  <2>2. QED
    BY <2>1, QueueKept
<1>6. ASSUME NEW t \in Turns, StartClaim(t) PROVE QueueIntact'
  <2>1. UNCHANGED pending /\ \A v \in Turns : pc'[v] = "queued" <=> pc[v] = "queued"
    BY <1>6 DEF TypeOK, StartClaim, Goto, RefusedTo, LaneTaken, memVars, Executing,
       RunnerSteps, SettleSteps
  <2>2. QED
    BY <2>1, QueueKept
<1>7. ASSUME NEW t \in Turns, Requeue(t) PROVE QueueIntact'
  <2>1. /\ pc' = [pc EXCEPT ![t] = "queued"]
        /\ pending' = [pending EXCEPT ![SessionOf[t]] = <<t>> \o @]
        /\ SessionOf[t] \in Sessions /\ pc[t] = "requeue"
    BY <1>7 DEF Requeue, MayStrand, PutBack, Goto
  <2>2. t \notin Queued(SessionOf[t]) /\ Queued(SessionOf[t])' = Queued(SessionOf[t]) \cup {t}
    BY <2>1 DEF TypeOK, Queued
  <2>3. pending[SessionOf[t]] \in Seq(Turns) /\ Holds(pending[SessionOf[t]], Queued(SessionOf[t]))
    BY <2>1, QueueByQueue DEF TypeOK
  <2>4. pending'[SessionOf[t]] = <<t>> \o pending[SessionOf[t]]
    BY <2>1 DEF TypeOK
  <2>5. Holds(pending'[SessionOf[t]], Queued(SessionOf[t])')
    BY <2>2, <2>3, <2>4, HoldsFront
  <2>6. QED
    BY <2>1, <2>5, QueueChanged DEF TypeOK
<1>8. ASSUME NEW t \in Turns, RunnerBreaks(t) PROVE QueueIntact'
  <2>1. UNCHANGED pending /\ \A v \in Turns : pc'[v] = "queued" <=> pc[v] = "queued"
    BY <1>8 DEF TypeOK, RunnerBreaks, Goto, memVars, Executing, RunnerSteps, SettleSteps
  <2>2. QED
    BY <2>1, QueueKept
<1>9. ASSUME NEW t \in Turns, RunnerParks(t) PROVE QueueIntact'
  <2>1. UNCHANGED pending /\ \A v \in Turns : pc'[v] = "queued" <=> pc[v] = "queued"
    BY <1>9 DEF TypeOK, RunnerParks, Goto, memVars, Executing, RunnerSteps, SettleSteps
  <2>2. QED
    BY <2>1, QueueKept
<1>10. ASSUME NEW t \in Turns, RunnerWaits(t) PROVE QueueIntact'
  <2>1. UNCHANGED pending /\ \A v \in Turns : pc'[v] = "queued" <=> pc[v] = "queued"
    BY <1>10 DEF TypeOK, RunnerWaits, Goto, memVars, Executing, RunnerSteps, SettleSteps
  <2>2. QED
    BY <2>1, QueueKept
<1>11. ASSUME NEW t \in Turns, RunnerFinal(t) PROVE QueueIntact'
  <2>1. UNCHANGED pending /\ \A v \in Turns : pc'[v] = "queued" <=> pc[v] = "queued"
    BY <1>11 DEF TypeOK, RunnerFinal, Goto, memVars, Executing, RunnerSteps, SettleSteps
  <2>2. QED
    BY <2>1, QueueKept
<1>12. ASSUME NEW t \in Turns, Judge(t) PROVE QueueIntact'
  <2>1. UNCHANGED pending /\ \A v \in Turns : pc'[v] = "queued" <=> pc[v] = "queued"
    BY <1>12 DEF TypeOK, Judge, Goto, memVars, Executing, RunnerSteps, SettleSteps
  <2>2. QED
    BY <2>1, QueueKept
<1>13. ASSUME NEW t \in Turns, StopFrame(t) PROVE QueueIntact'
  <2>1. UNCHANGED pending /\ \A v \in Turns : pc'[v] = "queued" <=> pc[v] = "queued"
    BY <1>13 DEF TypeOK, StopFrame, Goto, memVars, Executing, RunnerSteps, SettleSteps
  <2>2. QED
    BY <2>1, QueueKept
<1>14. ASSUME NEW t \in Turns, MarkCancelled(t) PROVE QueueIntact'
  <2>1. UNCHANGED pending /\ \A v \in Turns : pc'[v] = "queued" <=> pc[v] = "queued"
    BY <1>14 DEF TypeOK, MarkCancelled, Goto, memVars, Executing, RunnerSteps, SettleSteps
  <2>2. QED
    BY <2>1, QueueKept
<1>15. ASSUME NEW t \in Turns, SettleFinish(t) PROVE QueueIntact'
  <2>1. UNCHANGED pending /\ \A v \in Turns : pc'[v] = "queued" <=> pc[v] = "queued"
    BY <1>15 DEF TypeOK, SettleFinish, Goto, memVars, Executing, RunnerSteps, SettleSteps
  <2>2. QED
    BY <2>1, QueueKept
<1>16. ASSUME NEW t \in Turns, SettleRecord(t) PROVE QueueIntact'
  <2>1. UNCHANGED pending /\ \A v \in Turns : pc'[v] = "queued" <=> pc[v] = "queued"
    BY <1>16 DEF TypeOK, SettleRecord, Goto, memVars, Executing, RunnerSteps, SettleSteps
  <2>2. QED
    BY <2>1, QueueKept
<1>17. ASSUME NEW t \in Turns, NEW u \in Turns, AnswerCard(t, u) PROVE QueueIntact'
  <2>1. UNCHANGED pending /\ \A v \in Turns : pc'[v] = "queued" <=> pc[v] = "queued"
    BY <1>17 DEF TypeOK, AnswerCard, Goto, memVars, Executing, RunnerSteps, SettleSteps
  <2>2. QED
    BY <2>1, QueueKept
<1>18. ASSUME NEW t \in Turns, NEW outcome \in {"completed", "failed"},
              RunnerEnds(t, outcome)
       PROVE  QueueIntact'
  <2>1. UNCHANGED pending /\ \A v \in Turns : pc'[v] = "queued" <=> pc[v] = "queued"
    BY <1>18 DEF TypeOK, RunnerEnds, Goto, memVars, Executing, RunnerSteps, SettleSteps
  <2>2. QED
    BY <2>1, QueueKept
<1>19. ASSUME NEW s \in Sessions, DrainPop(s) PROVE QueueIntact'
  <2>1. CASE pending[s] = <<>>
    BY <1>19, <2>1, QueueKept DEF DrainPop
  <2>2. CASE pending[s] # <<>>
    <3>1. /\ pc' = [pc EXCEPT ![Head(pending[s])] = "look"]
          /\ pending' = [pending EXCEPT ![s] = Tail(@)]
      BY <1>19, <2>2 DEF DrainPop, AfterPop, Goto
    <3>2. pending[s] \in Seq(Turns) /\ Holds(pending[s], Queued(s))
      BY QueueByQueue DEF TypeOK
    <3>3. Head(pending[s]) \in Queued(s) /\ Holds(Tail(pending[s]), Queued(s) \ {Head(pending[s])})
      BY <2>2, <3>2, HoldsTail
    <3>4. Queued(s)' = Queued(s) \ {Head(pending[s])}
      BY <3>1, <3>3 DEF TypeOK, Queued
    <3>5. Holds(pending'[s], Queued(s)')
      BY <3>1, <3>3, <3>4 DEF TypeOK
    <3>6. \A v \in Turns : SessionOf[v] # s => pc'[v] = pc[v]
      BY <3>1, <3>3 DEF TypeOK, Queued
    <3>7. QED
      BY <3>1, <3>5, <3>6, QueueChanged DEF TypeOK
  <2>3. QED
    BY <2>1, <2>2
<1>20. CASE Quiesce
  <2>1. \A s \in Sessions : pending'[s] = <<>>
    BY <1>20 DEF Quiesce
  <2>2. \A t \in Turns : pc'[t] # "queued"
    BY <1>20 DEF Quiesce, Over
  <2>3. \A s \in Sessions : Queued(s)' = {}
    BY <2>2 DEF Queued
  <2>4. QED
    BY <2>1, <2>3 DEF QueueIntact, Queued
<1>21. CASE Restart
  <2>1. \A s \in Sessions : pending'[s] = <<>>
    BY <1>21 DEF Restart
  <2>2. \A t \in Turns : pc'[t] # "queued"
    BY <1>21 DEF Restart, Over
  <2>3. \A s \in Sessions : Queued(s)' = {}
    BY <2>2 DEF Queued
  <2>4. QED
    BY <2>1, <2>3 DEF QueueIntact, Queued
<1>22. QED
  BY <1>1, <1>2, <1>3, <1>4, <1>5, <1>6, <1>7, <1>8, <1>9, <1>10, <1>11, <1>12, <1>13,
     <1>14, <1>15, <1>16, <1>17, <1>18, <1>19, <1>20, <1>21
  DEF Next, Ask, TurnStep, DrainStep, Environment, vars, memVars, drainVars, turnVars, dbVars,
      boundVars, Evict, GoQuiet, DrainLook, DrainAsk, Cancel, Hold, Release, RaiseDetached,
      AnswerDetached, ExpireCard, Shutdown

\* QueueIntact, for any number of turns and drainers: the queue of a conversation holds
\* each completion that waits exactly once, and nothing else.
THEOREM QueueIsIntact == Spec => []QueueIntact
<1>1. Init => QueueIntact
  <2> SUFFICES ASSUME Init PROVE QueueIntact
    OBVIOUS
  <2>1. \A s \in Sessions : Len(pending[s]) = 0 /\ \A t \in Turns : pc[t] # "queued"
    BY DEF Init
  <2>2. \A s \in Sessions : 1 .. Len(pending[s]) = {} /\ Queued(s) = {}
    <3>1. 1 .. 0 = {}
      OBVIOUS
    <3>2. QED
      BY <2>1, <3>1 DEF Queued
  <2>3. QED
    BY <2>2 DEF QueueIntact, Queued
<1>2. QED
  BY <1>1, QueueStep, TypeCorrect, PTL DEF Spec

-----------------------------------------------------------------------------
(* The rows *)

\* Before Start has written it a turn has no row; from then until settle has, the row
\* says running; what died with the process does not.
RowFacts ==
  /\ \A t \in Turns : pc[t] \in {"new", "queued", "requeue", "look", "record", "refused"}
                      => row[t] = "none"
  /\ \A t \in Turns : pc[t] \in {"claim"} \cup Executing => row[t] = "running"
  /\ \A t \in Turns : pc[t] = "lost" => row[t] # "running"

\* The queues and the rows, together.
RowInv == TypeOK /\ QueueIntact /\ RowFacts

\* The turn startNextPending pops was queued.
LEMMA PopsQueued ==
  ASSUME TypeOK, QueueIntact, NEW s \in Sessions, DrainPop(s)
  PROVE  \A v \in Turns : pc'[v] = pc[v] \/ (pc[v] = "queued" /\ pc'[v] = "look")
<1>1. CASE pending[s] = <<>>
  BY <1>1 DEF DrainPop
<1>2. CASE pending[s] # <<>>
  <2>1. Head(pending[s]) \in Queued(s)
    BY <1>2, QueueByQueue, HoldsTail DEF TypeOK
  <2>2. pc' = [pc EXCEPT ![Head(pending[s])] = "look"]
    BY <1>2 DEF DrainPop, Goto
  <2>3. QED
    BY <2>1, <2>2 DEF TypeOK, Queued
<1>3. QED
  BY <1>1, <1>2

\* Start writes the row, settle closes it, RecoverOrphans closes what neither did.
LEMMA RowStep ==
  ASSUME TypeOK, QueueIntact, RowFacts, [Next]_vars
  PROVE  RowFacts'
<1>1. CASE UNCHANGED <<pc, row, pending>>
  BY <1>1 DEF RowFacts, Executing, RunnerSteps, SettleSteps
<1>2. ASSUME NEW t \in Turns, Prompt(t) PROVE RowFacts'
  BY <1>2 DEF TypeOK, RowFacts, Prompt, Goto, dbVars, Executing, RunnerSteps, SettleSteps
<1>3. ASSUME NEW t \in Turns, Schedule(t) PROVE RowFacts'
  BY <1>3 DEF TypeOK, RowFacts, Schedule, Goto, dbVars, Executing, RunnerSteps, SettleSteps
<1>4. ASSUME NEW t \in Turns, StartLook(t) PROVE RowFacts'
  BY <1>4 DEF TypeOK, RowFacts, StartLook, Goto, RefusedTo, dbVars, Executing, RunnerSteps,
     SettleSteps
<1>5. ASSUME NEW t \in Turns, StartRecord(t) PROVE RowFacts'
  <2>1. CASE row' = [row EXCEPT ![t] = "running"] /\ Goto(t, "claim")
    BY <1>5, <2>1 DEF TypeOK, RowFacts, Goto, StartRecord, Executing, RunnerSteps, SettleSteps
  <2>2. CASE UNCHANGED row /\ RefusedTo(t)
    BY <1>5, <2>2 DEF TypeOK, RowFacts, Goto, RefusedTo, StartRecord, Executing, RunnerSteps,
       SettleSteps
  <2>3. QED
    BY <1>5, <2>1, <2>2 DEF StartRecord
<1>6. ASSUME NEW t \in Turns, StartClaim(t) PROVE RowFacts'
  <2>1. CASE row' = [row EXCEPT ![t] = "none"] /\ RefusedTo(t)
    BY <1>6, <2>1 DEF TypeOK, RowFacts, Goto, RefusedTo, StartClaim, Executing, RunnerSteps,
       SettleSteps
  <2>2. CASE UNCHANGED row /\ Goto(t, "running")
    BY <1>6, <2>2 DEF TypeOK, RowFacts, Goto, StartClaim, Executing, RunnerSteps, SettleSteps
  <2>3. QED
    BY <1>6, <2>1, <2>2 DEF StartClaim
<1>7. ASSUME NEW t \in Turns, Requeue(t) PROVE RowFacts'
  BY <1>7 DEF TypeOK, RowFacts, Requeue, MayStrand, Goto, dbVars, Executing, RunnerSteps,
     SettleSteps
<1>8. ASSUME NEW t \in Turns, RunnerBreaks(t) PROVE RowFacts'
  BY <1>8 DEF TypeOK, RowFacts, RunnerBreaks, Goto, dbVars, Executing, RunnerSteps, SettleSteps
<1>9. ASSUME NEW t \in Turns, RunnerParks(t) PROVE RowFacts'
  BY <1>9 DEF TypeOK, RowFacts, RunnerParks, Goto, dbVars, Executing, RunnerSteps, SettleSteps
<1>10. ASSUME NEW t \in Turns, RunnerWaits(t) PROVE RowFacts'
  BY <1>10 DEF TypeOK, RowFacts, RunnerWaits, Goto, dbVars, Executing, RunnerSteps, SettleSteps
<1>11. ASSUME NEW t \in Turns, RunnerFinal(t) PROVE RowFacts'
  BY <1>11 DEF TypeOK, RowFacts, RunnerFinal, Goto, dbVars, Executing, RunnerSteps, SettleSteps
<1>12. ASSUME NEW t \in Turns, Judge(t) PROVE RowFacts'
  BY <1>12 DEF TypeOK, RowFacts, Judge, Goto, dbVars, Executing, RunnerSteps, SettleSteps
<1>13. ASSUME NEW t \in Turns, StopFrame(t) PROVE RowFacts'
  BY <1>13 DEF TypeOK, RowFacts, StopFrame, Goto, dbVars, Executing, RunnerSteps, SettleSteps
<1>14. ASSUME NEW t \in Turns, MarkCancelled(t) PROVE RowFacts'
  BY <1>14 DEF TypeOK, RowFacts, MarkCancelled, Goto, dbVars, Executing, RunnerSteps,
     SettleSteps
<1>15. ASSUME NEW t \in Turns, SettleFinish(t) PROVE RowFacts'
  BY <1>15 DEF TypeOK, RowFacts, SettleFinish, Goto, dbVars, Executing, RunnerSteps, SettleSteps
<1>16. ASSUME NEW t \in Turns, SettleRecord(t) PROVE RowFacts'
  BY <1>16 DEF TypeOK, RowFacts, SettleRecord, Goto, dbVars, Executing, RunnerSteps, SettleSteps
<1>17. ASSUME NEW t \in Turns, NEW u \in Turns, AnswerCard(t, u) PROVE RowFacts'
  BY <1>17 DEF TypeOK, RowFacts, AnswerCard, Goto, dbVars, Executing, RunnerSteps, SettleSteps
<1>18. ASSUME NEW t \in Turns, NEW outcome \in {"completed", "failed"},
              RunnerEnds(t, outcome)
       PROVE  RowFacts'
  BY <1>18 DEF TypeOK, RowFacts, RunnerEnds, Goto, dbVars, Executing, RunnerSteps, SettleSteps
<1>19. ASSUME NEW s \in Sessions, DrainPop(s) PROVE RowFacts'
  <2>1. UNCHANGED row /\ \A v \in Turns : pc'[v] = pc[v] \/ (pc[v] = "queued" /\ pc'[v] = "look")
    BY <1>19, PopsQueued DEF DrainPop, dbVars
  <2>2. QED
    BY <2>1 DEF RowFacts, Executing, RunnerSteps, SettleSteps
<1>20. CASE Quiesce
  BY <1>20 DEF TypeOK, RowFacts, Quiesce, Executing, RunnerSteps, SettleSteps, Over, dbVars
<1>21. CASE Restart
  BY <1>21 DEF TypeOK, RowFacts, Restart, Executing, RunnerSteps, SettleSteps, Over, Recovered
<1>22. QED
  BY <1>1, <1>2, <1>3, <1>4, <1>5, <1>6, <1>7, <1>8, <1>9, <1>10, <1>11, <1>12, <1>13,
     <1>14, <1>15, <1>16, <1>17, <1>18, <1>19, <1>20, <1>21
  DEF Next, Ask, TurnStep, DrainStep, Environment, vars, memVars, drainVars, turnVars, dbVars,
      boundVars, Evict, GoQuiet, DrainLook, DrainAsk, Cancel, Hold, Release, RaiseDetached,
      AnswerDetached, ExpireCard, Shutdown

\* RowInv holds throughout.
THEOREM RowInvariant == Spec => []RowInv
<1>1. Init => RowFacts
  <2> SUFFICES ASSUME Init PROVE RowFacts
    OBVIOUS
  <2>1. \A t \in Turns : pc[t] = "new" /\ row[t] = "none"
    BY DEF Init
  <2>2. QED
    BY <2>1 DEF RowFacts, Executing, RunnerSteps, SettleSteps
<1>2. TypeOK /\ QueueIntact /\ RowFacts /\ [Next]_vars => RowFacts'
  BY RowStep
<1>3. QED
  BY <1>1, <1>2, TypeCorrect, QueueIsIntact, PTL DEF Spec, RowInv

\* Only a refused claim of this process adds a row to the strays, and the boot closes
\* those of the one before.
LEMMA StrayStep ==
  ASSUME TypeOK, \A r \in stray : r[2] = restarts, [Next]_vars
  PROVE  (\A r \in stray : r[2] = restarts)'
<1>1. CASE UNCHANGED <<stray, restarts>>
  BY <1>1
<1>2. ASSUME NEW t \in Turns, StartClaim(t) PROVE (\A r \in stray : r[2] = restarts)'
  BY <1>2 DEF StartClaim, boundVars
<1>3. CASE Restart
  BY <1>3 DEF Restart, Recovered
<1>4. QED
  BY <1>1, <1>2, <1>3
  DEF Next, Ask, TurnStep, DrainStep, Environment, vars, dbVars, boundVars, Prompt, Schedule,
      AnswerCard, StartLook, StartRecord, Requeue, RunnerEnds, RunnerBreaks, RunnerParks,
      RunnerWaits, RunnerFinal, Judge, StopFrame, MarkCancelled, SettleFinish, SettleRecord,
      Evict, GoQuiet, DrainLook, DrainAsk, DrainPop, Cancel, Hold, Release, RaiseDetached,
      AnswerDetached, ExpireCard, Quiesce, Shutdown

\* NoGhostRow: a row that says running is that of a turn this process is starting,
\* executing, or has executed without being able to write how it ended, or one this
\* process made for a claim it then refused.
THEOREM NoGhostRowHolds == Spec => []NoGhostRow
<1> DEFINE StraysAreOurs == \A r \in stray : r[2] = restarts
<1>1. RowInv /\ StraysAreOurs => NoGhostRow
  BY DEF RowInv, TypeOK, RowFacts, NoGhostRow, Places, StartSteps, Executing, RunnerSteps,
     SettleSteps, Over
<1>2. Init => StraysAreOurs
  BY DEF Init
<1>3. RowInv /\ StraysAreOurs /\ [Next]_vars => StraysAreOurs'
  BY StrayStep DEF RowInv
<1>4. QED
  BY <1>1, <1>2, <1>3, RowInvariant, PTL DEF Spec

\* A row that says how its run ended is not written again.
LEMMA EndingStep ==
  ASSUME TypeOK, QueueIntact, RowFacts, [Next]_vars
  PROVE  \A v \in Turns : row[v] \notin {"none", "running"} => row'[v] = row[v]
<1> DEFINE Kept == \A v \in Turns : row[v] \notin {"none", "running"} => row'[v] = row[v]
<1>1. CASE UNCHANGED <<pc, row, pending>>
  BY <1>1
<1>2. ASSUME NEW t \in Turns, Prompt(t) PROVE Kept
  BY <1>2 DEF TypeOK, RowFacts, Prompt, Goto, dbVars, Executing, RunnerSteps, SettleSteps
<1>3. ASSUME NEW t \in Turns, Schedule(t) PROVE Kept
  BY <1>3 DEF TypeOK, RowFacts, Schedule, Goto, dbVars, Executing, RunnerSteps, SettleSteps
<1>4. ASSUME NEW t \in Turns, StartLook(t) PROVE Kept
  BY <1>4 DEF TypeOK, RowFacts, StartLook, Goto, RefusedTo, dbVars, Executing, RunnerSteps,
     SettleSteps
<1>5. ASSUME NEW t \in Turns, StartRecord(t) PROVE Kept
  BY <1>5 DEF TypeOK, RowFacts, StartRecord, Goto, RefusedTo, dbVars, Executing, RunnerSteps,
     SettleSteps
<1>6. ASSUME NEW t \in Turns, StartClaim(t) PROVE Kept
  BY <1>6 DEF TypeOK, RowFacts, StartClaim, Goto, RefusedTo, LaneTaken, dbVars, Executing,
     RunnerSteps, SettleSteps
<1>7. ASSUME NEW t \in Turns, Requeue(t) PROVE Kept
  BY <1>7 DEF TypeOK, RowFacts, Requeue, MayStrand, Goto, dbVars, Executing, RunnerSteps,
     SettleSteps
<1>8. ASSUME NEW t \in Turns, RunnerBreaks(t) PROVE Kept
  BY <1>8 DEF TypeOK, RowFacts, RunnerBreaks, Goto, dbVars, Executing, RunnerSteps, SettleSteps
<1>9. ASSUME NEW t \in Turns, RunnerParks(t) PROVE Kept
  BY <1>9 DEF TypeOK, RowFacts, RunnerParks, Goto, dbVars, Executing, RunnerSteps, SettleSteps
<1>10. ASSUME NEW t \in Turns, RunnerWaits(t) PROVE Kept
  BY <1>10 DEF TypeOK, RowFacts, RunnerWaits, Goto, dbVars, Executing, RunnerSteps, SettleSteps
<1>11. ASSUME NEW t \in Turns, RunnerFinal(t) PROVE Kept
  BY <1>11 DEF TypeOK, RowFacts, RunnerFinal, Goto, dbVars, Executing, RunnerSteps, SettleSteps
<1>12. ASSUME NEW t \in Turns, Judge(t) PROVE Kept
  BY <1>12 DEF TypeOK, RowFacts, Judge, Goto, dbVars, Executing, RunnerSteps, SettleSteps
<1>13. ASSUME NEW t \in Turns, StopFrame(t) PROVE Kept
  BY <1>13 DEF TypeOK, RowFacts, StopFrame, Goto, dbVars, Executing, RunnerSteps, SettleSteps
<1>14. ASSUME NEW t \in Turns, MarkCancelled(t) PROVE Kept
  BY <1>14 DEF TypeOK, RowFacts, MarkCancelled, Goto, dbVars, Executing, RunnerSteps,
     SettleSteps
<1>15. ASSUME NEW t \in Turns, SettleFinish(t) PROVE Kept
  BY <1>15 DEF TypeOK, RowFacts, SettleFinish, Goto, dbVars, Executing, RunnerSteps, SettleSteps
<1>16. ASSUME NEW t \in Turns, SettleRecord(t) PROVE Kept
  BY <1>16 DEF TypeOK, RowFacts, SettleRecord, Goto, dbVars, Executing, RunnerSteps, SettleSteps
<1>17. ASSUME NEW t \in Turns, NEW u \in Turns, AnswerCard(t, u) PROVE Kept
  BY <1>17 DEF TypeOK, RowFacts, AnswerCard, Goto, dbVars, Executing, RunnerSteps, SettleSteps
<1>18. ASSUME NEW t \in Turns, NEW outcome \in {"completed", "failed"},
              RunnerEnds(t, outcome)
       PROVE  Kept
  BY <1>18 DEF TypeOK, RowFacts, RunnerEnds, Goto, dbVars, Executing, RunnerSteps, SettleSteps
<1>19. ASSUME NEW s \in Sessions, DrainPop(s) PROVE Kept
  BY <1>19 DEF DrainPop, dbVars
<1>20. CASE Quiesce
  BY <1>20 DEF TypeOK, Quiesce, dbVars
<1>21. CASE Restart
  BY <1>21 DEF TypeOK, Restart, Recovered
<1>22. QED
  BY <1>1, <1>2, <1>3, <1>4, <1>5, <1>6, <1>7, <1>8, <1>9, <1>10, <1>11, <1>12, <1>13,
     <1>14, <1>15, <1>16, <1>17, <1>18, <1>19, <1>20, <1>21
  DEF Next, Ask, TurnStep, DrainStep, Environment, vars, memVars, drainVars, turnVars, dbVars,
      boundVars, Evict, GoQuiet, DrainLook, DrainAsk, Cancel, Hold, Release, RaiseDetached,
      AnswerDetached, ExpireCard, Shutdown

\* EndingIsFinal, for any sets of turns and any number of restarts: settle and the
\* recovery write a row that says running, never one that says how its run ended.
THEOREM EndingIsFinalHolds == Spec => EndingIsFinal
<1>1. RowInv /\ [Next]_vars
        => [\A t \in Turns : row[t] \notin {"none", "running"} => row'[t] = row[t]]_vars
  BY EndingStep DEF RowInv
<1>2. QED
  BY <1>1, RowInvariant, PTL DEF Spec, EndingIsFinal

\* A turn that reached execute goes on from there.
LEMMA OnceStep ==
  ASSUME TypeOK, QueueIntact, [Next]_vars
  PROVE  \A v \in Turns : pc[v] \in Executing \cup {"over"}
                            => pc'[v] \in Executing \cup {"over", "lost"}
<1> DEFINE Onward == \A v \in Turns : pc[v] \in Executing \cup {"over"}
                                => pc'[v] \in Executing \cup {"over", "lost"}
<1>1. CASE UNCHANGED <<pc, row, pending>>
  BY <1>1 DEF Executing, RunnerSteps, SettleSteps
<1>2. ASSUME NEW t \in Turns, Prompt(t) PROVE Onward
  BY <1>2 DEF TypeOK, Prompt, Goto, Executing, RunnerSteps, SettleSteps
<1>3. ASSUME NEW t \in Turns, Schedule(t) PROVE Onward
  BY <1>3 DEF TypeOK, Schedule, Goto, Executing, RunnerSteps, SettleSteps
<1>4. ASSUME NEW t \in Turns, StartLook(t) PROVE Onward
  BY <1>4 DEF TypeOK, StartLook, Goto, RefusedTo, Executing, RunnerSteps, SettleSteps
<1>5. ASSUME NEW t \in Turns, StartRecord(t) PROVE Onward
  BY <1>5 DEF TypeOK, StartRecord, Goto, RefusedTo, Executing, RunnerSteps, SettleSteps
<1>6. ASSUME NEW t \in Turns, StartClaim(t) PROVE Onward
  BY <1>6 DEF TypeOK, StartClaim, Goto, RefusedTo, LaneTaken, Executing, RunnerSteps,
     SettleSteps
<1>7. ASSUME NEW t \in Turns, Requeue(t) PROVE Onward
  BY <1>7 DEF TypeOK, Requeue, MayStrand, Goto, Executing, RunnerSteps, SettleSteps
<1>8. ASSUME NEW t \in Turns, RunnerBreaks(t) PROVE Onward
  BY <1>8 DEF TypeOK, RunnerBreaks, Goto, Executing, RunnerSteps, SettleSteps
<1>9. ASSUME NEW t \in Turns, RunnerParks(t) PROVE Onward
  BY <1>9 DEF TypeOK, RunnerParks, Goto, Executing, RunnerSteps, SettleSteps
<1>10. ASSUME NEW t \in Turns, RunnerWaits(t) PROVE Onward
  BY <1>10 DEF TypeOK, RunnerWaits, Goto, Executing, RunnerSteps, SettleSteps
<1>11. ASSUME NEW t \in Turns, RunnerFinal(t) PROVE Onward
  BY <1>11 DEF TypeOK, RunnerFinal, Goto, Executing, RunnerSteps, SettleSteps
<1>12. ASSUME NEW t \in Turns, Judge(t) PROVE Onward
  BY <1>12 DEF TypeOK, Judge, Goto, Executing, RunnerSteps, SettleSteps
<1>13. ASSUME NEW t \in Turns, StopFrame(t) PROVE Onward
  BY <1>13 DEF TypeOK, StopFrame, Goto, Executing, RunnerSteps, SettleSteps
<1>14. ASSUME NEW t \in Turns, MarkCancelled(t) PROVE Onward
  BY <1>14 DEF TypeOK, MarkCancelled, Goto, Executing, RunnerSteps, SettleSteps
<1>15. ASSUME NEW t \in Turns, SettleFinish(t) PROVE Onward
  BY <1>15 DEF TypeOK, SettleFinish, Goto, Executing, RunnerSteps, SettleSteps
<1>16. ASSUME NEW t \in Turns, SettleRecord(t) PROVE Onward
  BY <1>16 DEF TypeOK, SettleRecord, Goto, Executing, RunnerSteps, SettleSteps
<1>17. ASSUME NEW t \in Turns, NEW u \in Turns, AnswerCard(t, u) PROVE Onward
  BY <1>17 DEF TypeOK, AnswerCard, Goto, Executing, RunnerSteps, SettleSteps
<1>18. ASSUME NEW t \in Turns, NEW outcome \in {"completed", "failed"},
              RunnerEnds(t, outcome)
       PROVE  Onward
  BY <1>18 DEF TypeOK, RunnerEnds, Goto, Executing, RunnerSteps, SettleSteps
<1>19. ASSUME NEW s \in Sessions, DrainPop(s) PROVE Onward
  <2>1. \A v \in Turns : pc'[v] = pc[v] \/ pc[v] = "queued"
    BY <1>19, PopsQueued
  <2>2. QED
    BY <2>1 DEF Executing, RunnerSteps, SettleSteps
<1>20. CASE Quiesce
  BY <1>20 DEF TypeOK, Quiesce, Executing, RunnerSteps, SettleSteps, Over
<1>21. CASE Restart
  BY <1>21 DEF TypeOK, Restart, Executing, RunnerSteps, SettleSteps, Over
<1>22. QED
  BY <1>1, <1>2, <1>3, <1>4, <1>5, <1>6, <1>7, <1>8, <1>9, <1>10, <1>11, <1>12, <1>13,
     <1>14, <1>15, <1>16, <1>17, <1>18, <1>19, <1>20, <1>21
  DEF Next, Ask, TurnStep, DrainStep, Environment, vars, memVars, drainVars, turnVars, dbVars,
      boundVars, Evict, GoQuiet, DrainLook, DrainAsk, Cancel, Hold, Release, RaiseDetached,
      AnswerDetached, ExpireCard, Shutdown

\* RunsOnce: no turn is started or queued again once it ran, for a drainer pops only
\* what waits in the queue.
THEOREM RunsOnceHolds == Spec => RunsOnce
<1>1. RowInv /\ [Next]_vars
        => [\A t \in Turns : pc[t] \in Executing \cup {"over"}
                               => pc'[t] \in Executing \cup {"over", "lost"}]_vars
  BY OnceStep DEF RowInv
<1>2. QED
  BY <1>1, RowInvariant, PTL DEF Spec, RunsOnce

-----------------------------------------------------------------------------
(* Who watches the queue *)

\* What the watch rests on: only completions wait, an answer knows its card, and a lane
\* that looks busy has a turn that will settle.
WatchFacts ==
  /\ \A t \in Turns : pc[t] \in {"queued", "requeue"} => t \in ServerTurns
  /\ \A t \in ResumeTurns : pc[t] \in StartSteps
       => answers[t] \in Turns /\ SessionOf[answers[t]] = SessionOf[t]
  /\ \A s \in Sessions : Busy(s) => pc[byChat[s]] \in Executing /\ SessionOf[byChat[s]] = s
  /\ \A t \in Turns : pc[t] = "recording" => done[t]

WatchInv == TypeOK /\ QueueIntact /\ WatchFacts

\* A refused Start leaves them true: the turn ends at no place they speak of but the
\* put-back.
LEMMA RefusalKeepsFacts ==
  ASSUME TypeOK, WatchFacts, NEW t \in Turns, pc[t] \in StartSteps, RefusedTo(t),
         UNCHANGED <<byChat, done>>
  PROVE  WatchFacts'
<1>1. /\ pc' = [pc EXCEPT ![t] = pc'[t]] /\ pc'[t] \in {"requeue", "new", "refused"}
      /\ pc'[t] = "requeue" => t \in ServerTurns
      /\ answers' = [answers EXCEPT ![t] = NoTurn]
  BY DEF TypeOK, RefusedTo, Goto
<1>2. pc[t] \notin Executing
  BY DEF StartSteps, Executing, RunnerSteps, SettleSteps
<1>3. ASSUME NEW s \in Sessions, Busy(s)'
      PROVE  pc'[byChat'[s]] \in Executing /\ SessionOf[byChat'[s]] = s
  <2>1. byChat'[s] = byChat[s] /\ Busy(s) /\ byChat[s] \in Turns
    BY <1>3 DEF TypeOK, Busy
  <2>2. pc[byChat[s]] \in Executing /\ SessionOf[byChat[s]] = s
    BY <2>1 DEF WatchFacts
  <2>3. byChat[s] # t
    BY <2>2, <1>2
  <2>4. pc'[byChat[s]] = pc[byChat[s]]
    BY <2>1, <2>3, <1>1 DEF TypeOK
  <2>5. QED
    BY <2>1, <2>2, <2>4
<1>4. QED
  BY <1>1, <1>3 DEF TypeOK, WatchFacts, StartSteps

LEMMA WatchFactsStep ==
  ASSUME TypeOK, QueueIntact, WatchFacts, [Next]_vars
  PROVE  WatchFacts'
<1> USE DEF TypeOK, WatchFacts, Busy, Goto, StartSteps, Executing, RunnerSteps, SettleSteps
<1>1. CASE UNCHANGED <<pc, done, answers, byChat>>
  BY <1>1
<1>2. ASSUME NEW t \in Turns, Prompt(t) PROVE WatchFacts'
  BY <1>2 DEF Prompt, memVars
<1>3. ASSUME NEW t \in Turns, Schedule(t) PROVE WatchFacts'
  BY <1>3 DEF Schedule
<1>4. ASSUME NEW t \in Turns, StartLook(t) PROVE WatchFacts'
  <2>1. CASE RefusedTo(t)
    BY <1>4, <2>1, RefusalKeepsFacts DEF StartLook, memVars
  <2>2. CASE Goto(t, "record") /\ UNCHANGED answers
    BY <1>4, <2>2 DEF StartLook, memVars
  <2>3. QED
    BY <1>4, <2>1, <2>2 DEF StartLook
<1>5. ASSUME NEW t \in Turns, StartRecord(t) PROVE WatchFacts'
  <2>1. CASE RefusedTo(t)
    BY <1>5, <2>1, RefusalKeepsFacts DEF StartRecord, memVars
  <2>2. CASE Goto(t, "claim") /\ UNCHANGED answers
    BY <1>5, <2>2 DEF StartRecord, memVars
  <2>3. QED
    BY <1>5, <2>1, <2>2 DEF StartRecord
<1>6. ASSUME NEW t \in Turns, StartClaim(t) PROVE WatchFacts'
  <2>1. CASE RefusedTo(t) /\ UNCHANGED byChat
    BY <1>6, <2>1, RefusalKeepsFacts DEF StartClaim
  <2>2. CASE /\ Goto(t, "running") /\ answers' = [answers EXCEPT ![t] = NoTurn]
             /\ byChat' = [byChat EXCEPT ![SessionOf[t]] = t]
    BY <1>6, <2>2 DEF StartClaim
  <2>3. QED
    BY <1>6, <2>1, <2>2 DEF StartClaim
<1>7. ASSUME NEW t \in Turns, Requeue(t) PROVE WatchFacts'
  BY <1>7 DEF Requeue
<1>8. ASSUME NEW t \in Turns, RunnerBreaks(t) PROVE WatchFacts'
  BY <1>8 DEF RunnerBreaks, memVars
<1>9. ASSUME NEW t \in Turns, RunnerParks(t) PROVE WatchFacts'
  BY <1>9 DEF RunnerParks, memVars
<1>10. ASSUME NEW t \in Turns, RunnerWaits(t) PROVE WatchFacts'
  BY <1>10 DEF RunnerWaits, memVars
<1>11. ASSUME NEW t \in Turns, RunnerFinal(t) PROVE WatchFacts'
  BY <1>11 DEF RunnerFinal, memVars
<1>12. ASSUME NEW t \in Turns, Judge(t) PROVE WatchFacts'
  BY <1>12 DEF Judge, memVars
<1>13. ASSUME NEW t \in Turns, StopFrame(t) PROVE WatchFacts'
  BY <1>13 DEF StopFrame, memVars
<1>14. ASSUME NEW t \in Turns, MarkCancelled(t) PROVE WatchFacts'
  BY <1>14 DEF MarkCancelled, memVars
<1>15. ASSUME NEW t \in Turns, SettleFinish(t) PROVE WatchFacts'
  BY <1>15 DEF SettleFinish, memVars
<1>16. ASSUME NEW t \in Turns, SettleRecord(t) PROVE WatchFacts'
  BY <1>16 DEF SettleRecord, memVars
<1>17. ASSUME NEW t \in Turns, NEW u \in Turns, AnswerCard(t, u) PROVE WatchFacts'
  <2>1. /\ pc' = [pc EXCEPT ![t] = "look"] /\ pc[t] = "new"
        /\ answers' = [answers EXCEPT ![t] = u] /\ SessionOf[t] = SessionOf[u]
        /\ UNCHANGED <<done, byChat>>
    BY <1>17 DEF AnswerCard, memVars
  <2>2. \A s \in Sessions : Busy(s)' => pc'[byChat'[s]] \in Executing /\ SessionOf[byChat'[s]] = s
    BY <2>1
  <2>3. \A v \in ResumeTurns : pc'[v] \in StartSteps
          => answers'[v] \in Turns /\ SessionOf[answers'[v]] = SessionOf[v]
    BY <2>1
  <2>4. QED
    BY <2>1, <2>2, <2>3
<1>18. ASSUME NEW t \in Turns, NEW outcome \in {"completed", "failed"}, RunnerEnds(t, outcome)
       PROVE  WatchFacts'
  BY <1>18 DEF RunnerEnds, memVars
<1>19. ASSUME NEW s \in Sessions, DrainPop(s) PROVE WatchFacts'
  <2>1. UNCHANGED <<done, answers, byChat>>
    BY <1>19 DEF DrainPop
  <2>2. \A v \in Turns : pc'[v] = pc[v] \/ (pc[v] = "queued" /\ pc'[v] = "look")
    BY <1>19, PopsQueued
  <2>3. ASSUME NEW r \in Sessions, Busy(r)'
        PROVE  pc'[byChat'[r]] \in Executing /\ SessionOf[byChat'[r]] = r
    <3>1. byChat'[r] = byChat[r] /\ Busy(r) /\ byChat[r] \in Turns
      BY <2>1, <2>3
    <3>2. pc[byChat[r]] \in Executing /\ SessionOf[byChat[r]] = r
      BY <3>1
    <3>3. QED
      BY <3>1, <3>2, <2>2
  <2>4. QED
    BY <2>1, <2>2, <2>3
<1>20. ASSUME NEW t \in Turns, Evict(t) PROVE WatchFacts'
  BY <1>20 DEF Evict, IsLatest, turnVars
<1>21. CASE Quiesce
  BY <1>21 DEF Quiesce, Over
<1>22. CASE Restart
  BY <1>22 DEF Restart, Over
<1> HIDE DEF TypeOK, WatchFacts, Busy, Goto, StartSteps, Executing, RunnerSteps, SettleSteps
<1>23. QED
  BY <1>1, <1>2, <1>3, <1>4, <1>5, <1>6, <1>7, <1>8, <1>9, <1>10, <1>11, <1>12, <1>13,
     <1>14, <1>15, <1>16, <1>17, <1>18, <1>19, <1>20, <1>21, <1>22
  DEF Next, Ask, TurnStep, DrainStep, Environment, vars, memVars, turnVars, GoQuiet,
      DrainLook, DrainAsk, Cancel, Hold, Release, RaiseDetached, AnswerDetached, ExpireCard,
      Shutdown

\* A turn that will look at the queue again.
Works(t) ==
  \/ t \in ServerTurns \cup ResumeTurns /\ pc[t] \in StartSteps \cup {"requeue"}
  \/ pc[t] \in Executing

\* A step that keeps every watcher and adds nothing to a queue keeps the watch.
LEMMA WatchKept ==
  ASSUME QueueIsWatched, UNCHANGED <<pending, stranded, looking, asking, popping, held>>,
         \A s \in Sessions : CardUp(s) => CardUp(s)' \/ \E t \in Turns : SessionOf[t] = s /\ Works(t)',
         \A t \in Turns : Works(t) => Works(t)' \/ CardUp(SessionOf[t])'
  PROVE  QueueIsWatched'
<1>0. (\A s \in Sessions : Watched(s) => Watched(s)') => QueueIsWatched'
  BY DEF QueueIsWatched
<1> SUFFICES ASSUME NEW s \in Sessions, Watched(s) PROVE Watched(s)'
  BY <1>0
<1>1. CASE looking[s] + asking[s] + popping[s] > 0 \/ held[s]
  BY <1>1 DEF Watched
<1>2. CASE CardUp(s)
  BY <1>2 DEF Watched, Works
<1>3. CASE \E t \in Turns : SessionOf[t] = s /\ Works(t)
  BY <1>3 DEF Watched, Works
<1>4. QED
  BY <1>1, <1>2, <1>3 DEF Watched, Works

\* Every step that stops watching either hands the watch on or is one of the three that
\* set `stranded`.
LEMMA WatchStep ==
  ASSUME WatchInv, QueueIsWatched, [Next]_vars
  PROVE  QueueIsWatched'
<1> USE DEF TypeOK, WatchInv, Goto
<1>1. CASE UNCHANGED <<pc, park, dcard, held, pending, stranded, looking, asking, popping>>
  BY <1>1 DEF QueueIsWatched, Watched, CardUp
<1>2. ASSUME NEW t \in Turns, Prompt(t) PROVE QueueIsWatched'
  BY <1>2, WatchKept DEF Prompt, memVars, drainVars, dbVars, boundVars, CardUp, Works,
     StartSteps,
     Executing, RunnerSteps, SettleSteps
<1>3. ASSUME NEW t \in Turns, Schedule(t) PROVE QueueIsWatched'
  <2>1. /\ looking' = [looking EXCEPT ![SessionOf[t]] = @ + 1]
        /\ pc' = [pc EXCEPT ![t] = "queued"] /\ pc[t] = "new"
        /\ \A s \in Sessions : s # SessionOf[t] => pending'[s] = pending[s]
        /\ UNCHANGED <<held, dcard, park, asking, popping, stranded>>
    BY <1>3 DEF Schedule, Drains, dbVars, boundVars
  <2>2. Watched(SessionOf[t])'
    BY <2>1 DEF Watched
  <2>3. \A s \in Sessions : s # SessionOf[t] => (Watched(s) => Watched(s)')
    BY <2>1 DEF Watched, CardUp, StartSteps, Executing, RunnerSteps, SettleSteps
  <2>4. QED
    BY <2>1, <2>2, <2>3 DEF QueueIsWatched
<1>4. ASSUME NEW t \in Turns, RefusedTo(t), pc[t] \in StartSteps,
              UNCHANGED <<pending, stranded, looking, asking, popping, held, dcard>>
       PROVE  QueueIsWatched'
  <2>1. /\ \A u \in Turns : u # t => pc'[u] = pc[u]
        /\ \A u \in Turns : park[u] = "pending" => park'[u] = "pending"
        /\ t \in ServerTurns => pc'[t] = "requeue"
        /\ t \in ResumeTurns => park'[answers[t]] = "pending"
    BY <1>4 DEF RefusedTo, WatchFacts, StartSteps
  <2>2. \A s \in Sessions : CardUp(s) => CardUp(s)'
    BY <1>4, <2>1 DEF CardUp
  <2>3. \A u \in Turns : Works(u) => Works(u)' \/ CardUp(SessionOf[u])'
    BY <1>4, <2>1 DEF Works, CardUp, WatchFacts, StartSteps, Executing, RunnerSteps, SettleSteps
  <2>4. QED
    BY <1>4, <2>2, <2>3, WatchKept
<1>5. ASSUME NEW t \in Turns, UNCHANGED <<pending, stranded, looking, asking, popping, held, dcard, park>>,
              NEW place \in {"record", "claim"} \cup Executing, Goto(t, place),
              pc[t] \in StartSteps \/ place \in Executing
       PROVE  QueueIsWatched'
  BY <1>5, WatchKept DEF CardUp, Works, StartSteps, Executing, RunnerSteps, SettleSteps
<1>6. ASSUME NEW t \in Turns, StartLook(t) PROVE QueueIsWatched'
  BY <1>4, <1>5, <1>6 DEF StartLook, StartSteps, memVars, drainVars, boundVars
<1>7. ASSUME NEW t \in Turns, StartRecord(t) PROVE QueueIsWatched'
  BY <1>4, <1>5, <1>7 DEF StartRecord, StartSteps, memVars, drainVars, boundVars
<1>8. ASSUME NEW t \in Turns, StartClaim(t) PROVE QueueIsWatched'
  BY <1>4, <1>5, <1>8 DEF StartClaim, StartSteps, drainVars, boundVars, Executing, RunnerSteps
<1>9. ASSUME NEW t \in Turns, Requeue(t) PROVE QueueIsWatched'
  <2>1. /\ pc' = [pc EXCEPT ![t] = "queued"] /\ pc[t] = "requeue"
        /\ \A s \in Sessions : s # SessionOf[t] => pending'[s] = pending[s]
        /\ UNCHANGED <<held, dcard, park, looking, asking, popping>>
        /\ MayStrand(SessionOf[t])
    BY <1>9 DEF Requeue, drainVars, dbVars
  <2>2. \A s \in Sessions : s # SessionOf[t] => (Watched(s) => Watched(s)')
    BY <2>1 DEF Watched, CardUp, StartSteps, Executing, RunnerSteps, SettleSteps
  <2>3. QED
    BY <2>1, <2>2 DEF QueueIsWatched, MayStrand
<1>10. ASSUME NEW t \in Turns, RunnerParks(t) PROVE QueueIsWatched'
  BY <1>10, WatchKept DEF RunnerParks, memVars, drainVars, boundVars, CardUp, Works, StartSteps,
     Executing, RunnerSteps, SettleSteps
<1>11. ASSUME NEW t \in Turns,
               \/ RunnerBreaks(t) \/ RunnerWaits(t) \/ RunnerFinal(t) \/ Judge(t) \/ StopFrame(t)
               \/ MarkCancelled(t) \/ SettleFinish(t)
               \/ \E outcome \in {"completed", "failed"} : RunnerEnds(t, outcome)
       PROVE  QueueIsWatched'
  BY <1>5, <1>11 DEF RunnerBreaks, RunnerWaits, RunnerFinal, Judge, StopFrame, MarkCancelled,
     SettleFinish, RunnerEnds, memVars, drainVars, dbVars, boundVars, Executing, RunnerSteps,
     SettleSteps
<1>12. ASSUME NEW t \in Turns, SettleRecord(t) PROVE QueueIsWatched'
  <2>1. /\ pc' = [pc EXCEPT ![t] = "over"]
        /\ UNCHANGED <<pending, held, dcard, park, asking, popping>>
    BY <1>12 DEF SettleRecord, memVars
  <2>2. \/ looking' = [looking EXCEPT ![SessionOf[t]] = @ + 1] /\ UNCHANGED stranded
        \/ UNCHANGED looking /\ MayStrand(SessionOf[t])
    BY <1>12 DEF SettleRecord, DrainsAfter, Drains
  <2>3. \A s \in Sessions : s # SessionOf[t] => (Watched(s) => Watched(s)')
    BY <2>1, <2>2 DEF Watched, CardUp
  <2>4. Watched(SessionOf[t])' \/ SessionOf[t] \in stranded'
    BY <2>1, <2>2 DEF Watched, MayStrand
  <2>5. stranded \subseteq stranded'
    BY <2>2 DEF MayStrand
  <2>6. QED
    BY <2>1, <2>3, <2>4, <2>5 DEF QueueIsWatched
<1>13. ASSUME NEW t \in Turns, NEW u \in Turns, AnswerCard(t, u) PROVE QueueIsWatched'
  <2>1. \A v \in Turns : Works(v) => Works(v)'
    BY <1>13 DEF AnswerCard, Works, StartSteps, Executing, RunnerSteps, SettleSteps
  <2>2. Works(t)' /\ SessionOf[t] = SessionOf[u]
    BY <1>13 DEF AnswerCard, Works, StartSteps
  <2>3. \A s \in Sessions : CardUp(s) => CardUp(s)' \/ s = SessionOf[u]
    BY <1>13 DEF AnswerCard, CardUp
  <2>4. QED
    BY <1>13, <2>1, <2>2, <2>3, WatchKept DEF AnswerCard, memVars, drainVars, boundVars
<1>14. ASSUME NEW s \in Sessions, DrainLook(s) PROVE QueueIsWatched'
  <2>1. /\ UNCHANGED <<pending, held, dcard, park, popping, pc, stranded>>
        /\ \A r \in Sessions : r # s => looking'[r] = looking[r] /\ asking'[r] = asking[r]
        /\ looking'[s] \in Nat /\ asking'[s] \in Nat /\ popping[s] \in Nat
    BY <1>14 DEF DrainLook, memVars, turnVars, dbVars, boundVars
  <2>2. \A r \in Sessions : r # s => (Watched(r) => Watched(r)')
    BY <2>1 DEF Watched, CardUp
  <2>3. CASE Busy(s)
    <3>1. byChat[s] \in Turns /\ pc[byChat[s]] \in Executing /\ SessionOf[byChat[s]] = s
      BY <2>3 DEF WatchFacts, Busy
    <3>2. Watched(s)'
      BY <2>1, <3>1 DEF Watched
    <3>3. QED
      BY <2>1, <2>2, <3>2 DEF QueueIsWatched
  <2>4. CASE pending[s] = <<>>
    BY <2>1, <2>2, <2>4 DEF QueueIsWatched
  <2>5. CASE ~(Busy(s) \/ pending[s] = <<>>)
    <3>1. asking'[s] > 0
      BY <1>14, <2>5 DEF DrainLook
    <3>2. looking'[s] + asking'[s] + popping'[s] > 0
      BY <2>1, <3>1
    <3>3. Watched(s)'
      BY <3>2 DEF Watched
    <3>4. QED
      BY <2>1, <2>2, <3>3 DEF QueueIsWatched
  <2>6. QED
    BY <2>3, <2>4, <2>5
<1>15. ASSUME NEW s \in Sessions, DrainAsk(s) PROVE QueueIsWatched'
  <2>1. /\ UNCHANGED <<pending, held, dcard, park, looking, pc, stranded>>
        /\ \A r \in Sessions : r # s => popping'[r] = popping[r] /\ asking'[r] = asking[r]
        /\ asking'[s] \in Nat /\ popping[s] \in Nat /\ looking[s] \in Nat
        /\ CardUp(s) \/ popping'[s] = popping[s] + 1
    BY <1>15 DEF DrainAsk, memVars, turnVars, dbVars, boundVars
  <2>2. \A r \in Sessions : r # s => (Watched(r) => Watched(r)')
    BY <2>1 DEF Watched, CardUp
  <2>3. Watched(s)'
    BY <2>1 DEF Watched, CardUp
  <2>4. QED
    BY <2>1, <2>2, <2>3 DEF QueueIsWatched
<1>16. ASSUME NEW s \in Sessions, DrainPop(s) PROVE QueueIsWatched'
  <2>1. /\ UNCHANGED <<held, dcard, park, looking, asking>> /\ stranded' = stranded \ {s}
        /\ \A r \in Sessions : r # s => popping'[r] = popping[r] /\ pending'[r] = pending[r]
    BY <1>16 DEF DrainPop, AfterPop, dbVars
  <2>2. \A v \in Turns : pc'[v] = pc[v] \/ (pc[v] = "queued" /\ pc'[v] = "look")
    BY <1>16, PopsQueued
  <2>3. \A r \in Sessions : r # s => (Watched(r) => Watched(r)')
    BY <2>1, <2>2 DEF Watched, CardUp, StartSteps, Executing, RunnerSteps, SettleSteps
  <2>4. CASE pending[s] = <<>>
    BY <1>16, <2>1, <2>3, <2>4 DEF DrainPop, QueueIsWatched
  <2>5. CASE pending[s] # <<>>
    <3>1. Head(pending[s]) \in Queued(s)
      BY <2>5, QueueByQueue, HoldsTail
    <3>2. pc'[Head(pending[s])] = "look" /\ Head(pending[s]) \in ServerTurns
      BY <1>16, <2>5, <3>1 DEF DrainPop, Queued, WatchFacts
    <3>3. Watched(s)'
      BY <3>1, <3>2 DEF Watched, Queued, StartSteps
    <3>4. QED
      BY <2>1, <2>3, <3>3 DEF QueueIsWatched
  <2>6. QED
    BY <2>4, <2>5
<1>17. ASSUME NEW s \in Sessions, Hold(s) PROVE QueueIsWatched'
  BY <1>17 DEF Hold, QueueIsWatched, Watched, CardUp, drainVars, turnVars, dbVars, boundVars
<1>18. ASSUME NEW s \in Sessions,
               looking' = [looking EXCEPT ![s] = @ + 1],
               \A r \in Sessions : r # s => held'[r] = held[r] /\ dcard'[r] = dcard[r],
               UNCHANGED <<pending, park, pc, asking, popping, stranded>>
       PROVE  QueueIsWatched'
  <2>1. Watched(s)'
    BY <1>18 DEF Watched
  <2>2. \A r \in Sessions : r # s => (Watched(r) => Watched(r)')
    BY <1>18 DEF Watched, CardUp
  <2>3. QED
    BY <1>18, <2>1, <2>2 DEF QueueIsWatched
<1>19. ASSUME NEW s \in Sessions, Release(s) PROVE QueueIsWatched'
  BY <1>18, <1>19 DEF Release, AfterHold, Drains, turnVars, dbVars, boundVars
<1>20. ASSUME NEW s \in Sessions, AnswerDetached(s) PROVE QueueIsWatched'
  BY <1>18, <1>20 DEF AnswerDetached, Drains, memVars, turnVars, boundVars
<1>21. ASSUME NEW s \in Sessions, RaiseDetached(s) PROVE QueueIsWatched'
  BY <1>21 DEF RaiseDetached, QueueIsWatched, Watched, CardUp, memVars, drainVars, turnVars
<1>22. ASSUME NEW s \in Sessions, ExpireCard(s) PROVE QueueIsWatched'
  <2>1. /\ UNCHANGED <<pending, held, looking, asking, popping, pc>> /\ MayStrand(s)
        /\ \A r \in Sessions : r # s => dcard'[r] = dcard[r]
        /\ \A v \in Turns : SessionOf[v] # s => park'[v] = park[v]
    BY <1>22 DEF ExpireCard, memVars, drainVars, turnVars
  <2>2. \A r \in Sessions : r # s => (Watched(r) => Watched(r)')
    BY <2>1 DEF Watched, CardUp
  <2>3. QED
    BY <2>1, <2>2 DEF QueueIsWatched, MayStrand
<1>23. CASE Quiesce
  BY <1>23 DEF Quiesce, QueueIsWatched
<1>24. CASE Restart
  BY <1>24 DEF Restart, QueueIsWatched
<1>25. QED
  BY <1>1, <1>2, <1>3, <1>6, <1>7, <1>8, <1>9, <1>10, <1>11, <1>12, <1>13, <1>14, <1>15,
     <1>16, <1>17, <1>19, <1>20, <1>21, <1>22, <1>23, <1>24
  DEF Next, Ask, TurnStep, DrainStep, Environment, vars, memVars, drainVars, turnVars, dbVars,
      boundVars, Evict, GoQuiet, Cancel, Shutdown

\* QueueIsWatched, for any number of conversations, completions and drainers: between the
\* three steps that drop it, the watch over a queue is only ever handed on.
THEOREM QueueIsWatchedHolds == Spec => []QueueIsWatched
<1>1. Init => WatchFacts /\ QueueIsWatched
  BY DEF Init, WatchFacts, QueueIsWatched, Busy, StartSteps
<1>2. TypeOK /\ QueueIntact /\ WatchFacts /\ [Next]_vars => WatchFacts'
  BY WatchFactsStep
<1>3. TypeOK /\ QueueIntact /\ WatchFacts /\ QueueIsWatched /\ [Next]_vars => QueueIsWatched'
  BY WatchStep DEF WatchInv
<1>4. QED
  BY <1>1, <1>2, <1>3, TypeCorrect, QueueIsIntact, PTL DEF Spec

=============================================================================
