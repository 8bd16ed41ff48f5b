-------------------------- MODULE BackgroundProofs --------------------------
(***************************************************************************)
(* Proofs about Background, for any number of delegations, legs, cards and *)
(* restarts.                                                               *)
(*                                                                         *)
(* OneLegWorks follows the turn of a delegation.  A leg that is to run or  *)
(* runs has it; it passes to the card the leg parks on, from the card to   *)
(* the request that answers it, and from there to the next leg.  One at a  *)
(* time has it (OneTurn), because an answered card is closed for good, a   *)
(* restart leaves no request and no goroutine behind, and recovery rejects *)
(* the open card of a row before it launches it again.                     *)
(*                                                                         *)
(* ToldOnce adds what Finish relies on: whoever is about to schedule the   *)
(* completion turn is the last to have had the delegation's turn, or is    *)
(* recovery, which finds nobody.                                           *)
(*                                                                         *)
(* RunningIsAttended looks at the last leg of a delegation: while the row  *)
(* says running, this leg, its card or its answer is still to do something,*)
(* or the card ran out; and a line of cards that nobody has broken moves.  *)
(***************************************************************************)
EXTENDS Background, WellFoundedInduction, TLAPS

USE BackgroundConstants

\* Who has the delegation's turn: a leg that is to run or runs, a card that can still
\* bring one back, or the request that answered it.
Busy(l) == pc[l] \in {"due", "working", "returned"}
Turn(l) == Busy(l) \/ (card[l] \in Open /\ l \notin late) \/ Resuming(l) \/ Owing(l)

\* A leg raises its card as it parks, never before.
CardAfterLeg ==
  \A l \in Legs : pc[l] = "none" \/ Busy(l) => card[l] = "none" /\ step[l] = "none"

\* A delegation not yet written has no leg.
LegAfterRow == \A l \in Legs : pc[l] # "none" => del[Of(l)] # "none"

\* An answered card of an agent is not put up again.
AnsweredForGood == \A l \in Legs : step[l] # "none" => card[l] \notin Open

\* Nothing is left of a process that went: no request, no agent ...
NothingAsked == proc \in {"down", "booting"} => \A c \in Cards : step[c] = "none"
NothingRuns == proc = "down" => \A l \in Legs : pc[l] \notin Alive

\* ... and the rows recovery is still to see through are alone, run until it gives them
\* up, and have no card that could be answered once it has released them.
RecoveryBoots == proc # "booting" => \A d \in Agents : recovery[d] = "none"
RowsAlone == \A l \in Legs : recovery[Of(l)] # "none" => pc[l] \notin Alive
RowsRun ==
  \A d \in Agents :
    /\ recovery[d] \in {"found", "counted", "cleared"} => del[d] = "running"
    /\ recovery[d] \in {"failed", "owed"} => del[d] = "failed"
RowsBare ==
  \A l \in Legs : recovery[Of(l)] \in {"cleared", "owed"} /\ card[l] \in Open => l \in late

\* One at a time has the turn.
OneTurn == \A k, l \in Legs : Of(k) = Of(l) /\ Turn(k) /\ Turn(l) => k = l

TurnFacts == CardAfterLeg /\ LegAfterRow /\ AnsweredForGood /\ NothingAsked /\ NothingRuns
             /\ RecoveryBoots /\ RowsAlone /\ RowsRun /\ RowsBare /\ OneTurn

\* Of a settled result, the one completion turn is still to be scheduled, ...
SettledOnce ==
  /\ \A l \in Legs : pc[l] = "settled" => scheduled[Of(l)] = 0 /\ del[Of(l)] \in {"done", "failed"}
  /\ \A k, l \in Legs : pc[k] = "settled" /\ pc[l] = "settled" /\ Of(k) = Of(l) => k = l
  /\ \A k, l \in Legs : pc[k] = "settled" /\ Turn(l) => Of(k) # Of(l)

\* ... as it is of a delegation that somebody has the turn of, that recovery has given up,
\* or that is not over.
TurnUntold == \A l \in Legs : Turn(l) => scheduled[Of(l)] = 0
OpenUntold == \A d \in Agents : del[d] \notin Terminal => scheduled[d] = 0
GivenUpUntold == \A d \in Agents : recovery[d] \in {"failed", "owed"} => scheduled[d] = 0

\* The agent was gone when its card was answered: its row is over.
OwingIsOver == \A l \in Legs : Owing(l) => del[Of(l)] \in Terminal

TellFacts == SettledOnce /\ TurnUntold /\ OpenUntold /\ GivenUpUntold /\ OwingIsOver

\* Legs are numbered without a gap.
Dense == \A k, l \in Legs : Of(k) = Of(l) /\ k[2] < l[2] /\ pc[l] # "none" => pc[k] # "none"

\* A cancelled row is settled before its cards are released.
OrphansAreOver == \A d \in orphans : del[d] = "cancelled"
\* A process that serves, or recovers, starts the legs it is asked for.
ServingRuns == proc \in {"up", "booting"} => ~quiescing

\* The last leg of a delegation, or its card, attends it.
Last(l) == \A k \in Legs : Of(k) = Of(l) /\ k[2] > l[2] => pc[k] = "none"
Attends(l) == Busy(l) \/ card[l] \in Open \/ Resuming(l) \/ l \in late
Recovered(d) == proc = "up" \/ (proc = "booting" /\ recovery[d] = "none")
LastAttends ==
  \A d \in Agents : Recovered(d) /\ del[d] = "running" =>
    \E l \in Legs : Of(l) = d /\ Last(l) /\ Attends(l)

\* Every agent's card that is up or queued was raised, the first process serves, and a
\* card queued in a line nobody has broken has one before it.
WasRaised == \A l \in Legs : card[l] \in Open => \E i \in DOMAIN raised : raised[i] = l
FirstServes == restarts = 0 => proc = "up" /\ ~quiescing
LineKept == ~LineBroken /\ (\E l \in Legs : card[l] = "queued") => LineMoves

AttendFacts == Dense /\ OrphansAreOver /\ ServingRuns /\ LastAttends
               /\ WasRaised /\ FirstServes /\ LineKept

\* A leg is a delegation's, by its number; its card is not the Gateway's.
LEMMA LegParts ==
  ASSUME NEW l \in Legs
  PROVE  Of(l) \in Agents /\ l = <<Of(l), l[2]>> /\ l[2] \in 1 .. MaxLegs
         /\ l \in Cards /\ l # Gateway
BY DEF Legs, Of, Cards

\* Every other card is an agent's.
LEMMA AgentOfCard ==
  ASSUME NEW c \in Cards, c # Gateway
  PROVE  c \in Legs /\ Of(c) \in Agents
BY DEF Legs, Of, Cards

-----------------------------------------------------------------------------
(* The types *)

\* TypeOK: what has a status ...
StateTypes ==
  /\ del \in [Agents -> {"none", "running"} \cup Terminal]
  /\ card \in [Cards -> {"none", "approved", "rejected", "expired"} \cup Open]
  /\ late \subseteq Cards
  /\ auto \in BOOLEAN
  /\ pc \in [Legs -> {"none", "gone"} \cup Alive]
  /\ ctx \in [Legs -> {"live", "cancelled", "shutdown", "deadline"}]
  /\ running \in [Agents -> Legs \cup {NoLeg}]
  /\ step \in [Cards -> Steps]
  /\ orphans \subseteq Agents
  /\ completion \in [Agents -> {"none", "queued", "refused", "told"} \cup Spoken]
  /\ proc \in {"booting", "up", "stopping", "down"}
  /\ recovery \in [Agents -> {"none", "found", "counted", "cleared", "failed", "owed"}]
  /\ baseCancelled \in BOOLEAN /\ quiescing \in BOOLEAN /\ graceOver \in BOOLEAN
  /\ stranded \subseteq Agents /\ passed \in BOOLEAN

\* ... and what is counted.
CountTypes ==
  /\ attempts \in [Agents -> Nat]
  /\ raised \in Seq(Cards)
  /\ drains \in Nat
  /\ scheduled \in [Agents -> Nat]
  /\ restarts \in Nat

\* Its two parts are the type invariant.
LEMMA TypeParts == TypeOK <=> StateTypes /\ CountTypes
BY DEF TypeOK, StateTypes, CountTypes

\* spawn keeps the types ...
LEMMA SpawnTyped ==
  ASSUME StateTypes, NEW l \in Legs, NEW at \in Alive, Spawn(l, at)
  PROVE  /\ pc' \in [Legs -> {"none", "gone"} \cup Alive]
         /\ ctx' \in [Legs -> {"live", "cancelled", "shutdown", "deadline"}]
         /\ running' \in [Agents -> Legs \cup {NoLeg}]
<1>1. NewCtx \in {"live", "cancelled", "shutdown", "deadline"}
  BY DEF NewCtx
<1>2. CASE quiescing
  BY <1>2 DEF StateTypes, Spawn
<1>3. CASE ~quiescing
  <2>1. /\ pc' = [pc EXCEPT ![l] = at]
        /\ ctx' = [ctx EXCEPT ![l] = NewCtx]
        /\ running' = [running EXCEPT ![Of(l)] = l]
    BY <1>3 DEF Spawn
  <2>2. pc' \in [Legs -> {"none", "gone"} \cup Alive]
    BY <2>1 DEF StateTypes
  <2>3. ctx' \in [Legs -> {"live", "cancelled", "shutdown", "deadline"}]
    BY <2>1, <1>1 DEF StateTypes
  <2>4. running' \in [Agents -> Legs \cup {NoLeg}]
    BY <2>1 DEF StateTypes
  <2>5. QED
    BY <2>2, <2>3, <2>4
<1>4. QED
  BY <1>2, <1>3

\* ... as does switching the conversation's approval mode ...
LEMMA AutoTyped ==
  ASSUME StateTypes, NEW c, SetAuto(c)
  PROVE  auto' \in BOOLEAN
<1>1. (auto \/ step[c] \in {"start all", "resume all"}) \in BOOLEAN
  OBVIOUS
<1>2. QED
  BY <1>1 DEF SetAuto

\* ... scheduling a completion turn ...
LEMMA DrainedTyped ==
  ASSUME drains \in Nat, NEW cards, NEW turns
  PROVE  Drained(cards, turns) \in Nat
BY DEF Drained

LEMMA ScheduledTyped ==
  ASSUME NEW d \in Agents, Scheduled(d)
  PROVE  /\ CountTypes => scheduled' \in [Agents -> Nat] /\ drains' \in Nat
         /\ StateTypes => /\ completion' \in [Agents -> {"none", "queued", "refused", "told"} \cup Spoken]
                          /\ stranded' \subseteq Agents
<1>1. CountTypes => scheduled' \in [Agents -> Nat] /\ drains' \in Nat
  BY DrainedTyped DEF CountTypes, Scheduled
<1>2. StateTypes => /\ completion' \in [Agents -> {"none", "queued", "refused", "told"} \cup Spoken]
                    /\ stranded' \subseteq Agents
  BY DEF StateTypes, Scheduled
<1>3. QED
  BY <1>1, <1>2

\* ... and the lane, which touches nothing but the completion turns.
LEMMA LaneOnly ==
  ASSUME LaneStep
  PROVE  UNCHANGED <<dbVars, legVars, askVars, procVars, scheduled>>
BY DEF LaneStep, DrainPops, PutBack, TurnSettles, TurnWaits, TurnParts

LEMMA LaneTyped ==
  ASSUME LaneStep
  PROVE  /\ StateTypes => /\ completion' \in [Agents -> {"none", "queued", "refused", "told"} \cup Spoken]
                          /\ stranded' \subseteq Agents
         /\ CountTypes => drains' \in Nat
<1>1. CASE DrainPops
  <2>1. CASE UNCHANGED completion
    BY <1>1, <2>1 DEF StateTypes, CountTypes, DrainPops
  <2>2. ASSUME NEW d \in Agents, NEW v \in {"speaking", "refused"},
               completion' = [completion EXCEPT ![d] = v]
        PROVE  StateTypes => completion' \in [Agents -> {"none", "queued", "refused", "told"} \cup Spoken]
    BY <2>2 DEF StateTypes, Spoken
  <2>3. UNCHANGED completion \/ \E d \in Agents, v \in {"speaking", "refused"} :
                                  completion' = [completion EXCEPT ![d] = v]
    BY <1>1 DEF DrainPops
  <2>4. UNCHANGED stranded /\ (CountTypes => drains' \in Nat)
    BY <1>1 DEF DrainPops, CountTypes
  <2>5. QED
    BY <2>1, <2>2, <2>3, <2>4 DEF StateTypes
<1>2. ASSUME NEW d \in Agents, PutBack(d) \/ TurnSettles(d) \/ TurnWaits(d) \/ TurnParts(d)
      PROVE  StateTypes => completion' \in [Agents -> {"none", "queued", "refused", "told"} \cup Spoken]
  BY <1>2 DEF StateTypes, PutBack, TurnSettles, TurnWaits, TurnParts, Spoken
<1>3. ASSUME NEW d \in Agents, PutBack(d) \/ TurnSettles(d) \/ TurnWaits(d) \/ TurnParts(d)
      PROVE  StateTypes => stranded' \subseteq Agents
  BY <1>3 DEF StateTypes, PutBack, TurnSettles, TurnWaits, TurnParts, LeftAlone
<1>4. ASSUME NEW d \in Agents, PutBack(d) \/ TurnSettles(d) \/ TurnWaits(d) \/ TurnParts(d)
      PROVE  CountTypes => drains' \in Nat
  BY <1>4, DrainedTyped DEF CountTypes, PutBack, TurnSettles, TurnWaits, TurnParts
<1>5. QED
  BY <1>1, <1>2, <1>3, <1>4 DEF LaneStep

\* The conversation starts out typed.
LEMMA TypeInit == Init => TypeOK
<1>1. Init => StateTypes
  <2> USE DEF Init
  <2>1. Init => del \in [Agents -> {"none", "running"} \cup Terminal]
    OBVIOUS
  <2>2. Init => card \in [Cards -> {"none", "approved", "rejected", "expired"} \cup Open]
    OBVIOUS
  <2>3. Init => pc \in [Legs -> {"none", "gone"} \cup Alive]
    OBVIOUS
  <2>4. Init => /\ ctx \in [Legs -> {"live", "cancelled", "shutdown", "deadline"}]
                /\ running \in [Agents -> Legs \cup {NoLeg}]
                /\ completion \in [Agents -> {"none", "queued", "refused", "told"} \cup Spoken]
                /\ recovery \in [Agents -> {"none", "found", "counted", "cleared", "failed", "owed"}]
    OBVIOUS
  <2>5. Init => step \in [Cards -> Steps]
    BY DEF Steps
  <2>6. Init => /\ late \subseteq Cards /\ auto \in BOOLEAN
                /\ orphans \subseteq Agents
                /\ proc \in {"booting", "up", "stopping", "down"}
                /\ baseCancelled \in BOOLEAN /\ quiescing \in BOOLEAN /\ graceOver \in BOOLEAN
                /\ stranded \subseteq Agents /\ passed \in BOOLEAN
    OBVIOUS
  <2>7. QED
    BY <2>1, <2>2, <2>3, <2>4, <2>5, <2>6 DEF StateTypes
<1>2. Init => CountTypes
  BY DEF Init, CountTypes
<1>3. QED
  BY <1>1, <1>2, TypeParts

\* Every step keeps the types of what has a status ...
LEMMA StateStep ==
  ASSUME StateTypes, [Next]_vars
  PROVE  StateTypes'
<1> USE DEF dbVars, legVars, askVars, procVars, ebbVars, laneVars, tellVars, Cards, Open, Terminal, Alive
<1>1. CASE GatewayParks
  BY <1>1, AgentOfCard, LegParts DEF StateTypes, GatewayParks
<1>2. CASE StartGateway
  <2>1. auto' \in BOOLEAN
    BY <1>2, AutoTyped DEF StartGateway
  <2>2. card' \in [Cards -> {"none", "approved", "rejected", "expired"} \cup Open]
    <3>1. CASE UNCHANGED card
      BY <3>1 DEF StateTypes
    <3>2. CASE card' = [card EXCEPT ![Gateway] = "pending"]
      BY <3>2 DEF StateTypes
    <3>3. QED
      BY <1>2, <3>1, <3>2 DEF StartGateway
  <2>3. step' \in [Cards -> Steps]
    BY <1>2 DEF StateTypes, StartGateway, Steps
  <2>4. QED
    BY <1>2, <2>1, <2>2, <2>3 DEF StateTypes, StartGateway
<1>3. CASE StartUnresolved
  <2>1. step' \in [Cards -> Steps]
    BY <1>3 DEF StateTypes, StartUnresolved, AfterResume, Steps
  <2>2. QED
    BY <1>3, <2>1 DEF StateTypes, StartUnresolved
<1>4. CASE ResumeNobody
  <2>1. step' \in [Cards -> Steps]
    BY <1>4 DEF StateTypes, ResumeNobody, AfterResume, Steps
  <2>2. QED
    BY <1>4, <2>1 DEF StateTypes, ResumeNobody
<1>5. CASE Signal
  BY <1>5, AgentOfCard, LegParts DEF StateTypes, Signal
<1>6. CASE BaseCancel
  BY <1>6, AgentOfCard, LegParts DEF StateTypes, BaseCancel
<1>7. CASE Quiesce
  <2>1. completion' \in [Agents -> {"none", "queued", "refused", "told"} \cup Spoken]
    BY <1>7 DEF StateTypes, Quiesce, Dropped
  <2>2. QED
    BY <1>7, <2>1 DEF StateTypes, Quiesce
<1>8. CASE GraceRunsOut
  BY <1>8, AgentOfCard, LegParts DEF StateTypes, GraceRunsOut
<1>9. CASE Exit
  <2>1. completion' \in [Agents -> {"none", "queued", "refused", "told"} \cup Spoken]
    BY <1>9 DEF StateTypes, Exit, Gone
  <2>2. step' \in [Cards -> Steps]
    BY <1>9 DEF Exit, Gone, Steps
  <2>3. QED
    BY <1>9, <2>1, <2>2 DEF StateTypes, Exit, Gone
<1>10. CASE Crash
  <2>1. completion' \in [Agents -> {"none", "queued", "refused", "told"} \cup Spoken]
    BY <1>10 DEF StateTypes, Crash, Gone
  <2>2. step' \in [Cards -> Steps]
    BY <1>10 DEF Crash, Gone, Steps
  <2>3. QED
    BY <1>10, <2>1, <2>2 DEF StateTypes, Crash, Gone
<1>11. CASE Boot
  BY <1>11, AgentOfCard, LegParts DEF StateTypes, Boot, RunningRows
<1>12. CASE Serve
  BY <1>12, AgentOfCard, LegParts DEF StateTypes, Serve
<1>13. CASE LaneStep
  BY <1>13, LaneOnly, LaneTyped DEF StateTypes
<1>14. ASSUME NEW l \in Legs, Launch(l) PROVE StateTypes'
  BY <1>14, SpawnTyped DEF StateTypes, Launch
<1>15. ASSUME NEW l \in Legs, Park(l) PROVE StateTypes'
  BY <1>15, AgentOfCard, LegParts DEF StateTypes, Park, SequencedStatus
<1>16. ASSUME NEW l \in Legs, MarkParked(l) PROVE StateTypes'
  BY <1>16, AgentOfCard, LegParts DEF StateTypes, MarkParked
<1>17. ASSUME NEW l \in Legs, Return(l) PROVE StateTypes'
  BY <1>17, AgentOfCard, LegParts DEF StateTypes, Return
<1>18. ASSUME NEW l \in Legs, Deadline(l) PROVE StateTypes'
  BY <1>18, AgentOfCard, LegParts DEF StateTypes, Deadline
<1>19. ASSUME NEW l \in Legs, Finish(l) PROVE StateTypes'
  <2>1. Verdicts(l) \subseteq Terminal
    BY DEF Verdicts
  <2>2. PICK status \in Verdicts(l) :
          /\ del' = IF OneWayDoor(Of(l)) THEN [del EXCEPT ![Of(l)] = status] ELSE del
          /\ pc' = [pc EXCEPT ![l] = IF Owes(l, OneWayDoor(Of(l)), status)
                                    THEN "settled" ELSE "leaving"]
    BY <1>19 DEF Finish
  <2>3. del' \in [Agents -> {"none", "running"} \cup Terminal]
    BY <2>1, <2>2 DEF StateTypes
  <2>4. pc' \in [Legs -> {"none", "gone"} \cup Alive]
    BY <2>2 DEF StateTypes
  <2>5. QED
    BY <1>19, <2>3, <2>4 DEF StateTypes, Finish
<1>20. ASSUME NEW l \in Legs, ScheduleCompletion(l) PROVE StateTypes'
  BY <1>20, ScheduledTyped, LegParts DEF StateTypes, ScheduleCompletion
<1>21. ASSUME NEW l \in Legs, Leave(l) PROVE StateTypes'
  BY <1>21, AgentOfCard, LegParts DEF StateTypes, Leave
<1>22. ASSUME NEW c \in Cards, Expire(c) PROVE StateTypes'
  BY <1>22, AgentOfCard, LegParts DEF StateTypes, Expire
<1>23. ASSUME NEW c \in Cards, AnswerLate(c) PROVE StateTypes'
  BY <1>23, AgentOfCard, LegParts DEF StateTypes, AnswerLate, Claimable
<1>24. ASSUME NEW c \in Cards, PassOver(c) PROVE StateTypes'
  BY <1>24, AgentOfCard, LegParts DEF StateTypes, PassOver, Waiting, NextInLine
<1>25. ASSUME NEW c \in Cards, Resume(c) PROVE StateTypes'
  <2>1. auto' \in BOOLEAN
    BY <1>25, AutoTyped DEF Resume
  <2>2. step' \in [Cards -> Steps]
    BY <1>25 DEF StateTypes, Resume, AfterResume, Steps
  <2>3. PICK l \in LegsOf(Of(c)) :
          Spawn(l, IF card[c] = "approved" THEN "working" ELSE "returned")
    BY <1>25 DEF Resume
  <2>4. l \in Legs
    BY DEF LegsOf
  <2>5. /\ pc' \in [Legs -> {"none", "gone"} \cup Alive]
        /\ ctx' \in [Legs -> {"live", "cancelled", "shutdown", "deadline"}]
        /\ running' \in [Agents -> Legs \cup {NoLeg}]
    BY <2>3, <2>4, SpawnTyped
  <2>6. QED
    BY <1>25, <2>1, <2>2, <2>5 DEF StateTypes, Resume
<1>26. ASSUME NEW c \in Cards, ResumeRemoved(c) PROVE StateTypes'
  <2>1. auto' \in BOOLEAN
    BY <1>26, AutoTyped DEF ResumeRemoved
  <2>2. step' \in [Cards -> Steps]
    BY <1>26 DEF StateTypes, ResumeRemoved, Steps, Owed
  <2>3. del' \in [Agents -> {"none", "running"} \cup Terminal]
    BY <1>26, AgentOfCard DEF StateTypes, ResumeRemoved
  <2>4. QED
    BY <1>26, <2>1, <2>2, <2>3 DEF StateTypes, ResumeRemoved
<1>27. ASSUME NEW c \in Cards, TellRemoved(c) PROVE StateTypes'
  <2>1. step' \in [Cards -> Steps]
    BY <1>27 DEF StateTypes, TellRemoved, AfterResume, Steps
  <2>2. QED
    BY <1>27, <2>1, AgentOfCard, ScheduledTyped DEF StateTypes, TellRemoved
<1>28. ASSUME NEW c \in Cards, ReleaseNextCard(c) PROVE StateTypes'
  <2>1. step' \in [Cards -> Steps]
    BY <1>28 DEF StateTypes, ReleaseNextCard, AfterResume, Steps
  <2>2. QED
    BY <1>28, <2>1 DEF StateTypes, ReleaseNextCard, Promoted
<1>29. ASSUME NEW c \in Cards, DrainApprovalQueue(c) PROVE StateTypes'
  <2>1. step' \in [Cards -> Steps]
    BY <1>29 DEF StateTypes, DrainApprovalQueue, Steps, Resumes
  <2>2. QED
    BY <1>29, <2>1 DEF StateTypes, DrainApprovalQueue
<1>30. ASSUME NEW d \in Agents, CreateDelegation(d) PROVE StateTypes'
  BY <1>30, AgentOfCard, LegParts DEF StateTypes, CreateDelegation
<1>31. ASSUME NEW d \in Agents, CancelRunning(d) PROVE StateTypes'
  BY <1>31, AgentOfCard, LegParts DEF StateTypes, CancelRunning
<1>32. ASSUME NEW d \in Agents, CancelParked(d) PROVE StateTypes'
  BY <1>32, AgentOfCard, LegParts DEF StateTypes, CancelParked, OneWayDoor
<1>33. ASSUME NEW d \in Agents, ReleaseOrphanedParks(d) PROVE StateTypes'
  BY <1>33, AgentOfCard, LegParts DEF StateTypes, ReleaseOrphanedParks, Orphaned
<1>34. ASSUME NEW d \in Agents, CountAttempt(d) PROVE StateTypes'
  BY <1>34, AgentOfCard, LegParts DEF StateTypes, CountAttempt, Recovers
<1>35. ASSUME NEW d \in Agents, GiveUp(d) PROVE StateTypes'
  BY <1>35, AgentOfCard, LegParts DEF StateTypes, GiveUp, Recovers
<1>36. ASSUME NEW d \in Agents, ReleaseAtBoot(d) PROVE StateTypes'
  BY <1>36, AgentOfCard, LegParts DEF StateTypes, ReleaseAtBoot, Recovers, Orphaned
<1>37. ASSUME NEW d \in Agents, Relaunch(d) PROVE StateTypes'
  <2>1. PICK l \in LegsOf(d) : Spawn(l, "working")
    BY <1>37 DEF Relaunch
  <2>2. l \in Legs
    BY DEF LegsOf
  <2>3. /\ pc' \in [Legs -> {"none", "gone"} \cup Alive]
        /\ ctx' \in [Legs -> {"live", "cancelled", "shutdown", "deadline"}]
        /\ running' \in [Agents -> Legs \cup {NoLeg}]
    BY <2>1, <2>2, SpawnTyped
  <2>4. QED
    BY <1>37, <2>3 DEF StateTypes, Relaunch, Recovers
<1>38. ASSUME NEW d \in Agents, TellGivenUp(d) PROVE StateTypes'
  BY <1>38, ScheduledTyped DEF StateTypes, TellGivenUp, Recovers
<1>39. ASSUME NEW c \in Cards, NEW decision \in {"approved", "rejected"},
              NEW everything \in BOOLEAN, Answer(c, decision, everything) PROVE StateTypes'
  <2>1. step' \in [Cards -> Steps]
    BY <1>39 DEF StateTypes, Answer, Steps, Starts, Resumes
  <2>2. QED
    BY <1>39, <2>1 DEF StateTypes, Answer
<1>40. CASE UNCHANGED vars
  BY <1>40 DEF StateTypes, vars
<1>41. QED
  BY <1>1, <1>2, <1>3, <1>4, <1>5, <1>6, <1>7, <1>8, <1>9, <1>10, <1>11, <1>12, <1>13, <1>14,
     <1>15, <1>16, <1>17, <1>18, <1>19, <1>20, <1>21, <1>22, <1>23, <1>24, <1>25, <1>26,
     <1>27, <1>28, <1>29, <1>30, <1>31, <1>32, <1>33, <1>34, <1>35, <1>36, <1>37, <1>38,
     <1>39, <1>40
  DEF Next, LegStep, CardStep, AgentStep

\* ... and of what is counted: CreateDelegation and RestartDelegation count attempts, a
\* park lengthens the list of cards, Schedule counts completion turns, and those who look
\* at the lane count the drains.
LEMMA CountStep ==
  ASSUME CountTypes, [Next]_vars
  PROVE  CountTypes'
<1> USE DEF dbVars, legVars, askVars, procVars, ebbVars, laneVars, tellVars, Cards
<1>1. CASE UNCHANGED <<attempts, raised, drains, scheduled, restarts>>
  BY <1>1 DEF CountTypes
<1>2. CASE GatewayParks
  BY <1>2, AgentOfCard, LegParts DEF CountTypes, GatewayParks
<1>3. CASE StartGateway
  BY <1>3, DrainedTyped DEF CountTypes, StartGateway
<1>4. CASE Signal
  BY <1>4, AgentOfCard, LegParts DEF CountTypes, Signal
<1>5. CASE Exit
  BY <1>5, AgentOfCard, LegParts DEF CountTypes, Exit, Gone
<1>6. CASE Crash
  BY <1>6, AgentOfCard, LegParts DEF CountTypes, Crash, Gone
<1>7. CASE LaneStep
  BY <1>7, LaneOnly, LaneTyped DEF CountTypes
<1>8. ASSUME NEW l \in Legs, Park(l) PROVE CountTypes'
  BY <1>8, AgentOfCard, LegParts DEF CountTypes, Park, SequencedStatus
<1>9. ASSUME NEW l \in Legs, ScheduleCompletion(l) PROVE CountTypes'
  BY <1>9, LegParts, ScheduledTyped DEF CountTypes, ScheduleCompletion
<1>10. ASSUME NEW c \in Cards, TellRemoved(c) PROVE CountTypes'
  BY <1>10, AgentOfCard, ScheduledTyped DEF CountTypes, TellRemoved
<1>11. ASSUME NEW c \in Cards, ReleaseNextCard(c) PROVE CountTypes'
  BY <1>11, DrainedTyped DEF CountTypes, ReleaseNextCard, AnswerDrains
<1>12. ASSUME NEW c \in Cards, DrainApprovalQueue(c) PROVE CountTypes'
  BY <1>12, DrainedTyped DEF CountTypes, DrainApprovalQueue, AnswerDrains
<1>13. ASSUME NEW d \in Agents, CreateDelegation(d) PROVE CountTypes'
  BY <1>13, AgentOfCard, LegParts DEF CountTypes, CreateDelegation
<1>14. ASSUME NEW d \in Agents, CountAttempt(d) PROVE CountTypes'
  BY <1>14, AgentOfCard, LegParts DEF CountTypes, CountAttempt, Recovers
<1>15. ASSUME NEW d \in Agents, TellGivenUp(d) PROVE CountTypes'
  BY <1>15, ScheduledTyped DEF CountTypes, TellGivenUp, Recovers
<1>16. QED
  BY <1>1, <1>2, <1>3, <1>4, <1>5, <1>6, <1>7, <1>8, <1>9, <1>10, <1>11, <1>12, <1>13, <1>14,
     <1>15
  DEF Next, LegStep, CardStep, AgentStep, vars, StartUnresolved, ResumeNobody, BaseCancel,
     Quiesce, GraceRunsOut, Boot, Serve, Launch, MarkParked, Return, Deadline, Finish, Leave,
     Expire, AnswerLate, PassOver, Resume, ResumeRemoved, CancelRunning, CancelParked,
     ReleaseOrphanedParks, GiveUp, Recovers, ReleaseAtBoot, Relaunch, Answer

\* Every step keeps the types.
LEMMA TypeStep ==
  ASSUME TypeOK, [Next]_vars
  PROVE  TypeOK'
<1>1. StateTypes' /\ CountTypes'
  BY TypeParts, StateStep, CountStep
<1>2. QED
  BY <1>1 DEF TypeOK, StateTypes, CountTypes

\* TypeOK for any number of delegations, legs, cards and restarts: the statuses written
\* by the handlers, the recovery and the cancel path are the ones the schema lists.
THEOREM BackgroundTypeCorrect == Spec => []TypeOK
<1>1. TypeOK /\ [Next]_vars => TypeOK'
  BY TypeStep
<1>2. QED
  BY <1>1, TypeInit, PTL DEF Spec

\* CreateDelegation's leg.
LEMMA FirstLeg ==
  ASSUME NEW d \in Agents
  PROVE  <<d, 1>> \in Legs /\ Of(<<d, 1>>) = d
BY DEF Legs, Of

\* spawn starts the leg, or refuses it once the process is quiescing.
LEMMA SpawnLeg ==
  ASSUME NEW l \in Legs, NEW at, Spawn(l, at)
  PROVE  \E v \in {"gone", at} : pc' = [pc EXCEPT ![l] = v] /\ (~quiescing => v = at)
BY DEF Spawn

\* ResumeDetached starts the next leg of an agent's card ...
LEMMA ResumeLeg ==
  ASSUME NEW c \in Cards, Resume(c)
  PROVE  /\ c \in Legs /\ c # Gateway
         /\ \E l \in Legs, v \in {"gone", "working", "returned"} :
              /\ Of(l) = Of(c) /\ pc[l] = "none" /\ pc' = [pc EXCEPT ![l] = v]
              /\ (l[2] = 1 \/ pc[<<Of(l), l[2] - 1>>] # "none")
              /\ ~quiescing => v \in {"working", "returned"}
<1>1. PICK l \in LegsOf(Of(c)) :
        Fresh(l) /\ Spawn(l, IF card[c] = "approved" THEN "working" ELSE "returned")
  BY DEF Resume
<1>2. l \in Legs /\ Of(l) = Of(c)
  BY DEF LegsOf
<1>3. c \in Legs /\ c # Gateway
  BY DEF Resume, Cards
<1>4. PICK v \in {"gone", IF card[c] = "approved" THEN "working" ELSE "returned"} :
        pc' = [pc EXCEPT ![l] = v]
        /\ (~quiescing => v = IF card[c] = "approved" THEN "working" ELSE "returned")
  BY <1>1, <1>2, SpawnLeg
<1>5. v \in {"gone", "working", "returned"} /\ (~quiescing => v \in {"working", "returned"})
  BY <1>4
<1>6. pc[l] = "none" /\ (l[2] = 1 \/ pc[<<Of(l), l[2] - 1>>] # "none")
  BY <1>1 DEF Fresh
<1>7. QED
  BY <1>2, <1>3, <1>4, <1>5, <1>6

\* ... and recoverInterrupted the next leg of a row.
LEMMA RelaunchLeg ==
  ASSUME NEW d \in Agents, Relaunch(d)
  PROVE  \E l \in Legs, v \in {"gone", "working", "returned"} :
           /\ Of(l) = d /\ pc[l] = "none" /\ pc' = [pc EXCEPT ![l] = v]
           /\ (l[2] = 1 \/ pc[<<Of(l), l[2] - 1>>] # "none")
           /\ ~quiescing => v = "working"
<1>1. PICK l \in LegsOf(d) : Fresh(l) /\ Spawn(l, "working")
  BY DEF Relaunch
<1>2. l \in Legs /\ Of(l) = d
  BY DEF LegsOf
<1>3. QED
  BY <1>1, <1>2, SpawnLeg DEF Fresh

\* Park raises the card of the leg that ends there, and a new leg has none.
LEMMA CardAfterLegStep ==
  ASSUME StateTypes, TurnFacts, [Next]_vars
  PROVE  CardAfterLeg'
<1> USE DEF dbVars, legVars, askVars, procVars, ebbVars, laneVars, tellVars, TurnFacts, Open, Alive
<1>1. CASE UNCHANGED <<pc, card, step>>
  BY <1>1 DEF CardAfterLeg, Busy
<1>2. CASE GatewayParks
  BY <1>2, LegParts DEF StateTypes, CardAfterLeg, Busy, GatewayParks
<1>3. CASE StartGateway
  BY <1>3, LegParts DEF StateTypes, CardAfterLeg, Busy, StartGateway
<1>4. CASE StartUnresolved
  BY <1>4, LegParts DEF StateTypes, CardAfterLeg, Busy, StartUnresolved
<1>5. CASE ResumeNobody
  BY <1>5, LegParts DEF StateTypes, CardAfterLeg, Busy, ResumeNobody, AfterResume
<1>6. CASE Exit
  BY <1>6, LegParts DEF StateTypes, CardAfterLeg, Busy, Exit, Gone
<1>7. CASE Crash
  BY <1>7, LegParts DEF StateTypes, CardAfterLeg, Busy, Crash, Gone
<1>8. ASSUME NEW l \in Legs, Launch(l) PROVE CardAfterLeg'
  BY <1>8, LegParts DEF StateTypes, CardAfterLeg, Busy, Launch, Spawn
<1>9. ASSUME NEW l \in Legs, Park(l) PROVE CardAfterLeg'
  BY <1>9, LegParts DEF StateTypes, CardAfterLeg, Busy, Park, SequencedStatus
<1>10. ASSUME NEW l \in Legs, MarkParked(l) PROVE CardAfterLeg'
  BY <1>10, LegParts DEF StateTypes, CardAfterLeg, Busy, MarkParked
<1>11. ASSUME NEW l \in Legs, Return(l) PROVE CardAfterLeg'
  BY <1>11, LegParts DEF StateTypes, CardAfterLeg, Busy, Return
<1>12. ASSUME NEW l \in Legs, Finish(l) PROVE CardAfterLeg'
  BY <1>12, LegParts DEF StateTypes, CardAfterLeg, Busy, Finish
<1>13. ASSUME NEW l \in Legs, ScheduleCompletion(l) PROVE CardAfterLeg'
  BY <1>13, LegParts DEF StateTypes, CardAfterLeg, Busy, ScheduleCompletion
<1>14. ASSUME NEW l \in Legs, Leave(l) PROVE CardAfterLeg'
  BY <1>14, LegParts DEF StateTypes, CardAfterLeg, Busy, Leave
<1>15. ASSUME NEW c \in Cards, AnswerLate(c) PROVE CardAfterLeg'
  BY <1>15, LegParts DEF StateTypes, CardAfterLeg, Busy, AnswerLate, Claimable
<1>16. ASSUME NEW c \in Cards, PassOver(c) PROVE CardAfterLeg'
  BY <1>16, LegParts DEF StateTypes, CardAfterLeg, Busy, PassOver, Waiting, NextInLine
<1>17. ASSUME NEW c \in Cards, Resume(c) PROVE CardAfterLeg'
  <2>1. PICK l \in Legs, v \in {"gone", "working", "returned"} :
          Of(l) = Of(c) /\ pc[l] = "none" /\ pc' = [pc EXCEPT ![l] = v]
    BY <1>17, ResumeLeg
  <2>2. /\ step[c] # "none" /\ UNCHANGED card
        /\ \A k \in Legs : k # c => step'[k] = step[k]
    BY <1>17 DEF StateTypes, Resume, Resuming, Resumes, Cards
  <2>3. c \in Legs
    BY <1>17, ResumeLeg
  <2>4. ASSUME NEW k \in Legs, pc'[k] = "none" \/ Busy(k)'
        PROVE  card'[k] = "none" /\ step'[k] = "none"
    <3>1. pc[k] = "none" \/ Busy(k)
      BY <2>1, <2>4 DEF StateTypes, Busy
    <3>2. QED
      BY <2>2, <2>3, <3>1 DEF CardAfterLeg
  <2>5. QED
    BY <2>4 DEF CardAfterLeg
<1>18. ASSUME NEW c \in Cards, ResumeRemoved(c) PROVE CardAfterLeg'
  BY <1>18, LegParts DEF StateTypes, CardAfterLeg, Busy, ResumeRemoved, OneWayDoor, Resuming,
     Resumes, Owed
<1>19. ASSUME NEW c \in Cards, TellRemoved(c) PROVE CardAfterLeg'
  BY <1>19, LegParts DEF StateTypes, CardAfterLeg, Busy, TellRemoved, AfterResume, Owing,
     Scheduled, Owed
<1>20. ASSUME NEW c \in Cards, ReleaseNextCard(c) PROVE CardAfterLeg'
  BY <1>20, LegParts DEF StateTypes, CardAfterLeg, Busy, ReleaseNextCard, Promoted, Waiting,
     NextInLine
<1>21. ASSUME NEW c \in Cards, DrainApprovalQueue(c) PROVE CardAfterLeg'
  BY <1>21, LegParts DEF StateTypes, CardAfterLeg, Busy, DrainApprovalQueue, LetThrough, Waiting
<1>22. ASSUME NEW d \in Agents, CreateDelegation(d) PROVE CardAfterLeg'
  <2>1. pc[<<d, 1>>] = "none"
    BY <1>22, FirstLeg DEF StateTypes, CreateDelegation, LegAfterRow
  <2>2. QED
    BY <1>22, <2>1, FirstLeg DEF StateTypes, CardAfterLeg, Busy, CreateDelegation
<1>23. ASSUME NEW d \in Agents, ReleaseOrphanedParks(d) PROVE CardAfterLeg'
  BY <1>23, LegParts DEF StateTypes, CardAfterLeg, Busy, ReleaseOrphanedParks, Orphaned
<1>24. ASSUME NEW d \in Agents, ReleaseAtBoot(d) PROVE CardAfterLeg'
  BY <1>24, LegParts DEF StateTypes, CardAfterLeg, Busy, ReleaseAtBoot, Recovers, Orphaned
<1>25. ASSUME NEW d \in Agents, Relaunch(d) PROVE CardAfterLeg'
  <2>1. PICK l \in Legs, v \in {"gone", "working", "returned"} :
          Of(l) = d /\ pc[l] = "none" /\ pc' = [pc EXCEPT ![l] = v]
    BY <1>25, RelaunchLeg
  <2>2. QED
    BY <1>25, <2>1, LegParts DEF StateTypes, CardAfterLeg, Busy, Relaunch, Recovers
<1>26. ASSUME NEW c \in Cards, NEW decision \in {"approved", "rejected"},
              NEW everything \in BOOLEAN, Answer(c, decision, everything) PROVE CardAfterLeg'
  BY <1>26, LegParts DEF StateTypes, CardAfterLeg, Busy, Answer, Claimable
<1>27. QED
  BY <1>1, <1>2, <1>3, <1>4, <1>5, <1>6, <1>7, <1>8, <1>9, <1>10, <1>11, <1>12, <1>13, <1>14,
     <1>15, <1>16, <1>17, <1>18, <1>19, <1>20, <1>21, <1>22, <1>23, <1>24, <1>25, <1>26
  DEF Next, LegStep, CardStep, AgentStep, vars, Signal, BaseCancel, Quiesce, GraceRunsOut,
     Boot, Serve, LaneStep, DrainPops, PutBack, TurnSettles, TurnWaits, TurnParts, Deadline,
     Expire, CancelRunning, CancelParked, CountAttempt, Recovers, GiveUp, TellGivenUp,
     Scheduled

\* The row is written before the first leg, and never taken back.
LEMMA LegAfterRowStep ==
  ASSUME StateTypes, TurnFacts, [Next]_vars
  PROVE  LegAfterRow'
<1> USE DEF dbVars, legVars, askVars, procVars, ebbVars, laneVars, tellVars, TurnFacts, Open, Alive
<1>1. CASE UNCHANGED <<pc, del>>
  BY <1>1 DEF LegAfterRow
<1>2. CASE Exit
  BY <1>2, LegParts DEF StateTypes, LegAfterRow, Exit, Gone
<1>3. CASE Crash
  BY <1>3, LegParts DEF StateTypes, LegAfterRow, Crash, Gone
<1>4. ASSUME NEW l \in Legs, Launch(l) PROVE LegAfterRow'
  BY <1>4, LegParts DEF StateTypes, LegAfterRow, Launch, Spawn
<1>5. ASSUME NEW l \in Legs, Park(l) PROVE LegAfterRow'
  BY <1>5, LegParts DEF StateTypes, LegAfterRow, Park, SequencedStatus
<1>6. ASSUME NEW l \in Legs, MarkParked(l) PROVE LegAfterRow'
  BY <1>6, LegParts DEF StateTypes, LegAfterRow, MarkParked
<1>7. ASSUME NEW l \in Legs, Return(l) PROVE LegAfterRow'
  BY <1>7, LegParts DEF StateTypes, LegAfterRow, Return
<1>8. ASSUME NEW l \in Legs, Finish(l) PROVE LegAfterRow'
  <2>1. Verdicts(l) \subseteq Terminal
    BY DEF Verdicts, Terminal
  <2>2. \A d \in Agents : del[d] # "none" => del'[d] # "none"
    BY <1>8, <2>1 DEF StateTypes, Finish, OneWayDoor, Terminal
  <2>3. \A k \in Legs : pc'[k] # "none" => pc[k] # "none"
    BY <1>8 DEF StateTypes, Finish
  <2>4. QED
    BY <2>2, <2>3, LegParts DEF LegAfterRow
<1>9. ASSUME NEW l \in Legs, ScheduleCompletion(l) PROVE LegAfterRow'
  BY <1>9, LegParts DEF StateTypes, LegAfterRow, ScheduleCompletion
<1>10. ASSUME NEW l \in Legs, Leave(l) PROVE LegAfterRow'
  BY <1>10, LegParts DEF StateTypes, LegAfterRow, Leave
<1>11. ASSUME NEW c \in Cards, Resume(c) PROVE LegAfterRow'
  <2>1. PICK l \in Legs, v \in {"gone", "working", "returned"} :
          Of(l) = Of(c) /\ pc[l] = "none" /\ pc' = [pc EXCEPT ![l] = v]
    BY <1>11, ResumeLeg
  <2>2. c \in Legs /\ step[c] # "none" /\ UNCHANGED del
    BY <1>11, ResumeLeg DEF Resume, Resuming, Resumes
  <2>3. pc[c] # "none"
    BY <2>2 DEF CardAfterLeg
  <2>4. QED
    BY <2>1, <2>2, <2>3 DEF StateTypes, LegAfterRow
<1>12. ASSUME NEW c \in Cards, ResumeRemoved(c) PROVE LegAfterRow'
  BY <1>12, LegParts DEF StateTypes, LegAfterRow, ResumeRemoved, OneWayDoor
<1>13. ASSUME NEW d \in Agents, CreateDelegation(d) PROVE LegAfterRow'
  BY <1>13, LegParts, FirstLeg DEF StateTypes, LegAfterRow, CreateDelegation
<1>14. ASSUME NEW d \in Agents, CancelParked(d) PROVE LegAfterRow'
  BY <1>14, LegParts DEF StateTypes, LegAfterRow, CancelParked, OneWayDoor
<1>15. ASSUME NEW d \in Agents, GiveUp(d) PROVE LegAfterRow'
  BY <1>15, LegParts DEF StateTypes, LegAfterRow, GiveUp, Recovers
<1>16. ASSUME NEW d \in Agents, Relaunch(d) PROVE LegAfterRow'
  <2>1. PICK l \in Legs, v \in {"gone", "working", "returned"} :
          Of(l) = d /\ pc[l] = "none" /\ pc' = [pc EXCEPT ![l] = v]
    BY <1>16, RelaunchLeg
  <2>2. del[d] # "none" /\ UNCHANGED del
    BY <1>16 DEF Relaunch, Recovers, RowsRun
  <2>3. QED
    BY <2>1, <2>2, LegParts DEF StateTypes, LegAfterRow
<1>17. QED
  BY <1>1, <1>2, <1>3, <1>4, <1>5, <1>6, <1>7, <1>8, <1>9, <1>10, <1>11, <1>12, <1>13, <1>14,
     <1>15, <1>16
  DEF Next, LegStep, CardStep, AgentStep, vars, GatewayParks, StartGateway, StartUnresolved,
     ResumeNobody, Signal, BaseCancel, Quiesce, GraceRunsOut, Boot, Serve, LaneStep,
     DrainPops, PutBack, TurnSettles, TurnWaits, TurnParts, Deadline, Expire, AnswerLate,
     PassOver, TellRemoved, Scheduled, ReleaseNextCard, DrainApprovalQueue, CancelRunning,
     ReleaseOrphanedParks, CountAttempt, Recovers, ReleaseAtBoot, TellGivenUp, Answer

\* ClaimPark closes the card the request goes on with; ReopenPark is the Gateway's.
LEMMA AnsweredForGoodStep ==
  ASSUME StateTypes, TurnFacts, [Next]_vars
  PROVE  AnsweredForGood'
<1> USE DEF dbVars, legVars, askVars, procVars, ebbVars, laneVars, tellVars, TurnFacts, Open, Alive
<1>1. CASE UNCHANGED <<step, card>>
  BY <1>1 DEF AnsweredForGood
<1>2. CASE GatewayParks
  BY <1>2, LegParts DEF StateTypes, AnsweredForGood, GatewayParks
<1>3. CASE StartGateway
  BY <1>3, LegParts DEF StateTypes, AnsweredForGood, StartGateway, Starts
<1>4. CASE StartUnresolved
  BY <1>4, LegParts DEF StateTypes, AnsweredForGood, StartUnresolved
<1>5. CASE ResumeNobody
  BY <1>5, LegParts DEF StateTypes, AnsweredForGood, ResumeNobody, AfterResume
<1>6. CASE Exit
  BY <1>6, LegParts DEF StateTypes, AnsweredForGood, Exit, Gone
<1>7. CASE Crash
  BY <1>7, LegParts DEF StateTypes, AnsweredForGood, Crash, Gone
<1>8. ASSUME NEW l \in Legs, Park(l) PROVE AnsweredForGood'
  BY <1>8, LegParts DEF StateTypes, AnsweredForGood, Park, SequencedStatus, CardAfterLeg, Busy
<1>9. ASSUME NEW c \in Cards, AnswerLate(c) PROVE AnsweredForGood'
  BY <1>9, LegParts DEF StateTypes, AnsweredForGood, AnswerLate, Claimable
<1>10. ASSUME NEW c \in Cards, PassOver(c) PROVE AnsweredForGood'
  BY <1>10, LegParts DEF StateTypes, AnsweredForGood, PassOver, Waiting, NextInLine
<1>11. ASSUME NEW c \in Cards, Resume(c) PROVE AnsweredForGood'
  BY <1>11, LegParts DEF StateTypes, AnsweredForGood, Resume, Resuming, Resumes
<1>12. ASSUME NEW c \in Cards, ResumeRemoved(c) PROVE AnsweredForGood'
  BY <1>12, LegParts DEF StateTypes, AnsweredForGood, ResumeRemoved, Resuming, Resumes
<1>13. ASSUME NEW c \in Cards, TellRemoved(c) PROVE AnsweredForGood'
  BY <1>13, LegParts DEF StateTypes, AnsweredForGood, TellRemoved, Owing, Owed
<1>14. ASSUME NEW c \in Cards, ReleaseNextCard(c) PROVE AnsweredForGood'
  BY <1>14, LegParts DEF StateTypes, AnsweredForGood, ReleaseNextCard, Promoted, Waiting,
     NextInLine
<1>15. ASSUME NEW c \in Cards, DrainApprovalQueue(c) PROVE AnsweredForGood'
  BY <1>15, LegParts DEF StateTypes, AnsweredForGood, DrainApprovalQueue, LetThrough, Waiting
<1>16. ASSUME NEW d \in Agents, ReleaseOrphanedParks(d) PROVE AnsweredForGood'
  BY <1>16, LegParts DEF StateTypes, AnsweredForGood, ReleaseOrphanedParks, Orphaned
<1>17. ASSUME NEW d \in Agents, ReleaseAtBoot(d) PROVE AnsweredForGood'
  BY <1>17, LegParts DEF StateTypes, AnsweredForGood, ReleaseAtBoot, Recovers, Orphaned
<1>18. ASSUME NEW c \in Cards, NEW decision \in {"approved", "rejected"},
              NEW everything \in BOOLEAN, Answer(c, decision, everything) PROVE AnsweredForGood'
  BY <1>18, LegParts DEF StateTypes, AnsweredForGood, Answer, Claimable
<1>19. QED
  BY <1>1, <1>2, <1>3, <1>4, <1>5, <1>6, <1>7, <1>8, <1>9, <1>10, <1>11, <1>12, <1>13, <1>14,
     <1>15, <1>16, <1>17, <1>18
  DEF Next, LegStep, CardStep, AgentStep, vars, Signal, BaseCancel, Quiesce, GraceRunsOut,
     Boot, Serve, LaneStep, DrainPops, PutBack, TurnSettles, TurnWaits, TurnParts, Launch,
     MarkParked, Return, Deadline, Finish, ScheduleCompletion, Scheduled, Leave, Expire,
     CreateDelegation, CancelRunning, CancelParked, CountAttempt, Recovers, GiveUp, Relaunch,
     TellGivenUp

\* A request dies with its process, and none is served before the recovery is through.
LEMMA NothingAskedStep ==
  ASSUME StateTypes, TurnFacts, [Next]_vars
  PROVE  NothingAsked'
<1> USE DEF dbVars, legVars, askVars, procVars, ebbVars, laneVars, tellVars, TurnFacts
<1>1. CASE UNCHANGED <<proc, step>>
  BY <1>1 DEF NothingAsked
<1>2. CASE StartGateway
  BY <1>2 DEF StateTypes, NothingAsked, StartGateway, Starts, Cards
<1>3. CASE StartUnresolved
  BY <1>3 DEF StateTypes, NothingAsked, StartUnresolved, Starts, Cards
<1>4. CASE ResumeNobody
  BY <1>4 DEF StateTypes, NothingAsked, ResumeNobody, Resuming, Resumes, Cards
<1>5. CASE Signal
  BY <1>5, LegParts DEF StateTypes, NothingAsked, Signal
<1>6. CASE Exit
  BY <1>6, LegParts DEF StateTypes, NothingAsked, Exit, Gone
<1>7. CASE Crash
  BY <1>7, LegParts DEF StateTypes, NothingAsked, Crash, Gone
<1>8. CASE Boot
  BY <1>8, LegParts DEF StateTypes, NothingAsked, Boot, RunningRows
<1>9. CASE Serve
  BY <1>9, LegParts DEF StateTypes, NothingAsked, Serve
<1>10. ASSUME NEW c \in Cards, Resume(c) PROVE NothingAsked'
  BY <1>10 DEF StateTypes, NothingAsked, Resume, Resuming, Resumes
<1>11. ASSUME NEW c \in Cards, ResumeRemoved(c) PROVE NothingAsked'
  BY <1>11 DEF StateTypes, NothingAsked, ResumeRemoved, Resuming, Resumes
<1>12. ASSUME NEW c \in Cards, TellRemoved(c) PROVE NothingAsked'
  BY <1>12 DEF StateTypes, NothingAsked, TellRemoved, Owing, Owed
<1>13. ASSUME NEW c \in Cards, ReleaseNextCard(c) PROVE NothingAsked'
  BY <1>13 DEF StateTypes, NothingAsked, ReleaseNextCard
<1>14. ASSUME NEW c \in Cards, DrainApprovalQueue(c) PROVE NothingAsked'
  BY <1>14 DEF StateTypes, NothingAsked, DrainApprovalQueue
<1>15. ASSUME NEW c \in Cards, NEW decision \in {"approved", "rejected"},
              NEW everything \in BOOLEAN, Answer(c, decision, everything) PROVE NothingAsked'
  BY <1>15 DEF StateTypes, NothingAsked, Answer, Up
<1>16. QED
  BY <1>1, <1>2, <1>3, <1>4, <1>5, <1>6, <1>7, <1>8, <1>9, <1>10, <1>11, <1>12, <1>13, <1>14,
     <1>15
  DEF Next, LegStep, CardStep, AgentStep, vars, GatewayParks, BaseCancel, Quiesce,
     GraceRunsOut, LaneStep, DrainPops, PutBack, TurnSettles, TurnWaits, TurnParts, Launch,
     Park, MarkParked, Return, Deadline, Finish, ScheduleCompletion, Scheduled, Leave, Expire,
     AnswerLate, PassOver, CreateDelegation, CancelRunning, CancelParked,
     ReleaseOrphanedParks, CountAttempt, Recovers, GiveUp, ReleaseAtBoot, Relaunch,
     TellGivenUp

\* A goroutine dies with its process.
LEMMA NothingRunsStep ==
  ASSUME StateTypes, TurnFacts, [Next]_vars
  PROVE  NothingRuns'
<1> USE DEF dbVars, legVars, askVars, procVars, ebbVars, laneVars, tellVars, TurnFacts, Alive
<1>1. CASE UNCHANGED <<proc, pc>>
  BY <1>1 DEF NothingRuns
<1>2. CASE Signal
  BY <1>2, LegParts DEF StateTypes, NothingRuns, Signal
<1>3. CASE Exit
  BY <1>3, LegParts DEF StateTypes, NothingRuns, Exit, Gone
<1>4. CASE Crash
  BY <1>4, LegParts DEF StateTypes, NothingRuns, Crash, Gone
<1>5. CASE Boot
  BY <1>5, LegParts DEF StateTypes, NothingRuns, Boot, RunningRows
<1>6. CASE Serve
  BY <1>6, LegParts DEF StateTypes, NothingRuns, Serve
<1>7. ASSUME NEW l \in Legs, Launch(l) PROVE NothingRuns'
  BY <1>7, LegParts DEF StateTypes, NothingRuns, Launch, Spawn
<1>8. ASSUME NEW l \in Legs, Park(l) PROVE NothingRuns'
  BY <1>8, LegParts DEF StateTypes, NothingRuns, Park, SequencedStatus
<1>9. ASSUME NEW l \in Legs, MarkParked(l) PROVE NothingRuns'
  BY <1>9, LegParts DEF StateTypes, NothingRuns, MarkParked
<1>10. ASSUME NEW l \in Legs, Return(l) PROVE NothingRuns'
  BY <1>10, LegParts DEF StateTypes, NothingRuns, Return
<1>11. ASSUME NEW l \in Legs, Finish(l) PROVE NothingRuns'
  BY <1>11, LegParts DEF StateTypes, NothingRuns, Finish
<1>12. ASSUME NEW l \in Legs, ScheduleCompletion(l) PROVE NothingRuns'
  BY <1>12, LegParts DEF StateTypes, NothingRuns, ScheduleCompletion
<1>13. ASSUME NEW l \in Legs, Leave(l) PROVE NothingRuns'
  BY <1>13, LegParts DEF StateTypes, NothingRuns, Leave
<1>14. ASSUME NEW c \in Cards, Resume(c) PROVE NothingRuns'
  <2>1. PICK l \in Legs, v \in {"gone", "working", "returned"} :
          Of(l) = Of(c) /\ pc[l] = "none" /\ pc' = [pc EXCEPT ![l] = v]
    BY <1>14, ResumeLeg
  <2>2. proc # "down" /\ UNCHANGED proc
    BY <1>14 DEF StateTypes, NothingAsked, Resume, Resuming, Resumes
  <2>3. QED
    BY <2>2 DEF NothingRuns
<1>15. ASSUME NEW d \in Agents, CreateDelegation(d) PROVE NothingRuns'
  BY <1>15 DEF StateTypes, NothingRuns, CreateDelegation, Up
<1>16. ASSUME NEW d \in Agents, Relaunch(d) PROVE NothingRuns'
  BY <1>16 DEF NothingRuns, Relaunch, Recovers
<1>17. QED
  BY <1>1, <1>2, <1>3, <1>4, <1>5, <1>6, <1>7, <1>8, <1>9, <1>10, <1>11, <1>12, <1>13, <1>14,
     <1>15, <1>16
  DEF Next, LegStep, CardStep, AgentStep, vars, GatewayParks, StartGateway, StartUnresolved,
     ResumeNobody, BaseCancel, Quiesce, GraceRunsOut, LaneStep, DrainPops, PutBack,
     TurnSettles, TurnWaits, TurnParts, Deadline, Expire, AnswerLate, PassOver, ResumeRemoved,
     TellRemoved, Scheduled, ReleaseNextCard, DrainApprovalQueue, CancelRunning, CancelParked,
     ReleaseOrphanedParks, CountAttempt, Recovers, GiveUp, ReleaseAtBoot, TellGivenUp, Answer

\* Only a process that boots recovers.
LEMMA RecoveryBootsStep ==
  ASSUME StateTypes, TurnFacts, [Next]_vars
  PROVE  RecoveryBoots'
<1> USE DEF dbVars, legVars, askVars, procVars, ebbVars, laneVars, tellVars, TurnFacts
<1>1. CASE UNCHANGED <<proc, recovery>>
  BY <1>1 DEF RecoveryBoots
<1>2. CASE Signal
  BY <1>2, LegParts DEF StateTypes, RecoveryBoots, Signal
<1>3. CASE Exit
  BY <1>3, LegParts DEF StateTypes, RecoveryBoots, Exit, Gone
<1>4. CASE Crash
  BY <1>4, LegParts DEF StateTypes, RecoveryBoots, Crash, Gone
<1>5. CASE Boot
  BY <1>5, LegParts DEF StateTypes, RecoveryBoots, Boot, RunningRows
<1>6. CASE Serve
  BY <1>6, LegParts DEF StateTypes, RecoveryBoots, Serve
<1>7. ASSUME NEW d \in Agents, CountAttempt(d) PROVE RecoveryBoots'
  BY <1>7, LegParts DEF StateTypes, RecoveryBoots, CountAttempt, Recovers
<1>8. ASSUME NEW d \in Agents, GiveUp(d) PROVE RecoveryBoots'
  BY <1>8, LegParts DEF StateTypes, RecoveryBoots, GiveUp, Recovers
<1>9. ASSUME NEW d \in Agents, ReleaseAtBoot(d) PROVE RecoveryBoots'
  BY <1>9, LegParts DEF StateTypes, RecoveryBoots, ReleaseAtBoot, Recovers, Orphaned
<1>10. ASSUME NEW d \in Agents, Relaunch(d) PROVE RecoveryBoots'
  BY <1>10, LegParts DEF StateTypes, RecoveryBoots, Relaunch, Recovers
<1>11. ASSUME NEW d \in Agents, TellGivenUp(d) PROVE RecoveryBoots'
  BY <1>11 DEF RecoveryBoots, TellGivenUp, Recovers
<1>12. QED
  BY <1>1, <1>2, <1>3, <1>4, <1>5, <1>6, <1>7, <1>8, <1>9, <1>10, <1>11
  DEF Next, LegStep, CardStep, AgentStep, vars, GatewayParks, StartGateway, StartUnresolved,
     ResumeNobody, BaseCancel, Quiesce, GraceRunsOut, LaneStep, DrainPops, PutBack,
     TurnSettles, TurnWaits, TurnParts, Launch, Park, MarkParked, Return, Deadline, Finish,
     ScheduleCompletion, Scheduled, Leave, Expire, AnswerLate, PassOver, Resume,
     ResumeRemoved, TellRemoved, ReleaseNextCard, DrainApprovalQueue, CreateDelegation,
     CancelRunning, CancelParked, ReleaseOrphanedParks, Answer

\* Recovery takes a row off its list as it launches it.
LEMMA RowsAloneStep ==
  ASSUME StateTypes, TurnFacts, [Next]_vars
  PROVE  RowsAlone'
<1> USE DEF dbVars, legVars, askVars, procVars, ebbVars, laneVars, tellVars, TurnFacts, Alive
<1>1. CASE UNCHANGED <<pc, recovery>>
  BY <1>1 DEF RowsAlone
<1>2. CASE Exit
  BY <1>2, LegParts DEF StateTypes, RowsAlone, Exit, Gone
<1>3. CASE Crash
  BY <1>3, LegParts DEF StateTypes, RowsAlone, Crash, Gone
<1>4. CASE Boot
  BY <1>4, LegParts DEF StateTypes, RowsAlone, Boot, RunningRows, NothingRuns
<1>5. ASSUME NEW l \in Legs, Launch(l) PROVE RowsAlone'
  BY <1>5, LegParts DEF StateTypes, RowsAlone, Launch, Spawn
<1>6. ASSUME NEW l \in Legs, Park(l) PROVE RowsAlone'
  BY <1>6, LegParts DEF StateTypes, RowsAlone, Park, SequencedStatus
<1>7. ASSUME NEW l \in Legs, MarkParked(l) PROVE RowsAlone'
  BY <1>7, LegParts DEF StateTypes, RowsAlone, MarkParked
<1>8. ASSUME NEW l \in Legs, Return(l) PROVE RowsAlone'
  BY <1>8, LegParts DEF StateTypes, RowsAlone, Return
<1>9. ASSUME NEW l \in Legs, Finish(l) PROVE RowsAlone'
  BY <1>9, LegParts DEF StateTypes, RowsAlone, Finish
<1>10. ASSUME NEW l \in Legs, ScheduleCompletion(l) PROVE RowsAlone'
  BY <1>10, LegParts DEF StateTypes, RowsAlone, ScheduleCompletion
<1>11. ASSUME NEW l \in Legs, Leave(l) PROVE RowsAlone'
  BY <1>11, LegParts DEF StateTypes, RowsAlone, Leave
<1>12. ASSUME NEW c \in Cards, Resume(c) PROVE RowsAlone'
  <2>1. PICK l \in Legs, v \in {"gone", "working", "returned"} :
          Of(l) = Of(c) /\ pc[l] = "none" /\ pc' = [pc EXCEPT ![l] = v]
    BY <1>12, ResumeLeg
  <2>2. proc # "booting" /\ UNCHANGED recovery
    BY <1>12 DEF StateTypes, NothingAsked, Resume, Resuming, Resumes
  <2>3. QED
    BY <2>2, LegParts DEF RowsAlone, RecoveryBoots
<1>13. ASSUME NEW d \in Agents, CreateDelegation(d) PROVE RowsAlone'
  <2>1. proc # "booting" /\ UNCHANGED recovery
    BY <1>13 DEF StateTypes, CreateDelegation, Up
  <2>2. QED
    BY <2>1, LegParts DEF RowsAlone, RecoveryBoots
<1>14. ASSUME NEW d \in Agents, CountAttempt(d) PROVE RowsAlone'
  BY <1>14, LegParts DEF StateTypes, RowsAlone, CountAttempt, Recovers
<1>15. ASSUME NEW d \in Agents, GiveUp(d) PROVE RowsAlone'
  BY <1>15, LegParts DEF StateTypes, RowsAlone, GiveUp, Recovers
<1>16. ASSUME NEW d \in Agents, ReleaseAtBoot(d) PROVE RowsAlone'
  BY <1>16, LegParts DEF StateTypes, RowsAlone, ReleaseAtBoot, Recovers, Orphaned
<1>17. ASSUME NEW d \in Agents, Relaunch(d) PROVE RowsAlone'
  <2>1. PICK l \in Legs, v \in {"gone", "working", "returned"} :
          Of(l) = d /\ pc[l] = "none" /\ pc' = [pc EXCEPT ![l] = v]
    BY <1>17, RelaunchLeg
  <2>2. recovery' = [recovery EXCEPT ![d] = "none"]
    BY <1>17 DEF Relaunch, Recovers
  <2>3. QED
    BY <2>1, <2>2, LegParts DEF StateTypes, RowsAlone
<1>18. ASSUME NEW d \in Agents, TellGivenUp(d) PROVE RowsAlone'
  BY <1>18, LegParts DEF StateTypes, RowsAlone, TellGivenUp, Recovers
<1>19. QED
  BY <1>1, <1>2, <1>3, <1>4, <1>5, <1>6, <1>7, <1>8, <1>9, <1>10, <1>11, <1>12, <1>13, <1>14,
     <1>15, <1>16, <1>17, <1>18
  DEF Next, LegStep, CardStep, AgentStep, vars, GatewayParks, StartGateway, StartUnresolved,
     ResumeNobody, Signal, BaseCancel, Quiesce, GraceRunsOut, Serve, LaneStep, DrainPops,
     PutBack, TurnSettles, TurnWaits, TurnParts, Deadline, Expire, AnswerLate, PassOver,
     ResumeRemoved, TellRemoved, Scheduled, ReleaseNextCard, DrainApprovalQueue,
     CancelRunning, CancelParked, ReleaseOrphanedParks, Answer

\* Nobody but recovery settles a row it is still to see through.
LEMMA RowsRunStep ==
  ASSUME StateTypes, TurnFacts, [Next]_vars
  PROVE  RowsRun'
<1> USE DEF dbVars, legVars, askVars, procVars, ebbVars, laneVars, tellVars, TurnFacts
<1>1. CASE UNCHANGED <<recovery, del>>
  BY <1>1 DEF RowsRun
<1>2. CASE Exit
  BY <1>2, LegParts DEF StateTypes, RowsRun, Exit, Gone
<1>3. CASE Crash
  BY <1>3, LegParts DEF StateTypes, RowsRun, Crash, Gone
<1>4. CASE Boot
  BY <1>4, LegParts DEF StateTypes, RowsRun, Boot, RunningRows
<1>5. ASSUME NEW l \in Legs, Finish(l) PROVE RowsRun'
  <2>1. \A d \in Agents : d # Of(l) => del'[d] = del[d]
    BY <1>5, LegParts DEF StateTypes, Finish
  <2>2. recovery[Of(l)] = "none" /\ UNCHANGED recovery
    BY <1>5 DEF StateTypes, Finish, RowsAlone, Alive
  <2>3. QED
    BY <2>1, <2>2 DEF StateTypes, RowsRun
<1>6. ASSUME NEW c \in Cards, ResumeRemoved(c) PROVE RowsRun'
  BY <1>6 DEF StateTypes, RowsRun, ResumeRemoved, Resuming, Resumes, NothingAsked, RecoveryBoots
<1>7. ASSUME NEW d \in Agents, CreateDelegation(d) PROVE RowsRun'
  BY <1>7 DEF StateTypes, RowsRun, CreateDelegation, Up, RecoveryBoots
<1>8. ASSUME NEW d \in Agents, CancelParked(d) PROVE RowsRun'
  BY <1>8 DEF StateTypes, RowsRun, CancelParked, Up, RecoveryBoots
<1>9. ASSUME NEW d \in Agents, CountAttempt(d) PROVE RowsRun'
  BY <1>9 DEF StateTypes, RowsRun, CountAttempt, Recovers
<1>10. ASSUME NEW d \in Agents, GiveUp(d) PROVE RowsRun'
  BY <1>10 DEF StateTypes, RowsRun, GiveUp, Recovers
<1>11. ASSUME NEW d \in Agents, ReleaseAtBoot(d) PROVE RowsRun'
  BY <1>11 DEF StateTypes, RowsRun, ReleaseAtBoot, Recovers
<1>12. ASSUME NEW d \in Agents, Relaunch(d) PROVE RowsRun'
  BY <1>12 DEF StateTypes, RowsRun, Relaunch, Recovers
<1>13. ASSUME NEW d \in Agents, TellGivenUp(d) PROVE RowsRun'
  BY <1>13 DEF StateTypes, RowsRun, TellGivenUp, Recovers
<1>14. QED
  BY <1>1, <1>2, <1>3, <1>4, <1>5, <1>6, <1>7, <1>8, <1>9, <1>10, <1>11, <1>12, <1>13
  DEF Next, LegStep, CardStep, AgentStep, vars, GatewayParks, StartGateway, StartUnresolved,
     ResumeNobody, Signal, BaseCancel, Quiesce, GraceRunsOut, Serve, LaneStep, DrainPops,
     PutBack, TurnSettles, TurnWaits, TurnParts, Launch, Park, MarkParked, Return, Deadline,
     ScheduleCompletion, Scheduled, Leave, Expire, AnswerLate, PassOver, Resume, TellRemoved,
     ReleaseNextCard, DrainApprovalQueue, CancelRunning, ReleaseOrphanedParks, Answer

\* Nobody puts up a card of a row recovery has released the cards of.
LEMMA RowsBareStep ==
  ASSUME StateTypes, TurnFacts, [Next]_vars
  PROVE  RowsBare'
<1> USE DEF dbVars, legVars, askVars, procVars, ebbVars, laneVars, tellVars, TurnFacts, Open
<1>1. CASE UNCHANGED <<card, recovery, late>>
  BY <1>1 DEF RowsBare
<1>2. CASE GatewayParks
  BY <1>2, LegParts DEF StateTypes, RowsBare, GatewayParks
<1>3. CASE StartGateway
  BY <1>3, LegParts DEF StateTypes, RowsBare, StartGateway
<1>4. CASE Exit
  BY <1>4, LegParts DEF StateTypes, RowsBare, Exit, Gone
<1>5. CASE Crash
  BY <1>5, LegParts DEF StateTypes, RowsBare, Crash, Gone
<1>6. CASE Boot
  BY <1>6, LegParts DEF StateTypes, RowsBare, Boot, RunningRows
<1>7. ASSUME NEW l \in Legs, Park(l) PROVE RowsBare'
  <2>1. recovery[Of(l)] = "none"
    BY <1>7, LegParts DEF StateTypes, Park, RowsAlone, Alive
  <2>2. QED
    BY <1>7, <2>1, LegParts DEF StateTypes, RowsBare, Park
<1>8. ASSUME NEW c \in Cards, Expire(c) PROVE RowsBare'
  BY <1>8, LegParts DEF StateTypes, RowsBare, Expire
<1>9. ASSUME NEW c \in Cards, AnswerLate(c) PROVE RowsBare'
  <2>1. proc # "booting" /\ UNCHANGED recovery
    BY <1>9 DEF StateTypes, AnswerLate, Up
  <2>2. QED
    BY <2>1, LegParts DEF RowsBare, RecoveryBoots
<1>10. ASSUME NEW c \in Cards, PassOver(c) PROVE RowsBare'
  <2>1. proc # "booting" /\ UNCHANGED recovery
    BY <1>10 DEF StateTypes, PassOver, Up
  <2>2. QED
    BY <2>1, LegParts DEF RowsBare, RecoveryBoots
<1>11. ASSUME NEW c \in Cards, ReleaseNextCard(c) PROVE RowsBare'
  <2>1. proc # "booting" /\ UNCHANGED recovery
    BY <1>11 DEF StateTypes, ReleaseNextCard, NothingAsked
  <2>2. QED
    BY <2>1, LegParts DEF RowsBare, RecoveryBoots
<1>12. ASSUME NEW c \in Cards, DrainApprovalQueue(c) PROVE RowsBare'
  <2>1. proc # "booting" /\ UNCHANGED recovery
    BY <1>12 DEF StateTypes, DrainApprovalQueue, NothingAsked
  <2>2. QED
    BY <2>1, LegParts DEF RowsBare, RecoveryBoots
<1>13. ASSUME NEW d \in Agents, ReleaseOrphanedParks(d) PROVE RowsBare'
  BY <1>13, LegParts DEF StateTypes, RowsBare, ReleaseOrphanedParks, Orphaned
<1>14. ASSUME NEW d \in Agents, CountAttempt(d) PROVE RowsBare'
  BY <1>14, LegParts DEF StateTypes, RowsBare, CountAttempt, Recovers
<1>15. ASSUME NEW d \in Agents, GiveUp(d) PROVE RowsBare'
  BY <1>15, LegParts DEF StateTypes, RowsBare, GiveUp, Recovers
<1>16. ASSUME NEW d \in Agents, ReleaseAtBoot(d) PROVE RowsBare'
  <2>1. \A l \in Legs : Of(l) = d /\ card'[l] \in Open => l \in late'
    BY <1>16, LegParts DEF StateTypes, ReleaseAtBoot, Recovers, Orphaned, LegsOf
  <2>2. \A l \in Legs : Of(l) # d => card'[l] = card[l] /\ recovery'[Of(l)] = recovery[Of(l)]
    BY <1>16, LegParts DEF StateTypes, ReleaseAtBoot, Recovers, Orphaned, LegsOf
  <2>3. UNCHANGED late
    BY <1>16 DEF ReleaseAtBoot, Recovers
  <2>4. QED
    BY <2>1, <2>2, <2>3 DEF RowsBare
<1>17. ASSUME NEW d \in Agents, Relaunch(d) PROVE RowsBare'
  BY <1>17, LegParts DEF StateTypes, RowsBare, Relaunch, Recovers
<1>18. ASSUME NEW d \in Agents, TellGivenUp(d) PROVE RowsBare'
  BY <1>18, LegParts DEF StateTypes, RowsBare, TellGivenUp, Recovers
<1>19. ASSUME NEW c \in Cards, NEW decision \in {"approved", "rejected"},
              NEW everything \in BOOLEAN, Answer(c, decision, everything) PROVE RowsBare'
  <2>1. proc # "booting" /\ UNCHANGED recovery
    BY <1>19 DEF StateTypes, Answer, Up
  <2>2. QED
    BY <2>1, LegParts DEF RowsBare, RecoveryBoots
<1>20. QED
  BY <1>1, <1>2, <1>3, <1>4, <1>5, <1>6, <1>7, <1>8, <1>9, <1>10, <1>11, <1>12, <1>13, <1>14,
     <1>15, <1>16, <1>17, <1>18, <1>19
  DEF Next, LegStep, CardStep, AgentStep, vars, StartUnresolved, ResumeNobody, Signal,
     BaseCancel, Quiesce, GraceRunsOut, Serve, LaneStep, DrainPops, PutBack, TurnSettles,
     TurnWaits, TurnParts, Launch, MarkParked, Return, Deadline, Finish, ScheduleCompletion,
     Scheduled, Leave, Resume, ResumeRemoved, TellRemoved, CreateDelegation, CancelRunning,
     CancelParked

\* Nobody comes to a turn but the leg that starts: the turn is handed on, from a leg to the
\* card it raises, from the card to its answer, and by nobody else.
LEMMA NoNewTurn ==
  ASSUME StateTypes, TurnFacts, [Next]_vars, \A c \in Cards : ~Resume(c),
         \A d \in Agents : ~CreateDelegation(d) /\ ~Relaunch(d)
  PROVE  \A k \in Legs : Turn(k)' => Turn(k)
<1> USE DEF dbVars, legVars, askVars, procVars, ebbVars, laneVars, tellVars, TurnFacts, Open
<1>1. CASE UNCHANGED <<pc, card, late, step>>
  BY <1>1 DEF Turn, Busy, Resuming, Owing
<1>2. CASE GatewayParks
  BY <1>2, LegParts DEF StateTypes, Turn, Busy, Resuming, Owing, GatewayParks
<1>3. CASE StartGateway
  BY <1>3, LegParts DEF StateTypes, Turn, Busy, Resuming, Owing, StartGateway
<1>4. CASE StartUnresolved
  BY <1>4, LegParts DEF StateTypes, Turn, Busy, Resuming, Owing, StartUnresolved
<1>5. CASE ResumeNobody
  BY <1>5, LegParts DEF StateTypes, Turn, Busy, Resuming, Owing, ResumeNobody
<1>6. CASE Exit
  BY <1>6, LegParts DEF StateTypes, Turn, Busy, Resuming, Owing, Exit, Gone, Resumes, Owed,
     Alive
<1>7. CASE Crash
  BY <1>7, LegParts DEF StateTypes, Turn, Busy, Resuming, Owing, Crash, Gone, Resumes, Owed,
     Alive
<1>8. ASSUME NEW l \in Legs, Launch(l) PROVE \A k \in Legs : Turn(k)' => Turn(k)
  BY <1>8, LegParts DEF StateTypes, Turn, Busy, Resuming, Owing, Launch, Spawn
<1>9. ASSUME NEW l \in Legs, Park(l) PROVE \A k \in Legs : Turn(k)' => Turn(k)
  BY <1>9, LegParts DEF StateTypes, Turn, Busy, Resuming, Owing, Park, CardAfterLeg, Open
<1>10. ASSUME NEW l \in Legs, MarkParked(l) PROVE \A k \in Legs : Turn(k)' => Turn(k)
  BY <1>10, LegParts DEF StateTypes, Turn, Busy, Resuming, Owing, MarkParked
<1>11. ASSUME NEW l \in Legs, Return(l) PROVE \A k \in Legs : Turn(k)' => Turn(k)
  BY <1>11, LegParts DEF StateTypes, Turn, Busy, Resuming, Owing, Return
<1>12. ASSUME NEW l \in Legs, Finish(l) PROVE \A k \in Legs : Turn(k)' => Turn(k)
  BY <1>12, LegParts DEF StateTypes, Turn, Busy, Resuming, Owing, Finish
<1>13. ASSUME NEW l \in Legs, ScheduleCompletion(l) PROVE \A k \in Legs : Turn(k)' => Turn(k)
  BY <1>13, LegParts DEF StateTypes, Turn, Busy, Resuming, Owing, ScheduleCompletion
<1>14. ASSUME NEW l \in Legs, Leave(l) PROVE \A k \in Legs : Turn(k)' => Turn(k)
  BY <1>14, LegParts DEF StateTypes, Turn, Busy, Resuming, Owing, Leave
<1>15. ASSUME NEW c \in Cards, Expire(c) PROVE \A k \in Legs : Turn(k)' => Turn(k)
  BY <1>15, LegParts DEF StateTypes, Turn, Busy, Resuming, Owing, Expire
<1>16. ASSUME NEW c \in Cards, AnswerLate(c) PROVE \A k \in Legs : Turn(k)' => Turn(k)
  BY <1>16, LegParts DEF StateTypes, Turn, Busy, Resuming, Owing, AnswerLate, Claimable
<1>17. ASSUME NEW c \in Cards, PassOver(c) PROVE \A k \in Legs : Turn(k)' => Turn(k)
  BY <1>17, LegParts DEF StateTypes, Turn, Busy, Resuming, Owing, PassOver, Waiting, NextInLine
<1>18. ASSUME NEW c \in Cards, ResumeRemoved(c) PROVE \A k \in Legs : Turn(k)' => Turn(k)
  BY <1>18, LegParts DEF StateTypes, Turn, Busy, Resuming, Owing, ResumeRemoved
<1>19. ASSUME NEW c \in Cards, TellRemoved(c) PROVE \A k \in Legs : Turn(k)' => Turn(k)
  BY <1>19, LegParts DEF StateTypes, Turn, Busy, Resuming, Owing, TellRemoved, AfterResume,
     Resumes, Owed
<1>20. ASSUME NEW c \in Cards, ReleaseNextCard(c) PROVE \A k \in Legs : Turn(k)' => Turn(k)
  BY <1>20, LegParts DEF StateTypes, Turn, Busy, Resuming, Owing, ReleaseNextCard, Promoted,
     Waiting, NextInLine, Open, Resumes, Owed
<1>21. ASSUME NEW c \in Cards, DrainApprovalQueue(c) PROVE \A k \in Legs : Turn(k)' => Turn(k)
  <2>1. ASSUME NEW k \in Legs, Turn(k)' PROVE Turn(k)
    <3>1. CASE LetThrough(k)
      BY <3>1 DEF LetThrough, Waiting, Turn, Open
    <3>2. CASE ~LetThrough(k)
      <4>1. step'[k] \in {"none", step[k]} /\ UNCHANGED <<pc, late>>
        BY <1>21, <3>2, LegParts DEF DrainApprovalQueue
      <4>2. card'[k] \in Open => card[k] \in Open
        BY <1>21, LegParts DEF DrainApprovalQueue, Open
      <4>3. QED
        BY <2>1, <4>1, <4>2 DEF Turn, Busy, Resuming, Owing, Resumes, Owed
    <3>3. QED
      BY <3>1, <3>2
  <2>2. QED
    BY <2>1
<1>22. ASSUME NEW d \in Agents, ReleaseOrphanedParks(d) PROVE \A k \in Legs : Turn(k)' => Turn(k)
  BY <1>22, LegParts DEF StateTypes, Turn, Busy, Resuming, Owing, ReleaseOrphanedParks, Orphaned
<1>23. ASSUME NEW d \in Agents, ReleaseAtBoot(d) PROVE \A k \in Legs : Turn(k)' => Turn(k)
  BY <1>23, LegParts DEF StateTypes, Turn, Busy, Resuming, Owing, ReleaseAtBoot, Recovers,
     Orphaned
<1>24. ASSUME NEW c \in Cards, NEW decision \in {"approved", "rejected"},
              NEW everything \in BOOLEAN, Answer(c, decision, everything) PROVE \A k \in Legs : Turn(k)' => Turn(k)
  <2>1. ASSUME NEW k \in Legs, Turn(k)' PROVE Turn(k)
    <3>1. CASE k = c
      BY <1>24, <3>1 DEF Answer, Claimable, Turn
    <3>2. CASE k # c
      <4>1. step'[k] = step[k] /\ card'[k] = card[k] /\ UNCHANGED <<pc, late>>
        BY <1>24, <3>2, LegParts DEF StateTypes, Answer
      <4>2. QED
        BY <2>1, <4>1 DEF Turn, Busy, Resuming, Owing
    <3>3. QED
      BY <3>1, <3>2
  <2>2. QED
    BY <2>1
<1>25. QED
  BY <1>1, <1>2, <1>3, <1>4, <1>5, <1>6, <1>7, <1>8, <1>9, <1>10, <1>11, <1>12, <1>13, <1>14,
     <1>15, <1>16, <1>17, <1>18, <1>19, <1>20, <1>21, <1>22, <1>23, <1>24
  DEF Next, LegStep, CardStep, AgentStep, vars, Signal, BaseCancel, Quiesce, GraceRunsOut,
     Boot, Serve, LaneStep, DrainPops, PutBack, TurnSettles, TurnWaits, TurnParts, Deadline,
     CancelRunning, CancelParked, CountAttempt, Recovers, GiveUp, TellGivenUp, Scheduled

\* ResumeDetached hands it from the answer to the next leg, ...
LEMMA ResumeHandsOn ==
  ASSUME StateTypes, TurnFacts, NEW c \in Cards, Resume(c)
  PROVE  /\ c \in Legs /\ Turn(c)
         /\ \E l \in Legs : /\ Of(l) = Of(c)
                            /\ \A k \in Legs : Turn(k)' /\ k # l => Turn(k) /\ Of(k) # Of(l)
<1> USE DEF dbVars, legVars, askVars, procVars, ebbVars, laneVars, tellVars, TurnFacts
<1>1. PICK l \in Legs, v \in {"gone", "working", "returned"} :
        Of(l) = Of(c) /\ pc[l] = "none" /\ pc' = [pc EXCEPT ![l] = v]
  BY ResumeLeg
<1>2. c \in Legs /\ Resuming(c) /\ Turn(c)
  BY ResumeLeg DEF Resume, Turn
<1>3. ~Turn(c)'
  <2>1. ~Busy(c)' /\ card'[c] \notin Open
    BY <1>1, <1>2 DEF StateTypes, Resume, Resuming, Resumes, Busy, CardAfterLeg, AnsweredForGood
  <2>2. ~Resuming(c)' /\ ~Owing(c)'
    BY DEF StateTypes, Resume, Resuming, Owing, AfterResume, Resumes, Owed
  <2>3. QED
    BY <2>1, <2>2 DEF Turn
<1>4. ASSUME NEW k \in Legs, Turn(k)', k # l
      PROVE  Turn(k) /\ k # c
  <2>1. k # c
    BY <1>3, <1>4
  <2>2. pc'[k] = pc[k] /\ step'[k] = step[k] /\ UNCHANGED <<card, late>>
    BY <1>1, <1>4, <2>1 DEF StateTypes, Resume, Cards
  <2>3. QED
    BY <1>4, <2>1, <2>2 DEF Turn, Busy, Resuming, Owing
<1>5. \A k \in Legs : Turn(k)' /\ k # l => Turn(k) /\ Of(k) # Of(l)
  BY <1>1, <1>2, <1>4 DEF OneTurn
<1>6. QED
  BY <1>1, <1>2, <1>5

\* ... CreateDelegation finds nobody, ...
LEMMA CreateFindsNobody ==
  ASSUME StateTypes, TurnFacts, NEW d \in Agents, CreateDelegation(d)
  PROVE  \E l \in Legs : Of(l) = d /\ \A k \in Legs : Turn(k)' /\ k # l => Turn(k) /\ Of(k) # d
<1> USE DEF dbVars, legVars, askVars, procVars, ebbVars, laneVars, tellVars, TurnFacts
<1>1. \A k \in Legs : Of(k) = d => pc[k] = "none" /\ ~Turn(k)
  BY DEF CreateDelegation, LegAfterRow, CardAfterLeg, Turn, Busy, Resuming, Owing, Open,
     Resumes, Owed
<1>2. <<d, 1>> \in Legs /\ Of(<<d, 1>>) = d
  BY FirstLeg
<1>3. \A k \in Legs : Turn(k)' /\ k # <<d, 1>> => Turn(k)
  BY <1>2 DEF StateTypes, CreateDelegation, Turn, Busy, Resuming, Owing
<1>4. QED
  BY <1>1, <1>2, <1>3

\* ... and recovery has released the cards of a row before it launches it.
LEMMA RelaunchFindsNobody ==
  ASSUME StateTypes, TurnFacts, NEW d \in Agents, Relaunch(d)
  PROVE  \E l \in Legs : Of(l) = d /\ \A k \in Legs : Turn(k)' /\ k # l => Turn(k) /\ Of(k) # d
<1> USE DEF dbVars, legVars, askVars, procVars, ebbVars, laneVars, tellVars, TurnFacts
<1>1. PICK l \in Legs, v \in {"gone", "working", "returned"} :
        Of(l) = d /\ pc[l] = "none" /\ pc' = [pc EXCEPT ![l] = v]
  BY RelaunchLeg
<1>2. \A k \in Legs : k # l => pc'[k] = pc[k]
  BY <1>1 DEF StateTypes
<1>3. UNCHANGED <<card, late, step>> /\ proc = "booting" /\ recovery[d] = "cleared"
  BY DEF Relaunch, Recovers
<1>4. \A k \in Legs : ~Resuming(k)' /\ ~Owing(k)'
  BY <1>3, LegParts DEF NothingAsked, Resuming, Owing, Resumes, Owed
<1>5. \A k \in Legs : Of(k) = d => ~(card[k] \in Open /\ k \notin late)
  BY <1>3 DEF RowsBare
<1>6. \A k \in Legs : k # l /\ Of(k) = d => ~Busy(k)'
  BY <1>2, <1>3 DEF RowsAlone, Busy, Alive
<1>7. \A k \in Legs : Turn(k)' /\ k # l => Turn(k) /\ Of(k) # d
  BY <1>2, <1>3, <1>4, <1>5, <1>6 DEF Turn, Busy
<1>8. QED
  BY <1>1, <1>7

\* So the turn is never shared.
LEMMA OneTurnStep ==
  ASSUME StateTypes, TurnFacts, [Next]_vars
  PROVE  OneTurn'
<1>1. OneTurn
  BY DEF TurnFacts
<1>2. ASSUME NEW c \in Cards, Resume(c) PROVE OneTurn'
  BY <1>1, <1>2, ResumeHandsOn DEF OneTurn
<1>3. ASSUME NEW d \in Agents, CreateDelegation(d) \/ Relaunch(d) PROVE OneTurn'
  BY <1>1, <1>3, CreateFindsNobody, RelaunchFindsNobody DEF OneTurn
<1>4. CASE (\A c \in Cards : ~Resume(c)) /\ \A d \in Agents : ~CreateDelegation(d) /\ ~Relaunch(d)
  BY <1>1, <1>4, NoNewTurn DEF OneTurn
<1>5. QED
  BY <1>2, <1>3, <1>4

\* At first nobody has a turn.
LEMMA TurnInit == Init => TurnFacts
<1> SUFFICES ASSUME Init PROVE TurnFacts
  OBVIOUS
<1>1. /\ \A l \in Legs : pc[l] = "none"
      /\ \A c \in Cards : card[c] = "none" /\ step[c] = "none"
      /\ \A d \in Agents : recovery[d] = "none"
      /\ proc = "up"
  BY DEF Init
<1>2. CardAfterLeg /\ LegAfterRow /\ AnsweredForGood
  BY <1>1, LegParts DEF CardAfterLeg, LegAfterRow, AnsweredForGood, Open
<1>3. NothingAsked /\ NothingRuns /\ RecoveryBoots /\ RowsAlone /\ RowsRun /\ RowsBare
  BY <1>1, LegParts DEF NothingAsked, NothingRuns, RecoveryBoots, RowsAlone, RowsRun, RowsBare
<1>4. \A l \in Legs : ~Turn(l)
  BY <1>1, LegParts DEF Turn, Busy, Resuming, Owing, Open, Resumes, Owed
<1>5. QED
  BY <1>2, <1>3, <1>4 DEF TurnFacts, OneTurn

\* TurnFacts is inductive.
LEMMA TurnStep ==
  ASSUME StateTypes, TurnFacts, [Next]_vars
  PROVE  TurnFacts'
BY CardAfterLegStep, LegAfterRowStep, AnsweredForGoodStep, NothingAskedStep, NothingRunsStep,
   RecoveryBootsStep, RowsAloneStep, RowsRunStep, RowsBareStep, OneTurnStep DEF TurnFacts

\* Both inductive invariants hold in every state.
THEOREM BackgroundInvariant == Spec => [](TypeOK /\ TurnFacts)
<1>1. Init => TypeOK /\ TurnFacts
  BY TypeInit, TurnInit
<1>2. TypeOK /\ TurnFacts /\ [Next]_vars => (TypeOK /\ TurnFacts)'
  BY TypeStep, TurnStep, TypeParts
<1>3. QED
  BY <1>1, <1>2, PTL DEF Spec

\* OneLegWorks: of one delegation at most one leg is inside RunBackgroundAgent or finish,
\* whatever is clicked, passed over, cancelled or restarted.
THEOREM OneLegWorksHolds == Spec => []OneLegWorks
<1>1. TurnFacts => OneLegWorks
  BY DEF TurnFacts, OneTurn, Turn, Busy, OneLegWorks, Working
<1>2. QED
  BY <1>1, BackgroundInvariant, PTL

-----------------------------------------------------------------------------
(* The person is told once *)

\* CompleteDelegation is a door one goes through once: what is settled stays as it is.
LEMMA OverForGood ==
  ASSUME StateTypes, TurnFacts, [Next]_vars
  PROVE  \A e \in Agents : del[e] \in Terminal => del'[e] = del[e]
<1> USE DEF dbVars, legVars, askVars, procVars, ebbVars, laneVars, tellVars, TurnFacts
<1>1. CASE UNCHANGED del
  BY <1>1 DEF Terminal
<1>2. ASSUME NEW l \in Legs, Finish(l) PROVE \A e \in Agents : del[e] \in Terminal => del'[e] = del[e]
  BY <1>2, LegParts DEF StateTypes, Finish, OneWayDoor, Terminal
<1>3. ASSUME NEW c \in Cards, ResumeRemoved(c) PROVE \A e \in Agents : del[e] \in Terminal => del'[e] = del[e]
  BY <1>3, AgentOfCard DEF StateTypes, ResumeRemoved, OneWayDoor, Terminal
<1>4. ASSUME NEW d \in Agents, CreateDelegation(d) PROVE \A e \in Agents : del[e] \in Terminal => del'[e] = del[e]
  BY <1>4 DEF StateTypes, CreateDelegation, Terminal
<1>5. ASSUME NEW d \in Agents, CancelParked(d) PROVE \A e \in Agents : del[e] \in Terminal => del'[e] = del[e]
  BY <1>5 DEF StateTypes, CancelParked, OneWayDoor, Terminal
<1>6. ASSUME NEW d \in Agents, GiveUp(d) PROVE \A e \in Agents : del[e] \in Terminal => del'[e] = del[e]
  BY <1>6 DEF StateTypes, GiveUp, Recovers, RowsRun, Terminal
<1>7. QED
  BY <1>1, <1>2, <1>3, <1>4, <1>5, <1>6
  DEF Next, LegStep, CardStep, AgentStep, vars, GatewayParks, StartGateway, StartUnresolved,
     ResumeNobody, Signal, BaseCancel, Quiesce, GraceRunsOut, Exit, Gone, Crash, Boot, Serve,
     LaneStep, DrainPops, PutBack, TurnSettles, TurnWaits, TurnParts, Launch, Park,
     MarkParked, Return, Deadline, ScheduleCompletion, Scheduled, Leave, Expire, AnswerLate,
     PassOver, Resume, TellRemoved, ReleaseNextCard, DrainApprovalQueue, CancelRunning,
     ReleaseOrphanedParks, CountAttempt, Recovers, ReleaseAtBoot, Relaunch, TellGivenUp,
     Answer

\* A result is settled by the leg that goes through it first.
LEMMA SettledBy ==
  ASSUME StateTypes, [Next]_vars
  PROVE  \A k \in Legs : pc'[k] = "settled" /\ pc[k] # "settled" =>
            Finish(k) /\ del[Of(k)] = "running" /\ del'[Of(k)] \in {"done", "failed"}
<1> DEFINE NewlySettled ==
           \A k \in Legs : pc'[k] = "settled" /\ pc[k] # "settled" =>
             Finish(k) /\ del[Of(k)] = "running" /\ del'[Of(k)] \in {"done", "failed"}
<1> USE DEF dbVars, legVars, askVars, procVars, ebbVars, laneVars, tellVars
<1>1. CASE UNCHANGED pc
  BY <1>1 DEF vars
<1>2. CASE Exit
  BY <1>2, LegParts DEF StateTypes, Exit, Gone
<1>3. CASE Crash
  BY <1>3, LegParts DEF StateTypes, Crash, Gone
<1>4. ASSUME NEW l \in Legs, Launch(l) PROVE NewlySettled
  BY <1>4, LegParts DEF StateTypes, Launch, Spawn
<1>5. ASSUME NEW l \in Legs, Park(l) PROVE NewlySettled
  BY <1>5, LegParts DEF StateTypes, Park, SequencedStatus
<1>6. ASSUME NEW l \in Legs, MarkParked(l) PROVE NewlySettled
  BY <1>6, LegParts DEF StateTypes, MarkParked
<1>7. ASSUME NEW l \in Legs, Return(l) PROVE NewlySettled
  BY <1>7, LegParts DEF StateTypes, Return
<1>8. ASSUME NEW l \in Legs, Finish(l) PROVE NewlySettled
  <2>1. PICK status \in Verdicts(l) :
          /\ del' = IF OneWayDoor(Of(l)) THEN [del EXCEPT ![Of(l)] = status] ELSE del
          /\ pc' = [pc EXCEPT ![l] = IF Owes(l, OneWayDoor(Of(l)), status)
                                    THEN "settled" ELSE "leaving"]
    BY <1>8 DEF Finish
  <2>2. ASSUME NEW k \in Legs, pc'[k] = "settled", pc[k] # "settled"
        PROVE  k = l /\ Owes(l, OneWayDoor(Of(l)), status)
    BY <2>1, <2>2 DEF StateTypes
  <2>3. Owes(l, OneWayDoor(Of(l)), status) => del[Of(l)] = "running" /\ status \in {"done", "failed"}
    BY DEF Owes, OneWayDoor, Verdicts
  <2>4. Owes(l, OneWayDoor(Of(l)), status) => del'[Of(l)] = status
    BY <2>1, <2>3, LegParts DEF StateTypes, OneWayDoor
  <2>5. QED
    BY <1>8, <2>2, <2>3, <2>4
<1>9. ASSUME NEW l \in Legs, ScheduleCompletion(l) PROVE NewlySettled
  BY <1>9, LegParts DEF StateTypes, ScheduleCompletion
<1>10. ASSUME NEW l \in Legs, Leave(l) PROVE NewlySettled
  BY <1>10, LegParts DEF StateTypes, Leave
<1>11. ASSUME NEW c \in Cards, Resume(c) PROVE NewlySettled
  <2>1. \E l \in Legs, v \in {"gone", "working", "returned"} : pc' = [pc EXCEPT ![l] = v]
    BY <1>11, ResumeLeg
  <2>2. QED
    BY <2>1 DEF StateTypes
<1>12. ASSUME NEW d \in Agents, CreateDelegation(d) PROVE NewlySettled
  BY <1>12, FirstLeg DEF StateTypes, CreateDelegation
<1>13. ASSUME NEW d \in Agents, Relaunch(d) PROVE NewlySettled
  <2>1. \E l \in Legs, v \in {"gone", "working", "returned"} : pc' = [pc EXCEPT ![l] = v]
    BY <1>13, RelaunchLeg
  <2>2. QED
    BY <2>1 DEF StateTypes
<1>14. QED
  BY <1>1, <1>2, <1>3, <1>4, <1>5, <1>6, <1>7, <1>8, <1>9, <1>10, <1>11, <1>12, <1>13
  DEF Next, LegStep, CardStep, AgentStep, vars, GatewayParks, StartGateway, StartUnresolved,
     ResumeNobody, Signal, BaseCancel, Quiesce, GraceRunsOut, Boot, Serve, LaneStep,
     DrainPops, PutBack, TurnSettles, TurnWaits, TurnParts, Deadline, Expire, AnswerLate,
     PassOver, ResumeRemoved, TellRemoved, Scheduled, ReleaseNextCard, DrainApprovalQueue,
     CancelRunning, CancelParked, ReleaseOrphanedParks, CountAttempt, Recovers, GiveUp,
     ReleaseAtBoot, TellGivenUp, Answer

\* A delegation that somebody comes to have the turn of had one who had it, or was not over.
LEMMA TurnComes ==
  ASSUME StateTypes, TurnFacts, [Next]_vars
  PROVE  \A l \in Legs : Turn(l)' =>
           (\E k \in Legs : Of(k) = Of(l) /\ Turn(k)) \/ del[Of(l)] \notin Terminal
<1>1. ASSUME NEW c \in Cards, Resume(c)
      PROVE  \A l \in Legs : Turn(l)' => \E k \in Legs : Of(k) = Of(l) /\ Turn(k)
  BY <1>1, ResumeHandsOn
<1>2. ASSUME NEW d \in Agents, CreateDelegation(d) \/ Relaunch(d)
      PROVE  \A l \in Legs : Turn(l)' => Turn(l) \/ del[Of(l)] \notin Terminal
  <2>1. del[d] \notin Terminal
    BY <1>2 DEF CreateDelegation, Relaunch, Recovers, TurnFacts, RowsRun, Terminal
  <2>2. QED
    BY <1>2, <2>1, CreateFindsNobody, RelaunchFindsNobody
<1>3. CASE (\A c \in Cards : ~Resume(c)) /\ \A d \in Agents : ~CreateDelegation(d) /\ ~Relaunch(d)
  BY <1>3, NoNewTurn
<1>4. QED
  BY <1>1, <1>2, <1>3

\* The person is told of a delegation nobody has told of before, that is over, and that
\* nobody has the turn of or is to tell of any more.
Telling(d) ==
  /\ scheduled[d] = 0 /\ scheduled' = [scheduled EXCEPT ![d] = 1]
  /\ del[d] \in Terminal /\ UNCHANGED del
  /\ recovery'[d] \notin {"failed", "owed"}
  /\ \A l \in Legs : Of(l) = d => pc'[l] # "settled" /\ ~Turn(l)'

\* ScheduleCompletion: the leg was the last to have the turn.
LEMMA LegTells ==
  ASSUME StateTypes, CountTypes, TurnFacts, TellFacts, NEW l \in Legs, ScheduleCompletion(l)
  PROVE  Telling(Of(l)) /\ Of(l) \in Agents /\ del[Of(l)] \in {"done", "failed"}
<1> USE DEF dbVars, legVars, askVars, procVars, ebbVars, laneVars, tellVars
<1>1. Of(l) \in Agents /\ scheduled[Of(l)] = 0 /\ del[Of(l)] \in {"done", "failed"}
  BY LegParts DEF ScheduleCompletion, TellFacts, SettledOnce
<1>2. scheduled' = [scheduled EXCEPT ![Of(l)] = 1]
  BY <1>1 DEF ScheduleCompletion, Scheduled
<1>3. UNCHANGED <<del, recovery, card, late, step>> /\ pc' = [pc EXCEPT ![l] = "leaving"]
  BY DEF ScheduleCompletion
<1>4. recovery[Of(l)] = "none"
  BY <1>1 DEF StateTypes, ScheduleCompletion, TurnFacts, RowsAlone, Alive
<1>5. \A k \in Legs : Turn(k)' => Turn(k)
  BY <1>3 DEF StateTypes, Turn, Busy, Resuming, Owing
<1>6. \A k \in Legs : Of(k) = Of(l) => pc'[k] # "settled" /\ ~Turn(k)'
  BY <1>3, <1>5 DEF StateTypes, ScheduleCompletion, TellFacts, SettledOnce
<1>7. QED
  BY <1>1, <1>2, <1>3, <1>4, <1>6 DEF Telling, Terminal

\* resume, that found the agent gone: the answer had the turn.
LEMMA AnswerTells ==
  ASSUME StateTypes, CountTypes, TurnFacts, TellFacts, NEW c \in Cards, TellRemoved(c)
  PROVE  c \in Legs /\ Owing(c) /\ Telling(Of(c)) /\ Of(c) \in Agents
<1> USE DEF dbVars, legVars, askVars, procVars, ebbVars, laneVars, tellVars
<1>1. c \in Legs /\ Of(c) \in Agents /\ Owing(c) /\ Turn(c)
  BY AgentOfCard DEF TellRemoved, Turn
<1>2. scheduled[Of(c)] = 0 /\ del[Of(c)] \in Terminal
  BY <1>1 DEF TellFacts, TurnUntold, OwingIsOver
<1>3. scheduled' = [scheduled EXCEPT ![Of(c)] = 1]
  BY <1>2 DEF TellRemoved, Scheduled
<1>4. UNCHANGED <<del, recovery, card, late, pc>> /\ step' = [step EXCEPT ![c] = AfterResume(c)]
  BY DEF TellRemoved
<1>5. recovery[Of(c)] = "none"
  BY <1>1 DEF TurnFacts, NothingAsked, RecoveryBoots, Owing, Owed
<1>6. ASSUME NEW k \in Legs, Turn(k)' PROVE Turn(k) /\ k # c
  <2>1. k # c
    <3>1. step'[c] \in {"none", "next", "all"}
      BY <1>4 DEF StateTypes, AfterResume
    <3>2. ~Resuming(c)' /\ ~Owing(c)'
      BY <3>1 DEF Resuming, Owing, Resumes, Owed
    <3>3. ~Busy(c) /\ card[c] \notin Open
      BY <1>1 DEF TurnFacts, CardAfterLeg, AnsweredForGood, Owing, Owed
    <3>4. QED
      BY <1>4, <1>6, <3>2, <3>3 DEF Turn, Busy
  <2>2. QED
    BY <1>4, <1>6, <2>1, LegParts DEF StateTypes, Turn, Busy, Resuming, Owing
<1>7. \A k \in Legs : Of(k) = Of(c) => pc'[k] # "settled" /\ ~Turn(k)'
  BY <1>1, <1>4, <1>6 DEF TurnFacts, OneTurn, TellFacts, SettledOnce
<1>8. QED
  BY <1>1, <1>2, <1>3, <1>4, <1>5, <1>7 DEF Telling

\* recoverInterrupted, that gave the row up: it was alone.
LEMMA RecoveryTells ==
  ASSUME StateTypes, CountTypes, TurnFacts, TellFacts, NEW d \in Agents, TellGivenUp(d)
  PROVE  Telling(d) /\ del[d] = "failed"
<1> USE DEF dbVars, legVars, askVars, procVars, ebbVars, laneVars, tellVars
<1>1. /\ proc = "booting" /\ recovery[d] = "owed" /\ recovery' = [recovery EXCEPT ![d] = "none"]
      /\ UNCHANGED <<del, card, late, step, pc>>
  BY DEF TellGivenUp, Recovers
<1>2. scheduled[d] = 0 /\ del[d] = "failed"
  BY <1>1 DEF TellFacts, GivenUpUntold, TurnFacts, RowsRun
<1>3. scheduled' = [scheduled EXCEPT ![d] = 1]
  BY <1>2 DEF TellGivenUp, Scheduled
<1>4. ASSUME NEW l \in Legs, Of(l) = d PROVE pc'[l] # "settled" /\ ~Turn(l)'
  <2>1. pc[l] \notin Alive /\ ~(card[l] \in Open /\ l \notin late) /\ step[l] = "none"
    BY <1>1, <1>4, LegParts DEF TurnFacts, RowsAlone, RowsBare, NothingAsked
  <2>2. QED
    BY <1>1, <2>1 DEF Turn, Busy, Resuming, Owing, Resumes, Owed, Alive
<1>5. QED
  BY <1>1, <1>2, <1>3, <1>4 DEF StateTypes, Telling, Terminal

\* Nobody else tells.
LEMMA WhoTells ==
  ASSUME StateTypes, CountTypes, TurnFacts, TellFacts, [Next]_vars
  PROVE  \/ UNCHANGED scheduled
         \/ \E d \in Agents : Telling(d) /\ ("removed" \notin Env /\ (\A c \in Cards : ~Owing(c))
                                              => del[d] \in {"done", "failed"})
<1> USE DEF dbVars, legVars, askVars, procVars, ebbVars, laneVars, tellVars
<1>1. ASSUME NEW l \in Legs, ScheduleCompletion(l)
      PROVE  \E d \in Agents : Telling(d) /\ del[d] \in {"done", "failed"}
  BY <1>1, LegTells
<1>2. ASSUME NEW c \in Cards, TellRemoved(c)
      PROVE  \E d \in Agents : Telling(d) /\ Owing(c)
  BY <1>2, AnswerTells
<1>3. ASSUME NEW d \in Agents, TellGivenUp(d)
      PROVE  \E e \in Agents : Telling(e) /\ del[e] \in {"done", "failed"}
  BY <1>3, RecoveryTells
<1>4. CASE LaneStep
  BY <1>4, LaneOnly
<1>5. QED
  BY <1>1, <1>2, <1>3, <1>4
  DEF Next, LegStep, CardStep, AgentStep, vars, GatewayParks, StartGateway, StartUnresolved,
      ResumeNobody, Signal, BaseCancel, Quiesce, GraceRunsOut, Exit, Gone, Crash, Boot, Serve,
      Launch, Park, MarkParked, Return, Deadline, Finish, Leave, Expire, AnswerLate, PassOver, Resume,
      ResumeRemoved, ReleaseNextCard, DrainApprovalQueue, CreateDelegation, CancelRunning, CancelParked,
      ReleaseOrphanedParks, CountAttempt, Recovers, GiveUp, ReleaseAtBoot, Relaunch, Answer

\* What is true of a delegation told of is true of no other that is to be told of.
LEMMA UntoldKept ==
  ASSUME StateTypes, CountTypes, TurnFacts, TellFacts, [Next]_vars,
         NEW d \in Agents, scheduled[d] = 0
  PROVE  scheduled'[d] = 0 \/ Telling(d)
<1>1. ASSUME NEW e \in Agents, Telling(e) PROVE scheduled'[d] = 0 \/ Telling(d)
  BY <1>1 DEF CountTypes, Telling
<1>2. QED
  BY <1>1, WhoTells

\* Finish owes the turn only if it resolved the row, and so nobody else did or will.
LEMMA SettledOnceStep ==
  ASSUME StateTypes, CountTypes, TurnFacts, TellFacts, [Next]_vars
  PROVE  SettledOnce'
<1> USE DEF TellFacts
<1>1. ASSUME NEW l \in Legs, pc'[l] = "settled"
      PROVE  scheduled'[Of(l)] = 0 /\ del'[Of(l)] \in {"done", "failed"}
  <2>1. Of(l) \in Agents
    BY LegParts
  <2>2. scheduled[Of(l)] = 0
    BY <1>1, <2>1, SettledBy DEF SettledOnce, OpenUntold, Terminal
  <2>3. ~Telling(Of(l))
    BY <1>1 DEF Telling
  <2>4. del'[Of(l)] \in {"done", "failed"}
    BY <1>1, <2>1, SettledBy, OverForGood DEF SettledOnce, Terminal
  <2>5. QED
    BY <2>1, <2>2, <2>3, <2>4, UntoldKept
<1>2. ASSUME NEW k \in Legs, NEW l \in Legs, pc'[k] = "settled", pc'[l] = "settled", Of(k) = Of(l)
      PROVE  k = l
  <2>1. CASE pc[k] = "settled" /\ pc[l] = "settled"
    BY <1>2, <2>1 DEF SettledOnce
  <2>2. CASE pc[k] # "settled" /\ pc[l] # "settled"
    <3>1. Turn(k) /\ Turn(l)
      BY <1>2, <2>2, SettledBy DEF Finish, Turn, Busy
    <3>2. QED
      BY <1>2, <3>1 DEF TurnFacts, OneTurn
  <2>3. CASE (pc[k] = "settled") # (pc[l] = "settled")
    BY <1>2, <2>3, SettledBy DEF SettledOnce
  <2>4. QED
    BY <2>1, <2>2, <2>3
<1>3. ASSUME NEW k \in Legs, NEW l \in Legs, pc'[k] = "settled", Turn(l)', Of(k) = Of(l)
      PROVE  FALSE
  <2>1. CASE pc[k] = "settled"
    BY <1>3, <2>1, TurnComes DEF SettledOnce, Terminal
  <2>2. CASE pc[k] # "settled"
    <3>1. Finish(k) /\ Busy(k) /\ Turn(k)
      BY <1>3, <2>2, SettledBy DEF Finish, Turn, Busy
    <3>2. Turn(l)
      <4>1. UNCHANGED <<card, late, step>> /\ \A j \in Legs : Busy(j)' => Busy(j)
        BY <3>1 DEF StateTypes, Finish, Busy, dbVars, legVars, askVars
      <4>2. QED
        BY <1>3, <4>1 DEF Turn, Resuming, Owing
    <3>3. k = l
      BY <1>3, <3>1, <3>2 DEF TurnFacts, OneTurn
    <3>4. card[k] = "none" /\ step[k] = "none"
      BY <3>1 DEF TurnFacts, CardAfterLeg
    <3>5. QED
      BY <1>3, <3>1, <3>3, <3>4 DEF Finish, Turn, Busy, Resuming, Owing, Resumes, Owed, Open,
         askVars
  <2>3. QED
    BY <2>1, <2>2
<1>4. QED
  BY <1>1, <1>2, <1>3 DEF SettledOnce

\* Nobody has the turn of a delegation that was told of, and a row is settled before.
LEMMA UntoldStep ==
  ASSUME StateTypes, CountTypes, TurnFacts, TellFacts, [Next]_vars
  PROVE  TurnUntold' /\ OpenUntold'
<1> USE DEF TellFacts
<1>1. ASSUME NEW l \in Legs, Turn(l)' PROVE scheduled'[Of(l)] = 0
  <2>1. Of(l) \in Agents /\ ~Telling(Of(l))
    BY <1>1, LegParts DEF Telling
  <2>2. scheduled[Of(l)] = 0
    BY <1>1, <2>1, TurnComes DEF TurnUntold, OpenUntold
  <2>3. QED
    BY <2>1, <2>2, UntoldKept
<1>2. ASSUME NEW d \in Agents, del'[d] \notin Terminal PROVE scheduled'[d] = 0
  <2>1. del[d] \notin Terminal
    BY <1>2, OverForGood
  <2>2. QED
    BY <2>1, UntoldKept DEF OpenUntold, Telling
<1>3. QED
  BY <1>1, <1>2 DEF TurnUntold, OpenUntold

\* recoverInterrupted gives up a row that runs.
LEMMA GivenUpBy ==
  ASSUME StateTypes, TurnFacts, [Next]_vars
  PROVE  \A e \in Agents : recovery'[e] \in {"failed", "owed"} =>
           recovery[e] \in {"failed", "owed"} \/ del[e] \notin Terminal
<1> DEFINE NewlyGivenUp ==
           \A e \in Agents : recovery'[e] \in {"failed", "owed"} =>
             recovery[e] \in {"failed", "owed"} \/ del[e] \notin Terminal
<1> USE DEF dbVars, legVars, askVars, procVars, ebbVars, laneVars, tellVars
<1>1. CASE UNCHANGED recovery
  BY <1>1 DEF vars
<1>2. CASE Exit
  BY <1>2, LegParts DEF StateTypes, Exit, Gone
<1>3. CASE Crash
  BY <1>3, LegParts DEF StateTypes, Crash, Gone
<1>4. CASE Boot
  BY <1>4, LegParts DEF StateTypes, Boot, RunningRows
<1>5. ASSUME NEW d \in Agents, CountAttempt(d) PROVE NewlyGivenUp
  BY <1>5 DEF StateTypes, CountAttempt, Recovers
<1>6. ASSUME NEW d \in Agents, GiveUp(d) PROVE NewlyGivenUp
  <2>1. \A e \in Agents : recovery'[e] \in {"failed", "owed"} => recovery[e] \in {"failed", "owed"} \/ e = d
    BY <1>6 DEF StateTypes, GiveUp, Recovers
  <2>2. del[d] = "running"
    BY <1>6 DEF GiveUp, Recovers, TurnFacts, RowsRun
  <2>3. QED
    BY <2>1, <2>2 DEF Terminal
<1>7. ASSUME NEW d \in Agents, ReleaseAtBoot(d) PROVE NewlyGivenUp
  BY <1>7 DEF StateTypes, ReleaseAtBoot, Recovers
<1>8. ASSUME NEW d \in Agents, Relaunch(d) PROVE NewlyGivenUp
  BY <1>8 DEF StateTypes, Relaunch, Recovers
<1>9. ASSUME NEW d \in Agents, TellGivenUp(d) PROVE NewlyGivenUp
  BY <1>9 DEF StateTypes, TellGivenUp, Recovers
<1>10. QED
  BY <1>1, <1>2, <1>3, <1>4, <1>5, <1>6, <1>7, <1>8, <1>9
  DEF Next, LegStep, CardStep, AgentStep, vars, GatewayParks, StartGateway, StartUnresolved,
     ResumeNobody, Signal, BaseCancel, Quiesce, GraceRunsOut, Serve, LaneStep, DrainPops,
     PutBack, TurnSettles, TurnWaits, TurnParts, Launch, Park, MarkParked, Return, Deadline,
     Finish, ScheduleCompletion, Scheduled, Leave, Expire, AnswerLate, PassOver, Resume,
     ResumeRemoved, TellRemoved, ReleaseNextCard, DrainApprovalQueue, CreateDelegation,
     CancelRunning, CancelParked, ReleaseOrphanedParks, Answer

\* The row of an agent found gone is over already, or failed there and then.
LEMMA OwingIsOverStep ==
  ASSUME StateTypes, TurnFacts, OwingIsOver, [Next]_vars
  PROVE  OwingIsOver'
<1> USE DEF dbVars, legVars, askVars, procVars, ebbVars, laneVars, tellVars
<1>1. CASE UNCHANGED <<step, del>>
  BY <1>1 DEF OwingIsOver, Owing
<1>2. CASE StartGateway
  <2>1. UNCHANGED del /\ \A l \in Legs : Owing(l)' => Owing(l)
    BY <1>2, LegParts DEF StateTypes, StartGateway, Owing, Owed
  <2>2. QED
    BY <2>1 DEF OwingIsOver
<1>3. CASE StartUnresolved
  <2>1. UNCHANGED del /\ \A l \in Legs : Owing(l)' => Owing(l)
    BY <1>3, LegParts DEF StateTypes, StartUnresolved, Owing, Owed
  <2>2. QED
    BY <2>1 DEF OwingIsOver
<1>4. CASE ResumeNobody
  <2>1. UNCHANGED del /\ \A l \in Legs : Owing(l)' => Owing(l)
    BY <1>4, LegParts DEF StateTypes, ResumeNobody, Owing, Owed
  <2>2. QED
    BY <2>1 DEF OwingIsOver
<1>5. CASE Exit
  <2>1. UNCHANGED del /\ \A l \in Legs : Owing(l)' => Owing(l)
    BY <1>5, LegParts DEF StateTypes, Exit, Owing, Owed, Gone
  <2>2. QED
    BY <2>1 DEF OwingIsOver
<1>6. CASE Crash
  <2>1. UNCHANGED del /\ \A l \in Legs : Owing(l)' => Owing(l)
    BY <1>6, LegParts DEF StateTypes, Crash, Owing, Owed, Gone
  <2>2. QED
    BY <2>1 DEF OwingIsOver
<1>7. ASSUME NEW l \in Legs, Finish(l) PROVE OwingIsOver'
  <2>1. UNCHANGED step
    BY <1>7 DEF Finish
  <2>2. QED
    BY <2>1, LegParts, OverForGood DEF OwingIsOver, Owing
<1>8. ASSUME NEW c \in Cards, Resume(c) PROVE OwingIsOver'
  <2>1. UNCHANGED del /\ \A l \in Legs : Owing(l)' => Owing(l)
    BY <1>8, LegParts DEF StateTypes, Resume, Owing, Owed, AfterResume
  <2>2. QED
    BY <2>1 DEF OwingIsOver
<1>9. ASSUME NEW c \in Cards, ResumeRemoved(c) PROVE OwingIsOver'
  <2>1. c \in Legs /\ Of(c) \in Agents /\ pc[c] # "none"
    BY <1>9, AgentOfCard DEF ResumeRemoved, Resuming, Resumes, TurnFacts, CardAfterLeg
  <2>2. del[Of(c)] # "none"
    BY <2>1 DEF TurnFacts, LegAfterRow
  <2>3. del'[Of(c)] \in Terminal
    BY <1>9, <2>1, <2>2 DEF StateTypes, ResumeRemoved, OneWayDoor, Terminal
  <2>4. \A l \in Legs : l # c /\ Owing(l)' => Owing(l)
    BY <1>9, LegParts DEF StateTypes, ResumeRemoved, Owing
  <2>5. QED
    BY <2>3, <2>4, LegParts, OverForGood DEF OwingIsOver
<1>10. ASSUME NEW c \in Cards, TellRemoved(c) PROVE OwingIsOver'
  <2>1. UNCHANGED del /\ \A l \in Legs : Owing(l)' => Owing(l)
    BY <1>10, LegParts DEF StateTypes, TellRemoved, Owing, Owed, AfterResume
  <2>2. QED
    BY <2>1 DEF OwingIsOver
<1>11. ASSUME NEW c \in Cards, ReleaseNextCard(c) PROVE OwingIsOver'
  <2>1. UNCHANGED del /\ \A l \in Legs : Owing(l)' => Owing(l)
    BY <1>11, LegParts DEF StateTypes, ReleaseNextCard, Owing, Owed
  <2>2. QED
    BY <2>1 DEF OwingIsOver
<1>12. ASSUME NEW c \in Cards, DrainApprovalQueue(c) PROVE OwingIsOver'
  <2>1. UNCHANGED del /\ \A l \in Legs : Owing(l)' => Owing(l)
    BY <1>12, LegParts DEF StateTypes, DrainApprovalQueue, Owing, Owed
  <2>2. QED
    BY <2>1 DEF OwingIsOver
<1>13. ASSUME NEW d \in Agents, CreateDelegation(d) PROVE OwingIsOver'
  <2>1. UNCHANGED step
    BY <1>13 DEF CreateDelegation
  <2>2. QED
    BY <2>1, LegParts, OverForGood DEF OwingIsOver, Owing
<1>14. ASSUME NEW d \in Agents, CancelParked(d) PROVE OwingIsOver'
  <2>1. UNCHANGED step
    BY <1>14 DEF CancelParked
  <2>2. QED
    BY <2>1, LegParts, OverForGood DEF OwingIsOver, Owing
<1>15. ASSUME NEW d \in Agents, GiveUp(d) PROVE OwingIsOver'
  <2>1. UNCHANGED step
    BY <1>15 DEF GiveUp, Recovers
  <2>2. QED
    BY <2>1, LegParts, OverForGood DEF OwingIsOver, Owing
<1>16. ASSUME NEW c \in Cards, NEW decision \in {"approved", "rejected"},
              NEW everything \in BOOLEAN, Answer(c, decision, everything) PROVE OwingIsOver'
  <2>1. UNCHANGED del /\ \A l \in Legs : Owing(l)' => Owing(l)
    BY <1>16, LegParts DEF StateTypes, Answer, Owing, Owed
  <2>2. QED
    BY <2>1 DEF OwingIsOver
<1>17. QED
  BY <1>1, <1>2, <1>3, <1>4, <1>5, <1>6, <1>7, <1>8, <1>9, <1>10, <1>11, <1>12, <1>13, <1>14,
     <1>15, <1>16
  DEF Next, LegStep, CardStep, AgentStep, vars, GatewayParks, Signal, BaseCancel, Quiesce,
     GraceRunsOut, Boot, Serve, LaneStep, DrainPops, PutBack, TurnSettles, TurnWaits,
     TurnParts, Launch, Park, MarkParked, Return, Deadline, ScheduleCompletion, Scheduled,
     Leave, Expire, AnswerLate, PassOver, CancelRunning, ReleaseOrphanedParks, CountAttempt,
     Recovers, ReleaseAtBoot, Relaunch, TellGivenUp

\* TellFacts is inductive.
LEMMA TellStep ==
  ASSUME StateTypes, CountTypes, TurnFacts, TellFacts, [Next]_vars
  PROVE  TellFacts'
<1>1. SettledOnce' /\ TurnUntold' /\ OpenUntold' /\ OwingIsOver'
  BY SettledOnceStep, UntoldStep, OwingIsOverStep DEF TellFacts
<1>2. ASSUME NEW d \in Agents, recovery'[d] \in {"failed", "owed"} PROVE scheduled'[d] = 0
  BY <1>2, GivenUpBy, UntoldKept DEF TellFacts, GivenUpUntold, OpenUntold, Telling
<1>3. QED
  BY <1>1, <1>2 DEF TellFacts, GivenUpUntold

\* At first nobody has been told of anything.
LEMMA TellInit == Init => TellFacts
<1> SUFFICES ASSUME Init PROVE TellFacts
  OBVIOUS
<1>1. /\ \A l \in Legs : pc[l] = "none"
      /\ \A d \in Agents : scheduled[d] = 0
      /\ \A c \in Cards : step[c] = "none"
  BY DEF Init
<1>2. \A l \in Legs : ~Owing(l)
  BY <1>1, LegParts DEF Owing, Owed
<1>3. QED
  BY <1>1, <1>2, LegParts DEF TellFacts, SettledOnce, TurnUntold, OpenUntold, GivenUpUntold,
     OwingIsOver

\* All of it holds in every state.
THEOREM TellInvariant == Spec => [](TypeOK /\ TurnFacts /\ TellFacts)
<1>1. TypeOK /\ TurnFacts /\ TellFacts /\ [Next]_vars => TellFacts'
  BY TellStep, TypeParts
<1>2. QED
  BY <1>1, TellInit, BackgroundInvariant, PTL DEF Spec

\* No agent is found gone where none is removed.
NobodyGone == \A c \in Cards : ~Owing(c)

LEMMA NobodyGoneStep ==
  ASSUME "removed" \notin Env, StateTypes, NobodyGone, [Next]_vars
  PROVE  NobodyGone'
<1> USE DEF dbVars, legVars, askVars, procVars, ebbVars, laneVars, tellVars
<1>1. CASE UNCHANGED step
  BY <1>1 DEF NobodyGone, Owing
<1>2. CASE StartGateway
  BY <1>2 DEF StateTypes, NobodyGone, Owing, Owed, StartGateway
<1>3. CASE StartUnresolved
  BY <1>3 DEF StateTypes, NobodyGone, Owing, Owed, StartUnresolved
<1>4. CASE ResumeNobody
  BY <1>4 DEF StateTypes, NobodyGone, Owing, Owed, ResumeNobody, AfterResume
<1>5. CASE Exit
  BY <1>5 DEF StateTypes, NobodyGone, Owing, Owed, Exit, Gone
<1>6. CASE Crash
  BY <1>6 DEF StateTypes, NobodyGone, Owing, Owed, Crash, Gone
<1>7. ASSUME NEW c \in Cards, Resume(c) PROVE NobodyGone'
  BY <1>7 DEF StateTypes, NobodyGone, Owing, Owed, Resume, AfterResume
<1>8. ASSUME NEW c \in Cards, ResumeRemoved(c) PROVE NobodyGone'
  BY <1>8 DEF ResumeRemoved
<1>9. ASSUME NEW c \in Cards, TellRemoved(c) PROVE NobodyGone'
  BY <1>9 DEF StateTypes, NobodyGone, Owing, Owed, TellRemoved, AfterResume
<1>10. ASSUME NEW c \in Cards, ReleaseNextCard(c) PROVE NobodyGone'
  BY <1>10 DEF StateTypes, NobodyGone, Owing, Owed, ReleaseNextCard
<1>11. ASSUME NEW c \in Cards, DrainApprovalQueue(c) PROVE NobodyGone'
  BY <1>11 DEF StateTypes, NobodyGone, Owing, Owed, DrainApprovalQueue
<1>12. ASSUME NEW c \in Cards, NEW decision \in {"approved", "rejected"},
              NEW everything \in BOOLEAN, Answer(c, decision, everything) PROVE NobodyGone'
  BY <1>12 DEF StateTypes, NobodyGone, Owing, Owed, Answer
<1>13. QED
  BY <1>1, <1>2, <1>3, <1>4, <1>5, <1>6, <1>7, <1>8, <1>9, <1>10, <1>11, <1>12
  DEF Next, LegStep, CardStep, AgentStep, vars, GatewayParks, Signal, BaseCancel, Quiesce,
     GraceRunsOut, Boot, Serve, LaneStep, DrainPops, PutBack, TurnSettles, TurnWaits,
     TurnParts, Launch, Park, MarkParked, Return, Deadline, Finish, ScheduleCompletion,
     Scheduled, Leave, Expire, AnswerLate, PassOver, CreateDelegation, CancelRunning,
     CancelParked, ReleaseOrphanedParks, CountAttempt, Recovers, GiveUp, ReleaseAtBoot,
     Relaunch, TellGivenUp

\* ToldOnce, as long as no agent is removed while its card waits: the completion turn of
\* a delegation is scheduled at most once, and never of a cancelled one.  resume schedules
\* it for a removed agent without asking whether it was that call that settled the row.
THEOREM ToldOnceHolds ==
  ASSUME "removed" \notin Env
  PROVE  Spec => []ToldOnce
<1>1. Init => NobodyGone /\ ToldOnce
  BY DEF Init, NobodyGone, Owing, Owed, ToldOnce
<1>2. ASSUME StateTypes, CountTypes, TurnFacts, TellFacts, NobodyGone, ToldOnce, [Next]_vars
      PROVE  ToldOnce'
  <2>1. CASE UNCHANGED scheduled
    BY <1>2, <2>1, OverForGood DEF ToldOnce, Terminal
  <2>2. ASSUME NEW d \in Agents, Telling(d), del[d] \in {"done", "failed"} PROVE ToldOnce'
    BY <1>2, <2>2 DEF CountTypes, ToldOnce, Telling
  <2>3. QED
    BY <1>2, <2>1, <2>2, WhoTells DEF NobodyGone
<1>3. TypeOK /\ TurnFacts /\ TellFacts /\ NobodyGone /\ ToldOnce /\ [Next]_vars
        => (NobodyGone /\ ToldOnce)'
  BY <1>2, NobodyGoneStep, TypeParts
<1>4. QED
  BY <1>1, <1>3, TellInvariant, PTL DEF Spec


-----------------------------------------------------------------------------
(* A row that says running is attended *)

\* A step that starts no leg.
LEMMA DenseKept ==
  ASSUME Dense, \A l \in Legs : pc'[l] = "none" <=> pc[l] = "none"
  PROVE  Dense'
BY DEF Dense

\* A leg that starts follows the last one.
LEMMA DenseTaken ==
  ASSUME StateTypes, Dense, NEW l \in Legs, NEW v \in {"due", "gone", "working", "returned"},
         pc[l] = "none", l[2] = 1 \/ pc[<<Of(l), l[2] - 1>>] # "none",
         pc' = [pc EXCEPT ![l] = v]
  PROVE  Dense' /\ Last(l)' /\ \A k \in Legs : Of(k) # Of(l) /\ Last(k) => Last(k)'
<1>1. \A k \in Legs : pc'[k] = IF k = l THEN v ELSE pc[k]
  BY DEF StateTypes
<1>2. \A k \in Legs : k[2] \in 1 .. MaxLegs /\ k = <<Of(k), k[2]>>
  BY LegParts
<1>3. ASSUME NEW k \in Legs, Of(k) = Of(l), k[2] < l[2]
      PROVE  pc[k] # "none"
  <2>1. l[2] # 1 /\ l[2] - 1 \in 1 .. MaxLegs
    BY <1>2, <1>3
  <2>2. <<Of(l), l[2] - 1>> \in Legs /\ Of(<<Of(l), l[2] - 1>>) = Of(l)
    BY <2>1, LegParts DEF Legs, Of
  <2>3. pc[<<Of(l), l[2] - 1>>] # "none"
    BY <2>1
  <2>4. CASE k[2] = l[2] - 1
    BY <1>2, <1>3, <2>3, <2>4
  <2>5. CASE k[2] < l[2] - 1
    BY <1>3, <2>2, <2>3, <2>5 DEF Dense
  <2>6. QED
    BY <1>2, <1>3, <2>4, <2>5
<1>4. Dense'
  BY <1>1, <1>3 DEF Dense
<1>5. Last(l)'
  BY <1>1, <1>2 DEF Dense, Last
<1>6. \A k \in Legs : Of(k) # Of(l) /\ Last(k) => Last(k)'
  BY <1>1 DEF Last
<1>7. QED
  BY <1>4, <1>5, <1>6

\* Fresh gives the next leg the next number.
LEMMA DenseStep ==
  ASSUME StateTypes, TurnFacts, Dense, [Next]_vars
  PROVE  Dense'
<1> USE DEF dbVars, legVars, askVars, procVars, ebbVars, laneVars, tellVars
<1>1. CASE UNCHANGED pc
  BY <1>1 DEF Dense
<1>2. CASE Exit
  BY <1>2, DenseKept DEF StateTypes, Exit, Gone, Alive
<1>3. CASE Crash
  BY <1>3, DenseKept DEF StateTypes, Crash, Gone, Alive
<1>4. ASSUME NEW l \in Legs, Launch(l) PROVE Dense'
  BY <1>4, DenseKept DEF StateTypes, Launch, Spawn
<1>5. ASSUME NEW l \in Legs, Park(l) PROVE Dense'
  BY <1>5, DenseKept DEF StateTypes, Park
<1>6. ASSUME NEW l \in Legs, MarkParked(l) PROVE Dense'
  BY <1>6, DenseKept DEF StateTypes, MarkParked
<1>7. ASSUME NEW l \in Legs, Return(l) PROVE Dense'
  BY <1>7, DenseKept DEF StateTypes, Return
<1>8. ASSUME NEW l \in Legs, Finish(l) PROVE Dense'
  BY <1>8, DenseKept DEF StateTypes, Finish
<1>9. ASSUME NEW l \in Legs, ScheduleCompletion(l) PROVE Dense'
  BY <1>9, DenseKept DEF StateTypes, ScheduleCompletion
<1>10. ASSUME NEW l \in Legs, Leave(l) PROVE Dense'
  BY <1>10, DenseKept DEF StateTypes, Leave
<1>11. ASSUME NEW c \in Cards, Resume(c) PROVE Dense'
  BY <1>11, ResumeLeg, DenseTaken
<1>12. ASSUME NEW d \in Agents, CreateDelegation(d) PROVE Dense'
  <2>1. pc[<<d, 1>>] = "none" /\ pc' = [pc EXCEPT ![<<d, 1>>] = "due"]
    BY <1>12, FirstLeg DEF CreateDelegation, TurnFacts, LegAfterRow
  <2>2. QED
    BY <2>1, FirstLeg, DenseTaken
<1>13. ASSUME NEW d \in Agents, Relaunch(d) PROVE Dense'
  BY <1>13, RelaunchLeg, DenseTaken
<1>14. QED
  BY <1>1, <1>2, <1>3, <1>4, <1>5, <1>6, <1>7, <1>8, <1>9, <1>10, <1>11, <1>12, <1>13
  DEF Next, LegStep, CardStep, AgentStep, vars, GatewayParks, StartGateway, StartUnresolved,
     ResumeNobody, Signal, BaseCancel, Quiesce, GraceRunsOut, Boot, Serve, LaneStep,
     DrainPops, PutBack, TurnSettles, TurnWaits, TurnParts, Deadline, Expire, AnswerLate,
     PassOver, ResumeRemoved, TellRemoved, Scheduled, ReleaseNextCard, DrainApprovalQueue,
     CancelRunning, CancelParked, ReleaseOrphanedParks, CountAttempt, Recovers, GiveUp,
     ReleaseAtBoot, TellGivenUp, Answer

\* cancel releases the cards of a row it has settled, and nothing brings the row back.
LEMMA OrphansAreOverStep ==
  ASSUME StateTypes, TurnFacts, OrphansAreOver, [Next]_vars
  PROVE  OrphansAreOver'
<1> USE DEF dbVars, legVars, askVars, procVars, ebbVars, laneVars, tellVars
<1>1. CASE UNCHANGED <<orphans, del>>
  BY <1>1 DEF OrphansAreOver
<1>2. CASE Exit
  BY <1>2 DEF OrphansAreOver, Exit, Gone
<1>3. CASE Crash
  BY <1>3 DEF OrphansAreOver, Crash, Gone
<1>4. ASSUME NEW l \in Legs, Finish(l) PROVE OrphansAreOver'
  <2>1. orphans' \subseteq orphans
    BY <1>4 DEF Finish
  <2>2. QED
    BY <2>1, OverForGood DEF StateTypes, OrphansAreOver, Terminal
<1>5. ASSUME NEW c \in Cards, ResumeRemoved(c) PROVE OrphansAreOver'
  <2>1. orphans' \subseteq orphans
    BY <1>5 DEF ResumeRemoved
  <2>2. QED
    BY <2>1, OverForGood DEF StateTypes, OrphansAreOver, Terminal
<1>6. ASSUME NEW d \in Agents, CreateDelegation(d) PROVE OrphansAreOver'
  <2>1. orphans' \subseteq orphans
    BY <1>6 DEF CreateDelegation
  <2>2. QED
    BY <2>1, OverForGood DEF StateTypes, OrphansAreOver, Terminal
<1>7. ASSUME NEW d \in Agents, CancelParked(d) PROVE OrphansAreOver'
  BY <1>7, OverForGood DEF StateTypes, OrphansAreOver, CancelParked, Terminal
<1>8. ASSUME NEW d \in Agents, ReleaseOrphanedParks(d) PROVE OrphansAreOver'
  <2>1. orphans' \subseteq orphans
    BY <1>8 DEF ReleaseOrphanedParks
  <2>2. QED
    BY <2>1, OverForGood DEF StateTypes, OrphansAreOver, Terminal
<1>9. ASSUME NEW d \in Agents, GiveUp(d) PROVE OrphansAreOver'
  <2>1. orphans' \subseteq orphans
    BY <1>9 DEF GiveUp, Recovers
  <2>2. QED
    BY <2>1, OverForGood DEF StateTypes, OrphansAreOver, Terminal
<1>10. QED
  BY <1>1, <1>2, <1>3, <1>4, <1>5, <1>6, <1>7, <1>8, <1>9
  DEF Next, LegStep, CardStep, AgentStep, vars, GatewayParks, StartGateway, StartUnresolved,
     ResumeNobody, Signal, BaseCancel, Quiesce, GraceRunsOut, Boot, Serve, LaneStep,
     DrainPops, PutBack, TurnSettles, TurnWaits, TurnParts, Launch, Park, MarkParked, Return,
     Deadline, ScheduleCompletion, Scheduled, Leave, Expire, AnswerLate, PassOver, Resume,
     TellRemoved, ReleaseNextCard, DrainApprovalQueue, CancelRunning, CountAttempt, Recovers,
     ReleaseAtBoot, Relaunch, TellGivenUp, Answer

\* Quiesce follows the signal, and the next process starts afresh.
LEMMA ServingRunsStep ==
  ASSUME ServingRuns, [Next]_vars
  PROVE  ServingRuns'
<1> USE DEF dbVars, legVars, askVars, procVars, ebbVars, laneVars, tellVars
<1>1. CASE UNCHANGED <<proc, quiescing>>
  BY <1>1 DEF ServingRuns
<1>2. CASE Signal
  BY <1>2 DEF ServingRuns, Signal
<1>3. CASE Quiesce
  BY <1>3 DEF ServingRuns, Quiesce
<1>4. CASE Exit
  BY <1>4 DEF ServingRuns, Exit, Gone
<1>5. CASE Crash
  BY <1>5 DEF ServingRuns, Crash, Gone
<1>6. CASE Boot
  BY <1>6 DEF ServingRuns, Boot, RunningRows
<1>7. CASE Serve
  BY <1>7 DEF ServingRuns, Serve
<1>8. QED
  BY <1>1, <1>2, <1>3, <1>4, <1>5, <1>6, <1>7
  DEF Next, LegStep, CardStep, AgentStep, vars, GatewayParks, StartGateway, StartUnresolved,
     ResumeNobody, BaseCancel, GraceRunsOut, LaneStep, DrainPops, PutBack, TurnSettles,
     TurnWaits, TurnParts, Launch, Park, MarkParked, Return, Deadline, Finish,
     ScheduleCompletion, Scheduled, Leave, Expire, AnswerLate, PassOver, Resume,
     ResumeRemoved, TellRemoved, ReleaseNextCard, DrainApprovalQueue, CreateDelegation,
     CancelRunning, CancelParked, ReleaseOrphanedParks, CountAttempt, Recovers, GiveUp,
     ReleaseAtBoot, Relaunch, TellGivenUp, Answer

\* The first process serves until it is stopped or dies, which a bound counts.
LEMMA FirstServesStep ==
  ASSUME CountTypes, FirstServes, [Next]_vars
  PROVE  FirstServes'
<1> USE DEF dbVars, legVars, askVars, procVars, ebbVars, laneVars, tellVars
<1>1. CASE UNCHANGED <<proc, quiescing, restarts>>
  BY <1>1 DEF FirstServes
<1>2. CASE Signal
  BY <1>2 DEF CountTypes, FirstServes, Signal
<1>3. CASE Quiesce
  BY <1>3 DEF CountTypes, FirstServes, Quiesce
<1>4. CASE Exit
  BY <1>4 DEF CountTypes, FirstServes, Exit, Gone
<1>5. CASE Crash
  BY <1>5 DEF CountTypes, FirstServes, Crash, Gone
<1>6. CASE Boot
  BY <1>6 DEF CountTypes, FirstServes, Boot, RunningRows
<1>7. CASE Serve
  BY <1>7 DEF CountTypes, FirstServes, Serve
<1>8. QED
  BY <1>1, <1>2, <1>3, <1>4, <1>5, <1>6, <1>7
  DEF Next, LegStep, CardStep, AgentStep, vars, GatewayParks, StartGateway, StartUnresolved,
     ResumeNobody, BaseCancel, GraceRunsOut, LaneStep, DrainPops, PutBack, TurnSettles,
     TurnWaits, TurnParts, Launch, Park, MarkParked, Return, Deadline, Finish,
     ScheduleCompletion, Scheduled, Leave, Expire, AnswerLate, PassOver, Resume,
     ResumeRemoved, TellRemoved, ReleaseNextCard, DrainApprovalQueue, CreateDelegation,
     CancelRunning, CancelParked, ReleaseOrphanedParks, CountAttempt, Recovers, GiveUp,
     ReleaseAtBoot, Relaunch, TellGivenUp, Answer

\* A step that raises no agent's card.
LEMMA WasRaisedKept ==
  ASSUME WasRaised, \A l \in Legs : card'[l] \in Open => card[l] \in Open, UNCHANGED raised
  PROVE  WasRaised'
BY DEF WasRaised

\* A card gets its id as it is raised, and keeps it.
LEMMA WasRaisedStep ==
  ASSUME StateTypes, CountTypes, WasRaised, [Next]_vars
  PROVE  WasRaised'
<1> USE DEF dbVars, legVars, askVars, procVars, ebbVars, laneVars, tellVars
<1>1. CASE UNCHANGED <<card, raised>>
  BY <1>1 DEF WasRaised
<1>2. CASE GatewayParks
  <2>1. \A l \in Legs : card'[l] = card[l]
    BY <1>2, LegParts DEF StateTypes, GatewayParks
  <2>2. raised' = Append(raised, Gateway)
    BY <1>2 DEF GatewayParks
  <2>3. \A i \in DOMAIN raised : i \in DOMAIN raised' /\ raised'[i] = raised[i]
    BY <2>2 DEF CountTypes
  <2>4. QED
    BY <2>1, <2>3 DEF WasRaised
<1>3. CASE StartGateway
  <2>1. \A k \in Legs : card'[k] \in Open => card[k] \in Open
    BY <1>3, LegParts DEF StateTypes, Open, StartGateway
  <2>2. UNCHANGED raised
    BY <1>3 DEF StartGateway
  <2>3. QED
    BY <2>1, <2>2, WasRaisedKept
<1>4. ASSUME NEW l \in Legs, Park(l) PROVE WasRaised'
  <2>1. \A k \in Legs : k # l => card'[k] = card[k]
    BY <1>4, LegParts DEF StateTypes, Park
  <2>2. raised' = Append(raised, l) /\ l \in Cards
    BY <1>4, LegParts DEF Park
  <2>3. \A i \in DOMAIN raised : i \in DOMAIN raised' /\ raised'[i] = raised[i]
    BY <2>2 DEF CountTypes
  <2>4. \E i \in DOMAIN raised' : raised'[i] = l
    <3>1. Len(raised) + 1 \in DOMAIN raised' /\ raised'[Len(raised) + 1] = l
      BY <2>2 DEF CountTypes
    <3>2. QED
      BY <3>1
  <2>5. QED
    BY <2>1, <2>3, <2>4 DEF WasRaised
<1>5. ASSUME NEW c \in Cards, AnswerLate(c) PROVE WasRaised'
  <2>1. \A k \in Legs : card'[k] \in Open => card[k] \in Open
    BY <1>5, LegParts DEF StateTypes, Open, AnswerLate, Claimable
  <2>2. UNCHANGED raised
    BY <1>5 DEF AnswerLate
  <2>3. QED
    BY <2>1, <2>2, WasRaisedKept
<1>6. ASSUME NEW c \in Cards, PassOver(c) PROVE WasRaised'
  <2>1. \A k \in Legs : card'[k] \in Open => card[k] \in Open
    BY <1>6, LegParts DEF StateTypes, Open, PassOver, Waiting, NextInLine
  <2>2. UNCHANGED raised
    BY <1>6 DEF PassOver
  <2>3. QED
    BY <2>1, <2>2, WasRaisedKept
<1>7. ASSUME NEW c \in Cards, ReleaseNextCard(c) PROVE WasRaised'
  <2>1. \A k \in Legs : card'[k] \in Open => card[k] \in Open
    BY <1>7, LegParts DEF StateTypes, Open, ReleaseNextCard, Promoted, Waiting, NextInLine
  <2>2. UNCHANGED raised
    BY <1>7 DEF ReleaseNextCard
  <2>3. QED
    BY <2>1, <2>2, WasRaisedKept
<1>8. ASSUME NEW c \in Cards, DrainApprovalQueue(c) PROVE WasRaised'
  <2>1. \A k \in Legs : card'[k] \in Open => card[k] \in Open
    BY <1>8, LegParts DEF StateTypes, Open, DrainApprovalQueue
  <2>2. UNCHANGED raised
    BY <1>8 DEF DrainApprovalQueue
  <2>3. QED
    BY <2>1, <2>2, WasRaisedKept
<1>9. ASSUME NEW d \in Agents, ReleaseOrphanedParks(d) PROVE WasRaised'
  <2>1. \A k \in Legs : card'[k] \in Open => card[k] \in Open
    BY <1>9, LegParts DEF StateTypes, Open, ReleaseOrphanedParks, Orphaned
  <2>2. UNCHANGED raised
    BY <1>9 DEF ReleaseOrphanedParks
  <2>3. QED
    BY <2>1, <2>2, WasRaisedKept
<1>10. ASSUME NEW d \in Agents, ReleaseAtBoot(d) PROVE WasRaised'
  <2>1. \A k \in Legs : card'[k] \in Open => card[k] \in Open
    BY <1>10, LegParts DEF StateTypes, Open, ReleaseAtBoot, Recovers, Orphaned
  <2>2. UNCHANGED raised
    BY <1>10 DEF ReleaseAtBoot, Recovers
  <2>3. QED
    BY <2>1, <2>2, WasRaisedKept
<1>11. ASSUME NEW c \in Cards, NEW decision \in {"approved", "rejected"},
              NEW everything \in BOOLEAN, Answer(c, decision, everything) PROVE WasRaised'
  <2>1. \A k \in Legs : card'[k] \in Open => card[k] \in Open
    BY <1>11, LegParts DEF StateTypes, Open, Answer, Claimable
  <2>2. UNCHANGED raised
    BY <1>11 DEF Answer
  <2>3. QED
    BY <2>1, <2>2, WasRaisedKept
<1>12. QED
  BY <1>1, <1>2, <1>3, <1>4, <1>5, <1>6, <1>7, <1>8, <1>9, <1>10, <1>11
  DEF Next, LegStep, CardStep, AgentStep, vars, StartUnresolved, ResumeNobody, Signal,
     BaseCancel, Quiesce, GraceRunsOut, Exit, Gone, Crash, Boot, Serve, LaneStep, DrainPops,
     PutBack, TurnSettles, TurnWaits, TurnParts, Launch, MarkParked, Return, Deadline, Finish,
     ScheduleCompletion, Scheduled, Leave, Expire, Resume, ResumeRemoved, TellRemoved,
     CreateDelegation, CancelRunning, CancelParked, CountAttempt, Recovers, GiveUp, Relaunch,
     TellGivenUp

\* Nobody new comes to run, and whoever attends goes on attending.
LEMMA LastAttendsKept ==
  ASSUME LastAttends,
         \A d \in Agents :
           Recovered(d)' /\ del'[d] = "running" => Recovered(d) /\ del[d] = "running",
         \A l \in Legs : pc'[l] = "none" <=> pc[l] = "none",
         \A l \in Legs : Recovered(Of(l))' /\ del'[Of(l)] = "running" /\ Attends(l) => Attends(l)'
  PROVE  LastAttends'
<1>1. \A l \in Legs : Last(l) => Last(l)'
  BY DEF Last
<1>2. SUFFICES ASSUME NEW d \in Agents, Recovered(d)', del'[d] = "running"
               PROVE  \E l \in Legs : Of(l) = d /\ Last(l)' /\ Attends(l)'
  BY DEF LastAttends
<1>3. PICK l \in Legs : Of(l) = d /\ Last(l) /\ Attends(l)
  BY <1>2 DEF LastAttends
<1>4. QED
  BY <1>1, <1>2, <1>3

\* A new last leg attends its delegation, and nothing happens to another one.
LEMMA LastAttendsTaken ==
  ASSUME LastAttends, NEW l \in Legs, Last(l)', Recovered(Of(l))' => Attends(l)',
         \A k \in Legs : Of(k) # Of(l) /\ Last(k) => Last(k)',
         \A k \in Legs : Of(k) # Of(l) /\ Attends(k) => Attends(k)',
         \A d \in Agents : d # Of(l) /\ Recovered(d)' /\ del'[d] = "running"
                             => Recovered(d) /\ del[d] = "running"
  PROVE  LastAttends'
<1>1. SUFFICES ASSUME NEW d \in Agents, Recovered(d)', del'[d] = "running"
               PROVE  \E k \in Legs : Of(k) = d /\ Last(k)' /\ Attends(k)'
  BY DEF LastAttends
<1>2. CASE d = Of(l)
  BY <1>1, <1>2
<1>3. CASE d # Of(l)
  <2>1. PICK k \in Legs : Of(k) = d /\ Last(k) /\ Attends(k)
    BY <1>1, <1>3 DEF LastAttends
  <2>2. QED
    BY <1>3, <2>1
<1>4. QED
  BY <1>2, <1>3

\* An agent that runs is never without its leg, its card or its answer, unless its last
\* card ran out.
LEMMA LastAttendsStep ==
  ASSUME StateTypes, TurnFacts, AttendFacts, [Next]_vars
  PROVE  LastAttends'
<1> USE DEF dbVars, legVars, askVars, procVars, ebbVars, laneVars, tellVars, AttendFacts
<1>1. CASE UNCHANGED <<pc, card, step, proc, del, recovery, late>>
  BY <1>1 DEF LastAttends, Recovered, Last, Attends, Busy, Resuming
<1>2. CASE GatewayParks
  <2>1. \A e \in Agents :
          Recovered(e)' /\ del'[e] = "running" => Recovered(e) /\ del[e] = "running"
    BY <1>2 DEF StateTypes, Recovered, GatewayParks
  <2>2. \A k \in Legs : pc'[k] = "none" <=> pc[k] = "none"
    BY <1>2 DEF StateTypes, GatewayParks
  <2>3. \A k \in Legs : Attends(k) => Attends(k)'
    BY <1>2, LegParts DEF StateTypes, Attends, Busy, Resuming, Open, GatewayParks
  <2>4. QED
    BY <2>1, <2>2, <2>3, LastAttendsKept
<1>3. CASE StartGateway
  <2>1. \A e \in Agents :
          Recovered(e)' /\ del'[e] = "running" => Recovered(e) /\ del[e] = "running"
    BY <1>3 DEF StateTypes, Recovered, StartGateway
  <2>2. \A k \in Legs : pc'[k] = "none" <=> pc[k] = "none"
    BY <1>3 DEF StateTypes, StartGateway
  <2>3. \A k \in Legs : Attends(k) => Attends(k)'
    BY <1>3, LegParts DEF StateTypes, Attends, Busy, Resuming, Open, StartGateway, Starts,
       Resumes
  <2>4. QED
    BY <2>1, <2>2, <2>3, LastAttendsKept
<1>4. CASE StartUnresolved
  <2>1. \A e \in Agents :
          Recovered(e)' /\ del'[e] = "running" => Recovered(e) /\ del[e] = "running"
    BY <1>4 DEF StateTypes, Recovered, StartUnresolved
  <2>2. \A k \in Legs : pc'[k] = "none" <=> pc[k] = "none"
    BY <1>4 DEF StateTypes, StartUnresolved
  <2>3. \A k \in Legs : Attends(k) => Attends(k)'
    BY <1>4, LegParts DEF StateTypes, Attends, Busy, Resuming, Open, StartUnresolved
  <2>4. QED
    BY <2>1, <2>2, <2>3, LastAttendsKept
<1>5. CASE ResumeNobody
  <2>1. \A e \in Agents :
          Recovered(e)' /\ del'[e] = "running" => Recovered(e) /\ del[e] = "running"
    BY <1>5 DEF StateTypes, Recovered, ResumeNobody
  <2>2. \A k \in Legs : pc'[k] = "none" <=> pc[k] = "none"
    BY <1>5 DEF StateTypes, ResumeNobody
  <2>3. \A k \in Legs : Attends(k) => Attends(k)'
    BY <1>5, LegParts DEF StateTypes, Attends, Busy, Resuming, Open, ResumeNobody
  <2>4. QED
    BY <2>1, <2>2, <2>3, LastAttendsKept
<1>6. CASE Signal
  BY <1>6 DEF LastAttends, Recovered, Signal
<1>7. CASE Exit
  BY <1>7 DEF LastAttends, Recovered, Exit, Gone
<1>8. CASE Crash
  BY <1>8 DEF LastAttends, Recovered, Crash, Gone
<1>9. CASE Boot
  BY <1>9 DEF LastAttends, Recovered, Boot, RunningRows
<1>10. CASE Serve
  <2>1. \A e \in Agents :
          Recovered(e)' /\ del'[e] = "running" => Recovered(e) /\ del[e] = "running"
    BY <1>10 DEF StateTypes, Recovered, Serve
  <2>2. \A k \in Legs : pc'[k] = "none" <=> pc[k] = "none"
    BY <1>10 DEF StateTypes, Serve
  <2>3. \A k \in Legs : Attends(k) => Attends(k)'
    BY <1>10, LegParts DEF StateTypes, Attends, Busy, Resuming, Open, Serve
  <2>4. QED
    BY <2>1, <2>2, <2>3, LastAttendsKept
<1>11. ASSUME NEW l \in Legs, Launch(l) PROVE LastAttends'
  <2>1. UNCHANGED <<del, card, step, proc, recovery, late>>
    BY <1>11 DEF Launch
  <2>2. \A k \in Legs : pc'[k] = "none" <=> pc[k] = "none"
    BY <1>11 DEF StateTypes, Launch, Spawn
  <2>3. ASSUME NEW k \in Legs, Recovered(Of(k))', Attends(k)
        PROVE  Attends(k)'
    <3>1. ~quiescing
      BY <2>1, <2>3 DEF Recovered, ServingRuns
    <3>2. pc' = [pc EXCEPT ![l] = "working"]
      BY <1>11, <3>1 DEF Launch, Spawn
    <3>3. QED
      BY <2>1, <2>3, <3>2 DEF StateTypes, Attends, Busy, Resuming
  <2>4. QED
    BY <2>1, <2>2, <2>3, LastAttendsKept DEF Recovered
<1>12. ASSUME NEW l \in Legs, Park(l) PROVE LastAttends'
  <2>1. \A e \in Agents :
          Recovered(e)' /\ del'[e] = "running" => Recovered(e) /\ del[e] = "running"
    BY <1>12 DEF StateTypes, Recovered, Park
  <2>2. \A k \in Legs : pc'[k] = "none" <=> pc[k] = "none"
    BY <1>12 DEF StateTypes, Park
  <2>3. \A k \in Legs : Attends(k) => Attends(k)'
    BY <1>12, LegParts DEF StateTypes, Attends, Busy, Resuming, Open, Park, SequencedStatus
  <2>4. QED
    BY <2>1, <2>2, <2>3, LastAttendsKept
<1>13. ASSUME NEW l \in Legs, MarkParked(l) PROVE LastAttends'
  <2>1. \A e \in Agents :
          Recovered(e)' /\ del'[e] = "running" => Recovered(e) /\ del[e] = "running"
    BY <1>13 DEF StateTypes, Recovered, MarkParked
  <2>2. \A k \in Legs : pc'[k] = "none" <=> pc[k] = "none"
    BY <1>13 DEF StateTypes, MarkParked
  <2>3. \A k \in Legs : Attends(k) => Attends(k)'
    BY <1>13, LegParts DEF StateTypes, Attends, Busy, Resuming, Open, MarkParked
  <2>4. QED
    BY <2>1, <2>2, <2>3, LastAttendsKept
<1>14. ASSUME NEW l \in Legs, Return(l) PROVE LastAttends'
  <2>1. \A e \in Agents :
          Recovered(e)' /\ del'[e] = "running" => Recovered(e) /\ del[e] = "running"
    BY <1>14 DEF StateTypes, Recovered, Return
  <2>2. \A k \in Legs : pc'[k] = "none" <=> pc[k] = "none"
    BY <1>14 DEF StateTypes, Return
  <2>3. \A k \in Legs : Attends(k) => Attends(k)'
    BY <1>14, LegParts DEF StateTypes, Attends, Busy, Resuming, Open, Return
  <2>4. QED
    BY <2>1, <2>2, <2>3, LastAttendsKept
<1>15. ASSUME NEW l \in Legs, Finish(l) PROVE LastAttends'
  <2>1. UNCHANGED <<card, step, proc, recovery, late>>
    BY <1>15 DEF Finish
  <2>2. \A k \in Legs : (pc'[k] = "none" <=> pc[k] = "none") /\ (k # l => pc'[k] = pc[k])
    BY <1>15 DEF StateTypes, Finish
  <2>3. Verdicts(l) \subseteq Terminal
    BY DEF Verdicts, Terminal
  <2>4. \A d \in Agents : del'[d] = "running" => del[d] = "running" /\ d # Of(l)
    BY <1>15, <2>3 DEF StateTypes, Finish, OneWayDoor, Terminal
  <2>5. \A k \in Legs : k # l /\ Attends(k) => Attends(k)'
    BY <2>1, <2>2 DEF Attends, Busy, Resuming
  <2>6. QED
    BY <2>1, <2>2, <2>4, <2>5, LegParts, LastAttendsKept DEF Recovered
<1>16. ASSUME NEW l \in Legs, ScheduleCompletion(l) PROVE LastAttends'
  <2>1. \A e \in Agents :
          Recovered(e)' /\ del'[e] = "running" => Recovered(e) /\ del[e] = "running"
    BY <1>16 DEF StateTypes, Recovered, ScheduleCompletion
  <2>2. \A k \in Legs : pc'[k] = "none" <=> pc[k] = "none"
    BY <1>16 DEF StateTypes, ScheduleCompletion, Scheduled
  <2>3. \A k \in Legs : Attends(k) => Attends(k)'
    BY <1>16, LegParts DEF StateTypes, Attends, Busy, Resuming, Open, ScheduleCompletion
  <2>4. QED
    BY <2>1, <2>2, <2>3, LastAttendsKept
<1>17. ASSUME NEW l \in Legs, Leave(l) PROVE LastAttends'
  <2>1. \A e \in Agents :
          Recovered(e)' /\ del'[e] = "running" => Recovered(e) /\ del[e] = "running"
    BY <1>17 DEF StateTypes, Recovered, Leave
  <2>2. \A k \in Legs : pc'[k] = "none" <=> pc[k] = "none"
    BY <1>17 DEF StateTypes, Leave
  <2>3. \A k \in Legs : Attends(k) => Attends(k)'
    BY <1>17, LegParts DEF StateTypes, Attends, Busy, Resuming, Open, Leave
  <2>4. QED
    BY <2>1, <2>2, <2>3, LastAttendsKept
<1>18. ASSUME NEW c \in Cards, Expire(c) PROVE LastAttends'
  <2>1. \A e \in Agents :
          Recovered(e)' /\ del'[e] = "running" => Recovered(e) /\ del[e] = "running"
    BY <1>18 DEF StateTypes, Recovered, Expire
  <2>2. \A k \in Legs : pc'[k] = "none" <=> pc[k] = "none"
    BY <1>18 DEF StateTypes, Expire
  <2>3. \A k \in Legs : Attends(k) => Attends(k)'
    BY <1>18, LegParts DEF StateTypes, Attends, Busy, Resuming, Open, Expire
  <2>4. QED
    BY <2>1, <2>2, <2>3, LastAttendsKept
<1>19. ASSUME NEW c \in Cards, AnswerLate(c) PROVE LastAttends'
  <2>1. \A e \in Agents :
          Recovered(e)' /\ del'[e] = "running" => Recovered(e) /\ del[e] = "running"
    BY <1>19 DEF StateTypes, Recovered, AnswerLate
  <2>2. \A k \in Legs : pc'[k] = "none" <=> pc[k] = "none"
    BY <1>19 DEF StateTypes, AnswerLate
  <2>3. \A k \in Legs : Attends(k) => Attends(k)'
    BY <1>19, LegParts DEF StateTypes, Attends, Busy, Resuming, Open, AnswerLate, Claimable
  <2>4. QED
    BY <2>1, <2>2, <2>3, LastAttendsKept
<1>20. ASSUME NEW c \in Cards, PassOver(c) PROVE LastAttends'
  <2>1. \A e \in Agents :
          Recovered(e)' /\ del'[e] = "running" => Recovered(e) /\ del[e] = "running"
    BY <1>20 DEF StateTypes, Recovered, PassOver
  <2>2. \A k \in Legs : pc'[k] = "none" <=> pc[k] = "none"
    BY <1>20 DEF StateTypes, PassOver
  <2>3. \A k \in Legs : Attends(k) => Attends(k)'
    BY <1>20, LegParts DEF StateTypes, Attends, Busy, Resuming, Open, PassOver, Waiting,
       NextInLine
  <2>4. QED
    BY <2>1, <2>2, <2>3, LastAttendsKept
<1>21. ASSUME NEW c \in Cards, Resume(c) PROVE LastAttends'
  <2>1. PICK l \in Legs, v \in {"gone", "working", "returned"} :
          /\ Of(l) = Of(c) /\ pc[l] = "none" /\ pc' = [pc EXCEPT ![l] = v]
          /\ (l[2] = 1 \/ pc[<<Of(l), l[2] - 1>>] # "none")
          /\ ~quiescing => v \in {"working", "returned"}
    BY <1>21, ResumeLeg
  <2>2. UNCHANGED <<del, card, proc, recovery, late>> /\ c \in Legs
    BY <1>21, ResumeLeg DEF Resume
  <2>3. Last(l)' /\ \A k \in Legs : Of(k) # Of(l) /\ Last(k) => Last(k)'
    BY <2>1, DenseTaken
  <2>4. Recovered(Of(l))' => Attends(l)'
    BY <2>1, <2>2 DEF StateTypes, Recovered, ServingRuns, Attends, Busy
  <2>5. \A k \in Legs : Of(k) # Of(l) => pc'[k] = pc[k] /\ step'[k] = step[k]
    BY <1>21, <2>1, LegParts DEF StateTypes, Resume
  <2>6. \A k \in Legs : Of(k) # Of(l) /\ Attends(k) => Attends(k)'
    BY <2>2, <2>5 DEF Attends, Busy, Resuming
  <2>7. QED
    BY <2>2, <2>3, <2>4, <2>6, LastAttendsTaken DEF Recovered
<1>22. ASSUME NEW c \in Cards, ResumeRemoved(c) PROVE LastAttends'
  <2>1. c \in Legs /\ Of(c) \in Agents
    BY <1>22, AgentOfCard DEF ResumeRemoved
  <2>2. \A d \in Agents : del'[d] = "running" => del[d] = "running" /\ d # Of(c)
    BY <1>22, <2>1 DEF StateTypes, ResumeRemoved, OneWayDoor
  <2>3. \A l \in Legs : Of(l) # Of(c) => (Attends(l) => Attends(l)')
    BY <1>22, LegParts DEF StateTypes, ResumeRemoved, Attends, Busy, Resuming
  <2>4. UNCHANGED <<proc, recovery, pc>>
    BY <1>22 DEF ResumeRemoved
  <2>5. QED
    BY <2>2, <2>3, <2>4, LegParts, LastAttendsKept DEF Recovered
<1>23. ASSUME NEW c \in Cards, TellRemoved(c) PROVE LastAttends'
  <2>1. \A e \in Agents :
          Recovered(e)' /\ del'[e] = "running" => Recovered(e) /\ del[e] = "running"
    BY <1>23 DEF StateTypes, Recovered, TellRemoved
  <2>2. \A k \in Legs : pc'[k] = "none" <=> pc[k] = "none"
    BY <1>23 DEF StateTypes, TellRemoved
  <2>3. \A k \in Legs : Attends(k) => Attends(k)'
    BY <1>23, LegParts DEF StateTypes, Attends, Busy, Resuming, Open, TellRemoved, Owing,
       Owed, Resumes
  <2>4. QED
    BY <2>1, <2>2, <2>3, LastAttendsKept
<1>24. ASSUME NEW c \in Cards, ReleaseNextCard(c) PROVE LastAttends'
  <2>1. \A e \in Agents :
          Recovered(e)' /\ del'[e] = "running" => Recovered(e) /\ del[e] = "running"
    BY <1>24 DEF StateTypes, Recovered, ReleaseNextCard
  <2>2. \A k \in Legs : pc'[k] = "none" <=> pc[k] = "none"
    BY <1>24 DEF StateTypes, ReleaseNextCard
  <2>3. \A k \in Legs : Attends(k) => Attends(k)'
    BY <1>24, LegParts DEF StateTypes, Attends, Busy, Resuming, Open, ReleaseNextCard,
       Promoted, Waiting, NextInLine, Resumes
  <2>4. QED
    BY <2>1, <2>2, <2>3, LastAttendsKept
<1>25. ASSUME NEW c \in Cards, DrainApprovalQueue(c) PROVE LastAttends'
  <2>1. UNCHANGED <<del, pc, proc, recovery, late>>
    BY <1>25 DEF DrainApprovalQueue
  <2>2. ASSUME NEW l \in Legs, Attends(l)
        PROVE  Attends(l)'
    <3>1. l \in Cards
      BY LegParts
    <3>2. CASE l \in late
      BY <2>1, <3>2 DEF Attends
    <3>3. CASE card[l] = "queued" /\ l \notin late
      <4>1. Waiting(l, "queued") /\ l # c
        BY <1>25, <3>3 DEF Waiting, DrainApprovalQueue, TurnFacts, AnsweredForGood, Open
      <4>2. step'[l] = "resume"
        BY <1>25, <3>1, <4>1 DEF DrainApprovalQueue, LetThrough
      <4>3. QED
        BY <4>2 DEF Attends, Resuming, Resumes
    <3>4. CASE card[l] # "queued"
      <4>1. card'[l] = card[l] /\ ~Waiting(l, "queued")
        BY <1>25, <3>1, <3>4 DEF DrainApprovalQueue, Waiting
      <4>2. l # c => step'[l] = step[l]
        BY <1>25, <3>1, <4>1 DEF DrainApprovalQueue, LetThrough
      <4>3. Resuming(l) => l # c
        BY <1>25 DEF DrainApprovalQueue, Resuming, Resumes
      <4>4. QED
        BY <2>1, <2>2, <4>1, <4>2, <4>3 DEF Attends, Busy, Resuming
    <3>5. QED
      BY <3>2, <3>3, <3>4
  <2>3. QED
    BY <2>1, <2>2, LastAttendsKept DEF Recovered
<1>26. ASSUME NEW d \in Agents, CreateDelegation(d) PROVE LastAttends'
  <2>1. /\ pc[<<d, 1>>] = "none" /\ pc' = [pc EXCEPT ![<<d, 1>>] = "due"]
        /\ UNCHANGED <<card, step, proc, recovery, late>>
    BY <1>26, FirstLeg DEF CreateDelegation, TurnFacts, LegAfterRow
  <2>2. \A a \in Agents : a # d => del'[a] = del[a]
    BY <1>26 DEF StateTypes, CreateDelegation
  <2>3. <<d, 1>> \in Legs /\ Of(<<d, 1>>) = d
    BY FirstLeg
  <2>4. Last(<<d, 1>>)' /\ \A k \in Legs : Of(k) # d /\ Last(k) => Last(k)'
    BY <2>1, <2>3, DenseTaken
  <2>5. Attends(<<d, 1>>)'
    BY <2>1, <2>3 DEF StateTypes, Attends, Busy
  <2>6. \A k \in Legs : Of(k) # d /\ Attends(k) => Attends(k)'
    BY <2>1, <2>3 DEF StateTypes, Attends, Busy, Resuming
  <2>7. QED
    BY <2>1, <2>2, <2>3, <2>4, <2>5, <2>6, LastAttendsTaken DEF Recovered
<1>27. ASSUME NEW d \in Agents, CancelParked(d) PROVE LastAttends'
  <2>1. \A e \in Agents :
          Recovered(e)' /\ del'[e] = "running" => Recovered(e) /\ del[e] = "running"
    BY <1>27 DEF StateTypes, Recovered, CancelParked, OneWayDoor
  <2>2. \A k \in Legs : pc'[k] = "none" <=> pc[k] = "none"
    BY <1>27 DEF StateTypes, CancelParked
  <2>3. \A k \in Legs : Attends(k) => Attends(k)'
    BY <1>27, LegParts DEF StateTypes, Attends, Busy, Resuming, Open, CancelParked
  <2>4. QED
    BY <2>1, <2>2, <2>3, LastAttendsKept
<1>28. ASSUME NEW d \in Agents, ReleaseOrphanedParks(d) PROVE LastAttends'
  <2>1. UNCHANGED <<del, pc, step, proc, recovery, late>> /\ del[d] # "running"
    BY <1>28 DEF ReleaseOrphanedParks, OrphansAreOver
  <2>2. \A l \in Legs : Of(l) # d => card'[l] = card[l]
    BY <1>28, LegParts DEF ReleaseOrphanedParks, Orphaned, LegsOf
  <2>3. \A l \in Legs : Of(l) # d /\ Attends(l) => Attends(l)'
    BY <2>1, <2>2 DEF Attends, Busy, Resuming
  <2>4. QED
    BY <2>1, <2>3, LastAttendsKept DEF Recovered
<1>29. ASSUME NEW d \in Agents, CountAttempt(d) PROVE LastAttends'
  <2>1. UNCHANGED <<del, pc, card, step, late, proc>>
    BY <1>29 DEF CountAttempt, Recovers
  <2>2. \A e \in Agents : Recovered(e)' => Recovered(e)
    BY <1>29 DEF StateTypes, Recovered, CountAttempt, Recovers
  <2>3. QED
    BY <2>1, <2>2, LastAttendsKept DEF Attends, Busy, Resuming
<1>30. ASSUME NEW d \in Agents, GiveUp(d) PROVE LastAttends'
  <2>1. UNCHANGED <<pc, card, step, late, proc>> /\ del' = [del EXCEPT ![d] = "failed"]
    BY <1>30 DEF GiveUp, Recovers
  <2>2. \A e \in Agents : Recovered(e)' /\ del'[e] = "running" => Recovered(e) /\ del[e] = "running"
    BY <1>30, <2>1 DEF StateTypes, Recovered, GiveUp, Recovers
  <2>3. QED
    BY <2>1, <2>2, LastAttendsKept DEF Attends, Busy, Resuming
<1>31. ASSUME NEW d \in Agents, ReleaseAtBoot(d) PROVE LastAttends'
  <2>1. UNCHANGED <<del, pc, step, late, proc>>
    BY <1>31 DEF ReleaseAtBoot, Recovers
  <2>2. \A e \in Agents : Recovered(e)' => e # d /\ Recovered(e)
    BY <1>31 DEF StateTypes, Recovered, ReleaseAtBoot, Recovers
  <2>3. \A l \in Legs : Of(l) # d => card'[l] = card[l]
    BY <1>31, LegParts DEF ReleaseAtBoot, Orphaned, LegsOf
  <2>4. \A l \in Legs : Of(l) # d /\ Attends(l) => Attends(l)'
    BY <2>1, <2>3 DEF Attends, Busy, Resuming
  <2>5. QED
    BY <2>1, <2>2, <2>4, LegParts, LastAttendsKept
<1>32. ASSUME NEW d \in Agents, Relaunch(d) PROVE LastAttends'
  <2>1. PICK l \in Legs, v \in {"gone", "working", "returned"} :
          /\ Of(l) = d /\ pc[l] = "none" /\ pc' = [pc EXCEPT ![l] = v]
          /\ (l[2] = 1 \/ pc[<<Of(l), l[2] - 1>>] # "none")
          /\ ~quiescing => v = "working"
    BY <1>32, RelaunchLeg
  <2>2. UNCHANGED <<del, card, step, proc, late>> /\ ~quiescing
    BY <1>32 DEF Relaunch, Recovers, ServingRuns
  <2>3. Last(l)' /\ \A k \in Legs : Of(k) # Of(l) /\ Last(k) => Last(k)'
    BY <2>1, DenseTaken
  <2>4. Attends(l)'
    BY <2>1, <2>2 DEF StateTypes, Attends, Busy
  <2>5. \A k \in Legs : Of(k) # d => pc'[k] = pc[k]
    BY <2>1 DEF StateTypes
  <2>6. \A k \in Legs : Of(k) # Of(l) /\ Attends(k) => Attends(k)'
    BY <2>1, <2>2, <2>5 DEF Attends, Busy, Resuming
  <2>7. \A e \in Agents : e # d /\ Recovered(e)' => Recovered(e)
    BY <1>32 DEF StateTypes, Relaunch, Recovers, Recovered
  <2>8. QED
    BY <2>1, <2>2, <2>3, <2>4, <2>6, <2>7, LastAttendsTaken
<1>33. ASSUME NEW d \in Agents, TellGivenUp(d) PROVE LastAttends'
  <2>1. UNCHANGED <<del, pc, card, step, late, proc>>
    BY <1>33 DEF TellGivenUp, Recovers
  <2>2. \A e \in Agents : Recovered(e)' /\ del[e] = "running" => Recovered(e)
    BY <1>33 DEF StateTypes, Recovered, TellGivenUp, Recovers, TurnFacts, RowsRun
  <2>3. QED
    BY <2>1, <2>2, LastAttendsKept DEF Attends, Busy, Resuming
<1>34. ASSUME NEW c \in Cards, NEW decision \in {"approved", "rejected"},
              NEW everything \in BOOLEAN, Answer(c, decision, everything) PROVE LastAttends'
  <2>1. \A e \in Agents :
          Recovered(e)' /\ del'[e] = "running" => Recovered(e) /\ del[e] = "running"
    BY <1>34 DEF StateTypes, Recovered, Answer
  <2>2. \A k \in Legs : pc'[k] = "none" <=> pc[k] = "none"
    BY <1>34 DEF StateTypes, Answer
  <2>3. \A k \in Legs : Attends(k) => Attends(k)'
    BY <1>34, LegParts DEF StateTypes, Attends, Busy, Resuming, Open, Answer, Claimable, Resumes
  <2>4. QED
    BY <2>1, <2>2, <2>3, LastAttendsKept
<1>35. QED
  BY <1>1, <1>2, <1>3, <1>4, <1>5, <1>6, <1>7, <1>8, <1>9, <1>10, <1>11, <1>12, <1>13, <1>14,
     <1>15, <1>16, <1>17, <1>18, <1>19, <1>20, <1>21, <1>22, <1>23, <1>24, <1>25, <1>26,
     <1>27, <1>28, <1>29, <1>30, <1>31, <1>32, <1>33, <1>34
  DEF Next, LegStep, CardStep, AgentStep, vars, BaseCancel, Quiesce, GraceRunsOut, LaneStep,
     DrainPops, PutBack, TurnSettles, TurnWaits, TurnParts, Deadline, CancelRunning

\* The Gateway's card is a card, and nobody else's.
LEMMA GatewayCard == Gateway \in Cards /\ Gateway \notin Legs
BY DEF Cards, Legs

\* Once the Gateway has raised its card, the card has a status.
LEMMA GatewayStays ==
  ASSUME StateTypes, card[Gateway] # "none", [Next]_vars
  PROVE  card'[Gateway] # "none"
<1> USE DEF dbVars, legVars, askVars, procVars, ebbVars, laneVars, tellVars
<1>1. CASE UNCHANGED card
  BY <1>1 DEF StateTypes
<1>2. CASE GatewayParks
  BY <1>2, GatewayCard DEF StateTypes, GatewayParks
<1>3. CASE StartGateway
  BY <1>3, GatewayCard DEF StateTypes, StartGateway
<1>4. ASSUME NEW l \in Legs, Park(l) PROVE card'[Gateway] # "none"
  BY <1>4, GatewayCard, LegParts DEF StateTypes, Park, SequencedStatus
<1>5. ASSUME NEW c \in Cards, AnswerLate(c) PROVE card'[Gateway] # "none"
  BY <1>5, GatewayCard DEF StateTypes, AnswerLate, Claimable
<1>6. ASSUME NEW c \in Cards, PassOver(c) PROVE card'[Gateway] # "none"
  BY <1>6, GatewayCard DEF StateTypes, PassOver, Waiting, NextInLine
<1>7. ASSUME NEW c \in Cards, ReleaseNextCard(c) PROVE card'[Gateway] # "none"
  BY <1>7, GatewayCard DEF StateTypes, ReleaseNextCard, Promoted, Waiting, NextInLine
<1>8. ASSUME NEW c \in Cards, DrainApprovalQueue(c) PROVE card'[Gateway] # "none"
  BY <1>8, GatewayCard DEF StateTypes, DrainApprovalQueue
<1>9. ASSUME NEW d \in Agents, ReleaseOrphanedParks(d) PROVE card'[Gateway] # "none"
  BY <1>9, GatewayCard DEF StateTypes, ReleaseOrphanedParks, Orphaned, LegsOf
<1>10. ASSUME NEW d \in Agents, ReleaseAtBoot(d) PROVE card'[Gateway] # "none"
  BY <1>10, GatewayCard DEF StateTypes, ReleaseAtBoot, Recovers, Orphaned, LegsOf
<1>11. ASSUME NEW c \in Cards, NEW decision \in {"approved", "rejected"},
              NEW everything \in BOOLEAN, Answer(c, decision, everything) PROVE card'[Gateway] # "none"
  BY <1>11, GatewayCard DEF StateTypes, Answer, Claimable
<1>12. QED
  BY <1>1, <1>2, <1>3, <1>4, <1>5, <1>6, <1>7, <1>8, <1>9, <1>10, <1>11
  DEF Next, LegStep, CardStep, AgentStep, vars, StartUnresolved, ResumeNobody, Signal,
     BaseCancel, Quiesce, GraceRunsOut, Exit, Gone, Crash, Boot, Serve, LaneStep, DrainPops,
     PutBack, TurnSettles, TurnWaits, TurnParts, Launch, MarkParked, Return, Deadline, Finish,
     ScheduleCompletion, Scheduled, Leave, Expire, Resume, ResumeRemoved, TellRemoved,
     CreateDelegation, CancelRunning, CancelParked, CountAttempt, Recovers, GiveUp, Relaunch,
     TellGivenUp

\* What breaks a line of cards stays.
LEMMA BrokenForGood ==
  ASSUME StateTypes, CountTypes, TurnFacts, [Next]_vars, LineBroken
  PROVE  LineBroken'
<1> USE DEF dbVars, legVars, askVars, procVars, ebbVars, laneVars, tellVars
<1>1. passed => passed'
  BY DEF Next, LegStep, CardStep, AgentStep, LaneStep, vars, GatewayParks, StartGateway,
     StartUnresolved, ResumeNobody, Signal, BaseCancel, Quiesce, GraceRunsOut, Exit, Crash,
     Boot, Serve, Launch, Park, MarkParked, Return, Deadline, Finish, ScheduleCompletion,
     Leave, Expire, AnswerLate, PassOver, Resume, ResumeRemoved, TellRemoved, ReleaseNextCard,
     DrainApprovalQueue, CreateDelegation, CancelRunning, CancelParked, ReleaseOrphanedParks,
     CountAttempt, GiveUp, ReleaseAtBoot, Relaunch, TellGivenUp, Answer, DrainPops, PutBack,
     TurnSettles, TurnWaits, TurnParts, Gone, Recovers, Scheduled
<1>2. late \subseteq late'
  BY DEF Next, LegStep, CardStep, AgentStep, LaneStep, vars, GatewayParks, StartGateway,
     StartUnresolved, ResumeNobody, Signal, BaseCancel, Quiesce, GraceRunsOut, Exit, Crash,
     Boot, Serve, Launch, Park, MarkParked, Return, Deadline, Finish, ScheduleCompletion,
     Leave, Expire, AnswerLate, PassOver, Resume, ResumeRemoved, TellRemoved, ReleaseNextCard,
     DrainApprovalQueue, CreateDelegation, CancelRunning, CancelParked, ReleaseOrphanedParks,
     CountAttempt, GiveUp, ReleaseAtBoot, Relaunch, TellGivenUp, Answer, DrainPops, PutBack,
     TurnSettles, TurnWaits, TurnParts, Gone, Recovers, Scheduled
<1>3. restarts > 0 => restarts' > 0
  <2>1. CASE Signal \/ Crash
    BY <2>1 DEF CountTypes, Signal, Crash
  <2>2. CASE ~Signal /\ ~Crash
    <3>1. UNCHANGED restarts
      BY <2>2 DEF Next, LegStep, CardStep, AgentStep, LaneStep, vars, GatewayParks,
         StartGateway, StartUnresolved, ResumeNobody, BaseCancel, Quiesce, GraceRunsOut, Exit,
         Boot, Serve, Launch, Park, MarkParked, Return, Deadline, Finish, ScheduleCompletion,
         Leave, Expire, AnswerLate, PassOver, Resume, ResumeRemoved, TellRemoved,
         ReleaseNextCard, DrainApprovalQueue, CreateDelegation, CancelRunning, CancelParked,
         ReleaseOrphanedParks, CountAttempt, GiveUp, ReleaseAtBoot, Relaunch, TellGivenUp,
         Answer, DrainPops, PutBack, TurnSettles, TurnWaits, TurnParts, Gone, Recovers,
         Scheduled
    <3>2. QED
      BY <3>1
  <2>3. QED
    BY <2>1, <2>2
<1>4. ASSUME NEW d \in Agents, del[d] = "cancelled"
      PROVE  del'[d] = "cancelled"
  BY <1>4, OverForGood DEF Terminal
<1>5. card[Gateway] # "none" => card'[Gateway] # "none"
  BY GatewayStays
<1>6. QED
  BY <1>1, <1>2, <1>3, <1>4, <1>5 DEF LineBroken

\* In a line nobody has broken there is one before a queued card, if there was and the
\* agents' cards and answers did not change.
LEMMA LineKeptBy ==
  ASSUME LineKept, LineBroken => LineBroken',
         \A l \in Legs : card'[l] = "queued" => card[l] = "queued",
         \A l \in Legs : Waiting(l, "pending") => Waiting(l, "pending")',
         \A l \in Legs :
           step[l] \in {"resume next", "resume all", "owed next", "owed all", "next", "all"} =>
             step'[l] \in {"resume next", "resume all", "owed next", "owed all", "next", "all"}
  PROVE  LineKept'
BY DEF LineKept, LineMoves

\* The least of the places in the queue that hold a card still to be answered.
LEMMA FirstInLine ==
  ASSUME CountTypes, NEW n \in DOMAIN raised, Waiting(raised[n], "queued")
  PROVE  \E x \in Cards : NextInLine(x)
<1> DEFINE S == {i \in DOMAIN raised : Waiting(raised[i], "queued")}
<1>1. S \subseteq Nat /\ n \in S
  BY DEF CountTypes
<1>2. PICK i \in S : \A j \in S : <<j, i>> \notin OpToRel(<, Nat)
  BY <1>1, NatLessThanWellFounded, WFMin
<1>3. \A k \in 1 .. i - 1 : k \in DOMAIN raised /\ k < i /\ k \in Nat
  BY <1>1 DEF CountTypes
<1>4. \A k \in 1 .. i - 1 : ~Waiting(raised[k], "queued")
  BY <1>1, <1>2, <1>3 DEF OpToRel
<1>5. raised[i] \in Cards
  BY DEF CountTypes
<1>6. NextInLine(raised[i])
  BY <1>4 DEF NextInLine
<1>7. QED
  BY <1>5, <1>6

\* In a line that nobody has broken, one is up, or on its way up, before a queued card.
LEMMA LineKeptStep ==
  ASSUME StateTypes, CountTypes, TurnFacts, AttendFacts, [Next]_vars
  PROVE  LineKept'
<1> USE DEF dbVars, legVars, askVars, procVars, ebbVars, laneVars, tellVars, AttendFacts
<1> DEFINE Moves(s) ==
      s \in {"resume next", "resume all", "owed next", "owed all", "next", "all"}
<1>0. LineBroken => LineBroken'
  BY BrokenForGood
<1>1. CASE UNCHANGED <<card, late, step>>
  BY <1>0, <1>1 DEF LineKept, LineMoves, Waiting
<1>2. CASE GatewayParks
  BY <1>2, GatewayCard DEF StateTypes, LineKept, LineBroken, GatewayParks
<1>3. CASE StartGateway
  <2>1. \A k \in Legs : card'[k] = "queued" => card[k] = "queued"
    BY <1>3, LegParts DEF StateTypes, StartGateway, Starts
  <2>2. \A k \in Legs : Waiting(k, "pending") => Waiting(k, "pending")'
    BY <1>3, LegParts DEF StateTypes, Waiting, StartGateway, Starts
  <2>3. \A k \in Legs : Moves(step[k]) => Moves(step'[k])
    BY <1>3, LegParts DEF StateTypes, StartGateway, Starts
  <2>4. QED
    BY <1>0, <2>1, <2>2, <2>3, LineKeptBy
<1>4. CASE StartUnresolved
  <2>1. \A k \in Legs : card'[k] = "queued" => card[k] = "queued"
    BY <1>4, LegParts DEF StateTypes, StartUnresolved, Starts
  <2>2. \A k \in Legs : Waiting(k, "pending") => Waiting(k, "pending")'
    BY <1>4, LegParts DEF StateTypes, Waiting, StartUnresolved, Starts
  <2>3. \A k \in Legs : Moves(step[k]) => Moves(step'[k])
    BY <1>4, LegParts DEF StateTypes, StartUnresolved, Starts
  <2>4. QED
    BY <1>0, <2>1, <2>2, <2>3, LineKeptBy
<1>5. CASE ResumeNobody
  <2>1. \A k \in Legs : card'[k] = "queued" => card[k] = "queued"
    BY <1>5, LegParts DEF StateTypes, ResumeNobody, AfterResume
  <2>2. \A k \in Legs : Waiting(k, "pending") => Waiting(k, "pending")'
    BY <1>5, LegParts DEF StateTypes, Waiting, ResumeNobody, AfterResume
  <2>3. \A k \in Legs : Moves(step[k]) => Moves(step'[k])
    BY <1>5, LegParts DEF StateTypes, ResumeNobody, AfterResume
  <2>4. QED
    BY <1>0, <2>1, <2>2, <2>3, LineKeptBy
<1>6. CASE Exit
  BY <1>6, <1>0 DEF CountTypes, FirstServes, LineKept, LineBroken, Exit
<1>7. CASE Crash
  BY <1>7, <1>0 DEF CountTypes, FirstServes, LineKept, LineBroken, Crash
<1>8. ASSUME NEW l \in Legs, Park(l) PROVE LineKept'
  <2>1. SUFFICES ASSUME ~LineBroken PROVE LineMoves'
    BY <1>0 DEF LineKept
  <2>2. UNCHANGED late /\ late = {}
    BY <1>8, <2>1 DEF Park, LineBroken
  <2>3. CASE \E c \in Cards : card[c] = "pending"
    <3>1. PICK c \in Cards : card[c] = "pending"
      BY <2>3
    <3>2. c \in Legs
      BY <2>1, <3>1, AgentOfCard DEF LineBroken
    <3>3. c # l
      BY <1>8, <3>1 DEF Park, TurnFacts, CardAfterLeg, Busy
    <3>4. Waiting(c, "pending")'
      BY <1>8, <2>2, <3>1, <3>3 DEF StateTypes, Park, Waiting
    <3>5. QED
      BY <3>2, <3>4 DEF LineMoves
  <2>4. CASE \A c \in Cards : card[c] # "pending"
    <3>1. Waiting(l, "pending")'
      BY <1>8, <2>2, <2>4, LegParts DEF StateTypes, Park, SequencedStatus, Waiting
    <3>2. QED
      BY <3>1 DEF LineMoves
  <2>5. QED
    BY <2>3, <2>4
<1>9. ASSUME NEW c \in Cards, Expire(c) PROVE LineKept'
  BY <1>9 DEF LineKept, LineBroken, Expire
<1>10. ASSUME NEW c \in Cards, AnswerLate(c) PROVE LineKept'
  BY <1>10, <1>0 DEF LineKept, LineBroken, AnswerLate
<1>11. ASSUME NEW c \in Cards, PassOver(c) PROVE LineKept'
  BY <1>11 DEF LineKept, LineBroken, PassOver
<1>12. ASSUME NEW c \in Cards, Resume(c) PROVE LineKept'
  <2>1. \A k \in Legs : card'[k] = "queued" => card[k] = "queued"
    BY <1>12, LegParts DEF StateTypes, Resume, AfterResume, Resuming, Resumes
  <2>2. \A k \in Legs : Waiting(k, "pending") => Waiting(k, "pending")'
    BY <1>12, LegParts DEF StateTypes, Waiting, Resume, AfterResume, Resuming, Resumes
  <2>3. \A k \in Legs : Moves(step[k]) => Moves(step'[k])
    BY <1>12, LegParts DEF StateTypes, Resume, AfterResume, Resuming, Resumes
  <2>4. QED
    BY <1>0, <2>1, <2>2, <2>3, LineKeptBy
<1>13. ASSUME NEW c \in Cards, ResumeRemoved(c) PROVE LineKept'
  <2>1. \A k \in Legs : card'[k] = "queued" => card[k] = "queued"
    BY <1>13, LegParts DEF StateTypes, ResumeRemoved, Resuming, Resumes
  <2>2. \A k \in Legs : Waiting(k, "pending") => Waiting(k, "pending")'
    BY <1>13, LegParts DEF StateTypes, Waiting, ResumeRemoved, Resuming, Resumes
  <2>3. \A k \in Legs : Moves(step[k]) => Moves(step'[k])
    BY <1>13, LegParts DEF StateTypes, ResumeRemoved, Resuming, Resumes
  <2>4. QED
    BY <1>0, <2>1, <2>2, <2>3, LineKeptBy
<1>14. ASSUME NEW c \in Cards, TellRemoved(c) PROVE LineKept'
  <2>1. \A k \in Legs : card'[k] = "queued" => card[k] = "queued"
    BY <1>14, LegParts DEF StateTypes, TellRemoved, AfterResume, Owing, Owed
  <2>2. \A k \in Legs : Waiting(k, "pending") => Waiting(k, "pending")'
    BY <1>14, LegParts DEF StateTypes, Waiting, TellRemoved, AfterResume, Owing, Owed
  <2>3. \A k \in Legs : Moves(step[k]) => Moves(step'[k])
    BY <1>14, LegParts DEF StateTypes, TellRemoved, AfterResume, Owing, Owed
  <2>4. QED
    BY <1>0, <2>1, <2>2, <2>3, LineKeptBy
<1>15. ASSUME NEW c \in Cards, ReleaseNextCard(c) PROVE LineKept'
  <2>1. SUFFICES ASSUME ~LineBroken, NEW l \in Legs, card'[l] = "queued" PROVE LineMoves'
    BY <1>0 DEF LineKept
  <2>2. UNCHANGED <<late, raised>> /\ late = {} /\ card' = Promoted
    BY <1>15, <2>1 DEF ReleaseNextCard, LineBroken
  <2>3. card[l] = "queued" /\ Waiting(l, "queued")
    BY <2>1, <2>2, LegParts DEF Promoted, Waiting
  <2>4. PICK x \in Cards : NextInLine(x)
    BY <2>3, FirstInLine DEF WasRaised, Open
  <2>5. x \in Legs
    BY <2>1, <2>4, AgentOfCard DEF NextInLine, Waiting, LineBroken
  <2>6. Waiting(x, "pending")'
    BY <2>2, <2>4 DEF Promoted, Waiting
  <2>7. QED
    BY <2>5, <2>6 DEF LineMoves
<1>16. ASSUME NEW c \in Cards, DrainApprovalQueue(c) PROVE LineKept'
  <2>1. SUFFICES ASSUME ~LineBroken, NEW l \in Legs, card'[l] = "queued" PROVE FALSE
    BY <1>0 DEF LineKept
  <2>2. late = {}
    BY <2>1 DEF LineBroken
  <2>3. QED
    BY <1>16, <2>1, <2>2, LegParts DEF DrainApprovalQueue, Waiting
<1>17. ASSUME NEW d \in Agents, ReleaseOrphanedParks(d) PROVE LineKept'
  BY <1>17, <1>0 DEF StateTypes, OrphansAreOver, LineKept, LineBroken, ReleaseOrphanedParks
<1>18. ASSUME NEW d \in Agents, ReleaseAtBoot(d) PROVE LineKept'
  BY <1>18, <1>0 DEF CountTypes, FirstServes, LineKept, LineBroken, ReleaseAtBoot, Recovers
<1>19. ASSUME NEW c \in Cards, NEW decision \in {"approved", "rejected"},
              NEW everything \in BOOLEAN, Answer(c, decision, everything) PROVE LineKept'
  <2>1. SUFFICES ASSUME ~LineBroken PROVE LineMoves'
    BY <1>0 DEF LineKept
  <2>2. c \in Legs /\ c # Gateway
    BY <1>19, <2>1, AgentOfCard DEF Answer, Claimable, LineBroken
  <2>3. step'[c] \in {"resume next", "resume all"}
    BY <1>19, <2>2 DEF StateTypes, Answer
  <2>4. QED
    BY <2>2, <2>3 DEF LineMoves
<1>20. QED
  BY <1>1, <1>2, <1>3, <1>4, <1>5, <1>6, <1>7, <1>8, <1>9, <1>10, <1>11, <1>12, <1>13, <1>14,
     <1>15, <1>16, <1>17, <1>18, <1>19
  DEF Next, LegStep, CardStep, AgentStep, vars, Signal, BaseCancel, Quiesce, GraceRunsOut,
     Boot, Serve, LaneStep, DrainPops, PutBack, TurnSettles, TurnWaits, TurnParts, Launch,
     MarkParked, Return, Deadline, Finish, ScheduleCompletion, Scheduled, Leave,
     CreateDelegation, CancelRunning, CancelParked, CountAttempt, Recovers, GiveUp, Relaunch,
     TellGivenUp

\* At first no delegation runs.
LEMMA AttendInit == Init => AttendFacts
<1> SUFFICES ASSUME Init PROVE AttendFacts
  OBVIOUS
<1>1. /\ \A l \in Legs : pc[l] = "none" /\ card[l] = "none"
      /\ \A d \in Agents : del[d] = "none"
  BY LegParts DEF Init
<1>2. Dense /\ LastAttends
  BY <1>1 DEF Dense, LastAttends
<1>3. OrphansAreOver /\ ServingRuns /\ FirstServes
  BY DEF Init, OrphansAreOver, ServingRuns, FirstServes
<1>4. WasRaised /\ LineKept
  BY <1>1 DEF WasRaised, LineKept, Open
<1>5. QED
  BY <1>2, <1>3, <1>4 DEF AttendFacts

\* AttendFacts is inductive.
LEMMA AttendStep ==
  ASSUME StateTypes, CountTypes, TurnFacts, AttendFacts, [Next]_vars
  PROVE  AttendFacts'
<1>1. Dense' /\ OrphansAreOver' /\ ServingRuns'
  BY DenseStep, OrphansAreOverStep, ServingRunsStep DEF AttendFacts
<1>2. WasRaised' /\ FirstServes'
  BY WasRaisedStep, FirstServesStep DEF AttendFacts
<1>3. QED
  BY <1>1, <1>2, LastAttendsStep, LineKeptStep DEF AttendFacts

\* The last leg of a delegation, or its card, is one of those RunningIsAttended asks for.
LEMMA AttendedBySomebody ==
  ASSUME LastAttends, LineKept
  PROVE  RunningIsAttended
<1> SUFFICES ASSUME NEW d \in Agents, proc = "up", del[d] = "running"
             PROVE  \/ \E l \in LegsOf(d) : pc[l] \in Alive \ {"leaving"}
                    \/ \E c \in LegsOf(d) : Resuming(c) \/ Waiting(c, "pending")
                    \/ \E c \in LegsOf(d) : Waiting(c, "queued") /\ (LineMoves \/ LineBroken)
                    \/ RanOut(d)
  BY DEF RunningIsAttended
<1>1. PICK l \in Legs : Of(l) = d /\ Last(l) /\ Attends(l)
  BY DEF LastAttends, Recovered
<1>2. l \in LegsOf(d)
  BY <1>1 DEF LegsOf
<1>3. CASE Busy(l) \/ Resuming(l)
  BY <1>2, <1>3 DEF Busy, Alive
<1>4. CASE l \in late
  BY <1>1, <1>2, <1>4 DEF RanOut, Last, LegsOf
<1>5. CASE card[l] = "pending" /\ l \notin late
  BY <1>2, <1>5 DEF Waiting
<1>6. CASE card[l] = "queued" /\ l \notin late
  BY <1>2, <1>6 DEF Waiting, LineKept
<1>7. QED
  BY <1>1, <1>3, <1>4, <1>5, <1>6 DEF Attends, Open

\* RunningIsAttended: while the process serves, a row that says running has a leg, an
\* answer about to resume it, its card on the screen, or its card in a queue that moves,
\* with the exceptions the property names.
THEOREM RunningIsAttendedHolds == Spec => []RunningIsAttended
<1>1. TypeOK /\ TurnFacts /\ AttendFacts /\ [Next]_vars => AttendFacts'
  BY AttendStep, TypeParts
<1>2. AttendFacts => RunningIsAttended
  BY AttendedBySomebody DEF AttendFacts
<1>3. QED
  BY <1>1, <1>2, AttendInit, BackgroundInvariant, PTL DEF Spec

=============================================================================
