-------------------------- MODULE DelegationProofs --------------------------
(***************************************************************************)
(* The proof that Background implements Delegation, for any number of      *)
(* delegations, legs, cards and restarts.                                  *)
(*                                                                         *)
(* The place of the work is read off the legs: the one leg that has the    *)
(* turn (OneTurn of BackgroundProofs) has it as an agent, through its card,*)
(* through the answer to it, or because that answer has still to tell the  *)
(* person.  So a step that changes what one leg has moves the work of one  *)
(* delegation, and the rest is to say, action by action, from where to     *)
(* where; what the actions do not say of the row, the process, the         *)
(* completion turn and the recovery comes from the inductive invariants of *)
(* BackgroundProofs.                                                       *)
(***************************************************************************)
EXTENDS BackgroundProofs

\* A card past its expiry was raised.
LateWasOpen == \A c \in late : card[c] # "none"

PromiseInv == TypeOK /\ TurnFacts /\ TellFacts /\ ServingRuns /\ LateWasOpen

\* Only an open card expires, and no card is unraised.
LEMMA LateWasOpenStep ==
  ASSUME StateTypes, LateWasOpen, [Next]_vars
  PROVE  LateWasOpen'
<1> USE DEF dbVars, legVars, askVars, procVars, ebbVars, laneVars, tellVars
<1>1. CASE UNCHANGED <<card, late>>
  BY <1>1 DEF LateWasOpen
<1>2. ASSUME UNCHANGED late, \A c \in Cards : card[c] # "none" => card'[c] # "none"
      PROVE  LateWasOpen'
  BY <1>2 DEF LateWasOpen, StateTypes
<1>3. CASE GatewayParks
  BY <1>2, <1>3 DEF StateTypes, GatewayParks
<1>4. CASE StartGateway
  BY <1>2, <1>4 DEF StateTypes, StartGateway
<1>5. ASSUME NEW l \in Legs, Park(l) PROVE LateWasOpen'
  BY <1>2, <1>5 DEF StateTypes, Park, SequencedStatus
<1>6. ASSUME NEW c \in Cards, Expire(c) PROVE LateWasOpen'
  BY <1>6 DEF LateWasOpen, StateTypes, Expire, Open
<1>7. ASSUME NEW c \in Cards, NEW decision \in {"approved", "rejected"},
             NEW everything \in BOOLEAN, Answer(c, decision, everything)
      PROVE  LateWasOpen'
  BY <1>2, <1>7 DEF StateTypes, Answer
<1>8. ASSUME NEW c \in Cards, AnswerLate(c) \/ PassOver(c) \/ ReleaseNextCard(c)
      PROVE  LateWasOpen'
  BY <1>2, <1>8 DEF StateTypes, AnswerLate, PassOver, ReleaseNextCard, Promoted
<1>9. ASSUME NEW c \in Cards, DrainApprovalQueue(c) PROVE LateWasOpen'
  BY <1>2, <1>9 DEF StateTypes, DrainApprovalQueue
<1>10. ASSUME NEW d \in Agents, ReleaseOrphanedParks(d) \/ ReleaseAtBoot(d)
       PROVE  LateWasOpen'
  BY <1>2, <1>10 DEF StateTypes, ReleaseOrphanedParks, ReleaseAtBoot, Recovers, Orphaned
<1>11. QED
  BY <1>1, <1>3, <1>4, <1>5, <1>6, <1>7, <1>8, <1>9, <1>10
  DEF Next, LegStep, CardStep, AgentStep, vars, StartUnresolved, ResumeNobody, Signal,
      BaseCancel, Quiesce, GraceRunsOut, Exit, Crash, Gone, Boot, Serve, LaneStep, DrainPops,
      PutBack, TurnSettles, TurnWaits, TurnParts, Launch, MarkParked, Return, Deadline,
      Finish, ScheduleCompletion, Scheduled, Leave, Resume, ResumeRemoved, TellRemoved,
      CreateDelegation, CancelRunning, CancelParked, CountAttempt, GiveUp, Relaunch,
      TellGivenUp, Recovers

-----------------------------------------------------------------------------
(* Where the work is *)

\* A leg has something exactly when it has the turn.
LEMMA HasTurn ==
  \A l \in Legs : Has(l) # "nobody" <=> Turn(l)
BY DEF Has, Turn, Busy, Resumes, Owed, Resuming, Owing

\* The work is where the leg that has the turn has it ...
LEMMA TurnIs ==
  OneTurn => \A l \in Legs : Has(l) # "nobody" => TurnOf(Of(l)) = Has(l)
<1> SUFFICES ASSUME OneTurn, NEW l \in Legs, Has(l) # "nobody"
             PROVE  TurnOf(Of(l)) = Has(l)
  OBVIOUS
<1> DEFINE holders == {k \in LegsOf(Of(l)) : Has(k) # "nobody"}
           one == CHOOSE k \in holders : TRUE
<1>1. holders = {l}
  BY HasTurn DEF LegsOf, OneTurn
<1>2. one = l
  BY <1>1
<1>3. QED
  BY <1>1, <1>2 DEF TurnOf

\* ... and with nobody when no leg has it.
LEMMA TurnIsNobodys ==
  \A d \in Agents : (\A l \in Legs : Of(l) = d => Has(l) = "nobody") => TurnOf(d) = "nobody"
BY DEF TurnOf, LegsOf

\* The same of the next state.
LEMMA TurnWillBe ==
  /\ OneTurn' => \A l \in Legs : Has(l)' # "nobody" => TurnOf(Of(l))' = Has(l)'
  /\ \A d \in Agents : (\A l \in Legs : Of(l) = d => Has(l)' = "nobody") => TurnOf(d)' = "nobody"
<1>1. (OneTurn => \A l \in Legs : Has(l) # "nobody" => TurnOf(Of(l)) = Has(l))'
  BY TurnIs, PTL
<1>2. (\A d \in Agents : (\A l \in Legs : Of(l) = d => Has(l) = "nobody")
                         => TurnOf(d) = "nobody")'
  BY TurnIsNobodys, PTL
<1>3. QED
  BY <1>1, <1>2 DEF Of

\* A step by which the legs of a delegation keep what they have leaves its work in place.
LEMMA Stays ==
  ASSUME OneTurn, OneTurn', NEW d \in Agents,
         \A l \in Legs : Of(l) = d => Has(l)' = Has(l)
  PROVE  Turns'[d] = Turns[d]
<1>1. TurnOf(d)' = TurnOf(d)
  <2>1. CASE \A l \in Legs : Of(l) = d => Has(l) = "nobody"
    BY <2>1, TurnIsNobodys, TurnWillBe
  <2>2. ASSUME NEW l \in Legs, Of(l) = d, Has(l) # "nobody" PROVE TurnOf(d)' = TurnOf(d)
    BY <2>2, TurnIs, TurnWillBe
  <2>3. QED
    BY <2>1, <2>2
<1>2. QED
  BY <1>1 DEF Turns

\* What recovery has still to do for a row that says running.
Looks(stage) == CASE stage = "found" -> "found"
                  [] stage \in {"counted", "cleared"} -> "counted"
                  [] OTHER -> "none"

LEMMA CareIs == Care = [d \in Agents |-> Looks(recovery[d])]
BY DEF Care, Looks

LEMMA CareKept == UNCHANGED recovery => Care' = Care
BY DEF Care

LEMMA CareMoves ==
  ASSUME StateTypes, NEW d \in Agents, NEW stage, recovery' = [recovery EXCEPT ![d] = stage]
  PROVE  Care' = [Care EXCEPT ![d] = Looks(stage)]
<1>1. \A e \in Agents : recovery'[e] = IF e = d THEN stage ELSE recovery[e]
  BY DEF StateTypes
<1>2. Care' = [e \in Agents |-> Looks(recovery'[e])]
  BY DEF Care, Looks
<1>3. \A e \in Agents : Care'[e] = IF e = d THEN Looks(stage) ELSE Care[e]
  BY <1>1, <1>2, CareIs
<1>4. QED
  BY <1>2, <1>3, CareIs

\* One by which every leg does is none of the promise's, where the rest is untouched.
LEMMA Unseen ==
  ASSUME OneTurn, OneTurn', \A l \in Legs : Has(l)' = Has(l),
         UNCHANGED <<del, attempts, scheduled, proc>>,
         UNCHANGED recovery \/ Care' = Care
  PROVE  [Promise!Next]_(Promise!vars)
<1>1. \A d \in Agents : Turns'[d] = Turns[d]
  BY Stays
<1>2. Turns' = Turns
  BY <1>1 DEF Turns
<1>3. QED
  BY <1>2, CareKept DEF Promise!vars

\* One by which a leg of a delegation gets the turn, or keeps it, moves its work there.
LEMMA GoesTo ==
  ASSUME OneTurn, OneTurn', NEW l \in Legs, Has(l)' # "nobody",
         \A k \in Legs : Of(k) # Of(l) => Has(k)' = Has(k)
  PROVE  Turns' = [Turns EXCEPT ![Of(l)] = Has(l)']
<1>1. \A d \in Agents : d # Of(l) => Turns'[d] = Turns[d]
  BY Stays
<1>2. Turns'[Of(l)] = Has(l)'
  BY TurnWillBe, LegParts DEF Turns
<1>3. QED
  BY <1>1, <1>2 DEF Turns

\* One after which no leg of it has the turn leaves it with nobody.
LEMMA GoesNowhere ==
  ASSUME OneTurn, OneTurn', NEW d \in Agents,
         \A k \in Legs : Has(k)' = IF Of(k) = d THEN "nobody" ELSE Has(k)
  PROVE  Turns' = [Turns EXCEPT ![d] = "nobody"]
<1>1. \A a \in Agents : a # d => Turns'[a] = Turns[a]
  BY Stays
<1>2. Turns'[d] = "nobody"
  BY TurnWillBe DEF Turns
<1>3. QED
  BY <1>1, <1>2 DEF Turns

-----------------------------------------------------------------------------
(* What a leg has *)

\* A leg that is to run or runs has the work as the agent ...
LEMMA AgentHas ==
  ASSUME TurnFacts, NEW l \in Legs, Busy(l)
  PROVE  Has(l) = "agent" /\ card[l] = "none" /\ step[l] = "none"
BY DEF TurnFacts, CardAfterLeg, Busy, Has

\* ... through the card it raised, until that is answered ...
LEMMA CardHas ==
  ASSUME TurnFacts, NEW l \in Legs, card[l] \in Open, l \notin late
  PROVE  Has(l) = "card" /\ ~Busy(l) /\ step[l] = "none"
BY DEF TurnFacts, CardAfterLeg, AnsweredForGood, Busy, Has, Resuming, Owing, Owing, Resumes,
   Owed, Open

\* ... then through the answer ...
LEMMA AnswerHas ==
  ASSUME TurnFacts, NEW l \in Legs, Resuming(l)
  PROVE  Has(l) = "answer" /\ ~Busy(l) /\ card[l] \notin Open
BY DEF TurnFacts, CardAfterLeg, AnsweredForGood, Busy, Has, Resuming, Owing, Resumes

\* ... and it is what is left of it when the agent is not there any more.
LEMMA FarewellHas ==
  ASSUME TurnFacts, NEW l \in Legs, Owing(l)
  PROVE  Has(l) = "farewell" /\ ~Busy(l) /\ ~Resuming(l) /\ card[l] \notin Open
BY DEF TurnFacts, CardAfterLeg, AnsweredForGood, Busy, Has, Resuming, Owing, Owing, Resumes,
   Owed

\* The work goes from one leg of a delegation to another, or from one hand of a leg to
\* the other.
LEMMA PassesTo ==
  ASSUME OneTurn, OneTurn', NEW l \in Legs, NEW k \in Legs, Of(k) = Of(l),
         Has(l) # "nobody", Has(k)' # "nobody",
         \A j \in Legs : Of(j) # Of(l) => Has(j)' = Has(j),
         Promise!Way(Of(l), Has(l), Has(k)'),
         UNCHANGED <<del, attempts, scheduled, proc>>,
         UNCHANGED recovery \/ Care' = Care
  PROVE  [Promise!Next]_(Promise!vars)
<1>1. Of(l) \in Agents /\ Turns[Of(l)] = Has(l)
  BY TurnIs, LegParts DEF Turns
<1>2. Turns' = [Turns EXCEPT ![Of(l)] = Has(k)']
  BY GoesTo
<1>3. Has(k)' \in Promise!Places
  BY DEF Has, Promise!Places
<1>4. Promise!Pass(Of(l))
  BY <1>1, <1>2, <1>3, CareKept DEF Promise!Pass
<1>5. QED
  BY <1>1, <1>4 DEF Promise!Next

\* Or it is laid down.
LEMMA PassesOff ==
  ASSUME OneTurn, OneTurn', NEW l \in Legs, Has(l) # "nobody",
         \A j \in Legs : Has(j)' = IF Of(j) = Of(l) THEN "nobody" ELSE Has(j),
         Promise!Way(Of(l), Has(l), "nobody"),
         UNCHANGED <<del, attempts, scheduled, proc>>,
         UNCHANGED recovery \/ Care' = Care
  PROVE  [Promise!Next]_(Promise!vars)
<1>1. Of(l) \in Agents /\ Turns[Of(l)] = Has(l)
  BY TurnIs, LegParts DEF Turns
<1>2. Turns' = [Turns EXCEPT ![Of(l)] = "nobody"]
  BY <1>1, GoesNowhere
<1>3. Promise!Pass(Of(l))
  BY <1>1, <1>2, CareKept DEF Promise!Pass, Promise!Places
<1>4. QED
  BY <1>1, <1>3 DEF Promise!Next

\* The one leg that has the turn is the only one of its delegation that has anything.
LEMMA OthersHaveNothing ==
  ASSUME OneTurn, NEW l \in Legs, Has(l) # "nobody"
  PROVE  \A k \in Legs : Of(k) = Of(l) /\ k # l => Has(k) = "nobody"
BY HasTurn DEF OneTurn

-----------------------------------------------------------------------------
(* The steps of a leg *)

\* A process that refuses a leg is on its way out.
LEMMA RefusedWhileStopping ==
  ASSUME StateTypes, TurnFacts, ServingRuns, quiescing, proc # "down"
  PROVE  proc = "stopping"
BY DEF StateTypes, ServingRuns

\* A leg that runs has a process.
LEMMA BusyRuns ==
  ASSUME TurnFacts, NEW l \in Legs, Busy(l)
  PROVE  proc # "down"
BY DEF TurnFacts, NothingRuns, Busy, Alive

\* An answer is given to a process that serves.
LEMMA AnswerServes ==
  ASSUME StateTypes, TurnFacts, NEW c \in Cards, step[c] # "none"
  PROVE  Promise!Serving
BY DEF StateTypes, TurnFacts, NothingAsked, Promise!Serving

\* The leg launched has the work still, unless the process is on its way out.
LEMMA LaunchMove ==
  ASSUME StateTypes, TurnFacts, TurnFacts', ServingRuns, NEW l \in Legs, Launch(l)
  PROVE  [Promise!Next]_(Promise!vars)
<1> USE DEF dbVars, legVars, askVars, procVars, ebbVars, laneVars, tellVars
<1>1. OneTurn /\ OneTurn'
  BY DEF TurnFacts
<1>2. Busy(l) /\ Has(l) = "agent" /\ card[l] = "none" /\ step[l] = "none"
  BY AgentHas DEF Launch, Busy
<1>3. UNCHANGED <<del, attempts, card, late, step, scheduled, proc, recovery>>
  BY DEF Launch
<1>4. \A k \in Legs : k # l => Has(k)' = Has(k)
  BY <1>3 DEF StateTypes, Launch, Spawn, Has, Resuming, Owing
<1>5. CASE pc' = [pc EXCEPT ![l] = "working"]
  <2>1. Has(l)' = "agent"
    BY <1>5 DEF StateTypes, Has
  <2>2. QED
    BY <1>1, <1>2, <1>3, <1>4, <2>1, Unseen
<1>6. CASE quiescing /\ pc' = [pc EXCEPT ![l] = "gone"]
  <2>1. Has(l)' = "nobody"
    BY <1>2, <1>3, <1>6 DEF StateTypes, Has, Resuming, Owing, Resumes, Owed, Open
  <2>2. Promise!Way(Of(l), "agent", "nobody")
    BY <1>2, <1>6, BusyRuns, RefusedWhileStopping DEF Promise!Way
  <2>3. \A k \in Legs : Has(k)' = IF Of(k) = Of(l) THEN "nobody" ELSE Has(k)
    BY <1>1, <1>2, <1>4, <2>1, OthersHaveNothing
  <2>4. QED
    BY <1>1, <1>2, <1>3, <2>2, <2>3, PassesOff
<1>7. QED
  BY <1>5, <1>6 DEF Launch, Spawn

\* Park: from the agent to its card, which cannot have expired before it was raised.
LEMMA ParkMove ==
  ASSUME StateTypes, TurnFacts, TurnFacts', LateWasOpen, NEW l \in Legs, Park(l)
  PROVE  [Promise!Next]_(Promise!vars)
<1> USE DEF dbVars, legVars, askVars, procVars, ebbVars, laneVars, tellVars
<1>1. OneTurn /\ OneTurn'
  BY DEF TurnFacts
<1>2. Busy(l) /\ Has(l) = "agent" /\ card[l] = "none" /\ step[l] = "none" /\ l \notin late
  BY AgentHas DEF Park, Busy, LateWasOpen
<1>3. UNCHANGED <<del, attempts, late, step, scheduled, proc, recovery>>
  BY DEF Park
<1>4. \A k \in Legs : k # l => Has(k)' = Has(k)
  BY <1>3, LegParts DEF StateTypes, Park, Has, Resuming, Owing
<1>5. card'[l] \in Open /\ pc'[l] = "parking"
  BY LegParts DEF StateTypes, Park, SequencedStatus, Open
<1>6. Has(l)' = "card"
  BY <1>2, <1>3, <1>5 DEF Has, Resuming, Owing, Resumes, Owed
<1>7. Promise!Way(Of(l), "agent", "card")
  BY <1>2, BusyRuns DEF Promise!Way
<1>8. QED
  BY <1>1, <1>2, <1>3, <1>4, <1>6, <1>7, PassesTo

\* Finish settles the row, or finds it settled and lays the work down.
LEMMA FinishMove ==
  ASSUME StateTypes, TurnFacts, TurnFacts', NEW l \in Legs, Finish(l)
  PROVE  [Promise!Next]_(Promise!vars)
<1> USE DEF dbVars, legVars, askVars, procVars, ebbVars, laneVars, tellVars
<1>1. OneTurn /\ OneTurn' /\ Of(l) \in Agents
  BY LegParts DEF TurnFacts
<1>2. Busy(l) /\ Has(l) = "agent" /\ card[l] = "none" /\ step[l] = "none" /\ pc[l] # "none"
  BY AgentHas DEF Finish, Busy
<1>3. UNCHANGED <<attempts, card, late, step, scheduled, proc, recovery>>
  BY DEF Finish
<1>4. PICK status \in Verdicts(l) :
        /\ del' = IF OneWayDoor(Of(l)) THEN [del EXCEPT ![Of(l)] = status] ELSE del
        /\ pc' = [pc EXCEPT ![l] = IF Owes(l, OneWayDoor(Of(l)), status)
                                  THEN "settled" ELSE "leaving"]
  BY DEF Finish
<1>5. Has(l)' = "nobody" /\ \A k \in Legs : k # l => Has(k)' = Has(k)
  BY <1>2, <1>3, <1>4 DEF StateTypes, Has, Resuming, Owing, Resumes, Owed, Open
<1>6. \A k \in Legs : Has(k)' = IF Of(k) = Of(l) THEN "nobody" ELSE Has(k)
  BY <1>1, <1>2, <1>5, OthersHaveNothing
<1>7. CASE OneWayDoor(Of(l))
  <2>1. Turns' = [Turns EXCEPT ![Of(l)] = "nobody"]
    BY <1>1, <1>6, GoesNowhere
  <2>2. Turns[Of(l)] = "agent"
    BY <1>1, <1>2, TurnIs DEF Turns
  <2>3. status \in {"done", "failed", "cancelled"}
    BY DEF Verdicts
  <2>4. Promise!Settle(Of(l), status)
    BY <1>2, <1>3, <1>4, <1>7, <2>1, <2>2, BusyRuns, CareKept DEF OneWayDoor, Promise!Settle
  <2>5. QED
    BY <1>1, <2>3, <2>4 DEF Promise!Next
<1>8. CASE ~OneWayDoor(Of(l))
  <2>1. UNCHANGED del
    BY <1>4, <1>8
  <2>2. del[Of(l)] \in {"done", "failed", "cancelled"}
    BY <1>1, <1>2, <1>8 DEF StateTypes, TurnFacts, LegAfterRow, OneWayDoor, Terminal
  <2>3. Promise!Way(Of(l), "agent", "nobody")
    BY <1>2, <2>2, BusyRuns DEF Promise!Way, Promise!Over
  <2>4. QED
    BY <1>1, <1>2, <1>3, <1>6, <2>1, <2>3, PassesOff
<1>9. QED
  BY <1>7, <1>8

\* ScheduleCompletion tells the person, once.
LEMMA ScheduleMove ==
  ASSUME StateTypes, CountTypes, TurnFacts, TurnFacts', TellFacts,
         NEW l \in Legs, ScheduleCompletion(l)
  PROVE  [Promise!Next]_(Promise!vars)
<1> USE DEF dbVars, legVars, askVars, procVars, ebbVars, laneVars, tellVars
<1>1. Telling(Of(l)) /\ Of(l) \in Agents /\ del[Of(l)] \in {"done", "failed"}
  BY LegTells
<1>2. UNCHANGED <<del, attempts, card, late, step, proc, recovery>>
  BY DEF ScheduleCompletion
<1>3. \A k \in Legs : Has(k)' = Has(k)
  BY <1>2 DEF StateTypes, ScheduleCompletion, Has, Resuming, Owing
<1>4. Turns' = Turns
  <2>1. \A d \in Agents : Turns'[d] = Turns[d]
    BY <1>3, Stays DEF TurnFacts
  <2>2. QED
    BY <2>1 DEF Turns
<1>5. Promise!Tell(Of(l))
  BY <1>1, <1>2, <1>4, CareKept DEF Telling, Promise!Tell, Promise!Once
<1>6. QED
  BY <1>1, <1>5 DEF Promise!Next

\* The other steps of a leg are its own affair.
LEMMA QuietLegMove ==
  ASSUME StateTypes, TurnFacts, TurnFacts', NEW l \in Legs,
         MarkParked(l) \/ Return(l) \/ Deadline(l) \/ Leave(l)
  PROVE  [Promise!Next]_(Promise!vars)
<1> USE DEF dbVars, legVars, askVars, procVars, ebbVars, laneVars, tellVars
<1>1. UNCHANGED <<del, attempts, card, late, step, scheduled, proc, recovery>>
  BY DEF MarkParked, Return, Deadline, Leave
<1>2. \A k \in Legs : Has(k)' = Has(k)
  BY <1>1 DEF StateTypes, MarkParked, Return, Deadline, Leave, Has, Resuming, Owing
<1>3. QED
  BY <1>1, <1>2, Unseen DEF TurnFacts

-----------------------------------------------------------------------------
(* The steps of a card *)

\* A card that runs out lets the work go.
LEMMA ExpireMove ==
  ASSUME StateTypes, TurnFacts, TurnFacts', NEW c \in Cards, Expire(c)
  PROVE  [Promise!Next]_(Promise!vars)
<1> USE DEF dbVars, legVars, askVars, procVars, ebbVars, laneVars, tellVars
<1>1. OneTurn /\ OneTurn'
  BY DEF TurnFacts
<1>2. UNCHANGED <<del, attempts, card, pc, step, scheduled, proc, recovery>>
  BY DEF Expire
<1>3. \A k \in Legs : k # c => Has(k)' = Has(k)
  BY <1>2 DEF Expire, Has, Resuming, Owing
<1>4. CASE c = Gateway
  BY <1>1, <1>2, <1>3, <1>4, LegParts, Unseen
<1>5. CASE c # Gateway
  <2>1. c \in Legs /\ Has(c) = "card" /\ ~Busy(c) /\ step[c] = "none"
    BY <1>5, AgentOfCard, CardHas DEF Expire
  <2>2. Has(c)' = "nobody"
    BY <1>2, <2>1 DEF Expire, Has, Busy, Resuming, Owing, Resumes, Owed
  <2>3. \A k \in Legs : Has(k)' = IF Of(k) = Of(c) THEN "nobody" ELSE Has(k)
    BY <1>1, <1>3, <2>1, <2>2, OthersHaveNothing
  <2>4. Promise!Way(Of(c), "card", "nobody")
    BY DEF Promise!Way
  <2>5. QED
    BY <1>1, <1>2, <2>1, <2>3, <2>4, PassesOff
<1>6. QED
  BY <1>4, <1>5

\* The person's answer takes the work over from the card.
LEMMA AnswerMove ==
  ASSUME StateTypes, TurnFacts, TurnFacts', NEW c \in Cards,
         NEW decision \in {"approved", "rejected"}, NEW everything \in BOOLEAN,
         Answer(c, decision, everything)
  PROVE  [Promise!Next]_(Promise!vars)
<1> USE DEF dbVars, legVars, askVars, procVars, ebbVars, laneVars, tellVars
<1>1. OneTurn /\ OneTurn'
  BY DEF TurnFacts
<1>2. UNCHANGED <<del, attempts, late, pc, scheduled, proc, recovery>>
  BY DEF Answer
<1>3. \A k \in Legs : k # c => Has(k)' = Has(k)
  BY <1>2, LegParts DEF StateTypes, Answer, Has, Resuming, Owing
<1>4. CASE c = Gateway
  BY <1>1, <1>2, <1>3, <1>4, LegParts, Unseen
<1>5. CASE c # Gateway
  <2>1. c \in Legs /\ Has(c) = "card" /\ ~Busy(c)
    BY <1>5, AgentOfCard, CardHas DEF Answer, Claimable, Open
  <2>2. step'[c] \in {"resume all", "resume next"}
    BY <1>5 DEF StateTypes, Answer
  <2>3. Has(c)' = "answer"
    BY <1>2, <2>1, <2>2 DEF Has, Busy, Resuming, Resumes
  <2>4. Promise!Way(Of(c), "card", "answer")
    BY DEF Answer, Up, Promise!Way, Promise!Serving
  <2>5. QED
    BY <1>1, <1>2, <1>3, <2>1, <2>3, <2>4, PassesTo
<1>6. QED
  BY <1>4, <1>5

\* ResumeDetached hands it to the next leg, unless the process is on its way out.
LEMMA ResumeMove ==
  ASSUME StateTypes, TurnFacts, TurnFacts', ServingRuns, NEW c \in Cards, Resume(c)
  PROVE  [Promise!Next]_(Promise!vars)
<1> USE DEF dbVars, legVars, askVars, procVars, ebbVars, laneVars, tellVars
<1>1. OneTurn /\ OneTurn'
  BY DEF TurnFacts
<1>2. c \in Legs /\ Resuming(c) /\ Has(c) = "answer" /\ ~Busy(c) /\ card[c] \notin Open
  BY ResumeLeg, AnswerHas DEF Resume
<1>3. UNCHANGED <<del, attempts, card, late, scheduled, proc, recovery>>
  BY DEF Resume
<1>4. PICK l \in Legs, v \in {"gone", "working", "returned"} :
        /\ Of(l) = Of(c) /\ pc[l] = "none" /\ pc' = [pc EXCEPT ![l] = v]
        /\ ~quiescing => v \in {"working", "returned"}
  BY ResumeLeg
<1>5. card[l] = "none" /\ step[l] = "none" /\ l # c
  BY <1>2, <1>4 DEF TurnFacts, CardAfterLeg, Resuming, Resumes
<1>6. step' = [step EXCEPT ![c] = AfterResume(c)] /\ AfterResume(c) \in {"none", "next", "all"}
  BY DEF Resume, AfterResume
<1>7. Has(c)' = "nobody"
  BY <1>2, <1>3, <1>4, <1>5, <1>6 DEF StateTypes, Has, Busy, Resuming, Owing, Resumes, Owed
<1>8. \A k \in Legs : k # c /\ k # l => Has(k)' = Has(k)
  BY <1>3, <1>4, <1>6, LegParts DEF StateTypes, Has, Resuming, Owing
<1>9. Promise!Serving /\ proc # "down"
  BY <1>2, AnswerServes DEF Resuming, Resumes, Promise!Serving
<1>10. CASE v \in {"working", "returned"}
  <2>1. Has(l)' = "agent"
    BY <1>4, <1>10 DEF StateTypes, Has
  <2>2. Promise!Way(Of(c), "answer", "agent")
    BY <1>9 DEF Promise!Way
  <2>3. \A k \in Legs : Of(k) # Of(c) => Has(k)' = Has(k)
    BY <1>4, <1>8
  <2>4. QED
    BY <1>1, <1>2, <1>3, <1>4, <2>1, <2>2, <2>3, PassesTo
<1>11. CASE v = "gone"
  <2>1. Has(l)' = "nobody"
    BY <1>3, <1>4, <1>5, <1>6, <1>11, LegParts DEF StateTypes, Has, Resuming, Owing, Resumes,
       Owed, Open
  <2>2. proc = "stopping"
    BY <1>4, <1>9, <1>11, RefusedWhileStopping
  <2>3. Promise!Way(Of(c), "answer", "nobody")
    BY <2>2 DEF Promise!Way
  <2>4. \A k \in Legs : Has(k)' = IF Of(k) = Of(c) THEN "nobody" ELSE Has(k)
    BY <1>1, <1>2, <1>4, <1>7, <1>8, <2>1, OthersHaveNothing
  <2>5. QED
    BY <1>1, <1>2, <1>3, <2>3, <2>4, PassesOff
<1>12. QED
  BY <1>10, <1>11

\* ... or it finds the agent gone, fails the row if it runs, and owes the person the news.
LEMMA GoneMove ==
  ASSUME StateTypes, TurnFacts, TurnFacts', NEW c \in Cards, ResumeRemoved(c)
  PROVE  [Promise!Next]_(Promise!vars)
<1> USE DEF dbVars, legVars, askVars, procVars, ebbVars, laneVars, tellVars
<1>1. OneTurn /\ OneTurn'
  BY DEF TurnFacts
<1>2. c \in Legs /\ Of(c) \in Agents /\ Resuming(c)
  BY AgentOfCard DEF ResumeRemoved
<1>3. Has(c) = "answer" /\ ~Busy(c) /\ step[c] # "none"
  BY <1>2, AnswerHas DEF Resuming, Resumes
<1>4. UNCHANGED <<attempts, card, late, pc, scheduled, proc, recovery>>
  BY DEF ResumeRemoved
<1>5. step'[c] \in Owed /\ \A k \in Legs : k # c => step'[k] = step[k]
  BY LegParts DEF StateTypes, ResumeRemoved, Owed
<1>6. Has(c)' = "farewell"
  BY <1>3, <1>4, <1>5 DEF Has, Busy, Resuming, Owing, Resumes, Owed
<1>7. \A k \in Legs : Of(k) # Of(c) => Has(k)' = Has(k)
  BY <1>4, <1>5 DEF Has, Resuming, Owing
<1>8. Turns[Of(c)] = "answer" /\ Turns' = [Turns EXCEPT ![Of(c)] = "farewell"]
  BY <1>1, <1>2, <1>3, <1>6, <1>7, TurnIs, GoesTo DEF Turns
<1>9. del' = IF del[Of(c)] = "running" THEN [del EXCEPT ![Of(c)] = "failed"] ELSE del
  BY DEF ResumeRemoved, OneWayDoor
<1>10. Promise!AgentGone(Of(c))
  BY <1>3, <1>4, <1>8, <1>9, AnswerServes, CareKept DEF Promise!AgentGone
<1>11. QED
  BY <1>2, <1>10 DEF Promise!Next

\* ... of which it tells, once.
LEMMA FarewellMove ==
  ASSUME StateTypes, CountTypes, TurnFacts, TurnFacts', TellFacts,
         NEW c \in Cards, TellRemoved(c)
  PROVE  [Promise!Next]_(Promise!vars)
<1> USE DEF dbVars, legVars, askVars, procVars, ebbVars, laneVars, tellVars
<1>1. OneTurn /\ OneTurn'
  BY DEF TurnFacts
<1>2. c \in Legs /\ Owing(c) /\ Telling(Of(c)) /\ Of(c) \in Agents
  BY AnswerTells
<1>3. Has(c) = "farewell" /\ ~Busy(c) /\ card[c] \notin Open
  BY <1>2, FarewellHas
<1>4. UNCHANGED <<del, attempts, card, late, pc, proc, recovery>>
  BY DEF TellRemoved
<1>5. step'[c] \in {"none", "next", "all"} /\ \A k \in Legs : k # c => step'[k] = step[k]
  BY LegParts DEF StateTypes, TellRemoved, AfterResume
<1>6. Has(c)' = "nobody"
  BY <1>3, <1>4, <1>5 DEF Has, Busy, Resuming, Owing, Resumes, Owed
<1>7. \A k \in Legs : k # c => Has(k)' = Has(k)
  BY <1>4, <1>5 DEF Has, Resuming, Owing
<1>8. \A k \in Legs : Has(k)' = IF Of(k) = Of(c) THEN "nobody" ELSE Has(k)
  BY <1>1, <1>2, <1>3, <1>6, <1>7, OthersHaveNothing
<1>9. Turns[Of(c)] = "farewell" /\ Turns' = [Turns EXCEPT ![Of(c)] = "nobody"]
  BY <1>1, <1>2, <1>3, <1>8, TurnIs, GoesNowhere DEF Turns
<1>10. Promise!Farewell(Of(c))
  BY <1>2, <1>4, <1>9, CareKept
  DEF Telling, Terminal, Promise!Farewell, Promise!Once, Promise!Over
<1>11. QED
  BY <1>2, <1>10 DEF Promise!Next

\* Letting the rest through answers every card that has not expired.
LEMMA DrainMove ==
  ASSUME StateTypes, TurnFacts, TurnFacts', NEW c \in Cards, DrainApprovalQueue(c)
  PROVE  [Promise!Next]_(Promise!vars)
<1> USE DEF dbVars, legVars, askVars, procVars, ebbVars, laneVars, tellVars
<1> DEFINE D == {d \in Agents : \E l \in Legs : Of(l) = d /\ LetThrough(l)}
<1>1. OneTurn /\ OneTurn'
  BY DEF TurnFacts
<1>2. UNCHANGED <<del, attempts, late, pc, scheduled, proc, recovery>>
  BY DEF DrainApprovalQueue
<1>3. ASSUME NEW l \in Legs, LetThrough(l) PROVE Has(l) = "card" /\ Has(l)' = "answer"
  <2>1. Has(l) = "card" /\ ~Busy(l) /\ step[l] = "none"
    BY <1>3, CardHas DEF LetThrough, Waiting, Open
  <2>2. step'[l] = "resume"
    BY <1>3, <2>1, LegParts DEF DrainApprovalQueue
  <2>3. QED
    BY <1>2, <2>1, <2>2 DEF Has, Busy, Resuming, Resumes
<1>4. ASSUME NEW l \in Legs, ~LetThrough(l) PROVE Has(l)' = Has(l)
  <2>1. (Resuming(l)' <=> Resuming(l)) /\ (Owing(l)' <=> Owing(l))
    BY <1>4, LegParts DEF DrainApprovalQueue, Resuming, Owing, Resumes, Owed
  <2>2. card'[l] \in Open /\ l \notin late <=> card[l] \in Open /\ l \notin late
    BY <1>4, LegParts DEF DrainApprovalQueue, LetThrough, Waiting, Open
  <2>3. QED
    BY <1>2, <2>1, <2>2 DEF Has
<1>5. CASE D = {}
  <2>1. \A l \in Legs : ~LetThrough(l)
    BY <1>5, LegParts
  <2>2. QED
    BY <1>1, <1>2, <1>4, <2>1, Unseen
<1>6. CASE D # {}
  <2>1. \A d \in D : Turns[d] = "card" /\ Turns'[d] = "answer"
    BY <1>1, <1>3, TurnIs, TurnWillBe DEF Turns
  <2>2. \A d \in Agents : d \notin D => Turns'[d] = Turns[d]
    BY <1>1, <1>4, Stays
  <2>3. Turns' = [d \in Agents |-> IF d \in D THEN "answer" ELSE Turns[d]]
    BY <2>1, <2>2 DEF Turns
  <2>4. Promise!Serving
    BY AnswerServes DEF DrainApprovalQueue
  <2>5. Promise!AnswerAll(D)
    BY <1>2, <1>6, <2>1, <2>3, <2>4, CareKept DEF Promise!AnswerAll
  <2>6. QED
    BY <2>5 DEF Promise!Next
<1>7. QED
  BY <1>5, <1>6

\* A card that changes its place in the queue, or is answered too late, moves nothing.
LEMMA QuietCardMove ==
  ASSUME StateTypes, TurnFacts, TurnFacts', NEW c \in Cards,
         AnswerLate(c) \/ PassOver(c) \/ ReleaseNextCard(c)
  PROVE  [Promise!Next]_(Promise!vars)
<1> USE DEF dbVars, legVars, askVars, procVars, ebbVars, laneVars, tellVars
<1>1. UNCHANGED <<del, attempts, late, pc, scheduled, proc, recovery>>
  BY DEF AnswerLate, PassOver, ReleaseNextCard
<1>2. \A k \in Legs : (Resuming(k)' <=> Resuming(k)) /\ (Owing(k)' <=> Owing(k))
  BY LegParts
  DEF StateTypes, AnswerLate, PassOver, ReleaseNextCard, Resuming, Owing, Resumes, Owed
<1>3. \A k \in Legs : card'[k] \in Open /\ k \notin late <=> card[k] \in Open /\ k \notin late
  <2>1. CASE AnswerLate(c)
    BY <2>1, LegParts DEF StateTypes, AnswerLate, Open
  <2>2. CASE PassOver(c)
    BY <2>2, LegParts DEF StateTypes, PassOver, Waiting, NextInLine, Open
  <2>3. CASE ReleaseNextCard(c)
    BY <2>3, LegParts DEF StateTypes, ReleaseNextCard, Promoted, Waiting, NextInLine, Open
  <2>4. QED
    BY <2>1, <2>2, <2>3
<1>4. \A k \in Legs : Has(k)' = Has(k)
  BY <1>1, <1>2, <1>3 DEF Has
<1>5. QED
  BY <1>1, <1>4, Unseen DEF TurnFacts

\* Nor does a card of the Gateway's own.
LEMMA GatewayMove ==
  ASSUME StateTypes, TurnFacts, TurnFacts',
         GatewayParks \/ StartGateway \/ StartUnresolved \/ ResumeNobody
  PROVE  [Promise!Next]_(Promise!vars)
<1> USE DEF dbVars, legVars, askVars, procVars, ebbVars, laneVars, tellVars
<1>1. UNCHANGED <<del, attempts, late, pc, scheduled, proc, recovery>>
  BY DEF GatewayParks, StartGateway, StartUnresolved, ResumeNobody
<1>2. \A k \in Legs : step'[k] = step[k] /\ card'[k] = card[k]
  BY LegParts DEF StateTypes, GatewayParks, StartGateway, StartUnresolved, ResumeNobody
<1>3. \A k \in Legs : Has(k)' = Has(k)
  BY <1>1, <1>2 DEF Has, Resuming, Owing
<1>4. QED
  BY <1>1, <1>3, Unseen DEF TurnFacts

-----------------------------------------------------------------------------
(* The steps of a delegation *)

\* CreateDelegation sends an agent that nobody has heard of.
LEMMA SendMove ==
  ASSUME StateTypes, TurnFacts, TurnFacts', NEW d \in Agents, CreateDelegation(d)
  PROVE  [Promise!Next]_(Promise!vars)
<1> USE DEF dbVars, legVars, askVars, procVars, ebbVars, laneVars, tellVars
<1> DEFINE l == <<d, 1>>
<1>1. OneTurn /\ OneTurn' /\ l \in Legs /\ Of(l) = d
  BY FirstLeg DEF TurnFacts
<1>2. \A k \in Legs : Of(k) = d => pc[k] = "none" /\ Has(k) = "nobody"
  BY DEF CreateDelegation, TurnFacts, LegAfterRow, CardAfterLeg, Has, Busy, Resuming, Owing,
     Resumes, Owed, Open
<1>3. Turns[d] = "nobody"
  BY <1>2, TurnIsNobodys DEF Turns
<1>4. UNCHANGED <<card, late, step, scheduled, proc, recovery>> /\ pc' = [pc EXCEPT ![l] = "due"]
  BY DEF CreateDelegation
<1>5. Has(l)' = "agent" /\ \A k \in Legs : k # l => Has(k)' = Has(k)
  BY <1>1, <1>4 DEF StateTypes, Has, Resuming, Owing
<1>6. Turns' = [Turns EXCEPT ![d] = "agent"]
  BY <1>1, <1>5, GoesTo
<1>7. Promise!Send(d)
  BY <1>3, <1>4, <1>6, CareKept DEF CreateDelegation, Up, Promise!Send, Promise!Serving
<1>8. QED
  BY <1>7 DEF Promise!Next

\* A row settled by a cancel leaves the work where it is: its card goes next.
LEMMA CancelMove ==
  ASSUME StateTypes, TurnFacts, TurnFacts', NEW d \in Agents, CancelParked(d)
  PROVE  [Promise!Next]_(Promise!vars)
<1> USE DEF dbVars, legVars, askVars, procVars, ebbVars, laneVars, tellVars
<1>1. UNCHANGED <<attempts, card, late, pc, step, scheduled, proc, recovery>>
  BY DEF CancelParked
<1>2. \A k \in Legs : Has(k)' = Has(k)
  BY <1>1 DEF Has, Resuming, Owing
<1>3. Turns' = Turns
  <2>1. \A a \in Agents : Turns'[a] = Turns[a]
    BY <1>2, Stays DEF TurnFacts
  <2>2. QED
    BY <2>1 DEF Turns
<1>4. Promise!Cancel(d)
  BY <1>1, <1>3, CareKept DEF CancelParked, OneWayDoor, Up, Promise!Cancel, Promise!Serving
<1>5. QED
  BY <1>4 DEF Promise!Next

\* releaseOrphanedParks takes the open card of its delegation down, and no other.
LEMMA Takedown ==
  ASSUME StateTypes, TurnFacts, NEW d \in Agents, card' = Orphaned(d),
         UNCHANGED <<late, step, pc>>
  PROVE  \A k \in Legs :
           Has(k)' = IF Of(k) = d /\ Has(k) = "card" THEN "nobody" ELSE Has(k)
<1> SUFFICES ASSUME NEW k \in Legs
             PROVE  Has(k)' = IF Of(k) = d /\ Has(k) = "card" THEN "nobody" ELSE Has(k)
  OBVIOUS
<1>1. (Resuming(k)' <=> Resuming(k)) /\ (Owing(k)' <=> Owing(k))
  BY DEF Resuming, Owing
<1>2. CASE card[k] \in Open /\ k \notin late
  <2>1. Has(k) = "card" /\ ~Busy(k) /\ ~Resuming(k) /\ ~Owing(k)
    BY <1>2, CardHas DEF Resuming, Owing, Resumes, Owed
  <2>2. card'[k] = IF Of(k) = d THEN "rejected" ELSE card[k]
    BY <1>2, LegParts DEF Orphaned, LegsOf
  <2>3. QED
    BY <1>1, <1>2, <2>1, <2>2 DEF Has, Busy, Open
<1>3. CASE ~(card[k] \in Open /\ k \notin late)
  <2>1. card'[k] = card[k] /\ Has(k) # "card"
    BY <1>3, LegParts DEF Orphaned, Has
  <2>2. QED
    BY <1>1, <2>1 DEF Has
<1>4. QED
  BY <1>2, <1>3

\* It lets the work go that was with the card, if any was.
LEMMA TakedownMove ==
  ASSUME StateTypes, TurnFacts, TurnFacts', NEW d \in Agents, card' = Orphaned(d),
         UNCHANGED <<late, step, pc, del, attempts, scheduled, proc>>,
         UNCHANGED recovery \/ Care' = Care
  PROVE  [Promise!Next]_(Promise!vars)
<1>1. OneTurn /\ OneTurn'
  BY DEF TurnFacts
<1>2. \A k \in Legs : Has(k)' = IF Of(k) = d /\ Has(k) = "card" THEN "nobody" ELSE Has(k)
  BY Takedown
<1>3. CASE \A l \in Legs : Of(l) = d => Has(l) # "card"
  BY <1>1, <1>2, <1>3, Unseen
<1>4. ASSUME NEW l \in Legs, Of(l) = d, Has(l) = "card" PROVE [Promise!Next]_(Promise!vars)
  <2>1. \A k \in Legs : Has(k)' = IF Of(k) = Of(l) THEN "nobody" ELSE Has(k)
    BY <1>1, <1>2, <1>4, OthersHaveNothing
  <2>2. Promise!Way(Of(l), Has(l), "nobody")
    BY <1>4 DEF Promise!Way
  <2>3. QED
    BY <1>1, <1>4, <2>1, <2>2, PassesOff
<1>5. QED
  BY <1>3, <1>4

\* cancel does it for a row it has settled.
LEMMA ReleaseMove ==
  ASSUME StateTypes, TurnFacts, TurnFacts', NEW d \in Agents, ReleaseOrphanedParks(d)
  PROVE  [Promise!Next]_(Promise!vars)
BY TakedownMove
DEF ReleaseOrphanedParks, dbVars, legVars, askVars, procVars, ebbVars, laneVars, tellVars

-----------------------------------------------------------------------------
(* The steps of recovery *)

\* The work of a row that recovery has still to see through is with its card or with
\* nobody, and with nobody once its cards are released.
LEMMA Visited ==
  ASSUME TurnFacts, NEW d \in Agents, proc = "booting", recovery[d] # "none"
  PROVE  /\ Turns[d] \in {"nobody", "card"}
         /\ recovery[d] \in {"cleared", "owed"} => Turns[d] = "nobody"
<1>1. OneTurn
  BY DEF TurnFacts
<1>2. \A l \in Legs : Of(l) = d => ~Busy(l) /\ ~Resuming(l) /\ ~Owing(l)
  BY LegParts
  DEF TurnFacts, RowsAlone, NothingAsked, Busy, Resuming, Owing, Resumes, Owed, Alive
<1>3. \A l \in Legs : Of(l) = d => Has(l) \in {"nobody", "card"}
  BY <1>2 DEF Has, Busy
<1>4. TurnOf(d) \in {"nobody", "card"}
  BY <1>1, <1>3, TurnIs, TurnIsNobodys
<1>5. ASSUME recovery[d] \in {"cleared", "owed"} PROVE TurnOf(d) = "nobody"
  <2>1. \A l \in Legs : Of(l) = d => Has(l) = "nobody"
    BY <1>2, <1>5 DEF TurnFacts, RowsBare, Has, Busy
  <2>2. QED
    BY <2>1, TurnIsNobodys
<1>6. QED
  BY <1>4, <1>5 DEF Turns

\* A step of recovery that leaves the legs and the cards alone leaves the work in place.
LEMMA RecoveryStays ==
  ASSUME TurnFacts, TurnFacts', UNCHANGED <<card, late, step, pc>>
  PROVE  Turns' = Turns
<1>1. \A k \in Legs : Has(k)' = Has(k)
  BY DEF Has, Resuming, Owing
<1>2. \A d \in Agents : Turns'[d] = Turns[d]
  BY <1>1, Stays DEF TurnFacts
<1>3. QED
  BY <1>2 DEF Turns

\* RestartDelegation counts the attempt, ...
LEMMA CountMove ==
  ASSUME StateTypes, TurnFacts, TurnFacts', NEW d \in Agents, CountAttempt(d)
  PROVE  [Promise!Next]_(Promise!vars)
<1> USE DEF dbVars, legVars, askVars, procVars, ebbVars, laneVars, tellVars
<1>1. /\ UNCHANGED <<del, card, late, step, pc, scheduled, proc>> /\ proc = "booting"
      /\ recovery[d] = "found" /\ recovery' = [recovery EXCEPT ![d] = "counted"]
      /\ attempts[d] < MaxDelegationAttempts /\ attempts' = [attempts EXCEPT ![d] = @ + 1]
  BY DEF CountAttempt, Recovers, Restartable
<1>2. Turns' = Turns
  BY <1>1, RecoveryStays
<1>3. Care[d] = "found" /\ Care' = [Care EXCEPT ![d] = "counted"]
  BY <1>1, CareIs, CareMoves DEF Looks
<1>4. del[d] = "running"
  BY <1>1 DEF TurnFacts, RowsRun
<1>5. Promise!Count(d)
  BY <1>1, <1>2, <1>3, <1>4 DEF Promise!Count, Promise!LookAfter
<1>6. QED
  BY <1>5 DEF Promise!Next

\* ... or the row is failed, ...
LEMMA GiveUpMove ==
  ASSUME StateTypes, TurnFacts, TurnFacts', NEW d \in Agents, GiveUp(d)
  PROVE  [Promise!Next]_(Promise!vars)
<1> USE DEF dbVars, legVars, askVars, procVars, ebbVars, laneVars, tellVars
<1>1. /\ UNCHANGED <<attempts, card, late, step, pc, scheduled, proc>> /\ proc = "booting"
      /\ recovery[d] \in {"found", "counted"} /\ recovery' = [recovery EXCEPT ![d] = "failed"]
      /\ del' = [del EXCEPT ![d] = "failed"]
  BY DEF GiveUp, Recovers
<1>2. Turns' = Turns /\ Turns[d] \in {"nobody", "card"}
  BY <1>1, RecoveryStays, Visited
<1>3. Care[d] \in {"found", "counted"} /\ Care' = [Care EXCEPT ![d] = "none"]
  BY <1>1, CareIs, CareMoves DEF Looks
<1>4. del[d] = "running"
  BY <1>1 DEF TurnFacts, RowsRun
<1>5. Promise!GiveUp(d)
  BY <1>1, <1>2, <1>3, <1>4 DEF Promise!GiveUp, Promise!LookAfter
<1>6. QED
  BY <1>5 DEF Promise!Next

\* ... then its cards are taken down, ...
LEMMA BootReleaseMove ==
  ASSUME StateTypes, TurnFacts, TurnFacts', NEW d \in Agents, ReleaseAtBoot(d)
  PROVE  [Promise!Next]_(Promise!vars)
<1> USE DEF dbVars, legVars, askVars, procVars, ebbVars, laneVars, tellVars
<1>1. UNCHANGED <<late, step, pc, del, attempts, scheduled, proc>> /\ card' = Orphaned(d)
  BY DEF ReleaseAtBoot, Recovers
<1>2. PICK stage \in {"cleared", "owed"} :
        /\ recovery[d] = IF stage = "cleared" THEN "counted" ELSE "failed"
        /\ recovery' = [recovery EXCEPT ![d] = stage]
  BY DEF ReleaseAtBoot, Recovers
<1>3. Care' = Care
  <2>1. Looks(stage) = Care[d] /\ Care' = [Care EXCEPT ![d] = Looks(stage)]
    BY <1>2, CareIs, CareMoves DEF Looks
  <2>2. QED
    BY <2>1, CareIs
<1>4. QED
  BY <1>1, <1>3, TakedownMove

\* ... and it is started again, ...
LEMMA RestartMove ==
  ASSUME StateTypes, TurnFacts, TurnFacts', ServingRuns, NEW d \in Agents, Relaunch(d)
  PROVE  [Promise!Next]_(Promise!vars)
<1> USE DEF dbVars, legVars, askVars, procVars, ebbVars, laneVars, tellVars
<1>1. OneTurn /\ OneTurn'
  BY DEF TurnFacts
<1>2. /\ UNCHANGED <<del, attempts, card, late, step, scheduled, proc>> /\ proc = "booting"
      /\ recovery[d] = "cleared" /\ recovery' = [recovery EXCEPT ![d] = "none"]
  BY DEF Relaunch, Recovers
<1>3. PICK l \in Legs : Of(l) = d /\ pc' = [pc EXCEPT ![l] = "working"]
  BY <1>2, RelaunchLeg DEF ServingRuns
<1>4. Has(l)' = "agent"
  BY <1>3 DEF StateTypes, Has
<1>5. \A k \in Legs : Of(k) # d => Has(k)' = Has(k)
  BY <1>2, <1>3 DEF StateTypes, Has, Resuming, Owing
<1>6. Turns[d] = "nobody" /\ Turns' = [Turns EXCEPT ![d] = "agent"]
  BY <1>1, <1>2, <1>3, <1>4, <1>5, GoesTo, Visited
<1>7. Care[d] = "counted" /\ Care' = [Care EXCEPT ![d] = "none"]
  BY <1>2, CareIs, CareMoves DEF Looks
<1>8. del[d] = "running"
  BY <1>2 DEF TurnFacts, RowsRun
<1>9. Promise!Restart(d)
  BY <1>2, <1>6, <1>7, <1>8 DEF Promise!Restart, Promise!LookAfter
<1>10. QED
  BY <1>9 DEF Promise!Next

\* ... or the person is told, who was not told before.
LEMMA TellGivenUpMove ==
  ASSUME StateTypes, CountTypes, TurnFacts, TurnFacts', TellFacts,
         NEW d \in Agents, TellGivenUp(d)
  PROVE  [Promise!Next]_(Promise!vars)
<1> USE DEF dbVars, legVars, askVars, procVars, ebbVars, laneVars, tellVars
<1>1. /\ UNCHANGED <<del, attempts, card, late, step, pc, proc>>
      /\ recovery[d] = "owed" /\ recovery' = [recovery EXCEPT ![d] = "none"]
  BY DEF TellGivenUp, Recovers
<1>2. Turns' = Turns
  BY <1>1, RecoveryStays
<1>3. Care' = Care
  <2>1. Looks("none") = Care[d] /\ Care' = [Care EXCEPT ![d] = Looks("none")]
    BY <1>1, CareIs, CareMoves DEF Looks
  <2>2. QED
    BY <2>1, CareIs
<1>4. Telling(d) /\ del[d] = "failed"
  BY RecoveryTells
<1>5. Promise!Tell(d)
  BY <1>1, <1>2, <1>3, <1>4 DEF Telling, Promise!Tell, Promise!Once
<1>6. QED
  BY <1>5 DEF Promise!Next

-----------------------------------------------------------------------------
(* The steps of the process *)

\* What a process that goes had in memory goes with it: the cards are what stays.
LEMMA DieMove ==
  ASSUME StateTypes, TurnFacts, TurnFacts', Gone
  PROVE  [Promise!Next]_(Promise!vars)
<1> USE DEF dbVars, legVars, askVars, procVars, ebbVars, laneVars, tellVars
<1>1. OneTurn /\ OneTurn'
  BY DEF TurnFacts
<1>2. UNCHANGED <<del, attempts, card, late, scheduled>> /\ proc' = "down"
  BY DEF Gone
<1>3. \A l \in Legs : ~Busy(l)' /\ ~Resuming(l)' /\ ~Owing(l)'
  BY LegParts DEF StateTypes, Gone, Busy, Resuming, Owing, Resumes, Owed, Alive
<1>4. \A l \in Legs : Has(l)' = IF Has(l) = "card" THEN "card" ELSE "nobody"
  <2>1. ASSUME NEW l \in Legs PROVE Has(l)' = IF Has(l) = "card" THEN "card" ELSE "nobody"
    <3>1. CASE card[l] \in Open /\ l \notin late
      BY <1>2, <1>3, <3>1, CardHas DEF Has, Busy
    <3>2. CASE ~(card[l] \in Open /\ l \notin late)
      BY <1>2, <1>3, <3>2 DEF Has, Busy
    <3>3. QED
      BY <3>1, <3>2
  <2>2. QED
    BY <2>1
<1>5. \A d \in Agents : TurnOf(d)' = IF TurnOf(d) = "card" THEN "card" ELSE "nobody"
  <2>1. ASSUME NEW d \in Agents
        PROVE  TurnOf(d)' = IF TurnOf(d) = "card" THEN "card" ELSE "nobody"
    <3>1. CASE \A l \in Legs : Of(l) = d => Has(l) = "nobody"
      BY <1>4, <3>1, TurnIsNobodys, TurnWillBe
    <3>2. ASSUME NEW l \in Legs, Of(l) = d, Has(l) # "nobody"
          PROVE  TurnOf(d)' = IF TurnOf(d) = "card" THEN "card" ELSE "nobody"
      <4>1. \A k \in Legs : Of(k) = d /\ k # l => Has(k) = "nobody"
        BY <1>1, <3>2, OthersHaveNothing
      <4>2. TurnOf(d) = Has(l)
        BY <1>1, <3>2, TurnIs
      <4>3. CASE Has(l) = "card"
        BY <1>1, <1>4, <3>2, <4>2, <4>3, TurnWillBe
      <4>4. CASE Has(l) # "card"
        BY <1>4, <4>1, <4>2, <4>4, TurnWillBe
      <4>5. QED
        BY <4>3, <4>4
    <3>3. QED
      BY <3>1, <3>2
  <2>2. QED
    BY <2>1
<1>6. Turns' = [d \in Agents |-> IF Turns[d] = "card" THEN "card" ELSE "nobody"]
  BY <1>5 DEF Turns
<1>7. Care' = Promise!NoCare
  BY DEF Gone, Care, Promise!NoCare
<1>8. Promise!Die
  BY <1>2, <1>6, <1>7 DEF Promise!Die
<1>9. QED
  BY <1>8 DEF Promise!Next

\* The other steps of a process leave every agent's work in place.
LEMMA ProcessMove ==
  ASSUME StateTypes, TurnFacts, TurnFacts', Signal \/ Boot \/ Serve
  PROVE  [Promise!Next]_(Promise!vars)
<1> USE DEF dbVars, legVars, askVars, procVars, ebbVars, laneVars, tellVars
<1>1. UNCHANGED <<del, attempts, card, late, pc, step, scheduled>>
  BY DEF Signal, Boot, Serve
<1>2. Turns' = Turns
  BY <1>1, RecoveryStays
<1>3. CASE Signal
  <2>1. Promise!Stop
    BY <1>1, <1>2, <1>3, CareKept DEF Signal, Promise!Stop
  <2>2. QED
    BY <2>1 DEF Promise!Next
<1>4. CASE Boot
  <2>1. Care' = [d \in Agents |-> IF del[d] = "running" THEN "found" ELSE "none"]
    BY <1>4 DEF Boot, RunningRows, Care
  <2>2. Promise!Boot
    BY <1>1, <1>2, <1>4, <2>1 DEF Boot, Promise!Boot
  <2>3. QED
    BY <2>2 DEF Promise!Next
<1>5. CASE Serve
  <2>1. Care = Promise!NoCare
    BY <1>5 DEF Serve, Care, Promise!NoCare
  <2>2. Promise!Serve
    BY <1>1, <1>2, <1>5, <2>1, CareKept DEF Serve, Promise!Serve
  <2>3. QED
    BY <2>2 DEF Promise!Next
<1>6. QED
  BY <1>3, <1>4, <1>5

-----------------------------------------------------------------------------
\* Every step of the background agents is a step of the promise, or none.
LEMMA PromiseMove ==
  ASSUME PromiseInv, TurnFacts', [Next]_vars
  PROVE  [Promise!Next]_(Promise!vars)
<1> USE DEF dbVars, legVars, askVars, procVars, ebbVars, laneVars, tellVars
<1>1. StateTypes /\ CountTypes /\ TurnFacts /\ TellFacts /\ ServingRuns /\ LateWasOpen
  BY TypeParts DEF PromiseInv
<1>2. CASE UNCHANGED <<del, attempts, card, late, pc, step, scheduled, proc, recovery>>
  <2>1. \A k \in Legs : Has(k)' = Has(k)
    BY <1>2 DEF Has, Resuming, Owing
  <2>2. QED
    BY <1>1, <1>2, <2>1, Unseen DEF TurnFacts
<1>3. ASSUME NEW l \in Legs, LegStep(l) PROVE [Promise!Next]_(Promise!vars)
  BY <1>1, <1>3, LaunchMove, ParkMove, FinishMove, ScheduleMove, QuietLegMove DEF LegStep
<1>4. ASSUME NEW c \in Cards, CardStep(c) PROVE [Promise!Next]_(Promise!vars)
  BY <1>1, <1>4, ExpireMove, AnswerMove, ResumeMove, GoneMove, FarewellMove, DrainMove,
     QuietCardMove DEF CardStep
<1>5. ASSUME NEW d \in Agents, AgentStep(d) PROVE [Promise!Next]_(Promise!vars)
  <2>1. CASE CancelRunning(d)
    BY <1>2, <2>1 DEF CancelRunning
  <2>2. QED
    BY <1>1, <1>5, <2>1, SendMove, CancelMove, ReleaseMove, CountMove, GiveUpMove,
       BootReleaseMove, RestartMove, TellGivenUpMove DEF AgentStep
<1>6. CASE LaneStep
  BY <1>2, <1>6, LaneOnly
<1>7. CASE GatewayParks \/ StartGateway \/ StartUnresolved \/ ResumeNobody
  BY <1>1, <1>7, GatewayMove
<1>8. CASE Exit \/ Crash
  BY <1>1, <1>8, DieMove DEF Exit, Crash
<1>9. CASE Signal \/ Boot \/ Serve
  BY <1>1, <1>9, ProcessMove
<1>10. CASE BaseCancel \/ Quiesce \/ GraceRunsOut
  BY <1>2, <1>10 DEF BaseCancel, Quiesce, GraceRunsOut
<1>11. QED
  BY <1>2, <1>3, <1>4, <1>5, <1>6, <1>7, <1>8, <1>9, <1>10 DEF Next, vars

\* DelegationIsKept: whatever is answered, passed over, cancelled, timed out, removed,
\* stopped and recovered, in whatever order, the background agents do what Delegation
\* promises.
THEOREM DelegationIsKeptHolds == Spec => DelegationIsKept
<1>1. Init => PromiseInv
  BY TypeInit, TurnInit, TellInit, AttendInit DEF PromiseInv, AttendFacts, LateWasOpen, Init
<1>2. PromiseInv /\ [Next]_vars => PromiseInv'
  BY TypeStep, TurnStep, TellStep, ServingRunsStep, LateWasOpenStep, TypeParts DEF PromiseInv
<1>3. Init => Promise!Init
  <2> SUFFICES ASSUME Init PROVE Promise!Init
    OBVIOUS
  <2>1. \A l \in Legs : Has(l) = "nobody"
    BY LegParts DEF Init, Has, Resuming, Owing, Resumes, Owed, Open
  <2>2. Turns = [d \in Agents |-> "nobody"]
    BY <2>1, TurnIsNobodys DEF Turns
  <2>3. Care = Promise!NoCare
    BY DEF Init, Care, Promise!NoCare
  <2>4. QED
    BY <2>2, <2>3 DEF Init, Promise!Init
<1>4. PromiseInv /\ PromiseInv' /\ [Next]_vars => [Promise!Next]_(Promise!vars)
  BY PromiseMove DEF PromiseInv
<1>5. QED
  BY <1>1, <1>2, <1>3, <1>4, PTL DEF Spec, DelegationIsKept, Promise!Spec
=============================================================================
