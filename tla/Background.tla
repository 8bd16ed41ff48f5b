----------------------------- MODULE Background -----------------------------
(***************************************************************************)
(* Background agents of one conversation and the approval cards they raise:*)
(* src/orchestrator/internal/app/background.go, the card handlers of       *)
(* internal/api/chat.go and the delegation and park statements of          *)
(* internal/store/sqlstore/agent.go.                                       *)
(*                                                                         *)
(* A delegation is a row; the agent that works for it is a goroutine, one  *)
(* per leg.  A leg ends by settling the row or by raising a card, and the  *)
(* answer to the card starts the next leg.  One card of a conversation is  *)
(* live, the others queue behind it.  Settling with a result schedules the *)
(* turn that tells the person, which waits while a card is up and is       *)
(* started by those who drain the conversation's lane (RunManager has the  *)
(* lane itself, its holds and its other turns).  The process may be        *)
(* stopped or die at any step and recovers its delegations when it boots.  *)
(*                                                                         *)
(* A leg raises at most one card, so the card is named after the leg.      *)
(* agent_sessions.status, which RunManager models, is not read here.       *)
(***************************************************************************)
EXTENDS Naturals, Sequences, FiniteSets

CONSTANTS
  Agents,         \* the delegations of the conversation
  MaxLegs,        \* bound: legs of one delegation
  MaxCards,       \* bound: cards raised in the conversation
  Gateway,        \* the card the Gateway itself raises
  NoLeg,
  MaxDelegationAttempts,
  Env,            \* bound: the kinds of outside event this instance explores
  MaxRestarts     \* bound: stops and crashes of the process

ASSUME BackgroundConstants ==
  /\ MaxLegs \in Nat \ {0} /\ MaxCards \in Nat
  /\ Gateway \notin Agents \X (1 .. MaxLegs)
  /\ NoLeg \notin Agents \X (1 .. MaxLegs)
  /\ MaxDelegationAttempts \in Nat \ {0}
  /\ Env \subseteq {"reject", "all", "cancel", "deadline", "expire", "passover", "gateway",
                    "removed", "revoked", "unresolved", "stop", "crash"}
  /\ MaxRestarts \in Nat

Legs == Agents \X (1 .. MaxLegs)
Cards == Legs \cup {Gateway}

VARIABLES
  \* the database
  del,            \* agent_delegations.status
  attempts,       \* agent_delegations.attempts
  card,           \* agent_park_snapshots.status
  late,           \* cards past expires_at
  raised,         \* the cards in the order of their ids
  auto,           \* agent_sessions.approval_mode = auto
  \* memory of the process
  pc,             \* where each leg's goroutine stands
  ctx,            \* its context: live, cancelled, shutdown or deadline
  running,        \* backgroundManager.running
  step,           \* what the request that answered a card has still to do
  orphans,        \* cancel calls between CompleteDelegation and releaseOrphanedParks
  completion,     \* the completion turn of a delegation, on its way through the lane
  drains,         \* goroutines in startNextPending that are to pop a turn
  proc,           \* booting, up, stopping or down
  recovery,       \* how far recoverInterrupted has come with each row it found running
  baseCancelled,  \* backgroundManager.baseCtx is cancelled
  quiescing,      \* Manager.quiescing and backgroundManager.quiescing
  graceOver,      \* the shutdown grace has run out
  \* history and bounds
  scheduled,      \* completion turns scheduled for a delegation
  stranded,       \* completion turns left in the queue with nobody to start them
  passed,         \* a card was passed over
  restarts

dbVars == <<del, attempts, card, late, raised, auto>>
legVars == <<pc, ctx, running>>
askVars == <<step, orphans>>
ebbVars == <<baseCancelled, quiescing, graceOver>>
procVars == <<proc, recovery, ebbVars, restarts, passed>>
laneVars == <<completion, drains, stranded>>
tellVars == <<laneVars, scheduled>>
vars == <<dbVars, legVars, askVars, procVars, tellVars>>

Terminal == {"done", "failed", "cancelled"}
Working == {"working", "returned"}                \* inside RunBackgroundAgent or finish
Alive == {"due", "working", "returned", "parking", "settled", "leaving"}
Open == {"pending", "queued"}

\* What is left of an answer: of the Gateway's, or of an agent's.  "owed": the agent is
\* gone and the person has still to be told; "next", "all": the cards behind it move.
Starts == {"start", "start all"}
Resumes == {"resume", "resume next", "resume all"}
Owed == {"owed", "owed next", "owed all"}
Steps == {"none", "next", "all"} \cup Starts \cup Resumes \cup Owed

Spoken == {"speaking", "parting"}                 \* the turn has the lane

TypeOK ==
  /\ del \in [Agents -> {"none", "running"} \cup Terminal]
  /\ attempts \in [Agents -> Nat]
  /\ card \in [Cards -> {"none", "approved", "rejected", "expired"} \cup Open]
  /\ late \subseteq Cards
  /\ raised \in Seq(Cards)
  /\ auto \in BOOLEAN
  /\ pc \in [Legs -> {"none", "gone"} \cup Alive]
  /\ ctx \in [Legs -> {"live", "cancelled", "shutdown", "deadline"}]
  /\ running \in [Agents -> Legs \cup {NoLeg}]
  /\ step \in [Cards -> Steps]
  /\ orphans \subseteq Agents
  /\ completion \in [Agents -> {"none", "queued", "refused", "told"} \cup Spoken]
  /\ drains \in Nat
  /\ proc \in {"booting", "up", "stopping", "down"}
  /\ recovery \in [Agents -> {"none", "found", "counted", "cleared", "failed", "owed"}]
  /\ baseCancelled \in BOOLEAN /\ quiescing \in BOOLEAN /\ graceOver \in BOOLEAN
  /\ scheduled \in [Agents -> Nat]
  /\ stranded \subseteq Agents /\ passed \in BOOLEAN
  /\ restarts \in Nat

Init ==
  /\ del = [d \in Agents |-> "none"]
  /\ attempts = [d \in Agents |-> 0]
  /\ card = [c \in Cards |-> "none"]
  /\ late = {} /\ raised = <<>> /\ auto = FALSE
  /\ pc = [l \in Legs |-> "none"]
  /\ ctx = [l \in Legs |-> "live"]
  /\ running = [d \in Agents |-> NoLeg]
  /\ step = [c \in Cards |-> "none"]
  /\ orphans = {}
  /\ completion = [d \in Agents |-> "none"]
  /\ drains = 0
  /\ proc = "up" /\ recovery = [d \in Agents |-> "none"]
  /\ baseCancelled = FALSE /\ quiescing = FALSE /\ graceOver = FALSE
  /\ scheduled = [d \in Agents |-> 0]
  /\ stranded = {} /\ passed = FALSE
  /\ restarts = 0

-----------------------------------------------------------------------------
(* Helpers *)

Up == proc \in {"up", "stopping"}                  \* the process serves requests
Of(l) == l[1]
LegsOf(d) == {l \in Legs : Of(l) = d}

\* The next leg of a delegation.
Fresh(l) == pc[l] = "none" /\ (l[2] = 1 \/ pc[<<Of(l), l[2] - 1>>] # "none")

\* The parks a statement that filters on expires_at sees.
Waiting(c, st) == card[c] = st /\ c \notin late

\* ORDER BY id LIMIT 1 over the queued cards not past their expiry.
NextInLine(c) ==
  /\ Waiting(c, "queued")
  /\ \E i \in DOMAIN raised :
       raised[i] = c /\ \A k \in 1 .. i - 1 : ~Waiting(raised[k], "queued")

\* The agents' cards behind one another move: one is up, or its answer is under way.
\* An answer to the Gateway's own card promotes nobody.
LineMoves ==
  \E c \in Legs :
    Waiting(c, "pending") \/ step[c] \in {"resume next", "resume all", "owed next", "owed all", "next", "all"}

\* CompleteDelegation: conditional on the row still running.
OneWayDoor(d) == del[d] = "running"

\* startNextPending is called: it looks whether the lane is free and has a turn waiting, and
\* no card is up.  A turn that runs drains the lane when it is over, and a card's answer does.
LaneFree(turns) == \A d \in Agents : turns[d] \notin Spoken
CardUp(cards) == \E c \in Cards : cards[c] = "pending" /\ c \notin late
Drained(cards, turns) ==
  IF LaneFree(turns) /\ ~CardUp(cards) /\ \E d \in Agents : turns[d] = "queued" THEN drains + 1 ELSE drains

\* Schedule: the turn joins the lane's queue, and the lane is drained.
Scheduled(d) ==
  /\ completion' = [completion EXCEPT ![d] = "queued"]
  /\ drains' = Drained(card, completion')
  /\ scheduled' = [scheduled EXCEPT ![d] = @ + 1]
  /\ UNCHANGED stranded

\* releaseOrphanedParks: every open card of a background agent, rejected.
OrphanedNone(d) == card                           \* mutant: the cards are left up
Orphaned(d) ==
  [c \in Cards |-> IF c \in LegsOf(d) /\ card[c] \in Open /\ c \notin late
                   THEN "rejected" ELSE card[c]]

\* The context a new leg gets from baseCtx.
NewCtx == IF baseCancelled THEN "shutdown" ELSE "live"

SpawnOnce(l, at) ==                               \* mutant: refused while an older leg is tracked
  IF quiescing \/ running[Of(l)] # NoLeg
  THEN pc' = [pc EXCEPT ![l] = "gone"] /\ UNCHANGED <<ctx, running>>
  ELSE /\ pc' = [pc EXCEPT ![l] = at]
       /\ ctx' = [ctx EXCEPT ![l] = NewCtx]
       /\ running' = [running EXCEPT ![Of(l)] = l]

\* spawn: nothing once quiescing, else a tracked goroutine.
Spawn(l, at) ==
  \/ /\ quiescing
     /\ pc' = [pc EXCEPT ![l] = "gone"]
     /\ UNCHANGED <<ctx, running>>
  \/ /\ ~quiescing
     /\ pc' = [pc EXCEPT ![l] = at]
     /\ ctx' = [ctx EXCEPT ![l] = NewCtx]
     /\ running' = [running EXCEPT ![Of(l)] = l]

-----------------------------------------------------------------------------
(* A leg *)

\* delegateBackground: the row is written, and then the goroutine is launched.
CreateDelegation(d) ==
  /\ Up /\ ~quiescing
  /\ del[d] = "none"
  /\ del' = [del EXCEPT ![d] = "running"]
  /\ attempts' = [attempts EXCEPT ![d] = 1]
  /\ pc' = [pc EXCEPT ![<<d, 1>>] = "due"]
  /\ UNCHANGED <<card, late, raised, auto, ctx, running, askVars, procVars, tellVars>>

Launch(l) ==
  /\ pc[l] = "due"
  /\ Spawn(l, "working")
  /\ UNCHANGED <<dbVars, askVars, procVars, tellVars>>

\* CreateParkSequenced counts the pending cards whatever their expiry.
SequencedStatusShown ==                           \* mutant: the session's status in the park
  IF \E c \in Cards : card[c] = "pending" THEN "queued" ELSE "waiting_approval"
SequencedStatus == IF \E c \in Cards : card[c] = "pending" THEN "queued" ELSE "pending"

\* The agent calls a tool that needs approval.  The park is a store call on the
\* leg's context, so a cancelled leg cannot raise one.
Park(l) ==
  /\ pc[l] = "working" /\ ctx[l] = "live" /\ ~auto
  /\ l[2] + (MaxRestarts - restarts) < MaxLegs /\ Len(raised) < MaxCards
  /\ card' = [card EXCEPT ![l] = SequencedStatus]
  /\ raised' = Append(raised, l)
  /\ pc' = [pc EXCEPT ![l] = "parking"]
  /\ UNCHANGED <<del, attempts, late, auto, ctx, running, askVars, procVars, tellVars>>

\* finish, when the run unwound to ErrBackgroundParked: only the screen changes.
MarkParked(l) ==
  /\ pc[l] = "parking"
  /\ pc' = [pc EXCEPT ![l] = "leaving"]
  /\ UNCHANGED <<dbVars, ctx, running, askVars, procVars, tellVars>>

\* The agent comes back, with a result or an error.
Return(l) ==
  /\ pc[l] = "working"
  /\ pc' = [pc EXCEPT ![l] = "returned"]
  /\ UNCHANGED <<dbVars, ctx, running, askVars, procVars, tellVars>>

\* The leg's time limit.
Deadline(l) ==
  /\ "deadline" \in Env
  /\ pc[l] \in Working /\ ctx[l] = "live"
  /\ ctx' = [ctx EXCEPT ![l] = "deadline"]
  /\ UNCHANGED <<dbVars, pc, running, askVars, procVars, tellVars>>

\* finish: the status the row gets is decided by the context before the result.
Verdicts(l) ==
  CASE ctx[l] = "deadline" -> {"failed"}
    [] ctx[l] \in {"cancelled", "shutdown"} -> {"cancelled"}
    [] OTHER -> {"done", "failed"}

\* A completion turn is scheduled by whoever resolved the row, unless cancelled.
OwesAnyway(l, won, status) == status # "cancelled"  \* mutant: whoever resolved the row
Owes(l, won, status) == won /\ status # "cancelled"

Finish(l) ==
  /\ pc[l] = "returned"
  /\ \E status \in Verdicts(l) :
       /\ del' = IF OneWayDoor(Of(l)) THEN [del EXCEPT ![Of(l)] = status] ELSE del
       /\ pc' = [pc EXCEPT ![l] = IF Owes(l, OneWayDoor(Of(l)), status) THEN "settled" ELSE "leaving"]
  /\ UNCHANGED <<attempts, card, late, raised, auto, ctx, running, askVars, procVars, tellVars>>

ScheduleCompletion(l) ==
  /\ pc[l] = "settled"
  /\ Scheduled(Of(l))
  /\ pc' = [pc EXCEPT ![l] = "leaving"]
  /\ UNCHANGED <<dbVars, ctx, running, askVars, procVars>>

\* spawn's deferred delete(b.running, delegationID): by id, whoever is there.
Leave(l) ==
  /\ pc[l] = "leaving"
  /\ pc' = [pc EXCEPT ![l] = "gone"]
  /\ running' = [running EXCEPT ![Of(l)] = NoLeg]
  /\ UNCHANGED <<dbVars, ctx, askVars, procVars, tellVars>>

-----------------------------------------------------------------------------
(* The lane, as far as the completion turns need it: what startNextPending does   *)
(* once it has looked, and the end of the turn it started.  It is called by       *)
(* Schedule, by a turn that settles and by the answer to an agent's card, and     *)
(* nothing else starts a turn that is queued.  (RunManager has its steps apart.)  *)

\* The turn it pops, if one is left, takes the lane, or Start refuses it.
DrainPops ==
  /\ drains > 0 /\ drains' = drains - 1
  /\ \/ /\ \A d \in Agents : completion[d] # "queued"
        /\ UNCHANGED completion
     \/ \E d \in Agents :
          /\ completion[d] = "queued"
          /\ completion' = [completion EXCEPT ![d] =
                              IF LaneFree(completion) /\ ~quiescing THEN "speaking" ELSE "refused"]
  /\ UNCHANGED <<dbVars, legVars, askVars, procVars, stranded, scheduled>>

\* Those who will look at the queue: a drain, a turn that drains when it is over, and the
\* answer to an agent's card.
Watched ==
  \/ drains > 0
  \/ \E d \in Agents : completion[d] = "speaking"
  \/ LineMoves
LeftAlone == {d \in Agents : completion'[d] = "queued" /\ ~Watched}

\* ... which goes back to the queue, and nobody is told of it.
PutBack(d) ==
  /\ completion[d] = "refused"
  /\ completion' = [completion EXCEPT ![d] = "queued"]
  /\ stranded' = stranded \cup LeftAlone
  /\ UNCHANGED <<dbVars, legVars, askVars, procVars, drains, scheduled>>

\* The turn ends: settle gives the lane back, and it is drained.
TurnSettles(d) ==
  /\ completion[d] = "speaking"
  /\ completion' = [completion EXCEPT ![d] = "told"]
  /\ drains' = Drained(card, completion')
  /\ UNCHANGED <<dbVars, legVars, askVars, procVars, stranded, scheduled>>

\* ... or execute takes it for one that waits, because the session says so: a card came up
\* while it ran.  (The session's status is RunManager's: here it may say so while a card is
\* up or its answer has not brought back the agent.)  Such a turn drains nothing.
StatusMayWait == \E c \in Cards : card[c] = "pending" \/ step[c] \in Starts \cup Resumes \cup Owed
TurnWaits(d) ==
  /\ completion[d] = "speaking" /\ StatusMayWait
  /\ completion' = [completion EXCEPT ![d] = "parting"]
  /\ UNCHANGED <<dbVars, legVars, askVars, procVars, drains, stranded, scheduled>>

TurnParts(d) ==
  /\ completion[d] = "parting"
  /\ completion' = [completion EXCEPT ![d] = "told"]
  /\ stranded' = stranded \cup LeftAlone
  /\ UNCHANGED <<dbVars, legVars, askVars, procVars, drains, scheduled>>

-----------------------------------------------------------------------------
(* cancel *)

\* The goroutine is there: its context is cancelled.
CancelRunning(d) ==
  /\ "cancel" \in Env /\ Up
  /\ running[d] # NoLeg
  /\ ctx' = [ctx EXCEPT ![running[d]] = IF @ = "live" THEN "cancelled" ELSE @]
  /\ UNCHANGED <<dbVars, pc, running, askVars, procVars, tellVars>>

\* It is not: the row is settled here, and then its cards are.
CancelParked(d) ==
  /\ "cancel" \in Env /\ Up
  /\ running[d] = NoLeg
  /\ OneWayDoor(d)
  /\ del' = [del EXCEPT ![d] = "cancelled"]
  /\ orphans' = orphans \cup {d}
  /\ UNCHANGED <<attempts, card, late, raised, auto, legVars, step, procVars, tellVars>>

ReleaseOrphanedParks(d) ==
  /\ d \in orphans
  /\ card' = Orphaned(d)
  /\ orphans' = orphans \ {d}
  /\ UNCHANGED <<del, attempts, late, raised, auto, legVars, step, procVars, tellVars>>

-----------------------------------------------------------------------------
(* The cards *)

\* CreatePark: the Gateway's own card is live whatever else is.
GatewayParks ==
  /\ "gateway" \in Env /\ Up
  /\ card[Gateway] = "none" /\ ~auto
  /\ card' = [card EXCEPT ![Gateway] = "pending"]
  /\ raised' = Append(raised, Gateway)
  /\ UNCHANGED <<del, attempts, late, auto, legVars, askVars, procVars, tellVars>>

\* expires_at passes: nothing is written.
Expire(c) ==
  /\ "expire" \in Env
  /\ card[c] \in Open /\ c \notin late
  /\ late' = late \cup {c}
  /\ UNCHANGED <<del, attempts, card, raised, auto, legVars, askVars, procVars, tellVars>>

\* ClaimPark takes a pending card only.
ClaimableTwice(c) == card[c] \in {"pending", "approved"}  \* mutant: a second click counts
Claimable(c) == card[c] = "pending"

\* The person answers the card: it is claimed before anything else is done.
Answer(c, decision, everything) ==
  /\ Up /\ Claimable(c) /\ c \notin late
  /\ decision = "rejected" => "reject" \in Env
  /\ everything => decision = "approved" /\ "all" \in Env
  /\ card' = [card EXCEPT ![c] = decision]
  /\ step' = [step EXCEPT ![c] =
                IF c = Gateway THEN IF everything THEN "start all" ELSE "start"
                ELSE IF everything THEN "resume all" ELSE "resume next"]
  /\ UNCHANGED <<del, attempts, late, raised, auto, legVars, orphans, procVars, tellVars>>

\* ... too late: the row is marked expired, and the answer is Gone.
AnswerLate(c) ==
  /\ Up /\ Claimable(c) /\ c \in late
  /\ card' = [card EXCEPT ![c] = "expired"]
  /\ UNCHANGED <<del, attempts, late, raised, auto, legVars, askVars, procVars, tellVars>>

\* SetSessionApprovalMode: "approve and allow the rest" switches the conversation.
SetAuto(c) == auto' = (auto \/ step[c] \in {"start all", "resume all"})

\* The Gateway's card: Runs.Start takes the turn, which drains the lane when it is over
\* unless it waits for another card, or refuses it and ReopenPark puts the question back.
StartGateway ==
  /\ step[Gateway] \in Starts
  /\ step' = [step EXCEPT ![Gateway] = "none"]
  /\ SetAuto(Gateway)
  /\ \/ /\ drains' \in {drains, Drained(card, completion)}
        /\ UNCHANGED card
     \/ /\ card' = [card EXCEPT ![Gateway] = "pending"]
        /\ UNCHANGED drains
  /\ UNCHANGED <<del, attempts, late, raised, legVars, orphans, procVars, completion, stranded,
                 scheduled>>

\* ... or the profile does not resolve, or the mode is not written: resume answers
\* with an error and leaves the card claimed.
StartUnresolved ==
  /\ "unresolved" \in Env
  /\ step[Gateway] \in Starts
  /\ step' = [step EXCEPT ![Gateway] = "none"]
  /\ UNCHANGED <<dbVars, legVars, orphans, procVars, tellVars>>

\* What resumeDetached does after ResumeDetached.
AfterResume(c) == CASE step[c] \in {"resume next", "owed next"} -> "next"
                    [] step[c] \in {"resume all", "owed all"} -> "all"
                    [] OTHER -> "none"

Resuming(c) == step[c] \in Resumes
Owing(c) == step[c] \in Owed

\* ResumeDetached: the next leg starts.  A refusal runs no agent: the leg only
\* brings back that it was declined.
Resume(c) ==
  /\ c # Gateway /\ Resuming(c)
  /\ step' = [step EXCEPT ![c] = AfterResume(c)]
  /\ SetAuto(c)
  /\ \E l \in LegsOf(Of(c)) :
       Fresh(l) /\ Spawn(l, IF card[c] = "approved" THEN "working" ELSE "returned")
  /\ UNCHANGED <<del, attempts, card, late, raised, orphans, procVars, tellVars>>

\* ... or the agent was removed while the card waited: the row is failed if it still
\* runs, ...
ResumeRemoved(c) ==
  /\ "removed" \in Env
  /\ c # Gateway /\ Resuming(c)
  /\ step' = [step EXCEPT ![c] = CASE step[c] = "resume next" -> "owed next"
                                 [] step[c] = "resume all" -> "owed all"
                                 [] OTHER -> "owed"]
  /\ SetAuto(c)
  /\ del' = IF OneWayDoor(Of(c)) THEN [del EXCEPT ![Of(c)] = "failed"] ELSE del
  /\ UNCHANGED <<attempts, card, late, raised, legVars, orphans, procVars, tellVars>>

\* ... and the completion turn is scheduled whether or not it did.
TellRemoved(c) ==
  /\ c # Gateway /\ Owing(c)
  /\ step' = [step EXCEPT ![c] = AfterResume(c)]
  /\ Scheduled(Of(c))
  /\ UNCHANGED <<dbVars, legVars, orphans, procVars>>

\* ... or the card let through is the Gateway's own, passed over and queued: it
\* names no delegation, and resume returns.
ResumeNobody ==
  /\ Resuming(Gateway)
  /\ step' = [step EXCEPT ![Gateway] = AfterResume(Gateway)]
  /\ UNCHANGED <<dbVars, legVars, orphans, procVars, tellVars>>

\* The last thing an answer to an agent's card does is Drain.
AnswerDrainsNothing(cards) == UNCHANGED drains    \* mutant: the lane is left as it is
AnswerDrains(cards) == drains' = Drained(cards, completion)

\* ReleaseNextQueuedPark: the oldest queued card goes live.
PromotedNone == card                              \* mutant: the answer brings up no card
Promoted == [c \in Cards |-> IF NextInLine(c) THEN "pending" ELSE card[c]]

ReleaseNextCard(c) ==
  /\ step[c] = "next"
  /\ step' = [step EXCEPT ![c] = "none"]
  /\ card' = Promoted
  /\ AnswerDrains(card')
  /\ UNCHANGED <<del, attempts, late, raised, auto, legVars, orphans, procVars, completion, stranded,
                 scheduled>>

\* ResolveQueuedParks: if any is still answerable, all queued ones are approved,
\* and those still answerable are resumed.
LetThrough(c) == Waiting(c, "queued")

DrainApprovalQueue(c) ==
  /\ step[c] = "all"
  /\ card' = [x \in Cards |-> IF card[x] = "queued" /\ \E y \in Cards : Waiting(y, "queued")
                              THEN "approved" ELSE card[x]]
  /\ step' = [x \in Cards |-> IF x = c THEN "none"
                              ELSE IF LetThrough(x) THEN "resume" ELSE step[x]]
  /\ AnswerDrains(card')
  /\ UNCHANGED <<del, attempts, late, raised, auto, legVars, orphans, procVars, completion, stranded,
                 scheduled>>

\* A reload cannot draw the live card: PassOverPark queues it again and promotes
\* the oldest other one.
PassOver(c) ==
  /\ "passover" \in Env /\ Up
  /\ Waiting(c, "pending")
  /\ card' = [x \in Cards |-> IF x = c THEN "queued"
                              ELSE IF NextInLine(x) THEN "pending" ELSE card[x]]
  /\ passed' = TRUE
  /\ UNCHANGED <<del, attempts, late, raised, auto, legVars, askVars, proc, recovery, ebbVars, restarts,
                 tellVars>>

-----------------------------------------------------------------------------
(* The process *)

\* The signal: Serve's context is cancelled, and with it RunBackground's.
Signal ==
  /\ "stop" \in Env /\ proc = "up" /\ restarts < MaxRestarts
  /\ proc' = "stopping"
  /\ restarts' = restarts + 1
  /\ UNCHANGED <<dbVars, legVars, askVars, recovery, ebbVars, passed, tellVars>>

\* RunBackground: bg.shutdown() as soon as the context is cancelled.
BaseCancel ==
  /\ proc = "stopping" /\ ~baseCancelled
  /\ baseCancelled' = TRUE
  /\ ctx' = [l \in Legs |-> IF pc[l] \in Alive \ {"due"} /\ ctx[l] = "live" THEN "shutdown" ELSE ctx[l]]
  /\ UNCHANGED <<dbVars, pc, running, askVars, proc, recovery, quiescing, graceOver, restarts, passed,
                 tellVars>>

\* The turns that wait in the queue are dropped.
Dropped == [d \in Agents |-> IF completion[d] = "queued" THEN "none" ELSE completion[d]]

\* App.Quiesce: no new turn, no new agent.
Quiesce ==
  /\ proc = "stopping" /\ ~quiescing
  /\ quiescing' = TRUE
  /\ completion' = Dropped
  /\ UNCHANGED <<dbVars, legVars, askVars, proc, recovery, baseCancelled, graceOver, restarts, passed,
                 drains, stranded, scheduled>>

\* DrainWork gives up.
GraceRunsOut ==
  /\ quiescing /\ ~graceOver
  /\ graceOver' = TRUE
  /\ UNCHANGED <<dbVars, legVars, askVars, proc, recovery, baseCancelled, quiescing, restarts, passed,
                 tellVars>>

Gone ==
  /\ proc' = "down"
  /\ pc' = [l \in Legs |-> IF pc[l] \in Alive THEN "gone" ELSE pc[l]]
  /\ running' = [d \in Agents |-> NoLeg]
  /\ step' = [c \in Cards |-> "none"]
  /\ orphans' = {} /\ recovery' = [d \in Agents |-> "none"]
  /\ completion' = [d \in Agents |-> IF completion[d] = "told" THEN "told" ELSE "none"]
  /\ drains' = 0
  /\ UNCHANGED <<dbVars, ctx, ebbVars, passed, stranded, scheduled>>

\* The process exits when its agents are done, or when the grace is.
Exit ==
  /\ quiescing
  /\ graceOver \/ \A d \in Agents : running[d] = NoLeg
  /\ Gone
  /\ UNCHANGED restarts

Crash ==
  /\ "crash" \in Env /\ proc # "down" /\ restarts < MaxRestarts
  /\ Gone
  /\ restarts' = restarts + 1

\* AllRunningDelegations, before anything is served.
RunningRows == {d \in Agents : del[d] = "running"}

Boot ==
  /\ proc = "down"
  /\ proc' = "booting"
  /\ recovery' = [d \in Agents |-> IF d \in RunningRows THEN "found" ELSE "none"]
  /\ baseCancelled' = FALSE /\ quiescing' = FALSE /\ graceOver' = FALSE
  /\ UNCHANGED <<dbVars, legVars, askVars, restarts, passed, tellVars>>

(* recoverInterrupted visits one row after the other, in steps that each write. *)
Visiting(d) == \A e \in Agents \ {d} : recovery[e] \in {"none", "found"}
Recovers(d, from, to) ==
  /\ proc = "booting"
  /\ recovery[d] \in from /\ recovery' = [recovery EXCEPT ![d] = to]
  /\ UNCHANGED <<late, raised, auto, askVars, proc, ebbVars, restarts, passed>>

\* Resumable, and RestartDelegation spends one of its attempts.
Restartable(d) == attempts[d] < MaxDelegationAttempts
CountAttempt(d) ==
  /\ Visiting(d) /\ Recovers(d, {"found"}, "counted")
  /\ Restartable(d)
  /\ attempts' = [attempts EXCEPT ![d] = @ + 1]
  /\ UNCHANGED <<del, card, legVars, tellVars>>

\* Past the cap, or its agent is not there any more: it is settled, ...
GiveUp(d) ==
  /\ \/ Visiting(d) /\ Recovers(d, {"found"}, "failed") /\ ~Restartable(d)
     \/ "revoked" \in Env /\ Recovers(d, {"counted"}, "failed")
  /\ del' = [del EXCEPT ![d] = "failed"]
  /\ UNCHANGED <<attempts, card, legVars, tellVars>>

\* ... either way its cards go with the leg that died, ...
ReleaseAtBoot(d) ==
  /\ \/ Recovers(d, {"counted"}, "cleared")
     \/ Recovers(d, {"failed"}, "owed")
  /\ card' = Orphaned(d)
  /\ UNCHANGED <<del, attempts, legVars, tellVars>>

\* ... and it starts again, ...
Relaunch(d) ==
  /\ Recovers(d, {"cleared"}, "none")
  /\ \E l \in LegsOf(d) : Fresh(l) /\ Spawn(l, "working")
  /\ UNCHANGED <<del, attempts, card, tellVars>>

\* ... or the person is told.
TellGivenUp(d) ==
  /\ Recovers(d, {"owed"}, "none")
  /\ Scheduled(d)
  /\ UNCHANGED <<del, attempts, card, legVars>>

Serve ==
  /\ proc = "booting" /\ \A d \in Agents : recovery[d] = "none"
  /\ proc' = "up"
  /\ UNCHANGED <<dbVars, legVars, askVars, recovery, ebbVars, restarts, passed, tellVars>>

-----------------------------------------------------------------------------
LegStep(l) ==
  \/ Launch(l) \/ Park(l) \/ MarkParked(l) \/ Return(l) \/ Deadline(l)
  \/ Finish(l) \/ ScheduleCompletion(l) \/ Leave(l)

CardStep(c) ==
  \/ Expire(c)
  \/ \E decision \in {"approved", "rejected"}, everything \in BOOLEAN : Answer(c, decision, everything)
  \/ AnswerLate(c) \/ PassOver(c)
  \/ Resume(c) \/ ResumeRemoved(c) \/ TellRemoved(c) \/ ReleaseNextCard(c) \/ DrainApprovalQueue(c)

AgentStep(d) ==
  \/ CreateDelegation(d)
  \/ CancelRunning(d) \/ CancelParked(d) \/ ReleaseOrphanedParks(d)
  \/ CountAttempt(d) \/ GiveUp(d) \/ ReleaseAtBoot(d) \/ Relaunch(d) \/ TellGivenUp(d)

LaneStep ==
  \/ DrainPops
  \/ \E d \in Agents : PutBack(d) \/ TurnSettles(d) \/ TurnWaits(d) \/ TurnParts(d)

Next ==
  \/ \E l \in Legs : LegStep(l)
  \/ \E c \in Cards : CardStep(c)
  \/ \E d \in Agents : AgentStep(d)
  \/ LaneStep
  \/ GatewayParks \/ StartGateway \/ StartUnresolved \/ ResumeNobody
  \/ Signal \/ BaseCancel \/ Quiesce \/ GraceRunsOut \/ Exit \/ Crash \/ Boot \/ Serve

Spec == Init /\ [][Next]_vars

(* Fairness, of a process that lives.  Go schedules every runnable goroutine: *)
(* a leg's, that of the request that answered a card, and those that drain the *)
(* lane.  An agent's run is bounded by its time limit, and the person answers  *)
(* the card on the screen.  That a completion turn ends is assumed of the      *)
(* model and the tools it calls: the code gives a turn no time limit.          *)
LegGoesOn(l) ==
  Launch(l) \/ MarkParked(l) \/ Return(l) \/ Finish(l) \/ ScheduleCompletion(l) \/ Leave(l)
AnswerGoesOn(c) == Resume(c) \/ TellRemoved(c) \/ ReleaseNextCard(c) \/ DrainApprovalQueue(c)
TurnGoesOn(d) == PutBack(d) \/ TurnSettles(d) \/ TurnParts(d)

Fairness ==
  /\ \A l \in Legs :
       /\ WF_vars(LegGoesOn(l)) /\ WF_vars(AnswerGoesOn(l))
       /\ WF_vars(\E decision \in {"approved", "rejected"} : Answer(l, decision, FALSE))
  /\ \A d \in Agents : WF_vars(TurnGoesOn(d))
  /\ WF_vars(DrainPops)

FairSpec == Spec /\ Fairness

-----------------------------------------------------------------------------
(* Properties *)

\* Of one delegation at most one leg works: no two clicks, no "approve all" beside
\* a click and no recovery starts the agent a second time beside itself.
OneLegWorks ==
  \A k, l \in Legs :
    pc[k] \in Working /\ pc[l] \in Working /\ Of(k) = Of(l) => k = l

\* The person is told of one delegation at most once, and never of one that was
\* cancelled, whoever raced whom to settle it.
ToldOnce ==
  \A d \in Agents : scheduled[d] <= 1 /\ (scheduled[d] = 1 => del[d] \in {"done", "failed"})

\* A row that says running has somebody who will bring its agent on, which is what keeps
\* a chip from spinning for ever: a leg at work, an answer about to resume it, its card on
\* the screen, or its card in a queue that moves.  Two things are excepted, because the
\* code has nobody for them: an agent whose last card ran out, and a card queued in a
\* conversation where one was passed over, taken down, raised by the Gateway or ran out,
\* or whose process went with an answer, for then nobody need bring up the next.
RanOut(d) ==
  \E c \in LegsOf(d) : c \in late /\ \A l \in LegsOf(d) : l[2] > c[2] => pc[l] = "none"
LineBroken ==
  \/ passed \/ late # {} \/ restarts > 0
  \/ card[Gateway] # "none"
  \/ \E d \in Agents : del[d] = "cancelled"
RunningIsAttended ==
  \A d \in Agents :
    proc = "up" /\ del[d] = "running" =>
      \/ \E l \in LegsOf(d) : pc[l] \in Alive \ {"leaving"}
      \/ \E c \in LegsOf(d) : Resuming(c) \/ Waiting(c, "pending")
      \/ \E c \in LegsOf(d) : Waiting(c, "queued") /\ (LineMoves \/ LineBroken)
      \/ RanOut(d)

\* Every agent comes to an end, however many cards it and the others raise: the
\* cards are shown one at a time, and each answer brings up the next.
EveryAgentEnds == \A d \in Agents : del[d] = "running" ~> del[d] \in Terminal

\* While its process lives, a settled result is told in the end: no card, and no other
\* agent's turn, holds the completion turn for ever.  The exception is the turn the code
\* itself forgets: put back when the last who would have drained the queue has gone by, or
\* queued behind a turn taken for one that waits although its card was answered meanwhile.
ResultIsTold ==
  \A d \in Agents : del[d] \in {"done", "failed"} ~> completion[d] = "told" \/ d \in stranded

\* Background keeps Delegation's promise, whatever is answered, cancelled, timed out,
\* removed, stopped and recovered: the work of an agent is with one leg, card or answer,
\* and passes from one to the next; it is settled once, told once, and given up only by a
\* card that ran out or with the process.
Has(l) ==
  IF pc[l] \in {"due", "working", "returned"} THEN "agent"
  ELSE IF Resuming(l) THEN "answer"
  ELSE IF Owing(l) THEN "farewell"
  ELSE IF card[l] \in Open /\ l \notin late THEN "card"
  ELSE "nobody"
TurnOf(d) ==
  LET holders == {l \in LegsOf(d) : Has(l) # "nobody"}
      one == CHOOSE l \in holders : TRUE
  IN  IF holders = {} THEN "nobody" ELSE IF holders = {one} THEN Has(one) ELSE "torn"
Turns == [d \in Agents |-> TurnOf(d)]
Care == [d \in Agents |-> CASE recovery[d] = "found" -> "found"
                            [] recovery[d] \in {"counted", "cleared"} -> "counted"
                            [] OTHER -> "none"]
Promise == INSTANCE Delegation WITH
  MaxStarts <- MaxDelegationAttempts,
  row <- del,
  turn <- Turns,
  starts <- attempts,
  told <- scheduled,
  house <- proc,
  care <- Care
DelegationIsKept == Promise!Spec
=============================================================================
