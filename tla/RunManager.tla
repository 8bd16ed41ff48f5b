----------------------------- MODULE RunManager -----------------------------
(***************************************************************************)
(* The lane a conversation runs its turns on: run.Manager of the           *)
(* orchestrator (src/orchestrator/internal/run/manager.go).                *)
(*                                                                         *)
(* A conversation (session) answers one turn at a time.  A person's turn   *)
(* is refused while the lane is taken; a server-initiated turn (a          *)
(* background agent or a fleet came back) queues and is started by         *)
(* whichever goroutine next drains the queue.  Every lock section, store   *)
(* call and frame write of the manager is a step of its own, so two        *)
(* goroutines may be anywhere between two steps.                           *)
(*                                                                         *)
(* A goroutine inside startNextPending carries nothing but its session     *)
(* until it pops a turn, so the goroutines of a session are counted, one   *)
(* counter for each place they can stand at.  From the pop on, and for     *)
(* Start and execute, the goroutine is identified with the turn it works   *)
(* for.                                                                    *)
(***************************************************************************)
EXTENDS Naturals, Sequences

CONSTANTS
  Sessions,       \* conversations
  Turns,          \* every turn that may ever be asked for
  SessionOf,      \* the conversation each turn belongs to
  ServerTurns,    \* the server-initiated turns (CompletedDelegationID or CompletedFleetID set)
  ResumeTurns,    \* the turns that carry the answer to a Gateway card
  NoTurn,         \* no turn at all
  Env,            \* bound: the kinds of outside event this instance explores
  MaxDrains,      \* bound: goroutines still draining when another compaction begins
  MaxRestarts,    \* bound: restarts of the process
  MaxDetached     \* bound: cards raised by agents running away from the turn

ASSUME ConstantsOK ==
  /\ SessionOf \in [Turns -> Sessions]
  /\ ServerTurns \subseteq Turns
  /\ ResumeTurns \subseteq Turns \ ServerTurns
  /\ NoTurn \notin Turns
  /\ Env \subseteq {"hold", "stop", "quiet", "expire", "quiesce", "store"}
  /\ MaxDrains \in Nat /\ MaxRestarts \in Nat /\ MaxDetached \in Nat

VARIABLES
  \* memory of the process, under Manager.mu
  quiescing,      \* Manager.quiescing
  held,           \* Manager.held
  byChat,         \* Manager.byChat: the latest run of a conversation
  byUID,          \* Manager.byUID: the runs that can be found
  pending,        \* Manager.pending
  \* the goroutines
  looking,        \* startNextPending calls about to take the lock the first time
  asking,         \* ... about to read the pending park
  popping,        \* ... about to take the lock the second time
  pc,             \* where the goroutine working for a turn stands
  verdict,        \* execute's local `status`
  cancelled,      \* turns whose context is cancelled
  done,           \* Run.done
  answers,        \* the parked turn whose card a resume turn answers
  \* the database
  row,            \* agent_runs.status of the row a turn's Start is making or its run has
  stray,          \* rows of refused claims that still say running, each with the process it was made in
  sessStatus,     \* agent_sessions.status
  park,           \* the park raised by a turn
  dcard,          \* an agent running elsewhere has a live card in the session
  \* history and bounds
  stranded,       \* conversations whose queue the code left with nobody to drain it
  restarts, detachedCards

memVars == <<quiescing, held, byChat, byUID, pending>>
drainVars == <<looking, asking, popping>>
turnVars == <<pc, verdict, cancelled, done, answers>>
dbVars == <<row, stray, sessStatus, park, dcard>>
boundVars == <<stranded, restarts, detachedCards>>
vars == <<memVars, drainVars, turnVars, dbVars, boundVars>>

-----------------------------------------------------------------------------
(* Types and derived state *)

StartSteps == {"look", "record", "claim"}          \* inside Start
RunnerSteps == {"running", "carded", "final"}      \* inside runner.Run
SettleSteps == {"returned", "stopping", "marking", "settling", "recording"}
Executing == RunnerSteps \cup SettleSteps          \* inside execute
Over == {"over", "refused", "lost"}
Places == {"new", "queued", "requeue"} \cup StartSteps \cup Executing \cup Over

RunStatus == {"none", "running", "completed", "failed", "cancelled",
              "waiting_approval", "interrupted"}
SessionStatus == {"running", "completed", "failed", "cancelled", "waiting_approval"}

\* A run that can still speak: registered and not Done().
Live(t) == pc[t] \in Executing /\ ~done[t]

\* byChat holds a run that is not Done().
Busy(s) == byChat[s] # NoTurn /\ ~done[byChat[s]]

\* PendingPark: an unexpired card is waiting on a person.
CardUp(s) == dcard[s] \/ \E t \in Turns : SessionOf[t] = s /\ park[t] = "pending"

TypeOK ==
  /\ quiescing \in BOOLEAN
  /\ held \in [Sessions -> BOOLEAN]
  /\ byChat \in [Sessions -> Turns \cup {NoTurn}]
  /\ byUID \subseteq Turns
  /\ pending \in [Sessions -> Seq(Turns)]
  /\ looking \in [Sessions -> Nat]
  /\ asking \in [Sessions -> Nat]
  /\ popping \in [Sessions -> Nat]
  /\ pc \in [Turns -> Places]
  /\ verdict \in [Turns -> RunStatus]
  /\ cancelled \subseteq Turns
  /\ done \in [Turns -> BOOLEAN]
  /\ answers \in [Turns -> Turns \cup {NoTurn}]
  /\ row \in [Turns -> RunStatus]
  /\ stray \subseteq Turns \X Nat
  /\ sessStatus \in [Sessions -> SessionStatus]
  /\ park \in [Turns -> {"none", "pending", "answered", "expired"}]
  /\ dcard \in [Sessions -> BOOLEAN]
  /\ stranded \subseteq Sessions
  /\ restarts \in Nat
  /\ detachedCards \in Nat

Init ==
  /\ quiescing = FALSE
  /\ held = [s \in Sessions |-> FALSE]
  /\ byChat = [s \in Sessions |-> NoTurn]
  /\ byUID = {}
  /\ pending = [s \in Sessions |-> <<>>]
  /\ looking = [s \in Sessions |-> 0]
  /\ asking = [s \in Sessions |-> 0]
  /\ popping = [s \in Sessions |-> 0]
  /\ pc = [t \in Turns |-> "new"]
  /\ verdict = [t \in Turns |-> "none"]
  /\ cancelled = {}
  /\ done = [t \in Turns |-> FALSE]
  /\ answers = [t \in Turns |-> NoTurn]
  /\ row = [t \in Turns |-> "none"]
  /\ stray = {}
  /\ sessStatus = [s \in Sessions |-> "running"]
  /\ park = [t \in Turns |-> "none"]
  /\ dcard = [s \in Sessions |-> FALSE]
  /\ stranded = {}
  /\ restarts = 0
  /\ detachedCards = 0

Goto(t, place) == pc' = [pc EXCEPT ![t] = place]

\* A goroutine enters startNextPending for session s.
Drains(s) == looking' = [looking EXCEPT ![s] = @ + 1]

\* Somebody will still look at the queue of s: a drain under way, the holder of the
\* lane, the resume of a card on screen, a turn being started for the queue or for an
\* answer, or a turn whose settle drains.
Watched(s) ==
  \/ looking[s] + asking[s] + popping[s] > 0
  \/ held[s]
  \/ CardUp(s)
  \/ \E t \in Turns :
       /\ SessionOf[t] = s
       /\ \/ t \in ServerTurns \cup ResumeTurns /\ pc[t] \in StartSteps \cup {"requeue"}
          \/ pc[t] \in Executing

\* A step that leaves the queue of s to nobody is remembered until it is drained.
MayStrand(s) == stranded' = IF Watched(s)' THEN stranded ELSE stranded \cup {s}

-----------------------------------------------------------------------------
(* Asking for a turn *)

\* A person sends a prompt: the chat handler calls Start.
Prompt(t) ==
  /\ t \notin ServerTurns \cup ResumeTurns
  /\ pc[t] = "new"
  /\ Goto(t, "look")
  /\ UNCHANGED <<memVars, drainVars, verdict, cancelled, done, answers, dbVars, boundVars>>

\* A person answers the card that turn u raised: ClaimPark spends the card, then
\* the handler calls Start with the answer.
AnswerCard(t, u) ==
  /\ t \in ResumeTurns
  /\ pc[t] = "new"
  /\ SessionOf[t] = SessionOf[u]
  /\ park[u] = "pending"
  /\ park' = [park EXCEPT ![u] = "answered"]
  /\ answers' = [answers EXCEPT ![t] = u]
  /\ Goto(t, "look")
  /\ UNCHANGED <<memVars, drainVars, verdict, cancelled, done, row, stray, sessStatus,
                 dcard, boundVars>>

\* Schedule: append under the lock, then startNextPending.
Schedule(t) ==
  /\ t \in ServerTurns
  /\ pc[t] = "new"
  /\ Goto(t, "queued")
  /\ pending' = [pending EXCEPT ![SessionOf[t]] = Append(@, t)]
  /\ Drains(SessionOf[t])
  /\ UNCHANGED <<quiescing, held, byChat, byUID, asking, popping, verdict, cancelled, done,
                 answers, dbVars, boundVars>>

-----------------------------------------------------------------------------
(* startNextPending *)

\* The first lock section: go on only with a free lane and something queued.
DrainLook(s) ==
  /\ looking[s] > 0
  /\ looking' = [looking EXCEPT ![s] = @ - 1]
  /\ asking' = IF Busy(s) \/ pending[s] = <<>>
               THEN asking
               ELSE [asking EXCEPT ![s] = @ + 1]
  /\ UNCHANGED <<memVars, popping, turnVars, dbVars, boundVars>>

\* The read of PendingPark: a card on screen ends the drain.
DrainAsk(s) ==
  /\ asking[s] > 0
  /\ asking' = [asking EXCEPT ![s] = @ - 1]
  /\ popping' = IF CardUp(s) THEN popping ELSE [popping EXCEPT ![s] = @ + 1]
  /\ UNCHANGED <<memVars, looking, turnVars, dbVars, boundVars>>

AfterPopKept(queue) == queue                      \* mutant: the head is read, not taken
AfterPop(queue) == Tail(queue)

\* The second lock section: pop the head; the goroutine is now the turn's.
DrainPop(s) ==
  /\ popping[s] > 0
  /\ popping' = [popping EXCEPT ![s] = @ - 1]
  /\ IF pending[s] = <<>>
     THEN UNCHANGED <<pending, pc>>
     ELSE /\ pending' = [pending EXCEPT ![s] = AfterPop(@)]
          /\ Goto(Head(pending[s]), "look")
  /\ stranded' = stranded \ {s}
  /\ UNCHANGED <<quiescing, held, byChat, byUID, looking, asking, verdict, cancelled, done,
                 answers, dbVars, restarts, detachedCards>>

PutBackLost(t, queue) == queue                    \* mutant: a refused completion is dropped
PutBack(t, queue) == <<t>> \o queue

\* Start refused the popped turn: back to the front of the queue, and nobody is told.
Requeue(t) ==
  /\ pc[t] = "requeue"
  /\ pending' = [pending EXCEPT ![SessionOf[t]] = PutBack(t, @)]
  /\ Goto(t, "queued")
  /\ UNCHANGED <<quiescing, held, byChat, byUID, drainVars, verdict, cancelled, done, answers,
                 dbVars, restarts, detachedCards>>
  /\ MayStrand(SessionOf[t])

-----------------------------------------------------------------------------
(* Start *)

\* What a refused Start means to its caller: the drain puts the turn back, the
\* resume handler reopens the card (and the person may answer it again), the
\* prompt is refused.
RefusedTo(t) ==
  /\ Goto(t, IF t \in ServerTurns THEN "requeue" ELSE IF t \in ResumeTurns THEN "new" ELSE "refused")
  /\ park' = IF t \in ResumeTurns THEN [park EXCEPT ![answers[t]] = "pending"] ELSE park
  /\ answers' = [answers EXCEPT ![t] = NoTurn]

\* The first look, under the read lock.
StartLook(t) ==
  /\ pc[t] = "look"
  /\ IF quiescing \/ held[SessionOf[t]]
     THEN RefusedTo(t)
     ELSE Goto(t, "record") /\ UNCHANGED <<park, answers>>
  /\ UNCHANGED <<memVars, drainVars, verdict, cancelled, done, row, stray, sessStatus, dcard,
                 boundVars>>

\* Runs().Create: a row that says running, before the lane is claimed.
StartRecord(t) ==
  /\ pc[t] = "record"
  /\ \/ /\ row' = [row EXCEPT ![t] = "running"]
        /\ Goto(t, "claim")
        /\ UNCHANGED <<park, answers>>
     \/ /\ "store" \in Env         \* the store refused the row
        /\ RefusedTo(t)
        /\ UNCHANGED row
  /\ UNCHANGED <<memVars, drainVars, verdict, cancelled, done, stray, sessStatus, dcard,
                 boundVars>>

LaneHeldOnly(s) == held[s]                        \* mutant: no look at the running turn
LaneBusyOnly(s) == Busy(s)                        \* mutant: no second look at the hold
LaneTaken(s) == held[s] \/ Busy(s)

\* The lane is claimed under the lock, or the turn is refused and the row made for it is
\* left as it is.
StartClaim(t) ==
  LET s == SessionOf[t] IN
  /\ pc[t] = "claim"
  /\ IF LaneTaken(s)
     THEN /\ RefusedTo(t)
          /\ row' = [row EXCEPT ![t] = "none"]
          /\ stray' = stray \cup {<<t, restarts>>}
          /\ UNCHANGED <<byUID, byChat>>
     ELSE /\ byUID' = byUID \cup {t}
          /\ byChat' = [byChat EXCEPT ![s] = t]
          /\ answers' = [answers EXCEPT ![t] = NoTurn]
          /\ Goto(t, "running")
          /\ UNCHANGED <<row, stray, park>>
  /\ UNCHANGED <<quiescing, held, pending, drainVars, verdict, cancelled, done, sessStatus,
                 dcard, boundVars>>

-----------------------------------------------------------------------------
(* execute: the runner *)

\* A store write made with the turn's own context does nothing once it is cancelled.
WriteSession(t, status) ==
  sessStatus' = IF t \in cancelled THEN sessStatus
                ELSE [sessStatus EXCEPT ![SessionOf[t]] = status]

\* The runner's loop ends with an answer or a reported failure: the session's
\* status is written, and the final frame comes next.
RunnerEnds(t, outcome) ==
  /\ pc[t] = "running"
  /\ WriteSession(t, outcome)
  /\ verdict' = [verdict EXCEPT ![t] = outcome]
  /\ Goto(t, "final")
  /\ UNCHANGED <<memVars, drainVars, cancelled, done, answers, row, stray, park, dcard, boundVars>>

\* The runner returns an error and writes nothing: the shape of a cancelled
\* stream, of a park that could not be stored, of a call that could not be read.
RunnerBreaks(t) ==
  /\ pc[t] = "running"
  /\ verdict' = [verdict EXCEPT ![t] = "failed"]
  /\ Goto(t, "returned")
  /\ UNCHANGED <<memVars, drainVars, cancelled, done, answers, dbVars, boundVars>>

\* Runner.park: the card is stored (CreatePark).
RunnerParks(t) ==
  /\ pc[t] = "running"
  /\ t \notin cancelled
  /\ park[t] = "none"
  /\ park' = [park EXCEPT ![t] = "pending"]
  /\ Goto(t, "carded")
  /\ UNCHANGED <<memVars, drainVars, verdict, cancelled, done, answers, row, stray, sessStatus,
                 dcard, boundVars>>

\* ... and then the session is marked as waiting on a person.
RunnerWaits(t) ==
  /\ pc[t] = "carded"
  /\ WriteSession(t, "waiting_approval")
  /\ verdict' = [verdict EXCEPT ![t] = "completed"]
  /\ Goto(t, "final")
  /\ UNCHANGED <<memVars, drainVars, cancelled, done, answers, row, stray, park, dcard, boundVars>>

\* The final frame: Run.Write sets done, so the lane is free from here, though
\* execute has settled nothing yet.
RunnerFinal(t) ==
  /\ pc[t] = "final"
  /\ done' = [done EXCEPT ![t] = TRUE]
  /\ Goto(t, "returned")
  /\ UNCHANGED <<memVars, drainVars, verdict, cancelled, answers, dbVars, boundVars>>

-----------------------------------------------------------------------------
(* execute: how the turn ended *)

JudgedStopped(t) ==                               \* mutant: a status no reader knows
  IF t \in cancelled THEN "stopped" ELSE verdict[t]

\* The context first, then the session's status, which overrides it.
Judged(t) ==
  IF sessStatus[SessionOf[t]] = "waiting_approval" THEN "waiting_approval"
  ELSE IF t \in cancelled THEN "cancelled" ELSE verdict[t]

Judge(t) ==
  /\ pc[t] = "returned"
  /\ verdict' = [verdict EXCEPT ![t] = Judged(t)]
  /\ Goto(t, IF Judged(t) = "cancelled" THEN "stopping" ELSE "settling")
  /\ UNCHANGED <<memVars, drainVars, cancelled, done, answers, dbVars, boundVars>>

\* The listeners are told; the frame is final.
StopFrame(t) ==
  /\ pc[t] = "stopping"
  /\ done' = [done EXCEPT ![t] = TRUE]
  /\ Goto(t, "marking")
  /\ UNCHANGED <<memVars, drainVars, verdict, cancelled, answers, dbVars, boundVars>>

\* SetSessionStatus(cancelled), with a context of its own.
MarkCancelled(t) ==
  /\ pc[t] = "marking"
  /\ sessStatus' = [sessStatus EXCEPT ![SessionOf[t]] = "cancelled"]
  /\ Goto(t, "settling")
  /\ UNCHANGED <<memVars, drainVars, verdict, cancelled, done, answers, row, stray, park, dcard,
                 boundVars>>

\* settle: no more frames ...
SettleFinish(t) ==
  /\ pc[t] = "settling"
  /\ done' = [done EXCEPT ![t] = TRUE]
  /\ Goto(t, "recording")
  /\ UNCHANGED <<memVars, drainVars, verdict, cancelled, answers, dbVars, boundVars>>

DrainsAfterAnswered(status) == status = "completed"   \* mutant: a stopped turn drains nothing
DrainsAfter(status) == status # "waiting_approval"

\* ... then the record (a write that may fail and is only logged), then the next
\* queued turn unless this one is taken to be waiting on a person.
SettleRecord(t) ==
  /\ pc[t] = "recording"
  /\ \/ row' = [row EXCEPT ![t] = verdict[t]]
     \/ "store" \in Env /\ UNCHANGED row
  /\ Goto(t, "over")
  /\ verdict' = [verdict EXCEPT ![t] = "none"]      \* the goroutine and its locals are gone
  /\ cancelled' = cancelled \ {t}
  /\ UNCHANGED <<memVars, asking, popping, done, answers, stray, sessStatus, park, dcard,
                 restarts, detachedCards>>
  /\ IF DrainsAfter(verdict[t]) THEN Drains(SessionOf[t]) ELSE UNCHANGED looking
  /\ IF verdict[t] = "waiting_approval" THEN MayStrand(SessionOf[t]) ELSE UNCHANGED stranded

IsLatestAlways(t) == TRUE                         \* mutant: evict clears the lane whoever has it
IsLatest(t) == byChat[SessionOf[t]] = t

\* evict, once the retention has passed.
Evict(t) ==
  /\ pc[t] = "over"
  /\ t \in byUID
  /\ byUID' = byUID \ {t}
  /\ byChat' = IF IsLatest(t) THEN [byChat EXCEPT ![SessionOf[t]] = NoTurn] ELSE byChat
  /\ UNCHANGED <<quiescing, held, pending, drainVars, turnVars, dbVars, boundVars>>

-----------------------------------------------------------------------------
(* Stopping turns *)

\* Cancel: a person presses stop.
Cancel(s) ==
  /\ "stop" \in Env
  /\ Busy(s)
  /\ byChat[s] \notin cancelled
  /\ cancelled' = cancelled \cup {byChat[s]}
  /\ UNCHANGED <<memVars, drainVars, pc, verdict, done, answers, dbVars, boundVars>>

\* endIfItGoesQuiet: half an hour of silence ends the turn.
GoQuiet(t) ==
  /\ "quiet" \in Env
  /\ pc[t] \in RunnerSteps
  /\ t \notin cancelled
  /\ cancelled' = cancelled \cup {t}
  /\ UNCHANGED <<memVars, drainVars, pc, verdict, done, answers, dbVars, boundVars>>

-----------------------------------------------------------------------------
(* Holding the lane for a compaction *)

Hold(s) ==
  /\ "hold" \in Env
  /\ ~quiescing
  /\ ~Busy(s)
  /\ ~held[s]
  /\ looking[s] + asking[s] + popping[s] < MaxDrains
  /\ held' = [held EXCEPT ![s] = TRUE]
  /\ UNCHANGED <<quiescing, byChat, byUID, pending, drainVars, turnVars, dbVars, boundVars>>

AfterHoldNothing(s) == UNCHANGED looking          \* mutant: the lane is given back, and no more
AfterHold(s) == Drains(s)

\* The function Hold answered with: give the lane back, then startNextPending.
Release(s) ==
  /\ held[s]
  /\ held' = [held EXCEPT ![s] = FALSE]
  /\ AfterHold(s)
  /\ UNCHANGED <<quiescing, byChat, byUID, pending, asking, popping, turnVars, dbVars, boundVars>>

-----------------------------------------------------------------------------
(* Cards of agents that run away from the turn (external: background agents
   and fleet members, of which the manager sees the park and the status) *)

RaiseDetached(s) ==
  /\ ~CardUp(s)
  /\ detachedCards < MaxDetached
  /\ detachedCards' = detachedCards + 1
  /\ dcard' = [dcard EXCEPT ![s] = TRUE]
  /\ sessStatus' = [sessStatus EXCEPT ![s] = "waiting_approval"]
  /\ UNCHANGED <<memVars, drainVars, turnVars, row, stray, park, stranded, restarts>>

\* resumeDetached: the card is spent, the session runs again, and Drain.
AnswerDetached(s) ==
  /\ dcard[s]
  /\ dcard' = [dcard EXCEPT ![s] = FALSE]
  /\ sessStatus' = [sessStatus EXCEPT ![s] = "running"]
  /\ Drains(s)
  /\ UNCHANGED <<memVars, asking, popping, turnVars, row, stray, park, boundVars>>

\* A card nobody answered stops being readable by PendingPark; nothing is told.
ExpireCard(s) ==
  /\ "expire" \in Env
  /\ CardUp(s)
  /\ dcard' = [dcard EXCEPT ![s] = FALSE]
  /\ park' = [t \in Turns |-> IF SessionOf[t] = s /\ park[t] = "pending" THEN "expired" ELSE park[t]]
  /\ UNCHANGED <<memVars, drainVars, turnVars, row, stray, sessStatus, restarts, detachedCards>>
  /\ MayStrand(s)

-----------------------------------------------------------------------------
(* Going down and coming back *)

Quiesce ==
  /\ "quiesce" \in Env
  /\ ~quiescing
  /\ quiescing' = TRUE
  /\ pending' = [s \in Sessions |-> <<>>]
  /\ pc' = [t \in Turns |-> IF pc[t] = "queued" THEN "lost" ELSE pc[t]]
  /\ UNCHANGED <<held, byChat, byUID, drainVars, verdict, cancelled, done, answers, dbVars,
                 boundVars>>

\* Shutdown: cancel whatever still answers once the patience of DrainForShutdown
\* is over.
Shutdown ==
  LET live == {t \in byUID : ~done[t]} IN
  /\ quiescing
  /\ live \ cancelled # {}
  /\ cancelled' = cancelled \cup live
  /\ UNCHANGED <<memVars, drainVars, pc, verdict, done, answers, dbVars, boundVars>>

RecoveredNone(status) == status                   \* mutant: the boot recovers nothing
RecoveredAll(status) ==                           \* mutant: the boot marks finished runs too
  IF status = "none" THEN status ELSE "interrupted"
Recovered(status) == IF status = "running" THEN "interrupted" ELSE status

\* The process dies, however far anything got, and another boots: memory is
\* gone, and RecoverOrphans closes every row that still says running.
Restart ==
  /\ restarts < MaxRestarts
  /\ restarts' = restarts + 1
  /\ quiescing' = FALSE
  /\ held' = [s \in Sessions |-> FALSE]
  /\ byChat' = [s \in Sessions |-> NoTurn]
  /\ byUID' = {}
  /\ pending' = [s \in Sessions |-> <<>>]
  /\ looking' = [s \in Sessions |-> 0]
  /\ asking' = [s \in Sessions |-> 0]
  /\ popping' = [s \in Sessions |-> 0]
  /\ pc' = [t \in Turns |-> IF pc[t] \in {"new"} \cup Over THEN pc[t] ELSE "lost"]
  /\ row' = [t \in Turns |-> Recovered(row[t])]
  /\ stray' = {r \in stray : Recovered("running") = "running"}
  /\ verdict' = [t \in Turns |-> "none"]
  /\ cancelled' = {}
  /\ done' = [t \in Turns |-> FALSE]
  /\ answers' = [t \in Turns |-> NoTurn]
  /\ stranded' = {}
  /\ UNCHANGED <<sessStatus, park, dcard, detachedCards>>

-----------------------------------------------------------------------------

TurnStep(t) ==
  \/ StartLook(t) \/ StartRecord(t) \/ StartClaim(t) \/ Requeue(t)
  \/ \E outcome \in {"completed", "failed"} : RunnerEnds(t, outcome)
  \/ RunnerBreaks(t) \/ RunnerParks(t) \/ RunnerWaits(t) \/ RunnerFinal(t)
  \/ Judge(t) \/ StopFrame(t) \/ MarkCancelled(t) \/ SettleFinish(t) \/ SettleRecord(t)

DrainStep(s) == DrainLook(s) \/ DrainAsk(s) \/ DrainPop(s)

Ask(t) ==
  \/ Prompt(t)
  \/ Schedule(t)
  \/ \E u \in Turns : AnswerCard(t, u)

Environment(s) ==
  \/ Cancel(s) \/ Hold(s) \/ Release(s)
  \/ RaiseDetached(s) \/ AnswerDetached(s) \/ ExpireCard(s)

Next ==
  \/ \E t \in Turns : Ask(t) \/ TurnStep(t) \/ Evict(t) \/ GoQuiet(t)
  \/ \E s \in Sessions : DrainStep(s) \/ Environment(s)
  \/ Quiesce \/ Shutdown \/ Restart

Spec == Init /\ [][Next]_vars

-----------------------------------------------------------------------------
(* Properties *)

\* One conversation, one turn at a time (ErrBusy): two runs of a session are
\* never both able to write frames, however Start calls, drains, holds and
\* evictions interleave.
OneTurnAtATime ==
  \A t, u \in Turns :
    Live(t) /\ Live(u) /\ SessionOf[t] = SessionOf[u] => t = u

\* A lane held for a compaction has no turn on it: Hold and Start decide under
\* the same lock, "so the two cannot both win".
HeldLaneIsQuiet ==
  \A t \in Turns : held[SessionOf[t]] => ~Live(t)

\* A turn that is answering can be found: Latest and Cancel reach it through
\* byChat, Live and Shutdown through byUID.  Evicting an older run of the
\* conversation, or starting a newer one, never hides it.
LiveTurnIsFound ==
  \A t \in Turns : Live(t) => t \in byUID /\ byChat[SessionOf[t]] = t

\* The queue of a session holds each waiting completion once and nothing else:
\* no drainer duplicates, drops or revives a turn between its pop and its requeue.
QueueIntact ==
  \A s \in Sessions :
    /\ \A i, j \in 1 .. Len(pending[s]) : pending[s][i] = pending[s][j] => i = j
    /\ {pending[s][i] : i \in 1 .. Len(pending[s])}
         = {t \in Turns : pc[t] = "queued" /\ SessionOf[t] = s}

\* A turn runs once: one that reached execute is never started or queued again,
\* so a completion is not narrated twice.
RunsOnce ==
  [][\A t \in Turns : pc[t] \in Executing \cup {"over"}
       => pc'[t] \in Executing \cup {"over", "lost"}]_vars

\* How a run ended is written once: neither settle nor the boot's RecoverOrphans
\* rewrites a row that already says how its run ended.
EndingIsFinal ==
  [][\A t \in Turns : row[t] \notin {"none", "running"} => row'[t] = row[t]]_vars

\* A row that says running was made by this process: RecoverOrphans leaves no ghost of
\* an earlier one, and in a living process the ghosts are two, the row of a turn whose
\* last write failed and the row of a claim Start refused after recording it.
NoGhostRow ==
  /\ \A t \in Turns : row[t] = "running" => pc[t] \in {"claim", "over"} \cup Executing
  /\ \A r \in stray : r[2] = restarts

\* A queue that holds something is watched: whatever finishes, answers, lets go or gives
\* up, somebody will drain it still.  The code drops the watch at three steps only, which
\* set `stranded`: a put-back after the last drain, a turn judged to be waiting on a card
\* that is gone, and a card that expires.
QueueIsWatched ==
  \A s \in Sessions : pending[s] # <<>> => Watched(s) \/ s \in stranded

\* The lane keeps ConversationLane's promise, however Start's two looks, the drains,
\* holds, stops, evictions and restarts interleave: a turn on the lane is alone there,
\* one that nobody waits for is never refused, none runs twice, and how it ended is
\* recorded once, after its last word.
Stands(t) ==
  IF pc[t] \in StartSteps \cup {"requeue"} THEN "asked"
  ELSE IF pc[t] = "queued" THEN "waiting"
  ELSE IF Live(t) THEN "running"
  ELSE IF pc[t] \in Executing THEN "spoken"
  ELSE pc[t]
Lane == INSTANCE ConversationLane WITH
  at <- [t \in Turns |-> Stands(t)],
  ending <- [t \in Turns |-> IF row[t] \in {"none", "running"} THEN "open" ELSE row[t]]
LaneIsKept == Lane!Spec

=============================================================================
