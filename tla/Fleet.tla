------------------------------- MODULE Fleet --------------------------------
(***************************************************************************)
(* One fleet, a batch of agents the Gateway starts with one call and is    *)
(* woken for once: delegateFleet in src/orchestrator/internal/agent/fleet  *)
(* .go, the server and worker halves in internal/app/fleet.go, the tracker *)
(* of internal/app/fleettracker.go, the cancellation of internal/app/      *)
(* fleetops.go and the fleet statements of internal/store/sqlstore/agent   *)
(* .go.                                                                    *)
(*                                                                         *)
(* A member is a delegation row.  A job brings it to a worker, unless it   *)
(* reaches the person's own computer and so runs in the server; each run   *)
(* of the handler is a leg.  A leg may stop to ask: its card, answered, is *)
(* a second job.  The server learns that a member is back from a report    *)
(* that may be lost, from a sweep, and from the batch's timer, and several *)
(* of them may try to close the batch at once.  The claims and leases of   *)
(* jobs are JobQueue's; here a lease is only lost or kept.  The turn that  *)
(* wakes the Gateway goes to RunManager's queue; here it is counted.       *)
(***************************************************************************)
EXTENDS Naturals, FiniteSets

CONSTANTS
  Members,
  Local,          \* the members that reach the person's own computer
  Askers,         \* the members with a tool that needs approval
  MaxCards,       \* bound: cards one of them raises
  MaxDelegationAttempts,
  Env,            \* bound: the kinds of outside event this instance explores
  MaxFaults       \* bound: faults in all

ASSUME FleetConstants ==
  /\ IsFiniteSet(Members) /\ Members # {} /\ Local \subseteq Members /\ Askers \subseteq Members
  /\ MaxCards \in Nat
  /\ MaxDelegationAttempts \in Nat \ {0}
  /\ Env \subseteq {"cancel", "unresolved", "store", "lose", "die", "stall",
                    "deploy", "crash"}
  /\ MaxFaults \in Nat

Cards == Askers \X (1 .. MaxCards)
Jobs == Members \X {0} \cup Cards       \* <<m, 0>> runs m, a card carries its answer
Attempts == 1 .. MaxDelegationAttempts
Legs == {<<j[1], j[2], a>> : j \in Jobs, a \in Attempts}

\* The goroutines of the server that may close the batch.
Hands == Members \cup {"sweep", "timer"}

VARIABLES
  \* the database
  fleet,          \* agent_fleets.status
  overdue,        \* agent_fleets.deadline has passed
  del,            \* agent_delegations.status
  card,           \* agent_park_snapshots.status, late once past expires_at
  job,            \* jobs.status
  tries,          \* jobs.attempts
  \* memory of the server
  start,          \* how far the call that starts the batch has come
  unstarted,      \* the members a failed dispatch has still to settle
  watched,        \* the tracker has the batch's record, and its timer
  counted,        \* fleetTrack.Members
  hand,           \* where each closing goroutine stands
  stopper,        \* where CancelFleet stands
  step,           \* what an answer has still to do
  \* the processes that run agents
  leg, ctx,
  \* the network
  reports,        \* members whose report is on its way
  \* history and bounds
  wakes,          \* turns scheduled to wake the Gateway
  ran,            \* the legs that took an answer into an agent
  faults

rowVars == <<fleet, overdue, del, card>>
jobVars == <<job, tries>>
startVars == <<start, unstarted>>
trackVars == <<watched, counted>>
legVars == <<leg, ctx, ran>>
vars == <<rowVars, jobVars, startVars, trackVars, hand, stopper, step, legVars, reports, wakes, faults>>

Terminal == {"done", "failed"}
Alive == {"claimed", "working", "done", "failed", "reporting", "leaving"}

TypeOK ==
  /\ fleet \in {"none", "running", "done", "cancelled"} /\ overdue \in BOOLEAN
  /\ del \in [Members -> {"none", "running"} \cup Terminal]
  /\ card \in [Cards -> {"none", "open", "late", "answered"}]
  /\ job \in [Jobs -> {"none", "pending", "claimed", "done", "dead"}]
  /\ tries \in [Jobs -> 0 .. MaxDelegationAttempts]
  /\ start \in {"none", "row", "members", "watched", "failing", "over"}
  /\ unstarted \subseteq Members
  /\ watched \in BOOLEAN /\ counted \subseteq Members
  /\ hand \in [Hands -> {"idle", "abandon", "read", "close"}]
  /\ stopper \in {"idle", "close", "stop"}
  /\ step \in [Cards -> {"none", "resume", "settle"}]
  /\ leg \in [Legs -> {"none", "gone"} \cup Alive]
  /\ ctx \in [Legs -> {"live", "told", "cancelled"}]
  /\ reports \subseteq Members
  /\ wakes \in 0 .. 1 /\ ran \subseteq Legs /\ faults \in 0 .. MaxFaults

Init ==
  /\ fleet = "none" /\ overdue = FALSE
  /\ del = [m \in Members |-> "none"]
  /\ card = [c \in Cards |-> "none"]
  /\ job = [j \in Jobs |-> "none"] /\ tries = [j \in Jobs |-> 0]
  /\ start = "none" /\ unstarted = {}
  /\ watched = FALSE /\ counted = {}
  /\ hand = [h \in Hands |-> "idle"] /\ stopper = "idle"
  /\ step = [c \in Cards |-> "none"]
  /\ leg = [l \in Legs |-> "none"] /\ ctx = [l \in Legs |-> "live"]
  /\ reports = {} /\ wakes = 0 /\ ran = {} /\ faults = 0

-----------------------------------------------------------------------------
(* Helpers *)

Fault(kind) == kind \in Env /\ faults < MaxFaults /\ faults' = faults + 1

MemberOf(l) == l[1]
JobOf(l) == <<l[1], l[2]>>
RunsHere(l) == l[2] = 0 /\ l[1] \in Local

\* model.Job.MaxAttempts: an answer is carried once.
AttemptsAlike(j) == MaxDelegationAttempts         \* mutant: an answer is retried like a run
AttemptsOf(j) == IF j[2] = 0 THEN MaxDelegationAttempts ELSE 1

\* CompleteDelegation, conditional on the row still running.
SettledAnyway(m, status) == [del EXCEPT ![m] = status]  \* mutant: the last one to write wins
Settled(m, status) == [del EXCEPT ![m] = IF @ = "running" THEN status ELSE @]

\* FleetTally: as many terminal rows as the batch is large.
TallyDone == {m \in Members : del[m] = "done"} = Members  \* mutant: a failure is not back
Tally == \A m \in Members : del[m] \in Terminal

\* AbandonFleetMembers.
Abandoned == [m \in Members |-> IF del[m] = "running" THEN "failed" ELSE del[m]]

\* publishFleetReport: best effort.
Report(m) ==
  \/ reports' = reports \cup {m} /\ UNCHANGED faults
  \/ Fault("lose") /\ UNCHANGED reports

\* settleFleetMember: the write, and then the bell whatever the write did.
SettleMember(m, status) == del' = Settled(m, status) /\ Report(m)

\* A card of the batch that a person can still answer.
Asking == \E c \in Cards : card[c] = "open"

\* The tracker's record goes, and the timer with it.
Forget == watched' = FALSE /\ counted' = {}

-----------------------------------------------------------------------------
(* delegateFleet and StartFleet *)

CreateFleet ==
  /\ start = "none"
  /\ fleet' = "running"
  /\ start' = "row"
  /\ UNCHANGED <<overdue, del, card, jobVars, unstarted, trackVars, hand, stopper, step, legVars,
                 reports, wakes, faults>>

CreateFleetMembers ==
  /\ start = "row"
  /\ del' = [m \in Members |-> "running"]
  /\ start' = "members"
  /\ UNCHANGED <<fleet, overdue, card, jobVars, unstarted, trackVars, hand, stopper, step, legVars,
                 reports, wakes, faults>>

\* ... it fails: the call is refused, and the fleet's row stays as it is.
MembersUnwritten ==
  /\ start = "row" /\ Fault("store")
  /\ start' = "over"
  /\ UNCHANGED <<rowVars, jobVars, unstarted, trackVars, hand, stopper, step, legVars, reports, wakes>>

\* StartFleet watches before it dispatches.
Watch ==
  /\ start = "members"
  /\ start' = "watched"
  /\ watched' = TRUE /\ counted' = {}
  /\ UNCHANGED <<rowVars, jobVars, unstarted, hand, stopper, step, legVars, reports, wakes, faults>>

\* enqueueFleetMembers: the local members are launched, the others get their jobs
\* in one transaction, which may fail.
Dispatch ==
  /\ start = "watched"
  /\ leg' = [l \in Legs |-> IF RunsHere(l) /\ l[3] = 1 THEN "claimed" ELSE leg[l]]
  /\ \/ /\ job' = [j \in Jobs |-> IF j[2] = 0 /\ j[1] \notin Local THEN "pending" ELSE job[j]]
        /\ start' = "over"
        /\ UNCHANGED <<unstarted, faults>>
     \/ /\ Fault("store") /\ Members # Local
        /\ start' = "failing" /\ unstarted' = Members
        /\ UNCHANGED job
  /\ UNCHANGED <<rowVars, tries, trackVars, hand, stopper, step, ctx, ran, reports, wakes>>

\* ... and then every member is settled, the ones already launched included.
FailToStart(m) ==
  /\ start = "failing" /\ m \in unstarted
  /\ SettleMember(m, "failed")
  /\ unstarted' = unstarted \ {m}
  /\ start' = IF unstarted = {m} THEN "over" ELSE start
  /\ UNCHANGED <<fleet, overdue, card, jobVars, trackVars, hand, stopper, step, legVars, wakes>>

-----------------------------------------------------------------------------
(* A leg *)

Claim(j) ==
  /\ job[j] = "pending" /\ tries[j] < AttemptsOf(j)
  /\ job' = [job EXCEPT ![j] = "claimed"]
  /\ tries' = [tries EXCEPT ![j] = @ + 1]
  /\ leg' = [leg EXCEPT ![<<j[1], j[2], tries[j] + 1>>] = "claimed"]
  /\ UNCHANGED <<rowVars, startVars, trackVars, hand, stopper, step, ctx, ran, reports, wakes, faults>>

\* GetDelegation: a member that is over is only reported, one whose agent does
\* not resolve is settled, and the others run.
Load(l) ==
  /\ leg[l] = "claimed"
  /\ \/ /\ del[MemberOf(l)] \in Terminal
        /\ leg' = [leg EXCEPT ![l] = "reporting"] /\ UNCHANGED ran
     \/ /\ del[MemberOf(l)] = "running"
        /\ leg' = [leg EXCEPT ![l] = "working"]
        /\ ran' = IF JobOf(l) \in Cards THEN ran \cup {l} ELSE ran
     \/ /\ del[MemberOf(l)] = "running" /\ "unresolved" \in Env
        /\ leg' = [leg EXCEPT ![l] = "failed"] /\ UNCHANGED ran
  /\ UNCHANGED <<rowVars, jobVars, startVars, trackVars, hand, stopper, step, ctx, reports, wakes,
                 faults>>

\* The worker still has the job it claimed.
Holds(l) == job[JobOf(l)] = "claimed" /\ tries[JobOf(l)] = l[3]
Returned(j) == [job EXCEPT ![j] = IF tries[j] < AttemptsOf(j) THEN "pending" ELSE "dead"]

\* ... it cannot be read: the handler's error is the job's.
LoadFails(l) ==
  /\ leg[l] = "claimed" /\ Fault("store")
  /\ leg' = [leg EXCEPT ![l] = "gone"]
  /\ job' = IF Holds(l) THEN Returned(JobOf(l)) ELSE job
  /\ UNCHANGED <<rowVars, tries, startVars, trackVars, hand, stopper, step, ctx, ran, reports, wakes>>

\* The agent stops to ask.  Its report only draws the card.
Park(l) ==
  /\ leg[l] = "working" /\ ctx[l] # "cancelled"
  /\ \E c \in Cards :
       /\ c[1] = MemberOf(l) /\ card[c] = "none"
       /\ \A d \in Cards : d[1] = c[1] /\ d[2] < c[2] => card[d] # "none"
       /\ card' = [card EXCEPT ![c] = "open"]
  /\ leg' = [leg EXCEPT ![l] = "leaving"]
  /\ UNCHANGED <<fleet, overdue, del, jobVars, startVars, trackVars, hand, stopper, step, ctx, ran,
                 reports, wakes, faults>>

\* The agent comes back.  settleFleetRun writes nothing for one that was stopped.
Return(l) ==
  /\ leg[l] = "working"
  /\ \E outcome \in {"done"} \cup (IF ctx[l] = "cancelled" THEN {"leaving"} ELSE {"failed"}) :
       leg' = [leg EXCEPT ![l] = outcome]
  /\ UNCHANGED <<rowVars, jobVars, startVars, trackVars, hand, stopper, step, ctx, ran, reports, wakes,
                 faults>>

Settle(l) ==
  /\ leg[l] \in Terminal
  /\ del' = Settled(MemberOf(l), leg[l])
  /\ leg' = [leg EXCEPT ![l] = "reporting"]
  /\ UNCHANGED <<fleet, overdue, card, jobVars, startVars, trackVars, hand, stopper, step, ctx, ran,
                 reports, wakes, faults>>

\* The handler returns nil, and the job is completed by whoever holds it.
Leave(l) ==
  /\ leg' = [leg EXCEPT ![l] = "gone"]
  /\ job' = [job EXCEPT ![JobOf(l)] = IF Holds(l) THEN "done" ELSE @]

RingBell(l) ==
  /\ leg[l] = "reporting"
  /\ Report(MemberOf(l))
  /\ Leave(l)
  /\ UNCHANGED <<rowVars, tries, startVars, trackVars, hand, stopper, step, ctx, ran, wakes>>

\* One that stopped to ask, or was stopped, has nothing to report.
LeaveQuietly(l) ==
  /\ leg[l] = "leaving"
  /\ Leave(l)
  /\ UNCHANGED <<rowVars, tries, startVars, trackVars, hand, stopper, step, ctx, ran, reports, wakes,
                 faults>>

\* The worker's process dies under the leg.
Die(l) ==
  /\ leg[l] \in Alive /\ ~RunsHere(l) /\ Fault("die")
  /\ leg' = [leg EXCEPT ![l] = "gone"]
  /\ UNCHANGED <<rowVars, jobVars, startVars, trackVars, hand, stopper, step, ctx, ran, reports, wakes>>

\* The lease of a dead worker runs out, or that of one that was only slow ...
Reclaim(j) ==
  /\ job[j] = "claimed"
  /\ \/ /\ \A l \in Legs : JobOf(l) = j => leg[l] \notin Alive
        /\ UNCHANGED faults
     \/ \E l \in Legs : JobOf(l) = j /\ leg[l] \in Alive /\ Fault("stall")
  /\ job' = Returned(j)
  /\ UNCHANGED <<rowVars, tries, startVars, trackVars, hand, stopper, step, legVars, reports, wakes>>

\* ... whose next beat stops it.
Beat(l) ==
  /\ leg[l] = "working" /\ ~RunsHere(l) /\ ~Holds(l) /\ ctx[l] # "cancelled"
  /\ ctx' = [ctx EXCEPT ![l] = "cancelled"]
  /\ UNCHANGED <<rowVars, jobVars, startVars, trackVars, hand, stopper, step, leg, ran, reports, wakes,
                 faults>>

\* The worker is told to stop: its context is every handler's.
StopWorker(l) ==
  /\ leg[l] = "working" /\ ctx[l] # "cancelled" /\ Fault("deploy")
  /\ ctx' = [ctx EXCEPT ![l] = "cancelled"]
  /\ UNCHANGED <<rowVars, jobVars, startVars, trackVars, hand, stopper, step, leg, ran, reports, wakes>>

-----------------------------------------------------------------------------
(* The join *)

\* onFleetReport: the tracker counts the member, and the last one in, or one of a
\* batch that is not tracked here, goes to the database.
Idle(h) == hand[h] = "idle"
OnReport(m) ==
  /\ m \in reports /\ Idle(m)
  /\ reports' = reports \ {m}
  /\ \/ /\ watched /\ counted \cup {m} # Members
        /\ counted' = counted \cup {m}
        /\ UNCHANGED <<watched, hand>>
     \/ /\ watched /\ counted \cup {m} = Members
        /\ Forget
        /\ hand' = [hand EXCEPT ![m] = "read"]
     \/ /\ ~watched
        /\ hand' = [hand EXCEPT ![m] = "read"]
        /\ UNCHANGED trackVars
  /\ UNCHANGED <<rowVars, jobVars, startVars, stopper, step, legVars, wakes, faults>>

\* closeFleetFromStore, and closeFleet up to its tally.
ReadTally(h) ==
  /\ hand[h] = "read"
  /\ hand' = [hand EXCEPT ![h] = IF fleet = "running" /\ Tally THEN "close" ELSE "idle"]
  /\ UNCHANGED <<rowVars, jobVars, startVars, trackVars, stopper, step, legVars, reports, wakes, faults>>

\* CloseFleet: the first one changes the row, and is told so.
FirstAlways == TRUE                               \* mutant: everybody who tallied tells the Gateway
First == fleet = "running"

\* closeFleet from there: who won schedules the Gateway's turn, unless the profile
\* does not resolve.
Close(h) ==
  /\ hand[h] = "close"
  /\ hand' = [hand EXCEPT ![h] = "idle"]
  /\ \/ /\ First
        /\ fleet' = "done"
        /\ Forget
        /\ wakes' = wakes + 1 \/ ("unresolved" \in Env /\ UNCHANGED wakes)
     \/ ~First /\ UNCHANGED <<fleet, trackVars, wakes>>
  /\ UNCHANGED <<overdue, del, card, jobVars, startVars, stopper, step, legVars, reports, faults>>

\* sweepFleets: what nobody reported ...
SweepSettled ==
  /\ Idle("sweep")
  /\ fleet = "running" /\ Tally
  /\ hand' = [hand EXCEPT !["sweep"] = "close"]
  /\ UNCHANGED <<rowVars, jobVars, startVars, trackVars, stopper, step, legVars, reports, wakes, faults>>

\* ... and what has run out of time, unless a card of it can still be answered.
OverdueUnlessAsked ==                             \* mutant: a card that expired holds it too
  overdue /\ \A c \in Cards : card[c] \notin {"open", "late"}
Overdue == overdue /\ ~Asking

SweepOverdue ==
  /\ Idle("sweep")
  /\ fleet = "running" /\ Overdue
  /\ hand' = [hand EXCEPT !["sweep"] = "abandon"]
  /\ UNCHANGED <<rowVars, jobVars, startVars, trackVars, stopper, step, legVars, reports, wakes, faults>>

\* onFleetOutOfTime: the timer claims the record, and leaves the batch to the sweep
\* while it waits on a person.
TimeOut ==
  /\ watched /\ overdue /\ Idle("timer")
  /\ Forget
  /\ hand' = [hand EXCEPT !["timer"] = IF fleet = "running" /\ ~Asking THEN "abandon" ELSE "idle"]
  /\ UNCHANGED <<rowVars, jobVars, startVars, stopper, step, legVars, reports, wakes, faults>>

Abandon(h) ==
  /\ hand[h] = "abandon"
  /\ del' = Abandoned
  /\ hand' = [hand EXCEPT ![h] = "read"]
  /\ UNCHANGED <<fleet, overdue, card, jobVars, startVars, trackVars, stopper, step, legVars, reports,
                 wakes, faults>>

-----------------------------------------------------------------------------
(* CancelFleet *)

\* The rows first.  Bound: nobody names the batch before its members are written.
CancelMembers ==
  /\ "cancel" \in Env /\ stopper = "idle" /\ fleet = "running" /\ start # "row"
  /\ del' = Abandoned
  /\ stopper' = "close"
  /\ UNCHANGED <<fleet, overdue, card, jobVars, startVars, trackVars, hand, step, legVars, reports,
                 wakes, faults>>

CancelClose ==
  /\ stopper = "close"
  /\ fleet' = IF First THEN "cancelled" ELSE fleet
  /\ stopper' = "stop"
  /\ UNCHANGED <<overdue, del, card, jobVars, startVars, trackVars, hand, step, legVars, reports, wakes,
                 faults>>

\* The legs here are stopped, the workers are told.
CancelLegs ==
  /\ stopper = "stop"
  /\ Forget
  /\ ctx' = [l \in Legs |-> IF leg[l] # "working" \/ ctx[l] = "cancelled" THEN ctx[l]
                            ELSE IF RunsHere(l) THEN "cancelled" ELSE "told"]
  /\ stopper' = "idle"
  /\ UNCHANGED <<rowVars, jobVars, startVars, hand, step, leg, ran, reports, wakes, faults>>

\* RunFleetOps: the broadcast arrives, if it does.
CancelArrives(l) ==
  /\ ctx[l] = "told" /\ leg[l] = "working"
  /\ ctx' = [ctx EXCEPT ![l] = "cancelled"]
  /\ UNCHANGED <<rowVars, jobVars, startVars, trackVars, hand, stopper, step, leg, ran, reports, wakes,
                 faults>>

-----------------------------------------------------------------------------
(* Cards, time and the server's process *)

\* ClaimPark, and ResumeDetached sends the answer on.
Answer(c) ==
  /\ card[c] = "open"
  /\ card' = [card EXCEPT ![c] = "answered"]
  /\ step' = [step EXCEPT ![c] = "resume"]
  /\ UNCHANGED <<fleet, overdue, del, jobVars, startVars, trackVars, hand, stopper, legVars, reports,
                 wakes, faults>>

\* enqueueFleetResume, which fails also when only the signal was not sent.
CarriedNot(c) == job                              \* mutant: the answer is recorded, no job has it
Carried(c) == [job EXCEPT ![c] = "pending"]

ResumeFleetMember(c) ==
  /\ step[c] = "resume"
  /\ \/ job' = Carried(c) /\ step' = [step EXCEPT ![c] = "none"] /\ UNCHANGED faults
     \/ Fault("lose") /\ job' = Carried(c) /\ step' = [step EXCEPT ![c] = "settle"]
     \/ Fault("store") /\ step' = [step EXCEPT ![c] = "settle"] /\ UNCHANGED job
  /\ UNCHANGED <<rowVars, tries, startVars, trackVars, hand, stopper, legVars, reports, wakes>>

ResumeFails(c) ==
  /\ step[c] = "settle"
  /\ SettleMember(c[1], "failed")
  /\ step' = [step EXCEPT ![c] = "none"]
  /\ UNCHANGED <<fleet, overdue, card, jobVars, startVars, trackVars, hand, stopper, legVars, wakes>>

\* expires_at, and the batch's deadline.
CardExpires(c) ==
  /\ card[c] = "open"
  /\ card' = [card EXCEPT ![c] = "late"]
  /\ UNCHANGED <<fleet, overdue, del, jobVars, startVars, trackVars, hand, stopper, step, legVars,
                 reports, wakes, faults>>

DeadlinePasses ==
  /\ fleet = "running" /\ ~overdue
  /\ overdue' = TRUE
  /\ UNCHANGED <<fleet, del, card, jobVars, startVars, trackVars, hand, stopper, step, legVars,
                 reports, wakes, faults>>

\* The server dies and boots.  recoverInterrupted leaves fleet members alone.
Restart ==
  /\ Fault("crash")
  /\ start' = IF start = "none" THEN start ELSE "over"
  /\ unstarted' = {} /\ Forget
  /\ hand' = [h \in Hands |-> "idle"] /\ stopper' = "idle"
  /\ step' = [c \in Cards |-> "none"]
  /\ leg' = [l \in Legs |-> IF RunsHere(l) /\ leg[l] \in Alive THEN "gone" ELSE leg[l]]
  /\ UNCHANGED <<rowVars, jobVars, ctx, ran, reports, wakes>>

-----------------------------------------------------------------------------
LegStep(l) ==
  \/ Load(l) \/ LoadFails(l) \/ Park(l) \/ Return(l) \/ Settle(l) \/ RingBell(l)
  \/ LeaveQuietly(l)
  \/ Die(l) \/ Beat(l) \/ StopWorker(l) \/ CancelArrives(l)

HandStep(h) == ReadTally(h) \/ Close(h) \/ Abandon(h)

CardStep(c) == Answer(c) \/ ResumeFleetMember(c) \/ ResumeFails(c) \/ CardExpires(c)

Next ==
  \/ CreateFleet \/ CreateFleetMembers \/ MembersUnwritten \/ Watch \/ Dispatch
  \/ \E m \in Members : FailToStart(m) \/ OnReport(m)
  \/ \E j \in Jobs : Claim(j) \/ Reclaim(j)
  \/ \E l \in Legs : LegStep(l)
  \/ \E h \in Hands : HandStep(h)
  \/ SweepSettled \/ SweepOverdue \/ TimeOut
  \/ CancelMembers \/ CancelClose \/ CancelLegs
  \/ \E c \in Cards : CardStep(c)
  \/ DeadlinePasses \/ Restart

Spec == Init /\ [][Next]_vars

(* Fairness.  Go schedules every goroutine, a leg is bounded by its time      *)
(* limit, workers claim what is pending and reclaim what is stale, the sweep  *)
(* ticks and time passes.  Nobody has to answer, report or hear a broadcast.  *)
Fairness ==
  /\ WF_vars(CreateFleetMembers) /\ WF_vars(Watch) /\ WF_vars(Dispatch)
  /\ \A m \in Members : WF_vars(FailToStart(m)) /\ WF_vars(OnReport(m))
  /\ \A j \in Jobs : WF_vars(Claim(j)) /\ WF_vars(Reclaim(j))
  /\ \A l \in Legs : /\ WF_vars(Load(l)) /\ WF_vars(Return(l)) /\ WF_vars(Settle(l))
                     /\ WF_vars(RingBell(l)) /\ WF_vars(LeaveQuietly(l))
  /\ \A h \in Hands : WF_vars(HandStep(h))
  /\ WF_vars(SweepSettled) /\ WF_vars(SweepOverdue) /\ WF_vars(TimeOut)
  /\ WF_vars(CancelClose) /\ WF_vars(CancelLegs)
  /\ \A c \in Cards : WF_vars(ResumeFleetMember(c)) /\ WF_vars(ResumeFails(c)) /\ WF_vars(CardExpires(c))
  /\ WF_vars(DeadlinePasses)

FairSpec == Spec /\ Fairness

-----------------------------------------------------------------------------
(* Properties *)

\* The batch keeps FleetJoin's promise, however reports, sweep, timer and cancel
\* race: a result is never overwritten, the batch ends once and only with every
\* member accounted for, and the Gateway is woken at most once, of a batch that
\* ended by itself.
Join == INSTANCE FleetJoin WITH
  result <- [m \in Members |-> IF del[m] = "running" THEN "out" ELSE del[m]],
  batch <- fleet
JoinIsKept == Join!Spec

\* "running it a second time because a worker died mid-write is the one outcome an
\* approval must never produce": an answer is carried into an agent at most once,
\* whatever dies, stalls or is delivered again.
DecisionRunsOnce ==
  \A c \in Cards : Cardinality({l \in ran : JobOf(l) = c}) <= 1

\* While nothing has gone wrong, a member that runs has somebody who will bring it
\* back: a job, a leg, a card or an answer on its way.  Cancels and timers included.
RunningIsExpected ==
  \A m \in Members :
    faults = 0 /\ start = "over" /\ del[m] = "running" =>
      \/ \E j \in Jobs : j[1] = m /\ job[j] \in {"pending", "claimed"}
      \/ \E l \in Legs : MemberOf(l) = m /\ leg[l] \in Alive
      \/ \E c \in Cards : c[1] = m /\ (card[c] \in {"open", "late"} \/ step[c] # "none")

\* A batch whose members are all back ends without its deadline, with every report
\* lost and the server restarted.
AllBack == \A m \in Members : del[m] \in Terminal
SettledIsClosed == (fleet = "running" /\ AllBack) ~> fleet # "running"

\* Every batch whose members were written ends, whatever died under it and whoever never answered.
EveryFleetEnds ==
  (fleet = "running" /\ \A m \in Members : del[m] # "none") ~> fleet \in {"done", "cancelled"}
=============================================================================
