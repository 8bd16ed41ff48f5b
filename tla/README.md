# Verification of the Smart Agent Gateway's orchestrator

TLA+ models of the part of the orchestrator (`src/orchestrator`, Go) that decides
*what runs, when, and who is told*: the lane a conversation runs its turns on,
the agents that work in the background and the approval cards they raise, the
batches of agents given out to workers, the job queue those workers serve, and
the tool calls that run on a person's own computer. TLC checks the models on small instances;
TLAPS proves their safety properties, and that the code's lane, background agents, job
table and batches implement the promise made of each, for every value of the constants.
`PROJECT.json` is the index: which definition models which lines, what each run
checks, the mutants that show a property can fail, the findings and the hazards.

## 1. Inventory

| Part | State it keeps | Operations | Talks to |
|---|---|---|---|
| **Run manager** `run/manager.go`, `run/run.go` | in memory: `byChat`, `byUID`, `pending`, `held`, `quiescing`; in the store: run rows, the session's status | `Start`, `Schedule`, `startNextPending` (from `Schedule`, `settle`, `Hold`'s release and `Drain`), `Hold`, `Cancel`, `execute`/`settle`, `evict`, `endIfItGoesQuiet`, `Quiesce`, `Shutdown`, `RecoverOrphans` | called by the chat handlers and the background manager; calls the agent loop and the store |
| **Background agents** `app/background.go`, `app/delegate.go`, `agent/delegate.go` | in memory: `running`, `quiescing`, `baseCtx`; in the store: delegations (status, attempts) | `launch`, `resume`, `finish`, `cancel`, `scheduleCompletion`, `recoverInterrupted`, `relaunch`, `quiesce`, `drain`, `shutdown` | schedules completion turns on the run manager; raises and releases cards |
| **Approval cards (parks)** `store/sqlstore/agent.go`, `api/chat.go`, `agent/tools.go` | park rows: pending, queued, approved, rejected, expired, with an expiry | `CreatePark`, `CreateParkSequenced`, `ClaimPark`, `ReopenPark`, `ReleaseNextQueuedPark`, `ResolveQueuedParks`, `PassOverPark`, `ResolveParkByID` | an answer starts a turn (Gateway's card) or a leg (an agent's card) |
| **Job queue and worker pool** `store/sqlstore/jobs.go`, `worker/pool.go`, `worker/worker.go` | job rows: status, attempts, `locked_by`, `locked_at`, `run_after`; per goroutine: claim, job, contexts | `EnqueueMany`, `Claim`, `Heartbeat`, `Complete`, `Fail`, `Release`, `abandon`, `Reclaim`, `Quiesce` | runs fleet members and model pulls on any node |
| **Fleets** `app/fleet.go`, `fleettracker.go`, `fleetops.go`, `agent/fleet.go` | fleet rows, members (delegations), an in-memory tally, the legs each worker holds | `delegateFleet`, `StartFleet`, `RunFleetMemberJob`, `ResumeFleetMember`, member reports, sweep, deadline, `CancelFleet`, `closeFleet` | enqueues jobs; schedules one completion turn per fleet; members raise cards |
| **Device link** `link/*.go`, the application's `link.rs`, `tools/mod.rs` | the registered machine per computer, waiting tickets, streams carried; over there, the calls taken and their answers | `ServeControl`/`add`/`remove`/`abandon`, `stream`/`deliver`, `Call`/`callOnce`/`keepWatch`/`comesBack`; `hold`/`serve`/`answer`, `calls::slot`/`forget`, `run` | called by the tools of a turn |
| **Run stream** `run/run.go` | frame buffer, listeners, `done` | `Write`, `Listen`, replay | SSE handlers |
| **Words said meanwhile** `app/said.go` | a list per conversation | `Add`, `Take` | folded in by the agent loop |
| Everything else (live sockets, supervision, providers, tools, SQL guard, identity, UI, desktop) | see `PROJECT.json` | | |

What is hard here, and hard to test:

* **Interleavings.** `Start` takes the lock twice with a database write between;
  draining a queue is three lock sections and a store read, run by any number of
  goroutines; a leg that parked and the leg its answer starts overlap; a pool
  goroutine that stalled comes back after another has taken its job.
* **Ordering across components.** A card is claimed, then its agent resumed, then
  the next card promoted, while other agents park. One cancelled context drives
  both the end of the agents and the graceful shutdown.
* **Lost and late messages.** A member's report may be lost or reach a server that
  forgot the batch; a stream dies under a call whose work goes on; the application
  is asked again, or restarted, or dials back to a socket that is gone.
* **Crashes and restarts.** Rows, goroutines and queued turns do not die
  together. Each boot closes run rows (`RecoverOrphans`), restarts or fails
  delegations (`recoverInterrupted`), and the stale window returns jobs.
* **Bounds.** Attempts spent at the claim and given back on release; restarts of a
  delegation are capped.
* **Progress.** Turns must free the lane, queued completions must be started,
  queued cards must come up, lost jobs must be found.

What makes each part correct: *lane* - one turn at a time, never beside a
compaction, always reachable by stop and shutdown, no queued turn lost, doubled
or run twice, none left in a queue nobody will look at, no ghost row, no rewritten
ending. *Background agents* - at most one leg works for a delegation, the person is
told at most once and never of a cancelled agent, a running row always has somebody who
will settle it, every agent ends. *Cards* - one is live, an approval is acted on, a queued card comes up.
*Jobs* - a claim is exact, attempts are bounded, an ending is final, a late worker
harms nobody, every job is served. *Fleets* - every member is settled once, the
batch is closed once and wakes the Gateway once, an answer is carried once, a
batch ends. *Device link* - a tool is begun once whatever its streams do, no stream
outlives its socket, a newer socket keeps its entry, a call ends.

## 2. Modules and how they correspond to the code

Every lock section, every store call and every context check that another
goroutine could see is one action; a sequence of statements between two of them
is one step. Data is abstracted: prompts, results, tool arguments, tokens and
frames have no content.

### `ConversationLane.tla`, `RunManager.tla` - the lane

`ConversationLane` is the promise: a turn is asked for, refused only to one who waits
for it, or waits and is tried later; it runs alone on its conversation and beside no
hold, speaks its last word, and how it ended is recorded once, by itself or by the next
process. `RunManager` is the code, and `LaneIsKept` the refinement: a turn's place in
the lane is read off `pc`, `done` and `row`, and what is recorded off `row`.

One or more conversations and a fixed set of turns: prompts, server-initiated
completions, and answers to Gateway cards. Goroutines inside `startNextPending`
are counted per place (`looking`, `asking`, `popping`) because they are
interchangeable until they pop a turn; from then on the goroutine is the turn's
`pc`. `StartLook`, `StartRecord`, `StartClaim` are the three parts of `Start`;
`RunnerEnds`, `RunnerParks`, `RunnerWaits`, `RunnerFinal`, `RunnerBreaks` are
the ways the agent loop leaves; `Judge`, `StopFrame`, `MarkCancelled` are
`execute`, `SettleFinish` and `SettleRecord` are `settle`. The eviction timer is
the action `Evict`, enabled whenever the run is over. `Restart` is the death of
the process and the boot's recovery.

`row` is the row of the run a turn has, or is being started with. A claim that is
refused after its row was written leaves that row behind: it moves to `stray`, with the
process that made it, because a turn that is put back makes another row when it is
started again. `NoGhostRow` speaks of both: what says running is a live turn's, a row
whose last write failed, or a stray of *this* process, since the boot's recovery closes
every other. `Watched` names who will look at a conversation's queue again (a drain under way,
a turn that will settle, a hold that will be let go, a card that will be answered), and
`stranded` is history: the conversations whose queue the code has left with none of them, at
one of the three steps that say `MayStrand`.

### `Delegation.tla`, `Background.tla` - background agents and their cards

`Delegation` is the promise: an agent's work is with the agent, with a card, with the
answer to it or with nobody, and passes from one to the next; it is settled once and told
at most once, and when it was cancelled only if the answer to its card finds that the agent
is gone (`"farewell"`); before that it is given up only by a card that ran
out or with the process. The next process finds it (`care`), counts it, starts it again or
gives it up, each a step after which it may die itself; it tells the person in a step of its own,
and a process that dies before it does tells nobody.
`Background` is the code, and `DelegationIsKept` the refinement: the place of the work is
what the one leg of the delegation has (`Has`, `TurnOf`), and `"torn"`, which is no place
of the promise's, if more than one has something. Legs, goroutines, contexts, the map of
what runs, the queue of the cards and the requests that drain it are what the promise does
not know of.

The delegations of one conversation, each a sequence of *legs* (goroutines). A
leg may raise one card, so the card is named after the leg; `Gateway` is the one
card the Gateway itself raises. `pc[leg]` runs through due, working, parking or
returned, settled, leaving, gone; `ctx[leg]` is why its context ended. `step[card]`
is what the request that claimed the card has still to do (resume the agent, then
promote the next card or drain the queue), so anything may happen in between.
`expires_at` is the set `late`. `proc` is the process: booting, up, stopping,
down. `recovery[d]` is how far `recoverInterrupted` has come with one row: found,
counted (`RestartDelegation`), cleared (its cards released) and launched, or failed
(settled), owed (its cards released) and told; each is a write of its own, a process may
stop or die between any two, and the next one starts from what is written.

Of the lane there is what a completion turn meets on its way. It is queued by
`Scheduled`; a drain (`drains`) is begun by `Schedule`, by a turn that settles and by
an answer to an agent's card, only if the lane is free and no card is up at that
moment; it pops a turn (`DrainPops`), which takes the lane (`"speaking"`) or is refused and put
back (`PutBack`); a turn that ends drains (`TurnSettles`) unless `execute` takes it for one
that waits (`TurnWaits`, `TurnParts`). Nothing else starts a queued turn. `stranded` is history
as in `RunManager`: turns left in the queue when nobody was going to look.

### `JobLease.tla`, `JobQueue.tla` - the job table and the pools

`JobLease` is the promise: a job is in one worker's hands or in none; it leaves them
when that worker completes it, fails it, hands it back whole or comes back with nothing,
or when its lease has run out; each time it is given out counts unless it is handed
back; completed and dead are final. `JobQueue` is the code, and `LeaseIsKept` the
refinement: a row is in the hands of the goroutine that carries the claim it is locked
with (`Carrier`), it has lapsed when `Reclaim` would take it (`Stale`), and a goroutine
is busy from the `UPDATE` that claims until it is idle again or its process is gone.
That the claim's `UPDATE` and its read-back are two statements, that a claim can outlive
its goroutine, and that a goroutine learns late that it lost its row, are what the
promise does not know of.

Rows and pool goroutines on several nodes. A claim is a pair of the goroutine and
a random token (`Minted`: one nobody bears). `fresh` says the lease is younger
than the stale window; while a holder's heartbeat runs it stays so unless the
process stalls. `line` is the order of `run_after` among rows whose time has come.
The broker is not modelled: a message only wakes a goroutine that sweeps anyway.

### `FleetJoin.tla`, `Fleet.tla` - batches of agents

`FleetJoin` is the promise: members start, each is brought back or written off once,
and when all are back the batch is closed and the Gateway woken once, or the batch
is cancelled and nobody is woken. `Fleet` is the code: the rows and who writes
them, the dispatch as jobs with attempts and a lease, legs on workers and in the
server, cards and the jobs that carry their answers, reports that may be lost, the
tracker a restart forgets, and four that may close (`Hands`: the last report, the
sweep of settled batches, the sweep of overdue ones, the timer) beside a cancel.
Each hand reads and closes in two steps. `JoinIsKept` is the refinement,
`INSTANCE FleetJoin` under the mapping given there.

### `Link.tla` - tool calls on a person's computer

One computer. `link[i]` is where the gateway's handler of the i-th control socket
stands, `machine` the one registered, `held` the one the application is using; a
handler learns late that its socket died (`Remove`, then `Abandon`). A call asks on
a *stream* (`Look`, `Await`, `Write`, `Read`) and decides (`Decide`) as `Call`'s
switch does; `slot` is the ticket, `sock` the gateway's end, `task` the
application's task for it, which goes on when the stream or the control socket
dies. `known`, `cell` and `place` are the map of calls and the `OnceCell` a task
found or made, taken apart so that a task can hold one that was forgotten. `begun`
counts every run of a call's tool, at whatever place it is begun, and `slip` says that
an asking has found a place which another had made and was about to give up; both are
history, as is `late`, which says that a socket was added after a younger one.
`attempt` is kept as far as the code looks at it. A stream of which nothing is left
is used again for a later asking, so a call may ask any number of times;
`MaxAsked` bounds how many askings are still somewhere at once.

### `RunManagerProofs`, `LaneProofs`, `JobQueueProofs`, `LeaseProofs`, `BackgroundProofs`, `DelegationProofs`, `FleetProofs`, `LinkProofs`

Each `...Proofs` that has the name of a module `EXTENDS` it and holds its invariants,
theorems and proofs, section 5; `LaneProofs`, `LeaseProofs` and `DelegationProofs` extend
those of `RunManager`, `JobQueue` and `Background` by the refinements. The `MC` modules
hold constants, symmetry and views for TLC.

## 3. Runs

`Env` in each configuration lists the outside events that instance explores, so
that each run asks one question at a size TLC finishes.

| Run | Bounds | Shows |
|---|---|---|
| `run_lane` | a prompt, a completion and the answer to a card on one conversation; holds, expiry | `OneTurnAtATime`, `HeldLaneIsQuiet`, `LiveTurnIsFound`, `QueueIntact`, `QueueIsWatched`, `RunsOnce`, `LaneIsKept` (implements `ConversationLane`) |
| `run_restart` | a prompt and a completion, an agent's card, stop, silence, store failures, quiesce, one restart at any step | `TypeOK`, `NoGhostRow`, `LiveTurnIsFound`, `QueueIsWatched`, `EndingIsFinal`, `LaneIsKept` |
| `jobs_claims` | 2 jobs, 2 nodes (one without a handler), 2 attempts; one crash, stall or failed store call; handler errors, stops, quiesce | `TypeOK`, `ClaimIsExact`, `AttemptsBounded`, `LeaseIsKept` (implements `JobLease`), `OthersRunIsSafe`, `EndingIsFinal` |
| `jobs_live` | 2 jobs, 2 nodes, one crash or stall; fair | `EveryJobIsServed`, `LostClaimStops` |
| `bg_cards` | 2 agents of 3 legs, 2 agents' cards and the Gateway's; approve-all, pass-over, rejections, reopened and failing resumes, a removed agent | `TypeOK`, `OneLegWorks`, `RunningIsAttended` |
| `bg_restart` | 1 agent of 4 legs, 2 cards, 2 stops or crashes at any step, the recovery's included; rejections, cancel, time limit, expiry, an agent revoked at the boot | `RunningIsAttended`, `ToldOnce`, `DelegationIsKept` (implements `Delegation`; that one leg works is part of it) |
| `bg_live` | 2 agents that may each raise one card, every answer an approval; weakly fair | `EveryAgentEnds`, `ResultIsTold` |
| `fleet_join` | 2 members, one of them in the server, one that may ask; cancel; one of: a store failure, a dead worker, a failing resume, a deploy | `TypeOK`, `RunningIsExpected`, `JoinIsKept` (implements `FleetJoin`) |
| `fleet_live` | 1 member with a card; cancel; one of: a lost report, a restarted server, a stalled worker, a deploy; fair | `DecisionRunsOnce`, `SettledIsClosed`, `EveryFleetEnds` |
| `link_calls` | 1 call, 3 askings at once, 3 control sockets, 1 stream carried at once; two of: a socket cut, a stream broken, a late dial-back, the application restarted, an answer forgotten, the turn stopped; fair | `TypeOK`, `RunsAgainOnlyInTheGap`, `GoneCarriesNothing`, `HeldIsRegistered`, `CallEnds` |

Why the bounds are enough to meet the cases: two turns on a lane are the least
that can collide, and the third (an answer or a completion) can be refused, put
back or reopened meanwhile; two attempts separate "give back" from "spent"; two
goroutines and two tokens let a stale claim meet a new one; three legs let two
legs of a delegation be due at once; two restarts take a delegation past its cap.
Two members are the least of which one can be back while the other asks or dies;
the faults of a fleet are one at a time because each is followed by the sweep or
the deadline, which `fleet_live` waits for. Two befallings of a link are the least
that lose a request and then the memory of it, and the least under which two
resumes of one call meet.
Every property of a passing run has a mutant in `PROJECT.json`: a plausible bug in
the mapped definition that TLC shows to violate it.

Two states of `jobs_claims` that differ only in whom a lost attempt is laid to
(`blamed`, history for `jobs_deploy`) are one to TLC (`VIEW WithoutBlame`): no step and
no property of that run looks at it beyond its type. Tokens are symmetric, being random.
So are two of `bg_cards` or `bg_restart` that differ only in the context of a leg that is
gone or in the lane of the completion turns (`VIEW WithoutSpent`): no property of these runs
reads either beyond its type, and what reads them changes nothing else; `bg_live` has the
lane without a view. No run has `DelegationIsKept` with the approve-all, for its size; the
theorem has it.

Five properties except by name what the code does not keep, and the runs reach what they
except:

* `QueueIsWatched` the three steps that leave a queue to nobody (`stranded`): a put-back,
  a turn taken for one that waits, a card that expires. `ResultIsTold` likewise the first two.
* `RunningIsAttended` an agent whose last card ran out (`RanOut`), and a card queued in a
  conversation where one was passed over, taken down by a cancel, raised by the Gateway or
  ran out, or whose process went (`LineBroken`). A card past its expiry attends nothing.
  Where the line is whole, a queued card counts only while it moves: while an agent's
  card is on the screen or its answer under way. A broken line excuses nobody else: whatever
  is passed over, cancelled, stopped or recovered, a running row whose agent has no card in
  the queue must have a leg, an answer about to resume it or a card on the screen.
* `RunsAgainOnlyInTheGap` the gap between `calls::slot` and `calls::forget` (`slip`), and
  `HeldIsRegistered` a socket added late (`late`).

Deadlock checking is off: in every instance the turns, jobs or agents run out and
the system rests, which is what the real one does when nobody asks for anything.

### Where the code and its comments disagree

These runs check what a comment says and TLC finds it violated; `PROJECT.json`
quotes the line.

| Run | What happens |
|---|---|
| `jobs_deploy` (`NotKilledByStopping`) | the shutdown never calls `Pool.Quiesce`, so a restart spends an attempt and two kill a job that never failed |
| `link_away` (`AwayIsAWait`) | a stream dialled back after its control socket is gone and before the next is registered is reported as a refusal, and the call ends instead of waiting |

The same was found of these while the models were written; each is a few steps of
its model, and they have no run of their own so that the runs stay few:

* A drain's refused turn is put back after the last goroutine that would drain has
  gone by, and nothing starts it until the conversation's next turn or answer
  (`Requeue`, and `PutBack` of `Background`; "so a queue drains itself", "that user turn's finish will retry us",
  manager.go:322, 362-363).
* A turn that ran beside an agent's card reads `waiting_approval` from the session and drains
  nothing, although the card was answered and its answer drained while the turn still had
  the lane (`Judge`, `TurnWaits`; "in which case the session is waiting on a person",
  manager.go:450-451). A card that expires drains nothing either.
* A claim that is refused after its row was written, because another turn or a hold took
  the lane meanwhile, leaves the row running until the next boot (`StartClaim`, `stray`;
  "no run is created for a turn that is not going to happen", manager.go:206-207).
* A queued card comes up by an answer to an agent's card and by nothing else: behind the
  Gateway's card, behind the only card after it was passed over, behind a card that a cancel
  or a recovery rejects, or behind one that expires, it stays where it is, and so does its
  agent (`LineBroken`; "the person is never shown more than one", but may be shown none).
* An agent whose card expires has a running row that nobody settles (`RanOut`): a late answer
  marks the card, `AnswerLate`, and does no more.
* Recovery settles a row past its cap, takes down its cards and schedules its completion turn
  one after the other; a process that dies before the last tells nobody, because the next
  recovery visits running rows only (`GiveUp`, `TellGivenUp`; "the result would never be
  narrated", background.go:832, is what it is there to prevent).
* A cancel that arrives after the agent's card is written and before `finish` is answered as
  done, and `finish`, which looks at the park first, leaves the agent at its card (`MarkParked`).
* An answer claimed just before a cancel resumes an agent whose row is cancelled: `resume`
  does not look at the status, and the agent works to an end nobody is told of (`Resume`).
* A parked leg's deferred delete removes the entry of the leg its answer started,
  which can then be neither cancelled nor waited for (`Background`, `Leave`).
* A completion turn dropped by the shutdown is never scheduled again: recovery
  visits running rows only (`Background`; `ResultIsTold` is checked without stops).
* `resume` of an agent that was removed while its card waited schedules the completion
  turn whether or not it was the one to settle the row: the person is told of an agent
  that was cancelled meanwhile (`Background`, `ResumeRemoved`).
* `ResolveQueuedParks` approves queued cards that have expired, which
  `DrainApprovalQueue` did not read and so resumes for nobody (`Background`).
* Cancelling a batch while a member asks leaves its card, and the card holds the
  conversation that `CancelFleet` says is not held (`Fleet`).
* `add` does not compare `seenAt`: the handler of an older control socket that adds
  after the newer one takes the entry, and its end leaves the computer offline while
  the newer socket is up (`Link`, `Add`, `late`; "must not have its new link torn out from
  under it", link.go:279-281).
* From the second dial deadline on, a computer that is online and never dials back
  is asked without end, although `dialAttempts` is two; a failing write to a dead
  socket that is still registered is retried without a pause (`Link`, `Decide`).
* A second resume that arrives between `calls::slot` and `calls::forget` finds the
  place the first is about to remove and runs the tool there, while the first request,
  read late, makes a place of its own and runs it again; or it runs it for the second
  time after a restart (`Link`, `Slot`, `slip`; "A call with an id is done ONCE", mod.rs:265,
  and "must never be started twice", call.go:72-75). `RunsAgainOnlyInTheGap` says that no
  tool is begun twice but so.
* "Arrived" means written, not read: a resume may be read before the request it
  resumes, is told that nothing was run, and then the tool runs (`Link`).
* A stream delivered as its dial deadline passes is closed by nobody until its
  control socket ends, and counts against the limit (`Link`, `DialDeadline`).
* A stopped call whose stream reads as ended is taken for one whose link died and
  asks once more before it notices (`Link`, `Stopped`).

Others are visible in the models as single steps: `StartClaim` does not look at `quiescing`
again; two drainers that each popped a completion may start them in the other order;
`BaseCancel` ends the agents while the grace that is to protect them is only beginning;
`Promoted` does not look for a card that went live since the claim; `StartUnresolved` leaves
a Gateway card claimed; `DrainApprovalQueue` approves a passed-over Gateway card that
`ResumeNobody` finds no delegation for. Where one of them is more than an inconvenience it is
a hazard in `PROJECT.json`.

## 4. Fairness

* A runnable goroutine is eventually scheduled: weak fairness on each step of a
  goroutine that needs nothing from outside.
* An agent's leg ends, because it has a time limit (`BackgroundTimeout`). A job handler is
  only assumed to return once its context is cancelled.
* A turn is *not* assumed to end by anything in the code: a runner has no deadline, and a tool
  that hangs is kept alive by its heartbeats (manager.go:40-46, 230). `run_lane` and
  `run_restart` have no fairness and no liveness property; that a turn which does end leaves
  the lane drained is the safety property `QueueIsWatched`. `bg_live` alone assumes that the
  turn which tells a result ends, of the model and the tools it calls (`TurnGoesOn`): without
  it no other result behind it is told, and that is so in the code.
* Tickers tick: the sweep, the scan and the heartbeat of a live process.
* A supervisor starts a process that is down.
* `bg_live` assumes that the person answers the card on the screen, and approves it:
  without it nothing behind a card moves, and that is intended. It has no stops, and all its
  fairness is weak: a goroutine in `startNextPending` goes on once it is there, and nothing
  but the code's own calls puts one there.
* `fleet_live`: workers serve their jobs, the sweep and the deadline come, and an
  open card is answered or expires; a report need not arrive.
* `link_calls`: the gateway's handlers, each call's goroutine and the application's
  tasks go on, and the application dials while it has no socket. A dial deadline
  that passes although the application would answer counts as one of the faults:
  with no bound on them the call asks for ever, as listed above.

No fairness is assumed of prompts, cancels, faults, stops or crashes.

## 5. Proofs

Checked by TLAPS for arbitrary constants that satisfy the named assumptions
(`ConstantsOK`, `JobConstants`, `BackgroundConstants`, `FleetConstants`,
`LinkAssumption`: types of the parameters, "no turn" is not a turn, "no claim" is
neither a claim nor a worker, `max_attempts` is positive). The bounds of the models, `Env` and `MaxFaults`
among them, are parameters here: the theorems hold for each value. Every safety
property, action property and refinement of a run that passes is a theorem.

| Module | Theorems | Inductive invariant |
|---|---|---|
| `RunManagerProofs` | `TypeCorrect`, `LaneIsExclusive`, `HeldLaneIsQuietHolds`, `TurnsAreExclusive` | `TypeOK /\ LaneFacts` |
| | `QueueIsIntact` | `TypeOK /\ QueueIntact` |
| | `NoGhostRowHolds`, `EndingIsFinalHolds`, `RunsOnceHolds` | `RowInv = TypeOK /\ QueueIntact /\ RowFacts`, for the first with `StraysAreOurs` |
| | `QueueIsWatchedHolds` | `WatchInv /\ QueueIsWatched`, `WatchInv = TypeOK /\ QueueIntact /\ WatchFacts` |
| `LaneProofs` | `LaneIsKeptHolds` | `KeptInv = RowInv /\ LaneFacts /\ TurnFacts` |
| `JobQueueProofs` | `ClaimsAreExact`, `AttemptsAreBounded`, `EndingsAreFinal`, `OthersRunIsSafeHolds` | `JobInv = Typed /\ PoolFacts /\ ClaimIsExact /\ AttemptsBounded` |
| | `JobsTypeCorrect` | `TypeOK` |
| `LeaseProofs` | `LeaseIsKeptHolds` | `LeaseInv = JobInv /\ IdleFacts` |
| `BackgroundProofs` | `BackgroundTypeCorrect`, `BackgroundInvariant`, `OneLegWorksHolds` | `TypeOK /\ TurnFacts` |
| | `TellInvariant`, `ToldOnceHolds` | `... /\ TellFacts`, for the second with `NobodyGone` |
| | `RunningIsAttendedHolds` | `... /\ AttendFacts` |
| `DelegationProofs` | `DelegationIsKeptHolds` | `PromiseInv = TypeOK /\ TurnFacts /\ TellFacts /\ ServingRuns /\ LateWasOpen` |
| `FleetProofs` | `FleetTypeCorrect`, `FleetKeepsThePromise` | `TypeOK /\ JoinFacts` |
| | `DecisionRunsOnceHolds` | `TypeOK /\ OnceFacts` |
| | `RunningIsExpectedHolds` | `TypeOK /\ FaultlessFacts` |
| `LinkProofs` | `LinkTypeCorrect`, `RunsAgainOnlyInTheGapHolds`, `GoneCarriesNothingHolds`, `HeldIsRegisteredHolds` | `TypeOK /\ OnceFacts /\ GapFacts /\ CarrierFacts /\ HeldFacts` |

Why the properties alone are not inductive:

* **Lane.** That `Start` finds the lane free says only that the run `byChat` names
  is done. `LaneFacts` adds that a run that can still speak *is* the one `byChat`
  names and is findable, which eviction and a newer start must preserve, and that a
  held lane has no such run. Exclusion follows because `byChat` names one.
* **Queue and rows.** `QueueIntact` is inductive once the effect of `Append`, `Tail`
  and putting back at the front on "each once and nothing else" is known
  (`HoldsAppend`, `HoldsTail`, `HoldsFront`). From it a drain pops only turns that
  wait, so what it starts has no row (`RowFacts`); hence no row is started over an
  ending and no turn runs twice.
* **Who watches the queue.** Each step that ends one watch must begin another or be one of
  the three that set `stranded`. A drain that finds the lane busy may leave because what it
  met is a turn that has still to settle, and a drain that finds a card up because the card is
  still to be answered (`WatchFacts`: a busy lane has an executing turn of that
  conversation, an answer knows its card, only completions are put back).
* **The lane's promise.** That each step of `RunManager` is a step of the lane needs,
  beside the exclusion (`LaneFacts`) and the rows (`RowInv`), that only turns nobody
  waits for are ever queued, that a run is `done` exactly from its last frame on, and
  that what is recorded at the end is an ending (`TurnFacts`). Then a claim in
  `StartClaim` finds the lane free in the lane's own sense, and the death of the process
  with the next boot is one `Crash` step for every turn at once.
* **Jobs.** `Complete` and `Fail` match on `locked_by` alone, so an ending is final
  only because an ended row carries no claim (`AttemptsBounded`) and a goroutine that
  records an ending has one (`PoolFacts`). A claim is exact because it names the
  goroutine that minted it and nobody bears it when it is minted; so nobody but the
  holder can move a row out of `running` while its lease is fresh.
* **The table's promise.** A row counts as in somebody's hands while a goroutine carries
  its claim, so each step must say whose hands change: a take gives the row to a
  goroutine that carried nothing (`IdleFacts`: an idle or vanished goroutine remembers no
  claim); a process that dies takes its rows out of its goroutines' hands and out of no
  others', because a claim names its goroutine (`PoolFacts`); what `Complete` or `Fail`
  finds under the claim is the one row in the goroutine's hands (`ClaimIsExact`), and
  `Release` gives back an attempt that was spent (`AttemptsBounded`), so `GREATEST` never
  cuts anything off.
* **The line.** `Postponed` rebuilds the order of `run_after` by a recursive function. That
  it returns a sequence of jobs is an induction over the length of the line, which the
  library states with an operator parameter; here it is done over the set of lengths for
  which it holds (`NumbersIn`, from the least element of its complement).
* **Agents.** `TurnFacts` follows a delegation's turn from the leg to the card it
  parks on, to the request that claimed the answer, to the next leg: one of them has
  it (`OneTurn`). It needs that an answered card is not put up again, that nothing of
  a dead process is left, and of each row a recovery is still to see through that nobody
  works on it, that it runs until it is given up, and that it has no card to answer once
  its cards are released (`RowsAlone`, `RowsRun`, `RowsBare`).
  `TellFacts` adds that whoever is about to schedule a completion turn is the one that
  settled the row, or that gave it up. `AttendFacts` looks at the last leg: while the row
  runs, it, its card or its answer is still to do something (`LastAttends`), and a card
  that is queued in an unbroken line has one before it that is up or being answered
  (`LineKept`, from that every card was raised and the oldest that waits is the one
  promoted).
* **The agents' promise.** One leg at a time has the turn (`OneTurn`), so a step that
  changes what one leg has moves one delegation's work (`GoesTo`, `GoesNowhere`, `Stays`).
  What is left is from where to where: a leg that is refused by `spawn` drops the work only
  in a process on its way out (`ServingRuns`, and nothing runs in one that is down); a
  card just raised has not expired (`LateWasOpen`); a leg that finds its row settled may
  lay the work down, because a delegation with a leg has a row; each step of a recovery is
  the like step of the promise or none: releasing the cards lays the work down, and the launch
  finds it with nobody (`RowsAlone`, `RowsBare`, `NothingAsked`); whoever tells the person is
  the first (`TellFacts`), and tells of a cancelled row only as the farewell of an answer
  (`OwingIsOver`).
* **Fleets.** `JoinFacts` says what makes each write of the batch's and the members'
  rows safe: members run only while the batch does, a hand about to close it saw
  everybody back, a cancel closes after it settled the rows. Under it each action of
  `Fleet` is a step of `FleetJoin` or a stutter. `OnceFacts`: a leg that carries an
  answer is the first attempt of its job. `FaultlessFacts`: until the first fault,
  whoever works on a member holds its job.
* **Link.** `OnceFacts` follows the one request of a call that is not a resume: it is
  written once and makes at most one place that is kept. `GapFacts` says what the other places
  are worth: a place that is known was made by that request or is about to be given up, so
  who stands at another one has found it in the gap, and `slip` is set. Hence two runs without
  `slip` would be two runs at one place, which begins its work only from empty. `CarrierFacts`
  follows a control socket: what is registered is up, what is carried is carried by one whose
  streams are still to be closed. `HeldFacts`: sockets are dialled in order and the one in use
  is the youngest, so one that is added over it is added late.

**One theorem has a hypothesis on `Env`**, and TLC shows that it is needed. `ToldOnceHolds`
asks that no agent is removed from the profile while its card waits: `resume` then schedules
the completion turn without asking whether it settled the row, and a cancelled agent is told
(`Env = {"removed", "cancel"}`; in the list of section 3). `bg_restart`, which checks
`ToldOnce`, satisfies it. What holds without it is `TellInvariant` and, told once at most,
`DelegationIsKeptHolds`, whose promise has the farewell of an agent that is gone as a step of
its own. What `RunningIsAttended` and the other properties of section 3 except is in their
statements, where the theorems have it too.

Only model-checked: all liveness, which the prover does not handle. The two runs that
expect a violation state what is false.

## 6. Left out, and why

* Content: prompts, transcripts, tool arguments, formatted errors, frames, chips
  and dashboard counters. No property speaks of them.
* Store failures in general. They are modelled where the code has a branch of its
  own for them: `Start`'s row, the pool's claim and endings, the resume of a
  Gateway card.
* Two server processes over one database: the code assumes one (the lane is in
  memory), except for the job queue, which is modelled with several nodes.
* Of `Background`'s lane: the prompts and compactions that share it, which `RunManager` has.
  A drain's first look and its read of the card are one step (`Drained`), its pop and `Start`'s
  claim are another (`DrainPops`), and the queued turns are popped in any order: what each
  of these steps may meet in between is in `RunManager`, where they are apart, and no property
  of `Background` is about the order of the results. `sessions.status` is there as what it
  may say while a card is up or being answered (`StatusMayWait`).
* Of `Background`'s cards: a leg raises at most one, so an agent has one live card at a time;
  in `bg_live` each agent raises one, so two cards that are live together are in `bg_cards` only.
* Of `Fleet`: a cancel that comes between the batch's row and its members'; a batch
  whose members were never written, which never closes (`EveryFleetEnds` is stated
  for the others); which tools a resumed local member finds on the worker that
  carries its answer. A completion turn is scheduled once; that it is lost with the
  process is `Background`'s concern.
* Of `Link`: connections carried for a driver (`Dial`, `pipe`), the recheck of a
  session and the page's credential, which are folded into the cut of a socket;
  several computers (each has a registry entry of its own); the hour and the 512 of
  `forget_the_old`, which are one of the faults.
* Parsers, guards, adapters, identity, front ends: pure functions over unbounded
  syntax, or code around external programs.

## 7. Plan

1. *(done)* `RunManager`, `JobQueue`, `Background`, the proofs of the first two.
2. *(done)* `FleetJoin` and `Fleet`, shown to implement it; `Link`.
3. *(done)* Proofs of every safety and action property of the runs; the refinements of
   `FleetJoin`, `ConversationLane`, `JobLease` and `Delegation`, by TLC and by proof.
4. `RunStream` (frame buffer, listeners, replay by sequence number) against an
   abstract stream; `Said`, whose comment promises a turn for anything left unheard
   when a turn ends; the in-process queue's delivery bounds.
5. A composition of `Background` with `ConversationLane`, which `RunManager`
   implements, with the other turns of a conversation on the lane of the results;
   supervision of local processes.
