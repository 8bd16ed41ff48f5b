----------------------------- MODULE Delegation -----------------------------
(***************************************************************************)
(* What the person is promised of an agent that works in the background    *)
(* (the head comments of src/orchestrator/internal/app/background.go): the *)
(* work is in one place at a time, with the agent, with a card that waits  *)
(* for the person, or with the answer to it; it is settled once and stays  *)
(* settled; the person is told of its ending at most once, and of a        *)
(* cancelled agent only when the answer to its card finds that the agent   *)
(* is not there any more; and the work is left to nobody before that only  *)
(* by a card that ran out or with the process, whose successor starts it   *)
(* again, so many times, or gives it up.  Telling the person is a step of  *)
(* its own: a process that goes before it takes the news with it.          *)
(*                                                                         *)
(* Background implements it with a row, a goroutine for each leg, cards    *)
(* that queue behind one another, contexts, and a map of what runs.        *)
(***************************************************************************)
EXTENDS Naturals

CONSTANTS
  Agents,
  MaxStarts       \* how often the work may be started

VARIABLES
  row,            \* "none", "running", "done", "failed" or "cancelled"
  turn,           \* who has the work, see Places
  starts,         \* how often it was started
  told,           \* how often the person is told of its ending
  house,          \* the process: "up", "stopping", "down" or "booting"
  care            \* what a process that boots has still to look after

vars == <<row, turn, starts, told, house, care>>
Places == {"nobody", "agent", "card", "answer", "farewell"}
NoCare == [d \in Agents |-> "none"]

Init ==
  /\ row = [d \in Agents |-> "none"]
  /\ turn = [d \in Agents |-> "nobody"]
  /\ starts = [d \in Agents |-> 0]
  /\ told = [d \in Agents |-> 0]
  /\ house = "up" /\ care = NoCare

Serving == house \in {"up", "stopping"}

Send(d) ==
  /\ Serving
  /\ row[d] = "none" /\ row' = [row EXCEPT ![d] = "running"]
  /\ turn[d] = "nobody" /\ turn' = [turn EXCEPT ![d] = "agent"]
  /\ starts' = [starts EXCEPT ![d] = 1]
  /\ UNCHANGED <<told, house, care>>

\* Where the work goes from where it is: from the agent to a card, from the card to the
\* person's answer and back to the agent.  The agent lays it down when it was settled
\* meanwhile, a card runs out or is taken down, a process that is to go may drop it.
Over(d) == row[d] \in {"done", "failed", "cancelled"}
Way(d, from, to) ==
  \/ from = "agent" /\ house # "down" /\ (to = "card" \/ (to = "nobody" /\ Over(d)))
  \/ from = "card" /\ (to = "nobody" \/ (to = "answer" /\ Serving))
  \/ from = "answer" /\ to = "agent" /\ Serving
  \/ from \in {"agent", "answer"} /\ to = "nobody" /\ house = "stopping"

Pass(d) ==
  /\ UNCHANGED <<row, starts, told, house, care>>
  /\ LET from == turn[d] IN
     \E to \in Places : Way(d, from, to) /\ turn' = [turn EXCEPT ![d] = to]

\* The person answers every card at once.
AnswerAll(D) ==
  /\ UNCHANGED <<row, starts, told, house, care>>
  /\ Serving
  /\ D # {} /\ \A d \in D : turn[d] = "card"
  /\ turn' = [d \in Agents |-> IF d \in D THEN "answer" ELSE turn[d]]

\* The agent that has the work settles it, once.
Settle(d, ending) ==
  /\ house # "down"
  /\ row[d] = "running" /\ row' = [row EXCEPT ![d] = ending]
  /\ turn[d] = "agent" /\ turn' = [turn EXCEPT ![d] = "nobody"]
  /\ UNCHANGED <<starts, told, house, care>>

\* The person cancels it, wherever the work is.
Cancel(d) ==
  /\ Serving
  /\ row[d] = "running" /\ row' = [row EXCEPT ![d] = "cancelled"]
  /\ UNCHANGED <<turn, starts, told, house, care>>

\* The answer finds the agent gone: the work is given up, and the person is told even if
\* it was cancelled meanwhile.
AgentGone(d) ==
  /\ Serving
  /\ turn[d] = "answer" /\ turn' = [turn EXCEPT ![d] = "farewell"]
  /\ row' = IF row[d] = "running" THEN [row EXCEPT ![d] = "failed"] ELSE row
  /\ UNCHANGED <<starts, told, house, care>>

Once(d) == told[d] = 0 /\ told' = [told EXCEPT ![d] = 1]

Farewell(d) ==
  /\ turn[d] = "farewell" /\ turn' = [turn EXCEPT ![d] = "nobody"]
  /\ Over(d) /\ Once(d)
  /\ UNCHANGED <<row, starts, house, care>>

Tell(d) ==
  /\ row[d] \in {"done", "failed"} /\ Once(d)
  /\ UNCHANGED <<row, turn, starts, house, care>>

\* The process is asked to stop, goes with all that is not written down, and boots.
Stop == house = "up" /\ house' = "stopping" /\ UNCHANGED <<row, turn, starts, told, care>>

Die ==
  /\ house' = "down" /\ care' = NoCare
  /\ turn' = [d \in Agents |-> IF turn[d] = "card" THEN "card" ELSE "nobody"]
  /\ UNCHANGED <<row, starts, told>>

Boot ==
  /\ house = "down" /\ house' = "booting"
  /\ care' = [d \in Agents |-> IF row[d] = "running" THEN "found" ELSE "none"]
  /\ UNCHANGED <<row, turn, starts, told>>

\* Each running row it finds is counted against it, and starts again once its card is
\* taken down, ...
LookAfter(d, from, to) ==
  /\ house = "booting" /\ row[d] = "running"
  /\ care[d] \in from /\ care' = [care EXCEPT ![d] = to]
  /\ UNCHANGED <<told, house>>

Count(d) ==
  /\ LookAfter(d, {"found"}, "counted")
  /\ starts[d] < MaxStarts /\ starts' = [starts EXCEPT ![d] = @ + 1]
  /\ UNCHANGED <<row, turn>>

Restart(d) ==
  /\ LookAfter(d, {"counted"}, "none")
  /\ turn[d] = "nobody" /\ turn' = [turn EXCEPT ![d] = "agent"]
  /\ UNCHANGED <<row, starts>>

\* ... or given up.
GiveUp(d) ==
  /\ LookAfter(d, {"found", "counted"}, "none")
  /\ turn[d] \in {"nobody", "card"}
  /\ row' = [row EXCEPT ![d] = "failed"]
  /\ UNCHANGED <<turn, starts>>

Serve ==
  /\ house = "booting" /\ care = NoCare /\ house' = "up"
  /\ UNCHANGED <<row, turn, starts, told, care>>

Next ==
  \/ \E d \in Agents :
       \/ Send(d) \/ Cancel(d) \/ Tell(d) \/ AgentGone(d) \/ Farewell(d)
       \/ Count(d) \/ Restart(d) \/ GiveUp(d)
       \/ \E ending \in {"done", "failed", "cancelled"} : Settle(d, ending)
       \/ Pass(d)
  \/ \E D \in SUBSET Agents : AnswerAll(D)
  \/ Stop \/ Die \/ Boot \/ Serve

Spec == Init /\ [][Next]_vars
=============================================================================
