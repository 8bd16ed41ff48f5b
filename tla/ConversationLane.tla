-------------------------- MODULE ConversationLane --------------------------
(***************************************************************************)
(* What the lane of a conversation promises those who ask it for a turn    *)
(* (the head comments of src/orchestrator/internal/run/manager.go): one    *)
(* turn at a time, never beside a compaction; a turn nobody is waiting on  *)
(* is never refused but waits and is run later, once; a turn that was      *)
(* started speaks until it is over; and how it ended is recorded once, by  *)
(* itself or by the next process.                                          *)
(*                                                                         *)
(* RunManager implements it with two looks at a map, a row written in      *)
(* between, a queue drained by whoever passes, and goroutines that go on   *)
(* after the lane is free.                                                 *)
(***************************************************************************)

CONSTANTS
  Sessions, Turns, SessionOf,
  ServerTurns,    \* turns nobody waits for
  ResumeTurns     \* turns that carry the answer to a card

VARIABLES
  at,             \* where a turn stands, see Places
  held,           \* a compaction has the lane
  ending          \* what is recorded of how it ended, "open" until something is

vars == <<at, held, ending>>

Places == {"new", "asked", "waiting", "running", "spoken", "over", "refused", "lost"}
Endings == {"completed", "failed", "cancelled", "waiting_approval"}

Init ==
  /\ at = [t \in Turns |-> "new"]
  /\ held = [s \in Sessions |-> FALSE]
  /\ ending = [t \in Turns |-> "open"]

Goes(t, from, to) == at[t] = from /\ at' = [at EXCEPT ![t] = to]

\* Somebody asks and waits for the answer, or asks and goes away.
Ask(t) == t \notin ServerTurns /\ Goes(t, "new", "asked") /\ UNCHANGED <<held, ending>>
Leave(t) == t \in ServerTurns /\ Goes(t, "new", "waiting") /\ UNCHANGED <<held, ending>>

\* A turn that waits is tried, and goes on waiting if it cannot be run.
Try(t) == Goes(t, "waiting", "asked") /\ UNCHANGED <<held, ending>>
PutBack(t) == t \in ServerTurns /\ Goes(t, "asked", "waiting") /\ UNCHANGED <<held, ending>>

\* Only who waits for it is told no; an answer may be given again.
Refuse(t) ==
  /\ t \notin ServerTurns
  /\ Goes(t, "asked", IF t \in ResumeTurns THEN "new" ELSE "refused")
  /\ UNCHANGED <<held, ending>>

Running(s) == {t \in Turns : SessionOf[t] = s /\ at[t] = "running"}
Free(s) == ~held[s] /\ Running(s) = {}

Run(t) == Free(SessionOf[t]) /\ Goes(t, "asked", "running") /\ UNCHANGED <<held, ending>>

\* Its last word frees the lane; the record follows, or is lost to the store.
Speak(t) == Goes(t, "running", "spoken") /\ UNCHANGED <<held, ending>>
Record(t) ==
  /\ Goes(t, "spoken", "over")
  /\ ending[t] = "open"
  /\ \E e \in Endings \cup {"open"} : ending' = [ending EXCEPT ![t] = e]
  /\ UNCHANGED held

Hold(s) == Free(s) /\ held' = [held EXCEPT ![s] = TRUE] /\ UNCHANGED <<at, ending>>
Release(s) == held' = [held EXCEPT ![s] = FALSE] /\ UNCHANGED <<at, ending>>

\* A process that is to go forgets what waits ...
Drop ==
  /\ at' = [t \in Turns |-> IF at[t] = "waiting" THEN "lost" ELSE at[t]]
  /\ UNCHANGED <<held, ending>>

\* ... and one that died everything under way; the next records of each turn that
\* ran and has no ending that it was interrupted.
Crash ==
  /\ at' = [t \in Turns |-> IF at[t] \in {"new", "over", "refused"} THEN at[t] ELSE "lost"]
  /\ held' = [s \in Sessions |-> FALSE]
  /\ ending' \in [Turns -> Endings \cup {"open", "interrupted"}]
  /\ \A t \in Turns :
       \/ ending'[t] = ending[t] /\ (ending[t] = "open" => at[t] \notin {"running", "spoken", "over"})
       \/ /\ ending[t] = "open" /\ at[t] \in {"asked", "running", "spoken", "over"}
          /\ ending'[t] = "interrupted"

Next ==
  \/ \E t \in Turns : Ask(t) \/ Leave(t) \/ Try(t) \/ PutBack(t) \/ Refuse(t) \/ Run(t)
                      \/ Speak(t) \/ Record(t)
  \/ \E s \in Sessions : Hold(s) \/ Release(s)
  \/ Drop \/ Crash

Spec == Init /\ [][Next]_vars
=============================================================================
