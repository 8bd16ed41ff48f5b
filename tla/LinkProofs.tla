----------------------------- MODULE LinkProofs -----------------------------
(***************************************************************************)
(* Proofs about Link, for any number of calls, control sockets, streams    *)
(* and faults.                                                             *)
(*                                                                         *)
(* RunsAgainOnlyInTheGap follows the one request of a call that is not a  *)
(* resume: it is written once (OneAsking), it makes a place at most once   *)
(* (OneMade), and the tool is begun there only from empty.  Three facts    *)
(* carry this along: nothing was made or begun for a call that has sent    *)
(* nothing, nor while its request is still to be read, nor while the place *)
(* is empty.  A place a resume made is one its maker is about to give up   *)
(* (KnownIsKept), so who works there has come through the gap              *)
(* (PlaceIsFirst).                                                         *)
(*                                                                         *)
(* GoneCarriesNothing follows a control socket from its registration: what *)
(* is registered is up, what was asked for was asked on a socket that was  *)
(* registered once, and what is carried is carried by one whose streams    *)
(* are still to be closed.                                                 *)
(*                                                                         *)
(* HeldIsRegistered needs that sockets are dialled one after the other:    *)
(* none is younger than the one in use, so what is registered over it was  *)
(* added late.                                                             *)
(***************************************************************************)
EXTENDS Link, TLAPS

USE LinkAssumption

\* A stream is one of a call's askings ...
LEMMA StreamParts ==
  ASSUME NEW s \in Streams
  PROVE  CallOf(s) \in Calls /\ s = <<CallOf(s), s[2]>> /\ s[2] \in 1 .. MaxAsked
BY DEF Streams, CallOf

\* ... and what the call is asking for is one of them.
LEMMA NowTyped ==
  ASSUME TypeOK, NEW c \in Calls
  PROVE  Now(c) \in Streams /\ CallOf(Now(c)) = c
BY DEF TypeOK, Now, Streams, CallOf

\* Closing a set of streams leaves those outside of it, and revives none.
LEMMA ClosedTyped ==
  ASSUME TypeOK, NEW S
  PROVE  /\ Closed(S) \in [Streams -> {"none", "open", "dead", "closed"}]
         /\ \A s \in Streams : Closed(S)[s] \in {"open", "dead"} => Closed(S)[s] = sock[s] /\ s \notin S
BY DEF TypeOK, Closed, Live

\* callOnce's end keeps the types.
LEMMA EndsTyped ==
  ASSUME TypeOK, NEW c \in Calls, NEW how \in Outcomes, Ends(c, how)
  PROVE  /\ pc' \in [Calls -> {"idle", "look", "await", "write", "read", "decide", "away", "over"}]
         /\ err' \in [Calls -> Outcomes]
         /\ sock' \in [Streams -> {"none", "open", "dead", "closed"}]
BY ClosedTyped DEF TypeOK, Ends

\* A stream is counted against a control socket, or against none.
LEMMA CarrierTyped ==
  ASSUME TypeOK, NEW s \in Streams
  PROVE  Carrier(s) \in Links \cup {None}
BY DEF TypeOK, Carrier

\* A new asking resets the ones of which nothing is left to something typed.
LEMMA FreshTyped ==
  ASSUME NEW V, NEW f \in [Streams -> V], NEW s, NEW v \in V, NEW none \in V
  PROVE  Fresh(f, s, v, none) \in [Streams -> V]
BY DEF Fresh

\* Every step keeps the types.
LEMMA TypeStep ==
  ASSUME TypeOK, [Next]_vars
  PROVE  TypeOK'
<1> USE DEF gateVars, callVars, streamVars, placeVars, appVars, Outcomes, Errors,
     dialAttempts
<1>1. CASE AppDials
  BY <1>1 DEF TypeOK, AppDials
<1>2. CASE Cut
  BY <1>2 DEF TypeOK, Cut, Fault
<1>3. CASE Restart
  <2>1. sock' \in [Streams -> {"none", "open", "dead", "closed"}]
    BY <1>3 DEF TypeOK, Restart
  <2>2. task' \in [Streams -> {"none", "asked", "reading", "forget", "place", "running",
                               "result", "interrupted", "over"}]
    BY <1>3 DEF TypeOK, Restart
  <2>3. known' \in [Calls -> Places] /\ place' \in [Streams -> Places]
    BY <1>3 DEF TypeOK, Restart, Places
  <2>4. cell' \in [Calls -> [Places -> {"empty", "running", "done"}]]
    BY <1>3 DEF TypeOK, Restart
  <2>5. made' \in [Calls -> [Places -> {"none", "new", "resume"}]]
    BY <1>3 DEF TypeOK, Restart
  <2>6. QED
    BY <1>3, <2>1, <2>2, <2>3, <2>4, <2>5 DEF TypeOK, Restart, Fault
<1>4. ASSUME NEW i \in Links, Add(i) PROVE TypeOK'
  BY <1>4 DEF TypeOK, Add
<1>5. ASSUME NEW i \in Links, Unadded(i) PROVE TypeOK'
  BY <1>5 DEF TypeOK, Unadded
<1>6. ASSUME NEW i \in Links, Remove(i) PROVE TypeOK'
  BY <1>6 DEF TypeOK, Remove, Removed
<1>7. ASSUME NEW i \in Links, Abandon(i) PROVE TypeOK'
  BY <1>7, ClosedTyped DEF TypeOK, Abandon
<1>8. ASSUME NEW c \in Calls, Begin(c) PROVE TypeOK'
  BY <1>8 DEF TypeOK, Begin, Online
<1>9. ASSUME NEW c \in Calls, Look(c) PROVE TypeOK'
  <2>1. ASSUME NEW n \in 1 .. MaxAsked, Ask(c, n) PROVE TypeOK'
    <3>1.
          /\ pc' \in [Calls -> {"idle", "look", "await", "write", "read", "decide", "away", "over"}]
          /\ err' \in [Calls -> Outcomes] /\ cur' \in [Calls -> 1 .. MaxAsked]
      BY <2>1 DEF TypeOK, Ask
    <3>2. slot' \in [Streams -> {"none", "waiting", "conn", "gone", "full", "left"}]
      BY <2>1, FreshTyped DEF TypeOK, Ask
    <3>3. task' \in [Streams -> {"none", "asked", "reading", "forget", "place", "running",
                                "result", "interrupted", "over"}]
      BY <2>1, FreshTyped DEF TypeOK, Ask
    <3>4. /\ asked' \in [Streams -> Links \cup {None}]
          /\ carrier' \in [Streams -> Links \cup {None}]
      BY <2>1, FreshTyped DEF TypeOK, Ask
    <3>5. sock' \in [Streams -> {"none", "open", "dead", "closed"}]
      BY <2>1, FreshTyped DEF TypeOK, Ask
    <3>6. req' \in [Streams -> {"none", "new", "resume"}]
      BY <2>1, FreshTyped DEF TypeOK, Ask
    <3>7. ans' \in [Streams -> {"none", "result", "interrupted"}]
      BY <2>1, FreshTyped DEF TypeOK, Ask
    <3>8. place' \in [Streams -> Places]
      <4>1. 0 \in Places
        BY DEF Places
      <4>2. QED
        BY <2>1, <4>1, FreshTyped DEF TypeOK, Ask
    <3>9. QED
      BY <1>9, <2>1, <3>1, <3>2, <3>3, <3>4, <3>5, <3>6, <3>7, <3>8 DEF TypeOK, Look
  <2>2. CASE UNCHANGED <<cur, streamVars, task, place>>
        /\ err' = [err EXCEPT ![c] = "nomachine"]
             /\ pc' = [pc EXCEPT ![c] = "decide"]
    BY <1>9, <2>2 DEF TypeOK, Look
  <2>3. QED
    BY <1>9, <2>1, <2>2 DEF TypeOK, Look
<1>10. ASSUME NEW c \in Calls, Await(c) PROVE TypeOK'
  <2>1. CASE pc' = [pc EXCEPT ![c] = "write"] /\ UNCHANGED <<err, sock>>
    BY <1>10, <2>1 DEF TypeOK, Await
  <2>2. CASE Ends(c, "refused")
    <3>1. /\ pc' \in [Calls -> {"idle", "look", "await", "write", "read", "decide", "away",
                                   "over"}]
          /\ err' \in [Calls -> Outcomes]
          /\ sock' \in [Streams -> {"none", "open", "dead", "closed"}]
      BY <2>2, EndsTyped
    <3>2. QED
      BY <1>10, <3>1 DEF TypeOK, Await
  <2>3. QED
    BY <1>10, <2>1, <2>2 DEF Await
<1>11. ASSUME NEW c \in Calls, DialDeadline(c) PROVE TypeOK'
  BY <1>11, NowTyped DEF TypeOK, DialDeadline, Fault, Spent
<1>12. ASSUME NEW c \in Calls, Write(c) PROVE TypeOK'
  <2>1. Now(c) \in Streams
    BY NowTyped
  <2>2. req' \in [Streams -> {"none", "new", "resume"}]
    BY <1>12, <2>1 DEF TypeOK, Write, Kind
  <2>3. \/ pc' = [pc EXCEPT ![c] = "read"] /\ UNCHANGED <<err, sock>>
       \/ \E how \in Outcomes : Ends(c, how)
    BY <1>12 DEF Write
  <2>4. /\ pc' \in [Calls -> {"idle", "look", "await", "write", "read", "decide", "away",
                                 "over"}]
        /\ err' \in [Calls -> Outcomes]
        /\ sock' \in [Streams -> {"none", "open", "dead", "closed"}]
    <3>1. CASE pc' = [pc EXCEPT ![c] = "read"] /\ UNCHANGED <<err, sock>>
      BY <3>1 DEF TypeOK
    <3>2. CASE \E how \in Outcomes : Ends(c, how)
      BY <3>2, EndsTyped
    <3>3. QED
      BY <2>3, <3>1, <3>2
  <2>5. arrived' \in [Calls -> BOOLEAN]
    <3>1. arrived' = arrived \/ arrived' = [arrived EXCEPT ![c] = TRUE]
      BY <1>12 DEF Write, Arrived
    <3>2. arrived \in [Calls -> BOOLEAN]
      BY DEF TypeOK
    <3>3. QED
      BY <3>1, <3>2
  <2>6. QED
    BY <1>12, <2>1, <2>2, <2>3, <2>4, <2>5 DEF TypeOK, Write
<1>13. ASSUME NEW c \in Calls, Read(c) PROVE TypeOK'
  <2>1. Now(c) \in Streams
    BY NowTyped
  <2>2. \E how \in Outcomes : Ends(c, how)
    BY <1>13, <2>1 DEF TypeOK, Read
  <2>3. /\ pc' \in [Calls -> {"idle", "look", "await", "write", "read", "decide", "away",
                                 "over"}]
        /\ err' \in [Calls -> Outcomes]
        /\ sock' \in [Streams -> {"none", "open", "dead", "closed"}]
    BY <2>2, EndsTyped
  <2>4. QED
    BY <1>13, <2>1, <2>2, <2>3 DEF TypeOK, Read
<1>14. ASSUME NEW c \in Calls, Decide(c) PROVE TypeOK'
  <2>1. pc' \in [Calls -> {"idle", "look", "await", "write", "read", "decide", "away", "over"}]
    <3>1. \E p \in {"look", "away", "over"} : pc' = [pc EXCEPT ![c] = p]
      BY <1>14 DEF Decide, AskAgain
    <3>2. QED
      BY <3>1 DEF TypeOK
  <2>2. err' = err
    BY <1>14 DEF Decide, AskAgain
  <2>3. attempt' \in [Calls -> 1 .. dialAttempts]
    <3>1. attempt[c] \in 1 .. dialAttempts
          /\ (attempt[c] < dialAttempts => attempt[c] + 1 \in 1 .. dialAttempts)
      BY DEF TypeOK
    <3>2. (IF attempt[c] < dialAttempts THEN attempt[c] + 1 ELSE attempt[c]) \in 1 .. dialAttempts
      BY <3>1
    <3>3. \/ attempt' = attempt
          \/ attempt' = [attempt EXCEPT ![c] = IF attempt[c] < dialAttempts
                                               THEN attempt[c] + 1 ELSE attempt[c]]
      BY <1>14 DEF Decide, AskAgain
    <3>4. attempt' = attempt \/ \E k \in 1 .. dialAttempts : attempt' = [attempt EXCEPT ![c] = k]
      BY <3>2, <3>3
    <3>5. attempt \in [Calls -> 1 .. dialAttempts]
      BY DEF TypeOK
    <3>6. QED
      BY <3>4, <3>5
  <2>4. QED
    BY <1>14, <2>1, <2>2, <2>3 DEF TypeOK, Decide
<1>15. ASSUME NEW c \in Calls, Back(c) PROVE TypeOK'
  BY <1>15 DEF TypeOK, Back, AskAgain
<1>16. ASSUME NEW c \in Calls, GiveUp(c) PROVE TypeOK'
  BY <1>16 DEF TypeOK, GiveUp
<1>17. ASSUME NEW c \in Calls, Stopped(c) PROVE TypeOK'
  <2>1. Now(c) \in Streams
    BY NowTyped
  <2>2. slot' \in [Streams -> {"none", "waiting", "conn", "gone", "full", "left"}]
    BY <1>17, <2>1 DEF TypeOK, Stopped, Spent
  <2>3. \/ pc' = [pc EXCEPT ![c] = "decide"] /\ err' = [err EXCEPT ![c] = "stopped"]
           /\ UNCHANGED sock
        \/ \E how \in Outcomes : Ends(c, how)
    BY <1>17 DEF Stopped
  <2>4. /\ pc' \in [Calls -> {"idle", "look", "await", "write", "read", "decide", "away",
                                 "over"}]
        /\ err' \in [Calls -> Outcomes]
        /\ sock' \in [Streams -> {"none", "open", "dead", "closed"}]
    <3>1. CASE /\ pc' = [pc EXCEPT ![c] = "decide"] /\ err' = [err EXCEPT ![c] = "stopped"]
               /\ UNCHANGED sock
      BY <3>1 DEF TypeOK
    <3>2. CASE \E how \in Outcomes : Ends(c, how)
      BY <3>2, EndsTyped
    <3>3. QED
      BY <2>3, <3>1, <3>2
  <2>5. QED
    BY <1>17, <2>1, <2>2, <2>3, <2>4 DEF TypeOK, Stopped
<1>18. ASSUME NEW c \in Calls, Stop(c) PROVE TypeOK'
  BY <1>18 DEF TypeOK, Stop, Fault
<1>19. ASSUME NEW c \in Calls, ForgetOld(c) PROVE TypeOK'
  <2>1. known' \in [Calls -> Places]
    BY <1>19 DEF TypeOK, ForgetOld, Places
  <2>2. QED
    BY <1>19, <2>1 DEF TypeOK, ForgetOld, Fault
<1>20. ASSUME NEW s \in Streams, DialBack(s) PROVE TypeOK'
  <2>1. task' \in [Streams -> {"none", "asked", "reading", "forget", "place", "running",
                               "result", "interrupted", "over"}]
    <3>1. \E t \in {"over", "reading"} : task' = [task EXCEPT ![s] = t]
      BY <1>20 DEF DialBack
    <3>2. QED
      BY <3>1 DEF TypeOK
  <2>2. slot' \in [Streams -> {"none", "waiting", "conn", "gone", "full", "left"}]
    <3>1. slot' = slot \/ \E t \in {"conn", "gone", "full"} : slot' = [slot EXCEPT ![s] = t]
      BY <1>20 DEF DialBack
    <3>2. slot \in [Streams -> {"none", "waiting", "conn", "gone", "full", "left"}]
      BY DEF TypeOK
    <3>3. QED
      BY <3>1, <3>2
  <2>3. sock' \in [Streams -> {"none", "open", "dead", "closed"}]
    BY <1>20 DEF TypeOK, DialBack
  <2>4. carrier' \in [Streams -> Links \cup {None}]
    <3>1. carrier' = carrier \/ carrier' = [carrier EXCEPT ![s] = Carrier(s)]
      BY <1>20 DEF DialBack
    <3>2. Carrier(s) \in Links \cup {None} /\ carrier \in [Streams -> Links \cup {None}]
      BY CarrierTyped DEF TypeOK
    <3>3. QED
      BY <3>1, <3>2
  <2>5. QED
    BY <1>20, <2>1, <2>2, <2>3, <2>4 DEF TypeOK, DialBack
<1>21. ASSUME NEW s \in Streams, Unheard(s) PROVE TypeOK'
  BY <1>21 DEF TypeOK, Unheard
<1>22. ASSUME NEW s \in Streams, Slot(s) PROVE TypeOK'
  <2>1. task' \in [Streams -> {"none", "asked", "reading", "forget", "place", "running",
                               "result", "interrupted", "over"}]
    <3>1. \E t \in {"forget", "place"} : task' = [task EXCEPT ![s] = t]
      BY <1>22 DEF Slot
    <3>2. QED
      BY <3>1 DEF TypeOK
  <2>2. known' \in [Calls -> Places]
    <3>1. CASE known' = known
      BY <3>1 DEF TypeOK
    <3>2. ASSUME NEW q \in Places, known' = [known EXCEPT ![CallOf(s)] = q]
          PROVE  known' \in [Calls -> Places]
      BY <3>2 DEF TypeOK
    <3>3. QED
      BY <1>22, <3>1, <3>2 DEF Slot
  <2>3. place' \in [Streams -> Places]
    <3>1. known[CallOf(s)] \in Places
      BY StreamParts DEF TypeOK
    <3>2. \E p \in Places : place' = [place EXCEPT ![s] = p]
      BY <1>22, <3>1 DEF Slot
    <3>3. QED
      BY <3>2 DEF TypeOK
  <2>4. cell' \in [Calls -> [Places -> {"empty", "running", "done"}]]
    <3> DEFINE c == CallOf(s)
    <3>1. \/ cell' = cell
          \/ cell' = [cell EXCEPT ![c] = [q \in Places |-> IF InUse(c, q) THEN @[q] ELSE "empty"]]
      BY <1>22 DEF Slot
    <3>2. cell \in [Calls -> [Places -> {"empty", "running", "done"}]]
      BY DEF TypeOK
    <3>3. QED
      BY <3>1, <3>2, StreamParts
  <2>5. made' \in [Calls -> [Places -> {"none", "new", "resume"}]]
    <3> DEFINE c == CallOf(s)
    <3>1. \/ made' = made
          \/ \E p \in Places : made' = [made EXCEPT ![c] =
               [q \in Places |-> IF q = p THEN req[s] ELSE IF InUse(c, q) THEN @[q] ELSE "none"]]
      BY <1>22 DEF Slot
    <3>2. made \in [Calls -> [Places -> {"none", "new", "resume"}]]
      BY DEF TypeOK
    <3>3. req[s] \in {"new", "resume"}
      BY <1>22 DEF TypeOK, Slot
    <3>4. QED
      BY <3>1, <3>2, <3>3, StreamParts
  <2>6. slip' \in [Calls -> BOOLEAN]
    <3>1. \/ slip' = slip
          \/ slip' = [slip EXCEPT ![CallOf(s)] = @ \/ Forgetting(CallOf(s))]
      BY <1>22 DEF Slot
    <3>2. slip \in [Calls -> BOOLEAN]
      BY DEF TypeOK
    <3>3. (slip[CallOf(s)] \/ Forgetting(CallOf(s))) \in BOOLEAN
      OBVIOUS
    <3>4. QED
      BY <3>1, <3>2, <3>3
  <2>7. QED
    BY <1>22, <2>1, <2>2, <2>3, <2>4, <2>5, <2>6 DEF TypeOK, Slot
<1>23. ASSUME NEW s \in Streams, Unread(s) PROVE TypeOK'
  BY <1>23 DEF TypeOK, Unread
<1>24. ASSUME NEW s \in Streams, Forget(s) PROVE TypeOK'
  <2>1. known' \in [Calls -> Places]
    BY <1>24, StreamParts DEF TypeOK, Forget, Places
  <2>2. QED
    BY <1>24, <2>1 DEF TypeOK, Forget
<1>25. ASSUME NEW s \in Streams, Work(s) PROVE TypeOK'
  <2>1. begun' \in [Calls -> 0 .. 2]
    <3>1. begun \in [Calls -> 0 .. 2] /\ CallOf(s) \in Calls
      BY StreamParts DEF TypeOK
    <3>2. begun' = [begun EXCEPT ![CallOf(s)] = IF @ < 2 THEN @ + 1 ELSE @]
      BY <1>25 DEF Work
    <3>3. (IF begun[CallOf(s)] < 2 THEN begun[CallOf(s)] + 1 ELSE begun[CallOf(s)]) \in 0 .. 2
      BY <3>1
    <3>4. QED
      BY <3>1, <3>2, <3>3
  <2>2. QED
    BY <1>25, <2>1, StreamParts DEF TypeOK, Work, InCell
<1>26. ASSUME NEW s \in Streams, Finish(s) PROVE TypeOK'
  BY <1>26, StreamParts DEF TypeOK, Finish, InCell
<1>27. ASSUME NEW s \in Streams, Collect(s) PROVE TypeOK'
  BY <1>27 DEF TypeOK, Collect
<1>28. ASSUME NEW s \in Streams, Send(s) PROVE TypeOK'
  BY <1>28 DEF TypeOK, Send
<1>29. ASSUME NEW s \in Streams, StreamDies(s) PROVE TypeOK'
  BY <1>29 DEF TypeOK, StreamDies, Fault
<1>30. CASE UNCHANGED vars
  BY <1>30 DEF TypeOK, vars, gateVars, callVars, streamVars, placeVars, appVars
<1>31. QED
  BY <1>1, <1>2, <1>3, <1>4, <1>5, <1>6, <1>7, <1>8, <1>9, <1>10, <1>11, <1>12, <1>13,
     <1>14, <1>15, <1>16, <1>17, <1>18, <1>19, <1>20, <1>21, <1>22, <1>23, <1>24, <1>25,
     <1>26, <1>27, <1>28, <1>29, <1>30
  DEF Next, GateLink, CallStep, AppStep

-----------------------------------------------------------------------------
(* Control sockets and what they carry *)

\* What is registered, was asked on or carries a stream: ServeControl adds a socket
\* before it is asked on, and closes what it carries after it left the registry.
Registered == machine # None => link[machine] = "up"

AskedIsRegistered ==
  \A s \in Streams :
    task[s] = "asked" => asked[s] \in Links /\ link[asked[s]] \in {"up", "ending", "gone"}

CarriedIsServed ==
  \A s \in Streams : Live(s) => carrier[s] \in Links /\ link[carrier[s]] \in {"up", "ending"}

CarrierFacts == Registered /\ AskedIsRegistered /\ CarriedIsServed

\* Every step keeps the three.
LEMMA CarrierStep ==
  ASSUME TypeOK, CarrierFacts, [Next]_vars
  PROVE  CarrierFacts'
<1> USE DEF TypeOK, CarrierFacts, Registered, AskedIsRegistered, CarriedIsServed, Live,
     gateVars, callVars, streamVars, appVars
<1>1. CASE AppDials
  BY <1>1 DEF AppDials
<1>2. CASE Cut
  BY <1>2 DEF Cut
<1>3. CASE Restart
  BY <1>3 DEF Restart
<1>4. ASSUME NEW i \in Links, Add(i) PROVE CarrierFacts'
  BY <1>4 DEF Add
<1>5. ASSUME NEW i \in Links, Unadded(i) PROVE CarrierFacts'
  BY <1>5 DEF Unadded
<1>6. ASSUME NEW i \in Links, Remove(i) PROVE CarrierFacts'
  BY <1>6 DEF Remove, Removed
<1>7. ASSUME NEW i \in Links, Abandon(i) PROVE CarrierFacts'
  BY <1>7 DEF Abandon, Abandoned, Carrying, Closed
<1>8. ASSUME NEW c \in Calls, Begin(c) PROVE CarrierFacts'
  BY <1>8 DEF Begin
<1>9. ASSUME NEW c \in Calls, Look(c) PROVE CarrierFacts'
  <2>1. UNCHANGED <<machine, link>>
    BY <1>9 DEF Look
  <2>2. ASSUME NEW n \in 1 .. MaxAsked, Ask(c, n), NEW s \in Streams, task'[s] = "asked"
        PROVE  asked'[s] \in Links /\ link[asked'[s]] \in {"up", "ending", "gone"}
    <3>1. CASE s = <<c, n>>
      BY <2>2, <3>1 DEF Ask, Fresh, Online
    <3>2. CASE s # <<c, n>>
      BY <2>2, <3>2 DEF Ask, Fresh, Unused
    <3>3. QED
      BY <3>1, <3>2
  <2>3. ASSUME NEW n \in 1 .. MaxAsked, Ask(c, n), NEW s \in Streams, sock'[s] \in {"open", "dead"}
        PROVE  sock[s] = sock'[s] /\ carrier'[s] = carrier[s]
    BY <2>3 DEF Ask, Fresh, Unused
  <2>4. ASSUME NEW n \in 1 .. MaxAsked, Ask(c, n) PROVE CarrierFacts'
    <3>1. AskedIsRegistered' /\ Registered'
      BY <2>1, <2>2, <2>4
    <3>2. CarriedIsServed'
      BY <2>1, <2>3, <2>4
    <3>3. QED
      BY <3>1, <3>2
  <2>5. QED
    BY <1>9, <2>4 DEF Look
<1>10. ASSUME NEW c \in Calls, Await(c) PROVE CarrierFacts'
  BY <1>10 DEF Await, Ends, Closed
<1>11. ASSUME NEW c \in Calls, DialDeadline(c) PROVE CarrierFacts'
  BY <1>11 DEF DialDeadline
<1>12. ASSUME NEW c \in Calls, Write(c) PROVE CarrierFacts'
  BY <1>12 DEF Write, Ends, Closed
<1>13. ASSUME NEW c \in Calls, Read(c) PROVE CarrierFacts'
  BY <1>13 DEF Read, Ends, Closed
<1>14. ASSUME NEW c \in Calls, Decide(c) PROVE CarrierFacts'
  BY <1>14 DEF Decide
<1>15. ASSUME NEW c \in Calls, Back(c) PROVE CarrierFacts'
  BY <1>15 DEF Back
<1>16. ASSUME NEW c \in Calls, GiveUp(c) PROVE CarrierFacts'
  BY <1>16 DEF GiveUp
<1>17. ASSUME NEW c \in Calls, Stopped(c) PROVE CarrierFacts'
  BY <1>17 DEF Stopped, Ends, Closed
<1>18. ASSUME NEW c \in Calls, Stop(c) PROVE CarrierFacts'
  BY <1>18 DEF Stop
<1>19. ASSUME NEW c \in Calls, ForgetOld(c) PROVE CarrierFacts'
  BY <1>19 DEF ForgetOld
<1>20. ASSUME NEW s \in Streams, DialBack(s) PROVE CarrierFacts'
  <2>1. UNCHANGED <<machine, link, asked>> /\ task[s] = "asked"
    BY <1>20 DEF DialBack
  <2>2. Carrier(s) # None => Carrier(s) \in Links /\ link[Carrier(s)] \in {"up", "ending"}
    BY <2>1 DEF Carrier
  <2>3. AskedIsRegistered'
    <3>1. \A t \in Streams : task'[t] = "asked" => task[t] = "asked"
      BY <1>20 DEF DialBack
    <3>2. QED
      BY <2>1, <3>1
  <2>4. CarriedIsServed'
    <3>1. \/ UNCHANGED <<sock, carrier>>
          \/ /\ sock' = [sock EXCEPT ![s] = "open"] /\ carrier' = [carrier EXCEPT ![s] = Carrier(s)]
             /\ Carrier(s) # None
      BY <1>20 DEF DialBack
    <3>2. QED
      BY <2>1, <2>2, <3>1
  <2>5. QED
    BY <2>1, <2>3, <2>4
<1>21. ASSUME NEW s \in Streams, Unheard(s) PROVE CarrierFacts'
  BY <1>21 DEF Unheard
<1>22. ASSUME NEW s \in Streams, Slot(s) PROVE CarrierFacts'
  BY <1>22 DEF Slot
<1>23. ASSUME NEW s \in Streams, Unread(s) PROVE CarrierFacts'
  BY <1>23 DEF Unread
<1>24. ASSUME NEW s \in Streams, Forget(s) PROVE CarrierFacts'
  BY <1>24 DEF Forget
<1>25. ASSUME NEW s \in Streams, Work(s) PROVE CarrierFacts'
  BY <1>25 DEF Work
<1>26. ASSUME NEW s \in Streams, Finish(s) PROVE CarrierFacts'
  BY <1>26 DEF Finish
<1>27. ASSUME NEW s \in Streams, Collect(s) PROVE CarrierFacts'
  BY <1>27 DEF Collect
<1>28. ASSUME NEW s \in Streams, Send(s) PROVE CarrierFacts'
  BY <1>28 DEF Send
<1>29. ASSUME NEW s \in Streams, StreamDies(s) PROVE CarrierFacts'
  BY <1>29 DEF StreamDies
<1>30. CASE UNCHANGED vars
  BY <1>30 DEF vars, gateVars, callVars, streamVars, placeVars, appVars
<1>31. QED
  BY <1>1, <1>2, <1>3, <1>4, <1>5, <1>6, <1>7, <1>8, <1>9, <1>10, <1>11, <1>12, <1>13,
     <1>14, <1>15, <1>16, <1>17, <1>18, <1>19, <1>20, <1>21, <1>22, <1>23, <1>24, <1>25,
     <1>26, <1>27, <1>28, <1>29, <1>30
  DEF Next, GateLink, CallStep, AppStep

-----------------------------------------------------------------------------
(* The socket in use *)

\* Sockets are dialled in order, so none is younger than the one in use.
DialledInOrder == \A i, j \in Links : j < i /\ link[i] # "none" => link[j] # "none"
HeldIsYoungest == held # None => \A i \in Links : link[i] # "none" => i <= held

HeldFacts == DialledInOrder /\ HeldIsYoungest /\ HeldIsRegistered

\* Every step keeps them: an older socket takes the entry only when it is added late, and
\* its end leaves the entry of another alone.
LEMMA HeldStep ==
  ASSUME TypeOK, HeldFacts, [Next]_vars
  PROVE  HeldFacts'
<1> USE DEF TypeOK, HeldFacts, DialledInOrder, HeldIsYoungest, HeldIsRegistered, gateVars, appVars, Links, None
<1>1. CASE UNCHANGED <<gateVars, held>>
  BY <1>1
<1>2. CASE AppDials
  <2>1. PICK i \in Links : /\ link[i] = "none" /\ \A j \in Links : j < i => link[j] # "none"
                           /\ held' = i /\ link' = [link EXCEPT ![i] = "hello"]
    BY <1>2 DEF AppDials
  <2>2. held = None
    BY <1>2 DEF AppDials
  <2>3. \A j \in Links : link[j] # "none" => j < i
    BY <2>1
  <2>4. DialledInOrder' /\ HeldIsYoungest'
    BY <2>1, <2>3
  <2>5. QED
    BY <1>2, <2>1, <2>4 DEF AppDials
<1>3. CASE Cut \/ Restart
  BY <1>3 DEF Cut, Restart
<1>4. ASSUME NEW i \in Links, Add(i) PROVE HeldFacts'
  <2>1. DialledInOrder' /\ HeldIsYoungest'
    BY <1>4 DEF Add
  <2>2. ASSUME held # None, held # i, link[held] = "up" PROVE late'
    <3>1. late' = (late \/ machine > i) /\ link[i] = "hello"
      BY <1>4 DEF Add
    <3>2. machine = held => machine > i
      BY <2>2, <3>1
    <3>3. machine = held \/ late
      BY <2>2
    <3>4. QED
      BY <3>1, <3>2, <3>3
  <2>3. HeldIsRegistered'
    BY <1>4, <2>2 DEF Add
  <2>4. QED
    BY <2>1, <2>3
<1>5. ASSUME NEW i \in Links, Unadded(i) PROVE HeldFacts'
  BY <1>5 DEF Unadded
<1>6. ASSUME NEW i \in Links, Remove(i) PROVE HeldFacts'
  BY <1>6 DEF Remove, Removed
<1>7. ASSUME NEW i \in Links, Abandon(i) PROVE HeldFacts'
  BY <1>7 DEF Abandon
<1>8. QED
  BY <1>1, <1>2, <1>3, <1>4, <1>5, <1>6, <1>7
  DEF Next, GateLink, CallStep, AppStep, vars, Begin, Look, Await, DialDeadline, Write, Read,
      Decide, Back, GiveUp, Stopped, Stop, ForgetOld, DialBack, Unheard, Slot, Unread, Forget,
      Work, Finish, Collect, Send, StreamDies

-----------------------------------------------------------------------------
(* A tool is begun once, and again only in the gap *)

\* The one request of a call that is no resume.
OneAsking ==
  \A s, t \in Streams : CallOf(s) = CallOf(t) /\ req[s] = "new" /\ req[t] = "new" => s = t

\* Such a request was written: callOnce knows, or it failed in the middle and the
\* call is over.
Sent(c) == arrived[c] \/ (err[c] = "unsent" /\ pc[c] \in {"decide", "over"})
NoneMade(c) == \A p \in Places : made[c][p] # "new"
NotBegun(c) == begun[c] = 0 \/ slip[c]

\* Nothing is made or begun before it is written, or before it is read.
UnsentIsNothing ==
  \A c \in Calls : ~Sent(c) => /\ NotBegun(c) /\ NoneMade(c)
                               /\ \A s \in Streams : CallOf(s) = c => req[s] # "new"

UnreadIsNothing ==
  \A s \in Streams : req[s] = "new" /\ task[s] \in {"asked", "reading"} =>
    NotBegun(CallOf(s)) /\ NoneMade(CallOf(s))

\* It makes one place, where the tool begins from empty.
OneMade ==
  \A c \in Calls : \A p, q \in Places : made[c][p] = "new" /\ made[c][q] = "new" => p = q

EmptyIsNotBegun ==
  \A c \in Calls : \A p \in Places : made[c][p] = "new" /\ cell[c][p] = "empty" => NotBegun(c)

\* What is known of a call was made by its first asking, or is about to be given up ...
KnownIsKept ==
  \A c \in Calls : known[c] # 0 => made[c][known[c]] = "new" \/ Forgetting(c)

\* ... so who is at another place has found it in the gap.
PlaceIsFirst ==
  \A s \in Streams : task[s] = "place" =>
    made[CallOf(s)][place[s]] = "new" \/ slip[CallOf(s)]

GapFacts == KnownIsKept /\ PlaceIsFirst

OnceFacts ==
  /\ RunsAgainOnlyInTheGap /\ OneAsking
  /\ UnsentIsNothing /\ UnreadIsNothing /\ OneMade /\ EmptyIsNotBegun

\* A step that makes no place and knows no more than before keeps them.
LEMMA NoPlaceMade ==
  ASSUME TypeOK, GapFacts, UNCHANGED <<made, place, slip>>,
         \A c \in Calls : known'[c] \in {0, known[c]},
         \A s \in Streams : /\ task'[s] = "place" => task[s] = "place"
                            /\ task[s] = "forget" => task'[s] = "forget"
  PROVE  GapFacts'
<1>1. \A c \in Calls : Forgetting(c) => Forgetting(c)'
  BY DEF Forgetting
<1>2. KnownIsKept'
  BY <1>1 DEF GapFacts, KnownIsKept
<1>3. PlaceIsFirst'
  BY DEF GapFacts, PlaceIsFirst
<1>4. QED
  BY <1>2, <1>3 DEF GapFacts

\* Every step keeps them; calls::slot and calls::forget are the ones to look at.
LEMMA GapStep ==
  ASSUME TypeOK, GapFacts, [Next]_vars
  PROVE  GapFacts'
<1> USE DEF gateVars, callVars, streamVars, placeVars, appVars
<1>1. CASE UNCHANGED <<task, made, place, slip, known>>
  BY <1>1 DEF GapFacts, KnownIsKept, PlaceIsFirst, Forgetting
<1>2. CASE Restart
  BY <1>2 DEF Restart, GapFacts, KnownIsKept, PlaceIsFirst
<1>3. ASSUME NEW c \in Calls, Look(c) PROVE GapFacts'
  <2>1. ASSUME NEW n \in 1 .. MaxAsked, Ask(c, n) PROVE GapFacts'
    <3>1. UNCHANGED <<made, slip, known>>
      BY <1>3 DEF Look
    <3>2. /\ \A s \in Streams : task[s] \in {"forget", "place"}
                                 => task'[s] = task[s] /\ place'[s] = place[s]
          /\ \A s \in Streams : task'[s] \in {"forget", "place"} => task'[s] = task[s]
      BY <2>1 DEF Ask, Fresh, Unused, TypeOK
    <3>3. \A d \in Calls : Forgetting(d)' <=> Forgetting(d)
      BY <3>2 DEF Forgetting
    <3>4. QED
      BY <3>1, <3>2, <3>3 DEF GapFacts, KnownIsKept, PlaceIsFirst
  <2>2. QED
    BY <1>1, <1>3, <2>1 DEF Look
<1>4. ASSUME NEW c \in Calls, ForgetOld(c) PROVE GapFacts'
  BY <1>4, NoPlaceMade DEF ForgetOld, TypeOK
<1>5. ASSUME NEW s \in Streams,
             \/ DialBack(s) \/ Unheard(s) \/ Unread(s) \/ Work(s) \/ Finish(s)
             \/ Collect(s) \/ Send(s)
      PROVE  GapFacts'
  <2>1. UNCHANGED <<made, place, slip, known>>
    BY <1>5 DEF DialBack, Unheard, Unread, Work, Finish, Collect, Send
  <2>2. /\ task' = [task EXCEPT ![s] = task'[s]] /\ task[s] # "forget"
        /\ task'[s] \notin {"place", "forget"}
    BY <1>5 DEF TypeOK, DialBack, Unheard, Unread, Work, Finish, Collect, Send
  <2>3. QED
    BY <2>1, <2>2, NoPlaceMade DEF TypeOK
<1>6. ASSUME NEW s \in Streams, Slot(s) PROVE GapFacts'
  <2> DEFINE c == CallOf(s)
  <2>1. c \in Calls /\ req[s] \in {"new", "resume"} /\ task[s] = "reading"
    BY <1>6, StreamParts DEF Slot, TypeOK
  <2>2. /\ \A t \in Streams : t # s => task'[t] = task[t] /\ place'[t] = place[t]
        /\ task'[s] \in {"forget", "place"}
    BY <1>6 DEF TypeOK, Slot
  <2>3. \A d \in Calls : Forgetting(d) => Forgetting(d)'
    BY <2>1, <2>2 DEF Forgetting
  <2>4. CASE known[c] # 0
    <3>1. /\ UNCHANGED <<made, known>> /\ task'[s] = "place" /\ place'[s] = known[c]
          /\ slip' = [slip EXCEPT ![c] = @ \/ Forgetting(c)]
      BY <1>6, <2>4 DEF TypeOK, Slot
    <3>2. /\ \A d \in Calls : slip[d] => slip'[d]
          /\ Forgetting(c) => slip'[c]
      <4>1. slip \in [Calls -> BOOLEAN]
        BY DEF TypeOK
      <4>2. /\ slip'[c] = (slip[c] \/ Forgetting(c))
            /\ \A d \in Calls : d # c => slip'[d] = slip[d]
        BY <2>1, <3>1, <4>1
      <4>3. QED
        BY <4>2
    <3>3. KnownIsKept'
      BY <2>3, <3>1 DEF GapFacts, KnownIsKept
    <3>4. made[c][known[c]] = "new" \/ slip'[c]
      BY <2>1, <2>4, <3>2 DEF GapFacts, KnownIsKept
    <3>5. PlaceIsFirst'
      BY <2>2, <3>1, <3>2, <3>4, StreamParts DEF GapFacts, PlaceIsFirst
    <3>6. QED
      BY <3>3, <3>5 DEF GapFacts
  <2>5. CASE known[c] = 0
    <3>1. PICK p \in Places \ {0} :
            /\ ~InUse(c, p)
            /\ known' = [known EXCEPT ![c] = p] /\ place' = [place EXCEPT ![s] = p]
            /\ made' = [made EXCEPT ![c] = [q \in Places |-> IF q = p THEN req[s]
                                                      ELSE IF InUse(c, q) THEN @[q] ELSE "none"]]
      BY <1>6, <2>5 DEF Slot
    <3>2. /\ UNCHANGED slip
          /\ task' = [task EXCEPT ![s] = IF req[s] = "resume" THEN "forget" ELSE "place"]
      BY <1>6, <2>5 DEF Slot
    <3>3. /\ made'[c][p] = req[s] /\ known'[c] = p /\ place'[s] = p
          /\ \A d \in Calls : d # c => made'[d] = made[d] /\ known'[d] = known[d]
          /\ \A q \in Places : InUse(c, q) => made'[c][q] = made[c][q]
      BY <2>1, <3>1 DEF TypeOK
    <3>4. req[s] = "resume" => Forgetting(c)'
      BY <3>2 DEF Forgetting, TypeOK
    <3>5. KnownIsKept'
      BY <2>1, <2>3, <3>3, <3>4 DEF GapFacts, KnownIsKept
    <3>6. ASSUME NEW t \in Streams, task'[t] = "place"
          PROVE  made'[CallOf(t)][place'[t]] = "new" \/ slip'[CallOf(t)]
      <4>1. CASE t = s
        BY <2>1, <3>2, <3>3, <3>6, <4>1 DEF TypeOK
      <4>2. CASE t # s
        <5>1. task[t] = "place" /\ place'[t] = place[t] /\ place[t] \in Places
          BY <2>2, <3>6, <4>2 DEF TypeOK
        <5>2. CallOf(t) = c => InUse(c, place[t])
          BY <5>1 DEF InUse
        <5>3. made'[CallOf(t)][place[t]] = made[CallOf(t)][place[t]]
          BY <3>3, <5>1, <5>2, StreamParts
        <5>4. QED
          BY <3>2, <5>1, <5>3 DEF GapFacts, PlaceIsFirst
      <4>3. QED
        BY <4>1, <4>2
    <3>7. QED
      BY <3>5, <3>6 DEF GapFacts, PlaceIsFirst
  <2>6. QED
    BY <2>4, <2>5
<1>7. ASSUME NEW s \in Streams, Forget(s) PROVE GapFacts'
  <2> DEFINE c == CallOf(s)
  <2>1. /\ UNCHANGED <<made, place, slip>> /\ c \in Calls
        /\ known' = [known EXCEPT ![c] = 0]
        /\ task' = [task EXCEPT ![s] = "interrupted"]
    BY <1>7, StreamParts DEF Forget
  <2>2. \A d \in Calls : d # c => (Forgetting(d) => Forgetting(d)')
    BY <2>1 DEF Forgetting, TypeOK
  <2>3. KnownIsKept'
    BY <2>1, <2>2 DEF GapFacts, KnownIsKept, TypeOK
  <2>4. PlaceIsFirst'
    BY <2>1 DEF GapFacts, PlaceIsFirst, TypeOK
  <2>5. QED
    BY <2>3, <2>4 DEF GapFacts
<1>8. QED
  BY <1>1, <1>2, <1>3, <1>4, <1>5, <1>6, <1>7
  DEF Next, GateLink, CallStep, AppStep, vars, AppDials, Cut, Add, Unadded, Remove, Abandon,
     Begin,
      Await, DialDeadline, Write, Read, Decide, Back, GiveUp, Stopped, Stop, StreamDies

\* A step that makes nothing, writes no new request and takes none back keeps it all.
LEMMA NothingNew ==
  ASSUME OnceFacts, UNCHANGED <<begun, made, cell>>, \A c \in Calls : slip[c] => slip'[c],
         \A c \in Calls : Sent(c) => Sent(c)',
         \A s \in Streams :
           req'[s] = "new" => /\ req[s] = "new"
                              /\ task'[s] \in {"asked", "reading"} => task[s] \in {"asked", "reading"}
  PROVE  OnceFacts'
<1>1. \A c \in Calls : /\ NotBegun(c) => NotBegun(c)'
                      /\ NoneMade(c)' = NoneMade(c)
  BY DEF NotBegun, NoneMade
<1>2. UnsentIsNothing'
  BY <1>1 DEF OnceFacts, UnsentIsNothing
<1>3. UnreadIsNothing'
  BY <1>1, StreamParts DEF OnceFacts, UnreadIsNothing
<1>4. RunsAgainOnlyInTheGap' /\ EmptyIsNotBegun'
  BY <1>1 DEF OnceFacts, RunsAgainOnlyInTheGap, EmptyIsNotBegun
<1>5. QED
  BY <1>2, <1>3, <1>4 DEF OnceFacts, OneAsking, OneMade

\* Every step keeps it; Write, calls::slot and the work itself are the ones to look at.
LEMMA OnceStep ==
  ASSUME TypeOK, OnceFacts, GapFacts, [Next]_vars
  PROVE  OnceFacts'
<1> USE DEF gateVars, callVars, streamVars, placeVars, appVars
<1>0. /\ RunsAgainOnlyInTheGap /\ OneAsking
      /\ UnsentIsNothing /\ UnreadIsNothing /\ OneMade /\ EmptyIsNotBegun
  BY DEF OnceFacts
<1>1. CASE AppDials
  BY <1>1, NothingNew DEF AppDials, Sent
<1>2. CASE Cut
  BY <1>2, NothingNew DEF Cut, Sent
<1>3. CASE Restart
  <2>1. \A d \in Calls : Sent(d)' = Sent(d) /\ NoneMade(d)'
    BY <1>3 DEF Restart, Sent, NoneMade
  <2>2. \A s \in Streams : task'[s] \notin {"asked", "reading"}
    BY <1>3 DEF Restart
  <2>3. UNCHANGED <<req, begun, slip>>
    BY <1>3 DEF Restart
  <2>4. QED
    BY <1>0, <2>1, <2>2, <2>3 DEF OnceFacts, RunsAgainOnlyInTheGap, OneAsking, UnsentIsNothing,
         UnreadIsNothing, OneMade,
       EmptyIsNotBegun, NoneMade, NotBegun
<1>4. ASSUME NEW i \in Links, Add(i) PROVE OnceFacts'
  BY <1>4, NothingNew DEF Add, Sent
<1>5. ASSUME NEW i \in Links, Unadded(i) PROVE OnceFacts'
  BY <1>5, NothingNew DEF Unadded, Sent
<1>6. ASSUME NEW i \in Links, Remove(i) PROVE OnceFacts'
  BY <1>6, NothingNew DEF Remove, Sent
<1>7. ASSUME NEW i \in Links, Abandon(i) PROVE OnceFacts'
  BY <1>7, NothingNew DEF Abandon, Sent
<1>8. ASSUME NEW c \in Calls, Begin(c) PROVE OnceFacts'
  <2>1. \A d \in Calls : Sent(d) => Sent(d)'
    BY <1>8 DEF TypeOK, Begin, Sent
  <2>2. UNCHANGED <<begun, slip, made, cell, req, task>>
    BY <1>8 DEF Begin
  <2>3. QED
    BY <2>1, <2>2, NothingNew
<1>9. ASSUME NEW c \in Calls, Look(c) PROVE OnceFacts'
  <2>1. \A s \in Streams : req'[s] = "new" => req[s] = "new" /\ task'[s] = task[s]
    <3>1. ASSUME NEW n \in 1 .. MaxAsked, Ask(c, n), NEW s \in Streams, req'[s] = "new"
          PROVE  req[s] = "new" /\ task'[s] = task[s]
      BY <3>1 DEF Ask, Fresh
    <3>2. QED
      BY <1>9, <3>1 DEF Look
  <2>2. \A d \in Calls : Sent(d) => Sent(d)'
    <3>1. UNCHANGED arrived /\ pc[c] = "look"
        /\ \A d \in Calls : d # c => pc'[d] = pc[d] /\ err'[d] = err[d]
    <4>1. \E p, e : pc' = [pc EXCEPT ![c] = p] /\ err' = [err EXCEPT ![c] = e]
      BY <1>9 DEF Look, Ask
    <4>2. QED
      BY <1>9, <4>1 DEF TypeOK, Look
  <3>2. QED
    BY <3>1 DEF Sent
  <2>3. UNCHANGED <<begun, slip, made, cell>>
    BY <1>9 DEF Look
  <2>4. QED
    BY <2>1, <2>2, <2>3, NothingNew
<1>10. ASSUME NEW c \in Calls, Await(c) PROVE OnceFacts'
  <2>1. \A d \in Calls : Sent(d) => Sent(d)'
    BY <1>10 DEF TypeOK, Await, Sent, Ends
  <2>2. UNCHANGED <<begun, slip, made, cell, req, task>>
    BY <1>10 DEF Await
  <2>3. QED
    BY <2>1, <2>2, NothingNew
<1>11. ASSUME NEW c \in Calls, DialDeadline(c) PROVE OnceFacts'
  <2>1. \A d \in Calls : Sent(d) => Sent(d)'
    BY <1>11 DEF TypeOK, DialDeadline, Sent
  <2>2. UNCHANGED <<begun, slip, made, cell, req, task>>
    BY <1>11 DEF DialDeadline
  <2>3. QED
    BY <2>1, <2>2, NothingNew
<1>12. ASSUME NEW c \in Calls, Write(c) PROVE OnceFacts'
  <2>1. UNCHANGED <<begun, slip, made, cell, task>>
    BY <1>12 DEF Write
  <2>2. \A d \in Calls : Sent(d) => Sent(d)'
    <3>1. pc[c] = "write" /\ \A d \in Calls : d # c => pc'[d] = pc[d] /\ err'[d] = err[d]
    BY <1>12 DEF TypeOK, Write, Ends
  <3>2. \A d \in Calls : arrived[d] => arrived'[d]
    <4>1. arrived' = arrived \/ arrived' = [arrived EXCEPT ![c] = TRUE]
      BY <1>12 DEF Write, Arrived
    <4>2. arrived \in [Calls -> BOOLEAN]
      BY DEF TypeOK
    <4>3. QED
      BY <4>1, <4>2
  <3>3. \A d \in Calls : d # c => arrived'[d] = arrived[d]
    BY <1>12 DEF TypeOK, Write, Arrived
  <3>4. QED
    BY <3>1, <3>2, <3>3 DEF Sent
  <2>3. CASE \A s \in Streams : req'[s] = "new" => req[s] = "new"
    BY <2>1, <2>2, <2>3, NothingNew
  <2>4. CASE ~\A s \in Streams : req'[s] = "new" => req[s] = "new"
    <3>1. ~arrived[c] /\ req' = [req EXCEPT ![Now(c)] = "new"] /\ Sent(c)'
      <4>1. req' = [req EXCEPT ![Now(c)] = Kind(c)] /\ Kind(c) = "new"
      BY <1>12, <2>4, NowTyped DEF TypeOK, Write, Kind
    <4>2. ~arrived[c]
      BY <4>1 DEF Kind
    <4>3. CASE arrived' = Arrived(c)
      BY <4>1, <4>2, <4>3 DEF TypeOK, Arrived, Sent
    <4>4. CASE Ends(c, "unsent")
      BY <4>1, <4>2, <4>4 DEF TypeOK, Ends, Sent
    <4>5. req' # req
      BY <2>4
    <4>6. QED
      BY <1>12, <4>3, <4>4, <4>5 DEF Write
    <3>2. ~Sent(c)
      BY <1>12, <3>1 DEF Write, Sent
    <3>3. NotBegun(c) /\ NoneMade(c) /\ \A s \in Streams : CallOf(s) = c => req[s] # "new"
      BY <1>0, <3>2 DEF UnsentIsNothing
    <3>4. Now(c) \in Streams /\ CallOf(Now(c)) = c
      BY NowTyped
    <3>5. OneAsking'
      BY <1>0, <3>1, <3>3, <3>4 DEF OneAsking
    <3>6. UnsentIsNothing'
      BY <1>0, <2>1, <2>2, <3>1, <3>4 DEF UnsentIsNothing, NoneMade, NotBegun
    <3>7. UnreadIsNothing'
      BY <1>0, <2>1, <3>1, <3>3, <3>4 DEF UnreadIsNothing, NoneMade, NotBegun
    <3>8. QED
      BY <1>0, <2>1, <3>5, <3>6, <3>7 DEF OnceFacts, RunsAgainOnlyInTheGap, OneMade,
         EmptyIsNotBegun,
         NotBegun
  <2>5. QED
    BY <2>3, <2>4
<1>13. ASSUME NEW c \in Calls, Read(c) PROVE OnceFacts'
  <2>1. \A d \in Calls : Sent(d) => Sent(d)'
    BY <1>13 DEF TypeOK, Read, Sent, Ends
  <2>2. UNCHANGED <<begun, slip, made, cell, req, task>>
    BY <1>13 DEF Read
  <2>3. QED
    BY <2>1, <2>2, NothingNew
<1>14. ASSUME NEW c \in Calls, Decide(c) PROVE OnceFacts'
  <2>1. \A d \in Calls : Sent(d) => Sent(d)'
    BY <1>14 DEF TypeOK, Decide, Sent, AskAgain, WentAway
  <2>2. UNCHANGED <<begun, slip, made, cell, req, task>>
    BY <1>14 DEF Decide
  <2>3. QED
    BY <2>1, <2>2, NothingNew
<1>15. ASSUME NEW c \in Calls, Back(c) PROVE OnceFacts'
  <2>1. \A d \in Calls : Sent(d) => Sent(d)'
    BY <1>15 DEF TypeOK, Back, Sent, AskAgain
  <2>2. UNCHANGED <<begun, slip, made, cell, req, task>>
    BY <1>15 DEF Back
  <2>3. QED
    BY <2>1, <2>2, NothingNew
<1>16. ASSUME NEW c \in Calls, GiveUp(c) PROVE OnceFacts'
  <2>1. \A d \in Calls : Sent(d) => Sent(d)'
    BY <1>16 DEF TypeOK, GiveUp, Sent
  <2>2. UNCHANGED <<begun, slip, made, cell, req, task>>
    BY <1>16 DEF GiveUp
  <2>3. QED
    BY <2>1, <2>2, NothingNew
<1>17. ASSUME NEW c \in Calls, Stopped(c) PROVE OnceFacts'
  <2>1. \A d \in Calls : Sent(d) => Sent(d)'
    BY <1>17 DEF TypeOK, Stopped, Sent, Ends
  <2>2. UNCHANGED <<begun, slip, made, cell, req, task>>
    BY <1>17 DEF Stopped
  <2>3. QED
    BY <2>1, <2>2, NothingNew
<1>18. ASSUME NEW c \in Calls, Stop(c) PROVE OnceFacts'
  BY <1>18, NothingNew DEF Stop, Sent
<1>19. ASSUME NEW c \in Calls, ForgetOld(c) PROVE OnceFacts'
  BY <1>19, NothingNew DEF ForgetOld, Sent
<1>20. ASSUME NEW s \in Streams, DialBack(s) PROVE OnceFacts'
  <2>1. \A t \in Streams : task'[t] \in {"asked", "reading"} => task[t] \in {"asked", "reading"}
    BY <1>20 DEF TypeOK, DialBack
  <2>2. QED
    BY <1>20, <2>1, NothingNew DEF DialBack, Sent
<1>21. ASSUME NEW s \in Streams, Unheard(s) PROVE OnceFacts'
  <2>1. \A t \in Streams : task'[t] \in {"asked", "reading"} => task[t] \in {"asked", "reading"}
    BY <1>21 DEF TypeOK, Unheard
  <2>2. QED
    BY <1>21, <2>1, NothingNew DEF Unheard, Sent
<1>22. ASSUME NEW s \in Streams, Slot(s) PROVE OnceFacts'
  <2> DEFINE c == CallOf(s)
  <2>1. c \in Calls /\ req[s] # "none" /\ task[s] = "reading"
    BY <1>22, StreamParts DEF Slot
  <2>2. UNCHANGED <<req, begun, arrived, err, pc>> /\ \A d \in Calls : slip[d] => slip'[d]
    <3>1. UNCHANGED <<req, begun, arrived, err, pc>>
      BY <1>22 DEF Slot
    <3>2. slip' = slip \/ slip' = [slip EXCEPT ![c] = @ \/ Forgetting(c)]
      BY <1>22 DEF Slot
    <3>3. slip \in [Calls -> BOOLEAN]
      BY DEF TypeOK
    <3>4. ASSUME NEW d \in Calls, slip[d] PROVE slip'[d]
      <4>1. CASE slip' = [slip EXCEPT ![c] = @ \/ Forgetting(c)] /\ d = c
        <5>1. slip'[c] = (slip[c] \/ Forgetting(c))
          BY <2>1, <3>3, <4>1
        <5>2. QED
          BY <3>4, <4>1, <5>1
      <4>2. QED
        BY <3>2, <3>3, <3>4, <4>1
    <3>5. QED
      BY <3>1, <3>4
  <2>0. \A d \in Calls : NotBegun(d) => NotBegun(d)'
    BY <2>2 DEF NotBegun
  <2>3. \A d \in Calls : Sent(d)' = Sent(d)
    BY <2>2 DEF Sent
  <2>4. /\ \A t \in Streams : t # s => task'[t] = task[t]
        /\ task'[s] \in {"forget", "place"}
    BY <1>22 DEF TypeOK, Slot
  <2>5. CASE known[c] # 0
    <3>1. UNCHANGED <<made, cell>>
      BY <1>22, <2>5 DEF Slot
    <3>2. QED
      BY <2>2, <2>3, <2>4, <3>1, NothingNew
  <2>6. CASE known[c] = 0
    <3>1. PICK p \in Places :
            /\ made' = [made EXCEPT ![c] = [q \in Places |-> IF q = p THEN req[s]
                                                      ELSE IF InUse(c, q) THEN @[q] ELSE "none"]]
            /\ cell' = [cell EXCEPT ![c] = [q \in Places |-> IF InUse(c, q) THEN @[q] ELSE "empty"]]
      BY <1>22, <2>6 DEF Slot
    <3>2. \A q \in Places : made'[c][q] = "new" => \/ q = p /\ req[s] = "new"
                                                   \/ made[c][q] = "new" /\ cell'[c][q] = cell[c][q]
      BY <2>1, <3>1 DEF TypeOK
    <3>3. \A d \in Calls : d # c => made'[d] = made[d] /\ cell'[d] = cell[d]
      BY <3>1 DEF TypeOK
    <3>4. req[s] = "new" => NotBegun(c) /\ NoneMade(c) /\ Sent(c)
      BY <1>0, <2>1 DEF UnreadIsNothing, UnsentIsNothing
    <3>5. UnsentIsNothing'
      BY <1>0, <2>0, <2>2, <2>3, <3>2, <3>3, <3>4 DEF UnsentIsNothing, NoneMade
    <3>6. ASSUME NEW t \in Streams, req'[t] = "new", task'[t] \in {"asked", "reading"}
          PROVE  NotBegun(CallOf(t))' /\ NoneMade(CallOf(t))'
      <4>1. t # s /\ NotBegun(CallOf(t)) /\ NoneMade(CallOf(t))
        BY <1>0, <2>2, <2>4, <3>6 DEF UnreadIsNothing
      <4>2. CallOf(t) = c => req[s] # "new"
        BY <1>0, <2>2, <3>6, <4>1 DEF OneAsking
      <4>3. QED
        BY <2>0, <2>2, <3>2, <3>3, <4>1, <4>2, StreamParts DEF NoneMade
    <3>7. OneMade'
      BY <1>0, <3>2, <3>3, <3>4 DEF OneMade, NoneMade
    <3>8. EmptyIsNotBegun'
      BY <1>0, <2>0, <2>2, <3>2, <3>3, <3>4 DEF EmptyIsNotBegun
    <3>9. QED
      BY <1>0, <2>2, <3>5, <3>6, <3>7, <3>8 DEF OnceFacts, RunsAgainOnlyInTheGap, OneAsking,
         UnreadIsNothing
  <2>7. QED
    BY <2>5, <2>6
<1>23. ASSUME NEW s \in Streams, Unread(s) PROVE OnceFacts'
  <2>1. \A t \in Streams : task'[t] \in {"asked", "reading"} => task[t] \in {"asked", "reading"}
    BY <1>23 DEF TypeOK, Unread
  <2>2. QED
    BY <1>23, <2>1, NothingNew DEF Unread, Sent
<1>24. ASSUME NEW s \in Streams, Forget(s) PROVE OnceFacts'
  <2>1. \A t \in Streams : task'[t] \in {"asked", "reading"} => task[t] \in {"asked", "reading"}
    BY <1>24 DEF TypeOK, Forget
  <2>2. QED
    BY <1>24, <2>1, NothingNew DEF Forget, Sent
<1>25. ASSUME NEW s \in Streams, Work(s) PROVE OnceFacts'
  <2> DEFINE c == CallOf(s)
  <2>1. c \in Calls /\ place[s] \in Places /\ cell[c][place[s]] = "empty" /\ task[s] = "place"
    BY <1>25, StreamParts DEF TypeOK, Work, MayWork, CellOf
  <2>2. /\ UNCHANGED <<req, made, slip, arrived, err, pc>>
        /\ \A t \in Streams : task'[t] \in {"asked", "reading"} => task[t] = task'[t]
    BY <1>25 DEF TypeOK, Work
  <2>3. /\ \A d \in Calls : d # c => begun'[d] = begun[d] /\ cell'[d] = cell[d]
        /\ \A q \in Places : q # place[s] => cell'[c][q] = cell[c][q]
        /\ cell'[c][place[s]] = "running"
        /\ begun[c] = 0 => begun'[c] = 1
    BY <1>25, <2>1 DEF TypeOK, Work, InCell
  <2>4. slip[c] \/ (made[c][place[s]] = "new" /\ begun[c] = 0 /\ ~NoneMade(c))
    BY <1>0, <2>1 DEF GapFacts, PlaceIsFirst, EmptyIsNotBegun, NoneMade, NotBegun
  <2>5. RunsAgainOnlyInTheGap'
    BY <1>0, <2>2, <2>3, <2>4 DEF RunsAgainOnlyInTheGap
  <2>6. \A d \in Calls : NotBegun(d) => \/ NotBegun(d)'
                                        \/ d = c /\ ~slip[c]
    BY <2>2, <2>3 DEF NotBegun
  <2>7. UnsentIsNothing'
    BY <1>0, <2>2, <2>4, <2>6 DEF UnsentIsNothing, NoneMade, Sent
  <2>8. UnreadIsNothing'
    BY <1>0, <2>2, <2>4, <2>6, StreamParts DEF UnreadIsNothing, NoneMade
  <2>9. EmptyIsNotBegun'
    <3> SUFFICES ASSUME NEW d \in Calls, NEW p \in Places, made'[d][p] = "new",
                        cell'[d][p] = "empty"
                 PROVE  NotBegun(d)'
      BY DEF EmptyIsNotBegun
    <3>1. CASE d # c
      BY <1>0, <2>2, <2>3, <2>6, <3>1 DEF EmptyIsNotBegun
    <3>2. CASE d = c /\ slip[c]
      BY <2>2, <3>2 DEF NotBegun
    <3>3. CASE d = c /\ ~slip[c]
      BY <1>0, <2>1, <2>2, <2>3, <2>4, <3>3 DEF OneMade
    <3>4. QED
      BY <3>1, <3>2, <3>3
  <2>10. QED
    BY <1>0, <2>2, <2>5, <2>7, <2>8, <2>9 DEF OnceFacts, OneAsking, OneMade
<1>26. ASSUME NEW s \in Streams, Finish(s) PROVE OnceFacts'
  <2>1. UNCHANGED <<req, begun, slip, made, arrived, err, pc>>
    BY <1>26 DEF Finish
  <2>2. /\ \A t \in Streams : task'[t] \in {"asked", "reading"} => task[t] = task'[t]
        /\ \A d \in Calls : \A p \in Places : cell'[d][p] = "empty" => cell[d][p] = "empty"
    BY <1>26, StreamParts DEF TypeOK, Finish, InCell
  <2>3. UnsentIsNothing' /\ UnreadIsNothing'
    BY <1>0, <2>1, <2>2 DEF UnsentIsNothing, UnreadIsNothing, NoneMade, NotBegun, Sent
  <2>4. QED
    BY <1>0, <2>1, <2>2, <2>3 DEF OnceFacts, RunsAgainOnlyInTheGap, OneAsking, OneMade,
       EmptyIsNotBegun,
         NotBegun
<1>27. ASSUME NEW s \in Streams, Collect(s) PROVE OnceFacts'
  <2>1. \A t \in Streams : task'[t] \in {"asked", "reading"} => task[t] \in {"asked", "reading"}
    BY <1>27 DEF TypeOK, Collect
  <2>2. QED
    BY <1>27, <2>1, NothingNew DEF Collect, Sent
<1>28. ASSUME NEW s \in Streams, Send(s) PROVE OnceFacts'
  <2>1. \A t \in Streams : task'[t] \in {"asked", "reading"} => task[t] \in {"asked", "reading"}
    BY <1>28 DEF TypeOK, Send
  <2>2. QED
    BY <1>28, <2>1, NothingNew DEF Send, Sent
<1>29. ASSUME NEW s \in Streams, StreamDies(s) PROVE OnceFacts'
  BY <1>29, NothingNew DEF StreamDies, Sent
<1>30. CASE UNCHANGED vars
  BY <1>30, NothingNew DEF vars, Sent
<1>31. QED
  BY <1>1, <1>2, <1>3, <1>4, <1>5, <1>6, <1>7, <1>8, <1>9, <1>10, <1>11, <1>12, <1>13,
     <1>14, <1>15, <1>16, <1>17, <1>18, <1>19, <1>20, <1>21, <1>22, <1>23, <1>24, <1>25,
     <1>26, <1>27, <1>28, <1>29, <1>30
  DEF Next, GateLink, CallStep, AppStep

-----------------------------------------------------------------------------
(* The theorems *)

\* All of it holds at the beginning.
LEMMA LinkInit == Init => TypeOK /\ OnceFacts /\ GapFacts /\ CarrierFacts /\ HeldFacts
<1> SUFFICES ASSUME Init PROVE TypeOK /\ OnceFacts /\ GapFacts /\ CarrierFacts /\ HeldFacts
  OBVIOUS
<1>1. 0 \in 0 .. MaxFaults /\ 1 \in 1 .. dialAttempts /\ 1 \in 1 .. MaxAsked /\ 0 \in Places
  BY DEF dialAttempts, Places
<1>2. TypeOK
  <2>1. /\ machine \in Links \cup {None} /\ held \in Links \cup {None}
        /\ link \in [Links -> {"none", "hello", "up", "ending", "gone"}]
        /\ asked \in [Streams -> Links \cup {None}] /\ carrier \in [Streams -> Links \cup {None}]
    BY DEF Init
  <2>2.
        /\ pc \in [Calls -> {"idle", "look", "await", "write", "read", "decide", "away", "over"}]
        /\ err \in [Calls -> Outcomes]
        /\ attempt \in [Calls -> 1 .. dialAttempts] /\ cur \in [Calls -> 1 .. MaxAsked]
    BY <1>1 DEF Init, Outcomes, Errors
  <2>3. /\ wasThere \in [Calls -> BOOLEAN] /\ arrived \in [Calls -> BOOLEAN]
        /\ stopped \in [Calls -> BOOLEAN]
    BY DEF Init
  <2>4. /\ slot \in [Streams -> {"none", "waiting", "conn", "gone", "full", "left"}]
        /\ sock \in [Streams -> {"none", "open", "dead", "closed"}]
        /\ req \in [Streams -> {"none", "new", "resume"}]
        /\ ans \in [Streams -> {"none", "result", "interrupted"}]
    BY DEF Init
  <2>5. /\ task \in [Streams -> {"none", "asked", "reading", "forget", "place", "running",
                                 "result", "interrupted", "over"}]
        /\ known \in [Calls -> Places] /\ place \in [Streams -> Places]
    BY <1>1 DEF Init
  <2>6. /\ cell \in [Calls -> [Places -> {"empty", "running", "done"}]]
        /\ made \in [Calls -> [Places -> {"none", "new", "resume"}]]
    BY DEF Init
  <2>7. begun \in [Calls -> 0 .. 2] /\ faults \in 0 .. MaxFaults
    BY <1>1 DEF Init
  <2>8. late \in BOOLEAN /\ slip \in [Calls -> BOOLEAN]
    BY DEF Init
  <2>9. QED
    BY <2>1, <2>2, <2>3, <2>4, <2>5, <2>6, <2>7, <2>8 DEF TypeOK
<1>3. OnceFacts
  BY StreamParts DEF Init, OnceFacts, RunsAgainOnlyInTheGap, OneAsking, UnsentIsNothing,
     NoneMade, NotBegun, UnreadIsNothing, OneMade, EmptyIsNotBegun
<1>4. GapFacts
  BY DEF Init, GapFacts, KnownIsKept, PlaceIsFirst
<1>5. CarrierFacts
  BY DEF Init, CarrierFacts, Registered, AskedIsRegistered, CarriedIsServed, Live
<1>6. HeldFacts
  BY DEF Init, HeldFacts, DialledInOrder, HeldIsYoungest, HeldIsRegistered
<1>7. QED
  BY <1>2, <1>3, <1>4, <1>5, <1>6

\* The types and the invariants hold in every reachable state.
THEOREM LinkInvariant == Spec => [](TypeOK /\ OnceFacts /\ GapFacts /\ CarrierFacts /\ HeldFacts)
<1> DEFINE Inv == TypeOK /\ OnceFacts /\ GapFacts /\ CarrierFacts /\ HeldFacts
<1>1. Init => Inv
  BY LinkInit
<1>2. Inv /\ [Next]_vars => Inv'
  BY TypeStep, OnceStep, GapStep, CarrierStep, HeldStep
<1>3. QED
  BY <1>1, <1>2, PTL DEF Spec

\* Every variable of the link keeps its type, and no bound is ever exceeded.
THEOREM LinkTypeCorrect == Spec => []TypeOK
BY LinkInvariant, PTL

\* However often a call asks, on however many sockets, over restarts of the
\* application, its tool is begun once, but for the gap between calls::slot and
\* calls::forget: every run is counted, and a second one needs an asking that
\* found a place another asking was about to give up (mod.rs:273-290).
THEOREM RunsAgainOnlyInTheGapHolds == Spec => []RunsAgainOnlyInTheGap
<1>1. OnceFacts => RunsAgainOnlyInTheGap
  BY DEF OnceFacts
<1>2. QED
  BY LinkInvariant, <1>1, PTL

\* No stream outlives the control socket it is counted against.
THEOREM GoneCarriesNothingHolds == Spec => []GoneCarriesNothing
<1>1. CarrierFacts => GoneCarriesNothing
  BY DEF CarrierFacts, CarriedIsServed, GoneCarriesNothing
<1>2. QED
  BY LinkInvariant, <1>1, PTL

\* The socket the application is using, once added, is the one registered, whatever
\* becomes of the older ones, unless one of them was added after it or after another
\* younger one (link.go:267-270).
THEOREM HeldIsRegisteredHolds == Spec => []HeldIsRegistered
<1>1. HeldFacts => HeldIsRegistered
  BY DEF HeldFacts
<1>2. QED
  BY LinkInvariant, <1>1, PTL

===============================================================================
