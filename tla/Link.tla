-------------------------------- MODULE Link --------------------------------
(***************************************************************************)
(* Running a tool on a person's own computer (internal/link), with the     *)
(* application's half of it (desktop/shared/src/link.rs and tools/mod.rs). *)
(*                                                                         *)
(* One computer of one person.  Its application dials control sockets, one *)
(* after the other, and the gateway keeps the last one registered as the   *)
(* machine.  A call asks the machine for a stream by writing an open on    *)
(* the control socket, with a ticket; the application dials the stream     *)
(* back, reads the request, does the work and writes the answer.  A stream *)
(* dies for reasons the work knows nothing of: the call then asks again    *)
(* under the same id, and the application remembers the calls it has taken *)
(* so that what is running is waited for and never begun again.            *)
(***************************************************************************)
EXTENDS Integers, FiniteSets

CONSTANTS
  Calls,        \* calls made to this computer
  MaxAsked,     \* bound: askings of one call that are still somewhere at once
  MaxLinks,     \* bound: control sockets the application dials
  MaxStreams,   \* link.go maxStreams: connections a machine carries at once
  Env,          \* what may befall: "cut", "stream", "slow", "restart", "old", "stop"
  MaxFaults     \* bound: how often it does

ASSUME LinkAssumption ==
  /\ MaxAsked \in Nat \ {0} /\ MaxLinks \in Nat \ {0}
  /\ MaxStreams \in Nat \ {0} /\ MaxFaults \in Nat
  /\ Env \subseteq {"cut", "stream", "slow", "restart", "old", "stop"}

Links == 1 .. MaxLinks
None == 0                              \* no control socket
Streams == Calls \X (1 .. MaxAsked)    \* the streams asked for, by call
Places == 0 .. MaxAsked                \* where the application keeps answers; 0 is none
dialAttempts == 2

VARIABLES
  \* the gateway's registry
  machine,   \* the control socket registered for the computer
  link,      \* link[i]: where the gateway's handler of control socket i stands
  \* the gateway's calls
  pc, wasThere, arrived,
  attempt,   \* as far as it is looked at: up to dialAttempts
  cur,       \* the stream the call asked for last
  err,       \* how the last asking ended, and at the end what the caller is told
  stopped,   \* the turn behind the call was stopped
  \* streams, by the ticket they were asked with
  asked,     \* the control socket the open went out on
  slot,      \* the ticket: waiting, or what it was spent on
  sock,      \* the gateway's end of the stream
  carrier,   \* the control socket it is counted against
  req,       \* the request written on it, a resume or not
  ans,       \* the answer that came back on it
  \* the application
  held,      \* the control socket it is using
  task,      \* where the task of the open of this stream stands
  known,     \* known[c]: the place under c's id
  cell,      \* cell[c][p]: what became of place p
  place,     \* place[s]: the place the task of s found or made
  \* history and bounds
  made,      \* made[c][p]: what made place p, a first asking or a resume
  late,      \* a control socket was added after one dialled later
  begun,     \* how often the tool was begun, as far as twice
  slip,      \* an asking of the call found a place another asking is about to give up
  faults

gateVars == <<machine, link, late>>
callVars == <<pc, attempt, cur, wasThere, arrived, err, stopped>>
streamVars == <<asked, slot, sock, carrier, req, ans>>
placeVars == <<known, cell, made, place, begun, slip>>
appVars == <<held, task, placeVars>>
vars == <<gateVars, callVars, streamVars, appVars, faults>>

Errors == {"none", "timeout", "nomachine", "refused", "toomany", "died", "unsent", "stopped"}
Outcomes == Errors \cup {"result", "interrupted"}

TypeOK ==
  /\ machine \in Links \cup {None}
  /\ link \in [Links -> {"none", "hello", "up", "ending", "gone"}]
  /\ pc \in [Calls -> {"idle", "look", "await", "write", "read", "decide", "away", "over"}]
  /\ attempt \in [Calls -> 1 .. dialAttempts] /\ cur \in [Calls -> 1 .. MaxAsked]
  /\ wasThere \in [Calls -> BOOLEAN] /\ arrived \in [Calls -> BOOLEAN]
  /\ err \in [Calls -> Outcomes] /\ stopped \in [Calls -> BOOLEAN]
  /\ asked \in [Streams -> Links \cup {None}]
  /\ slot \in [Streams -> {"none", "waiting", "conn", "gone", "full", "left"}]
  /\ sock \in [Streams -> {"none", "open", "dead", "closed"}]
  /\ carrier \in [Streams -> Links \cup {None}]
  /\ req \in [Streams -> {"none", "new", "resume"}]
  /\ ans \in [Streams -> {"none", "result", "interrupted"}]
  /\ held \in Links \cup {None}
  /\ task \in [Streams -> {"none", "asked", "reading", "forget", "place", "running",
                           "result", "interrupted", "over"}]
  /\ known \in [Calls -> Places] /\ place \in [Streams -> Places]
  /\ cell \in [Calls -> [Places -> {"empty", "running", "done"}]]
  /\ made \in [Calls -> [Places -> {"none", "new", "resume"}]]
  /\ late \in BOOLEAN /\ slip \in [Calls -> BOOLEAN]
  /\ begun \in [Calls -> 0 .. 2] /\ faults \in 0 .. MaxFaults

Init ==
  /\ machine = None /\ link = [i \in Links |-> "none"]
  /\ pc = [c \in Calls |-> "idle"] /\ attempt = [c \in Calls |-> 1]
  /\ cur = [c \in Calls |-> 1]
  /\ wasThere = [c \in Calls |-> FALSE] /\ arrived = [c \in Calls |-> FALSE]
  /\ err = [c \in Calls |-> "none"] /\ stopped = [c \in Calls |-> FALSE]
  /\ asked = [s \in Streams |-> None] /\ slot = [s \in Streams |-> "none"]
  /\ sock = [s \in Streams |-> "none"] /\ carrier = [s \in Streams |-> None]
  /\ req = [s \in Streams |-> "none"] /\ ans = [s \in Streams |-> "none"]
  /\ held = None /\ task = [s \in Streams |-> "none"]
  /\ known = [c \in Calls |-> 0] /\ place = [s \in Streams |-> 0]
  /\ cell = [c \in Calls |-> [p \in Places |-> "empty"]]
  /\ made = [c \in Calls |-> [p \in Places |-> "none"]]
  /\ late = FALSE /\ slip = [c \in Calls |-> FALSE]
  /\ begun = [c \in Calls |-> 0] /\ faults = 0

Fault(kind) == kind \in Env /\ faults < MaxFaults /\ faults' = faults + 1
Online == machine # None
Now(c) == <<c, cur[c]>>                \* the stream the call is asking for
CallOf(s) == s[1]
Live(s) == sock[s] \in {"open", "dead"}
Carrying(i) == {s \in Streams : carrier[s] = i /\ Live(s)}
\* stream.Close: the socket, and what the machine counts.
Closed(S) == [s \in Streams |-> IF s \in S /\ Live(s) THEN "closed" ELSE sock[s]]

-----------------------------------------------------------------------------
(* The control socket *)

\* hold, serve: the application dials and says who it is.
AppDials ==
  /\ held = None
  /\ \E i \in Links :
       /\ link[i] = "none" /\ \A j \in Links : j < i => link[j] # "none"
       /\ held' = i /\ link' = [link EXCEPT ![i] = "hello"]
  /\ UNCHANGED <<machine, late, callVars, streamVars, task, placeVars, faults>>

\* ServeControl: the token holds, "linked" is said, and add puts this socket
\* where another of the same computer was, an older one or not.
Add(i) ==
  /\ link[i] = "hello"
  /\ link' = [link EXCEPT ![i] = "up"] /\ machine' = i
  /\ late' = (late \/ machine > i)
  /\ UNCHANGED <<callVars, streamVars, appVars, faults>>

\* The socket ends before it was added: saying "linked" fails.
Unadded(i) ==
  /\ link[i] = "hello" /\ held # i
  /\ link' = [link EXCEPT ![i] = "gone"]
  /\ UNCHANGED <<machine, late, callVars, streamVars, appVars, faults>>

\* The socket ends under the application: the network, or a replacement
\* credential, on which serve leaves this socket for another.
Cut ==
  /\ held # None /\ Fault("cut") /\ held' = None
  /\ UNCHANGED <<gateVars, callVars, streamVars, task, placeVars>>

\* remove: unless a newer socket of the same computer is already registered.
RemovedAlways(i) == None              \* mutant: whoever goes takes the entry along
Removed(i) == IF machine = i THEN None ELSE machine

\* The read or the ping fails: out of the registry first ...
Remove(i) ==
  /\ link[i] = "up" /\ held # i
  /\ link' = [link EXCEPT ![i] = "ending"] /\ machine' = Removed(i)
  /\ UNCHANGED <<late, callVars, streamVars, appVars, faults>>

\* ... and then what it was carrying is closed.
AbandonNothing(i) == {}               \* mutant: the entry goes, its streams stay
Abandoned(i) == Carrying(i)
Abandon(i) ==
  /\ link[i] = "ending"
  /\ link' = [link EXCEPT ![i] = "gone"] /\ sock' = Closed(Abandoned(i))
  /\ UNCHANGED <<machine, late, callVars, asked, slot, carrier, req, ans, appVars, faults>>

-----------------------------------------------------------------------------
(* A call *)

\* The asking of c ended: with what, and its stream closed (callOnce's defer).
Ends(c, how) ==
  /\ pc' = [pc EXCEPT ![c] = "decide"] /\ err' = [err EXCEPT ![c] = how]
  /\ sock' = Closed({Now(c)})

Begin(c) ==
  /\ pc[c] = "idle"
  /\ pc' = [pc EXCEPT ![c] = "look"] /\ wasThere' = [wasThere EXCEPT ![c] = Online]
  /\ UNCHANGED <<gateVars, attempt, cur, arrived, err, stopped, streamVars, appVars, faults>>

\* A stream of which nothing is left; a new asking takes one, and forgets the rest.
Unused(s) == task[s] \in {"none", "over"} /\ ~Live(s)
Fresh(f, s, v, none) ==
  [t \in Streams |-> IF t = s THEN v
                     ELSE IF CallOf(t) = CallOf(s) /\ Unused(t) THEN none ELSE f[t]]

\* stream: the registered machine is asked, with a ticket of its own.  On a
\* socket that is dead and not yet noticed the open is lost, or cannot be written;
\* one that goes between the look and the asking is a dead one.
\* A turn already stopped asks as well, and its wait is over as it begins.
Ask(c, n) ==
  LET s == <<c, n>> IN
  /\ Online /\ Unused(s) /\ \A k \in 1 .. n - 1 : ~Unused(<<c, k>>)
  /\ cur' = [cur EXCEPT ![c] = n]
  /\ pc' = [pc EXCEPT ![c] = IF stopped[c] THEN "decide" ELSE "await"]
  /\ err' = [err EXCEPT ![c] = IF stopped[c] THEN "stopped" ELSE @]
  /\ slot' = Fresh(slot, s, IF stopped[c] THEN "left" ELSE "waiting", "none")
  /\ task' = Fresh(task, s, IF held = machine THEN "asked" ELSE "over", "none")
  /\ asked' = Fresh(asked, s, machine, None) /\ carrier' = Fresh(carrier, s, None, None)
  /\ sock' = Fresh(sock, s, "none", "none")
  /\ req' = Fresh(req, s, "none", "none") /\ ans' = Fresh(ans, s, "none", "none")
  /\ place' = Fresh(place, s, 0, 0)

Look(c) ==
  /\ pc[c] = "look"
  /\ \/ \E n \in 1 .. MaxAsked : Ask(c, n)
     \/ /\ held # machine \/ ~Online
        /\ pc' = [pc EXCEPT ![c] = "decide"] /\ err' = [err EXCEPT ![c] = "nomachine"]
        /\ UNCHANGED <<cur, streamVars, task, place>>
  /\ UNCHANGED <<gateVars, attempt, wasThere, arrived, stopped, held, known, cell, made,
                 begun, slip, faults>>

\* stream's select: what the ticket was spent on.
Await(c) ==
  LET s == Now(c) IN
  /\ pc[c] = "await"
  /\ \/ slot[s] = "conn" /\ pc' = [pc EXCEPT ![c] = "write"] /\ UNCHANGED <<err, sock>>
     \/ slot[s] \in {"gone", "full"} /\ Ends(c, "refused")
  /\ UNCHANGED <<gateVars, attempt, cur, wasThere, arrived, stopped, asked, slot, carrier,
                 req, ans, appVars, faults>>

Spent(s) == [slot EXCEPT ![s] = IF @ = "waiting" THEN "left" ELSE @]

\* dialDeadline: the application is slow, or the open died with its socket.  A
\* stream that was delivered in the same moment is left to nobody.
DialDeadline(c) ==
  LET s == Now(c) IN
  /\ pc[c] = "await"
  /\ \/ Fault("slow")
     \/ task[s] = "over" /\ slot[s] = "waiting" /\ UNCHANGED faults
  /\ slot' = Spent(s)
  /\ pc' = [pc EXCEPT ![c] = "decide"] /\ err' = [err EXCEPT ![c] = "timeout"]
  /\ UNCHANGED <<gateVars, attempt, cur, wasThere, arrived, stopped, asked, sock, carrier,
                 req, ans, appVars>>

\* Read's error, and keepWatch: what ends a stream before its answer.
EndedByWatch(s) == ~Online             \* mutant: a stream that broke is read on
Ended(s) == sock[s] # "open" \/ ~Online

\* callOnce: the request, and the end of it.  "arrived" is that both were
\* written: whether they were read is not known here.
ArrivedNever(c) == arrived                        \* mutant: every asking is a first one
Arrived(c) == [arrived EXCEPT ![c] = TRUE]
KindAgain(c) == IF arrived[c] THEN "again" ELSE "new"   \* mutant: a kind nobody reads
Kind(c) == IF arrived[c] THEN "resume" ELSE "new"
Write(c) ==
  LET s == Now(c)
      wrote == req' = [req EXCEPT ![s] = Kind(c)]
  IN
  /\ pc[c] = "write"
  /\ \/ /\ sock[s] \in {"open", "dead"} /\ wrote
        /\ arrived' = Arrived(c)
        /\ pc' = [pc EXCEPT ![c] = "read"] /\ UNCHANGED <<err, sock>>
     \/ sock[s] = "dead" /\ wrote /\ Ends(c, "unsent") /\ UNCHANGED arrived
     \/ Ended(s) /\ Ends(c, "nomachine") /\ UNCHANGED <<req, arrived>>
  /\ UNCHANGED <<gateVars, attempt, cur, wasThere, stopped, asked, slot, carrier, ans,
                 appVars, faults>>

\* ReadAll: the answer, or the stream ended before it; keepWatch ends it when
\* the computer is no longer there.  An answer that cannot be used is an answer.
Read(c) ==
  LET s == Now(c) IN
  /\ pc[c] = "read"
  /\ \/ ans[s] # "none" /\ Ends(c, ans[s])
     \/ Ended(s) /\ Ends(c, "died")
  /\ UNCHANGED <<gateVars, attempt, cur, wasThere, arrived, stopped, asked, slot, carrier,
                 req, ans, appVars, faults>>

WentAway(c) == err[c] \in {"timeout", "nomachine"}

AskAgain(c) ==
  /\ attempt' = [attempt EXCEPT ![c] = IF @ < dialAttempts THEN @ + 1 ELSE @]
  /\ pc' = [pc EXCEPT ![c] = "look"] /\ UNCHANGED err

\* Call's switch: answered, asked again, waited for, or given up.
Decide(c) ==
  LET slow == err[c] = "timeout" /\ attempt[c] < dialAttempts /\ Online
      away == err[c] = "died" \/ (WentAway(c) /\ wasThere[c])
  IN
  /\ pc[c] = "decide"
  /\ \/ (slow \/ (away /\ Online)) /\ AskAgain(c)
     \/ away /\ ~Online /\ pc' = [pc EXCEPT ![c] = "away"] /\ UNCHANGED <<attempt, err>>
     \/ ~slow /\ ~away /\ pc' = [pc EXCEPT ![c] = "over"] /\ UNCHANGED <<attempt, err>>
  /\ UNCHANGED <<gateVars, cur, wasThere, arrived, stopped, streamVars, appVars, faults>>

\* comesBack: seen again, or not within its three minutes.
Back(c) ==
  /\ pc[c] = "away" /\ Online /\ AskAgain(c)
  /\ UNCHANGED <<gateVars, cur, wasThere, arrived, stopped, streamVars, appVars, faults>>
GiveUp(c) ==
  /\ pc[c] = "away"
  /\ pc' = [pc EXCEPT ![c] = "over"] /\ err' = [err EXCEPT ![c] = "nomachine"]
  /\ UNCHANGED <<gateVars, attempt, cur, wasThere, arrived, stopped, streamVars, appVars,
                 faults>>

\* The person stops the turn ...
Stop(c) ==
  /\ pc[c] \notin {"idle", "over"} /\ ~stopped[c] /\ Fault("stop")
  /\ stopped' = [stopped EXCEPT ![c] = TRUE]
  /\ UNCHANGED <<gateVars, pc, attempt, cur, wasThere, arrived, err, streamVars, appVars>>

\* ... and the call's context ends: the wait for the stream, or the stream
\* itself, which the reader takes for the context's end or for a stream that died.
Stopped(c) ==
  LET s == Now(c) IN
  /\ stopped[c]
  /\ \/ pc[c] = "await" /\ slot' = Spent(s)
        /\ pc' = [pc EXCEPT ![c] = "decide"] /\ err' = [err EXCEPT ![c] = "stopped"]
        /\ UNCHANGED sock
     \/ pc[c] = "write" /\ Ends(c, "nomachine") /\ UNCHANGED slot
     \/ pc[c] = "read" /\ (Ends(c, "stopped") \/ Ends(c, "died")) /\ UNCHANGED slot
  /\ UNCHANGED <<gateVars, attempt, cur, wasThere, arrived, stopped, asked, carrier, req,
                 ans, appVars, faults>>

-----------------------------------------------------------------------------
(* The application *)

\* deliver: which record the dialled-back stream is counted against.
CarrierAsked(s) == asked[s]                       \* mutant: also after it was abandoned
Carrier(s) ==
  IF link[asked[s]] # "gone" THEN asked[s]
  ELSE IF machine # asked[s] THEN machine ELSE None

\* open_stream and deliver: a spent ticket is turned away; the machine takes the
\* stream, unless it is gone and nothing replaced it, or it carries enough.
DialBack(s) ==
  LET i == Carrier(s) IN
  /\ task[s] = "asked"
  /\ \/ /\ slot[s] = "waiting"
        /\ IF i = None \/ Cardinality(Carrying(i)) >= MaxStreams
           THEN /\ slot' = [slot EXCEPT ![s] = IF i = None THEN "gone" ELSE "full"]
                /\ task' = [task EXCEPT ![s] = "over"] /\ UNCHANGED <<sock, carrier>>
           ELSE /\ slot' = [slot EXCEPT ![s] = "conn"]
                /\ sock' = [sock EXCEPT ![s] = "open"] /\ carrier' = [carrier EXCEPT ![s] = i]
                /\ task' = [task EXCEPT ![s] = "reading"]
     \/ slot[s] # "waiting" /\ task' = [task EXCEPT ![s] = "over"] /\ UNCHANGED <<slot, sock, carrier>>
  /\ UNCHANGED <<gateVars, callVars, asked, req, ans, held, placeVars, faults>>

\* The open died with its control socket before the application read it.
Unheard(s) ==
  /\ task[s] = "asked" /\ held # asked[s]
  /\ task' = [task EXCEPT ![s] = "over"]
  /\ UNCHANGED <<gateVars, callVars, streamVars, held, placeVars, faults>>

\* A stream dies for reasons of its own.
StreamDies(s) ==
  /\ sock[s] = "open" /\ Fault("stream")
  /\ sock' = [sock EXCEPT ![s] = "dead"]
  /\ UNCHANGED <<gateVars, callVars, asked, slot, carrier, req, ans, appVars>>

InUse(c, p) ==
  \/ known[c] = p
  \/ \E s \in Streams : CallOf(s) = c /\ place[s] = p /\ task[s] \in {"forget", "place", "running"}

\* An asking of c stands between calls::slot and calls::forget.
Forgetting(c) == \E s \in Streams : CallOf(s) = c /\ task[s] = "forget"

\* calls::slot: the place of this id, made now when there is none.  A resume
\* that had to make it has nothing to wait for, and gives it up in a step of its own.
Slot(s) ==
  LET c == CallOf(s) IN
  /\ task[s] = "reading" /\ req[s] # "none"
  /\ IF known[c] = 0
     THEN \E p \in Places \ {0} :
            /\ ~InUse(c, p) /\ \A q \in 1 .. p - 1 : InUse(c, q)
            /\ known' = [known EXCEPT ![c] = p] /\ place' = [place EXCEPT ![s] = p]
            /\ cell' = [cell EXCEPT ![c] = [q \in Places |-> IF InUse(c, q) THEN @[q] ELSE "empty"]]
            /\ made' = [made EXCEPT ![c] = [q \in Places |-> IF q = p THEN req[s]
                                                       ELSE IF InUse(c, q) THEN @[q] ELSE "none"]]
            /\ task' = [task EXCEPT ![s] = IF req[s] = "resume" THEN "forget" ELSE "place"]
            /\ UNCHANGED slip
     ELSE /\ place' = [place EXCEPT ![s] = known[c]]
          /\ task' = [task EXCEPT ![s] = "place"]
          /\ slip' = [slip EXCEPT ![c] = @ \/ Forgetting(c)]
          /\ UNCHANGED <<known, cell, made>>
  /\ UNCHANGED <<gateVars, callVars, streamVars, held, begun, faults>>

\* The stream ended before the whole request was read.
Unread(s) ==
  /\ task[s] = "reading" /\ sock[s] # "open"
  /\ task' = [task EXCEPT ![s] = "over"]
  /\ UNCHANGED <<gateVars, callVars, streamVars, held, placeVars, faults>>

\* calls::forget: the place under this id goes, whoever made it.
Forget(s) ==
  /\ task[s] = "forget"
  /\ known' = [known EXCEPT ![CallOf(s)] = 0]
  /\ task' = [task EXCEPT ![s] = "interrupted"]
  /\ UNCHANGED <<gateVars, callVars, streamVars, held, cell, made, place, begun, slip, faults>>

CellOf(s) == cell[CallOf(s)][place[s]]
InCell(s, how) == [cell EXCEPT ![CallOf(s)][place[s]] = how]

\* get_or_init: the first at an empty place does the work ...
MayWorkEach(s) == CellOf(s) # "done"   \* mutant: nobody waits for another's work
MayWork(s) == CellOf(s) = "empty"
Work(s) ==
  LET c == CallOf(s) IN
  /\ task[s] = "place" /\ MayWork(s)
  /\ cell' = InCell(s, "running") /\ task' = [task EXCEPT ![s] = "running"]
  /\ begun' = [begun EXCEPT ![c] = IF @ < 2 THEN @ + 1 ELSE @]
  /\ UNCHANGED <<gateVars, callVars, streamVars, held, known, made, place, slip, faults>>
Finish(s) ==
  /\ task[s] = "running"
  /\ cell' = InCell(s, "done") /\ task' = [task EXCEPT ![s] = "result"]
  /\ UNCHANGED <<gateVars, callVars, streamVars, held, known, made, place, begun, slip, faults>>

\* ... and the others wait for what it makes.
Collect(s) ==
  /\ task[s] = "place" /\ CellOf(s) = "done"
  /\ task' = [task EXCEPT ![s] = "result"]
  /\ UNCHANGED <<gateVars, callVars, streamVars, held, placeVars, faults>>

\* The answer goes out on the stream it was asked on, if that is still there.
Send(s) ==
  /\ task[s] \in {"result", "interrupted"}
  /\ ans' = IF sock[s] = "open" THEN [ans EXCEPT ![s] = task[s]] ELSE ans
  /\ task' = [task EXCEPT ![s] = "over"]
  /\ UNCHANGED <<gateVars, callVars, asked, slot, sock, carrier, req, held, placeVars, faults>>

\* forget_the_old: an answer kept an hour, or one of too many.
ForgetOld(c) ==
  /\ known[c] # 0 /\ cell[c][known[c]] = "done" /\ Fault("old")
  /\ known' = [known EXCEPT ![c] = 0]
  /\ UNCHANGED <<gateVars, callVars, streamVars, held, task, cell, made, place, begun, slip>>

\* The application's process ends: its sockets, its work and its memory.
Restart ==
  /\ Fault("restart") /\ held' = None
  /\ task' = [s \in Streams |-> IF task[s] = "none" THEN "none" ELSE "over"]
  /\ sock' = [s \in Streams |-> IF sock[s] = "open" THEN "dead" ELSE sock[s]]
  /\ known' = [c \in Calls |-> 0] /\ place' = [s \in Streams |-> 0]
  /\ cell' = [c \in Calls |-> [p \in Places |-> "empty"]]
  /\ made' = [c \in Calls |-> [p \in Places |-> "none"]]
  /\ UNCHANGED <<gateVars, callVars, asked, slot, carrier, req, ans, begun, slip>>

-----------------------------------------------------------------------------
GateLink(i) == Add(i) \/ Unadded(i) \/ Remove(i) \/ Abandon(i)
CallStep(c) ==
  Begin(c) \/ Look(c) \/ Await(c) \/ DialDeadline(c) \/ Write(c) \/ Read(c)
    \/ Decide(c) \/ Back(c) \/ GiveUp(c) \/ Stopped(c)
AppStep(s) ==
  DialBack(s) \/ Unheard(s) \/ Slot(s) \/ Unread(s) \/ Forget(s) \/ Work(s)
    \/ Finish(s) \/ Collect(s) \/ Send(s)

Next ==
  \/ AppDials \/ Cut \/ Restart
  \/ \E i \in Links : GateLink(i)
  \/ \E c \in Calls : CallStep(c) \/ Stop(c) \/ ForgetOld(c)
  \/ \E s \in Streams : AppStep(s) \/ StreamDies(s)

Spec == Init /\ [][Next]_vars

\* The gateway's goroutines and the application's tasks run on; nothing that may
\* befall the link has to.
FairSpec ==
  /\ Spec /\ WF_vars(AppDials)
  /\ \A i \in Links : WF_vars(GateLink(i))
  /\ \A c \in Calls : WF_vars(CallStep(c))
  /\ \A s \in Streams : WF_vars(AppStep(s))

-----------------------------------------------------------------------------
(* Properties *)

\* However often a call asks, on however many sockets, over a restart of the
\* application, its tool is begun once ("A call with an id is done ONCE", mod.rs:265),
\* but for one gap of the code: an asking that finds the place which an earlier one,
\* told it has nothing to wait for, has made and not yet given up (mod.rs:273-290).
RunsAgainOnlyInTheGap == \A c \in Calls : begun[c] > 1 => slip[c]

\* A stream lives only as long as a control socket it is counted against: one
\* dialled back while its socket goes, or after it went and another came, is
\* closed with the first or carried by the second.
GoneCarriesNothing == \A s \in Streams : Live(s) => link[carrier[s]] # "gone"

\* The control socket the application is using, once added, is the one registered:
\* an older one that ends late takes nothing from it ("must not have its new link torn
\* out from under it", link.go:279-281), unless an older one was also added late, which
\* add does not look at (link.go:267-270).
HeldIsRegistered ==
  held # None /\ link[held] = "up" => machine = held \/ late

\* A call ends: a computer that went away comes back or is given up, and no
\* asking waits on a socket that nobody will answer.
CallEnds == \A c \in Calls : []<>(pc[c] \in {"idle", "over"})

\* "The machine is not there, and it WAS [...] All three are a wait, not an
\* answer" (call.go:178-184): no call of a computer that was there ends refused
\* because the computer was away when it dialled back.
AwayIsAWait ==
  \A c \in Calls : pc[c] = "over" /\ err[c] = "refused" => slot[Now(c)] = "full"
=============================================================================
