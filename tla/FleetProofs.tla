----------------------------- MODULE FleetProofs -----------------------------
(***************************************************************************)
(* Proofs about Fleet, for every set of members, every bound and every set *)
(* of outside events.                                                      *)
(*                                                                         *)
(* The invariant of the join (JoinFacts) says what makes each write of the *)
(* batch's row and of its members safe: a member runs only while the batch *)
(* does, a goroutine that is about to close it saw everybody back, and the *)
(* cancellation closes only after it settled the rows.  From it follow the *)
(* types and the refinement of FleetJoin, one step of Fleet at a time.     *)
(*                                                                         *)
(* Two more invariants need nothing of the join.  OnceFacts: a leg that    *)
(* carries an answer is the first attempt of its job.  FaultlessFacts:     *)
(* until the first fault, whoever works on a member holds its job, nobody  *)
(* is stopped before the row is settled, and so a member that runs is      *)
(* always expected.  Every fault makes that one vacuous at once, which     *)
(* leaves the steps of a quiet system to look at.                          *)
(***************************************************************************)
EXTENDS Fleet, FiniteSetTheorems, TLAPS

USE FleetConstants

\* A job is a member and the number of an answer ...
LEMMA JobParts ==
  ASSUME NEW j \in Jobs
  PROVE  /\ j = <<j[1], j[2]>> /\ j[1] \in Members /\ j[2] \in Nat
         /\ AttemptsOf(j) \in 1 .. MaxDelegationAttempts
BY DEF Jobs, Cards, AttemptsOf

\* ... a card is a job of its own, never the one that runs a member ...
LEMMA CardParts ==
  ASSUME NEW c \in Cards
  PROVE  c = <<c[1], c[2]>> /\ c[1] \in Members /\ c[2] # 0 /\ c \in Jobs
BY DEF Jobs, Cards

\* ... and a leg an attempt of a job.
LEMMA LegParts ==
  ASSUME NEW l \in Legs
  PROVE  /\ l = <<l[1], l[2], l[3]>>
         /\ MemberOf(l) \in Members /\ JobOf(l) \in Jobs /\ l[3] \in Attempts
<1>1. PICK j \in Jobs, a \in Attempts : l = <<j[1], j[2], a>>
  BY DEF Legs
<1>2. QED
  BY <1>1, JobParts DEF MemberOf, JobOf

\* A fault is counted.
LEMMA FaultCounted ==
  ASSUME TypeOK, NEW kind, Fault(kind)
  PROVE  faults' \in 0 .. MaxFaults /\ faults' > 0
BY DEF TypeOK, Fault

\* A report only ever names a member.
LEMMA ReportTyped ==
  ASSUME TypeOK, NEW m \in Members, Report(m)
  PROVE  reports' \subseteq Members /\ faults' \in 0 .. MaxFaults
BY FaultCounted DEF TypeOK, Report

-----------------------------------------------------------------------------
(* The types and the invariant of the join *)

\* What the writers of the batch rely on: the order in which delegateFleet writes
\* its rows, the rows CancelFleet settles before it closes, the tally closeFleet
\* reads first.
JoinFacts ==
  /\ start \in {"none", "row"} => \A m \in Members : del[m] = "none"
  /\ start = "none" => fleet = "none"
  /\ start = "row" => fleet = "running"
  /\ stopper # "idle" => start \notin {"none", "row"} /\ \A m \in Members : del[m] # "running"
  /\ fleet # "done" => wakes = 0
  /\ \A h \in Hands : hand[h] = "close" => Tally
  /\ \A m \in Members : del[m] = "running" => fleet = "running"

\* Every step keeps the types; that the Gateway is woken at most once needs JoinFacts.
LEMMA TypeStep ==
  ASSUME TypeOK, JoinFacts, [Next]_vars
  PROVE  TypeOK'
<1> USE DEF TypeOK, rowVars, jobVars, startVars, trackVars, legVars, Terminal, Alive
<1>1. CASE CreateFleet
  BY <1>1 DEF CreateFleet
<1>2. CASE CreateFleetMembers
  BY <1>2 DEF CreateFleetMembers
<1>3. CASE MembersUnwritten
  BY <1>3 DEF MembersUnwritten, Fault
<1>4. CASE Watch
  BY <1>4 DEF Watch
<1>5. CASE Dispatch
  BY <1>5 DEF Dispatch, Fault, RunsHere
<1>6. CASE SweepSettled
  BY <1>6 DEF SweepSettled
<1>7. CASE SweepOverdue
  BY <1>7 DEF SweepOverdue
<1>8. CASE TimeOut
  BY <1>8 DEF TimeOut, Forget
<1>9. CASE CancelMembers
  BY <1>9 DEF CancelMembers, Abandoned
<1>10. CASE CancelClose
  BY <1>10 DEF CancelClose, First
<1>11. CASE CancelLegs
  BY <1>11 DEF CancelLegs, Forget
<1>12. CASE DeadlinePasses
  BY <1>12 DEF DeadlinePasses
<1>13. CASE Restart
  <2> USE <1>13 DEF Restart, Forget
  <2>1. faults' \in 0 .. MaxFaults
    BY FaultCounted
  <2>2. leg' \in [Legs -> {"none", "gone"} \cup Alive] /\ start' \in {"none", "over"}
    OBVIOUS
  <2>3. hand' \in [Hands -> {"idle", "abandon", "read", "close"}]
        /\ step' \in [Cards -> {"none", "resume", "settle"}]
    OBVIOUS
  <2>4. QED
    BY <2>1, <2>2, <2>3
<1>14. ASSUME NEW m \in Members, FailToStart(m) PROVE TypeOK'
  BY <1>14 DEF FailToStart, SettleMember, Settled, Report, Fault
<1>15. ASSUME NEW m \in Members, OnReport(m) PROVE TypeOK'
  <2>1. hand' \in [Hands -> {"idle", "abandon", "read", "close"}]
    BY <1>15 DEF OnReport
  <2>2. reports' \subseteq Members /\ watched' \in BOOLEAN /\ counted' \subseteq Members
    BY <1>15 DEF OnReport, Forget
  <2>3. QED
    BY <1>15, <2>1, <2>2 DEF OnReport
<1>16. ASSUME NEW j \in Jobs, Claim(j) PROVE TypeOK'
  <2>1. tries[j] \in Nat /\ tries[j] + 1 \in 0 .. MaxDelegationAttempts
    BY <1>16, JobParts DEF Claim
  <2>2. tries' \in [Jobs -> 0 .. MaxDelegationAttempts]
    BY <1>16, <2>1 DEF Claim
  <2>3. job' \in [Jobs -> {"none", "pending", "claimed", "done", "dead"}]
        /\ leg' \in [Legs -> {"none", "gone"} \cup Alive]
    BY <1>16 DEF Claim
  <2>4. QED
    BY <1>16, <2>2, <2>3 DEF Claim
<1>17. ASSUME NEW j \in Jobs, Reclaim(j) PROVE TypeOK'
  <2>1. job' \in [Jobs -> {"none", "pending", "claimed", "done", "dead"}]
    BY <1>17 DEF Reclaim, Returned
  <2>2. faults' \in 0 .. MaxFaults
    BY <1>17, FaultCounted DEF Reclaim
  <2>3. QED
    BY <1>17, <2>1, <2>2 DEF Reclaim
<1>18. ASSUME NEW l \in Legs, Load(l) PROVE TypeOK'
  BY <1>18 DEF Load, JobOf
<1>19. ASSUME NEW l \in Legs, LoadFails(l) PROVE TypeOK'
  <2>1. job' \in [Jobs -> {"none", "pending", "claimed", "done", "dead"}]
    BY <1>19 DEF LoadFails, Returned
  <2>2. faults' \in 0 .. MaxFaults
    BY <1>19, FaultCounted DEF LoadFails
  <2>3. QED
    BY <1>19, <2>1, <2>2 DEF LoadFails
<1>20. ASSUME NEW l \in Legs, Park(l) PROVE TypeOK'
  BY <1>20 DEF Park
<1>21. ASSUME NEW l \in Legs, Return(l) PROVE TypeOK'
  BY <1>21 DEF Return
<1>22. ASSUME NEW l \in Legs, Settle(l) PROVE TypeOK'
  BY <1>22 DEF Settle, Settled, MemberOf
<1>23. ASSUME NEW l \in Legs, RingBell(l) PROVE TypeOK'
  <2>1. reports' \subseteq Members /\ faults' \in 0 .. MaxFaults
    BY <1>23, LegParts, ReportTyped DEF RingBell
  <2>2. job' \in [Jobs -> {"none", "pending", "claimed", "done", "dead"}]
        /\ leg' \in [Legs -> {"none", "gone"} \cup Alive]
    BY <1>23 DEF RingBell, Leave
  <2>3. QED
    BY <1>23, <2>1, <2>2 DEF RingBell
<1>24. ASSUME NEW l \in Legs, LeaveQuietly(l) PROVE TypeOK'
  BY <1>24 DEF LeaveQuietly, Leave, Holds, JobOf
<1>25. ASSUME NEW l \in Legs, Die(l) PROVE TypeOK'
  BY <1>25 DEF Die, Fault
<1>26. ASSUME NEW l \in Legs, Beat(l) PROVE TypeOK'
  BY <1>26 DEF Beat
<1>27. ASSUME NEW l \in Legs, StopWorker(l) PROVE TypeOK'
  BY <1>27 DEF StopWorker, Fault
<1>28. ASSUME NEW l \in Legs, CancelArrives(l) PROVE TypeOK'
  BY <1>28 DEF CancelArrives
<1>29. ASSUME NEW h \in Hands, ReadTally(h) PROVE TypeOK'
  BY <1>29 DEF ReadTally
<1>30. ASSUME NEW h \in Hands, Close(h) PROVE TypeOK'
  <2>1. wakes' \in 0 .. 1
    BY <1>30 DEF Close, First, JoinFacts
  <2>2. fleet' \in {"none", "running", "done", "cancelled"} /\ watched' \in BOOLEAN
        /\ counted' \subseteq Members
    BY <1>30 DEF Close, Forget
  <2>3. QED
    BY <1>30, <2>1, <2>2 DEF Close
<1>31. ASSUME NEW h \in Hands, Abandon(h) PROVE TypeOK'
  BY <1>31 DEF Abandon, Abandoned
<1>32. ASSUME NEW c \in Cards, Answer(c) PROVE TypeOK'
  BY <1>32 DEF Answer
<1>33. ASSUME NEW c \in Cards, ResumeFleetMember(c) PROVE TypeOK'
  BY <1>33 DEF ResumeFleetMember, Carried, Fault
<1>34. ASSUME NEW c \in Cards, ResumeFails(c) PROVE TypeOK'
  <2>1. c[1] \in Members
    BY CardParts
  <2>2. reports' \subseteq Members /\ faults' \in 0 .. MaxFaults
    BY <1>34, <2>1, ReportTyped DEF ResumeFails, SettleMember
  <2>3. del' \in [Members -> {"none", "running"} \cup Terminal]
    BY <1>34, <2>1 DEF ResumeFails, SettleMember, Settled
  <2>4. QED
    BY <1>34, <2>2, <2>3 DEF ResumeFails, SettleMember
<1>35. ASSUME NEW c \in Cards, CardExpires(c) PROVE TypeOK'
  BY <1>35 DEF CardExpires
<1>36. CASE UNCHANGED vars
  BY <1>36 DEF vars
<1>37. QED
  BY <1>1, <1>2, <1>3, <1>4, <1>5, <1>6, <1>7, <1>8, <1>9, <1>10, <1>11, <1>12, <1>13,
     <1>14, <1>15, <1>16, <1>17, <1>18, <1>19, <1>20, <1>21, <1>22, <1>23, <1>24, <1>25,
     <1>26, <1>27, <1>28, <1>29, <1>30, <1>31, <1>32, <1>33, <1>34, <1>35, <1>36
  DEF Next, LegStep, HandStep, CardStep

\* Every step keeps the invariant of the join.
LEMMA JoinStep ==
  ASSUME TypeOK, JoinFacts, [Next]_vars
  PROVE  JoinFacts'
<1> USE DEF TypeOK, JoinFacts, Tally, Terminal, rowVars, jobVars, startVars, trackVars, legVars
<1>1. CASE CreateFleet
  BY <1>1 DEF CreateFleet
<1>2. CASE CreateFleetMembers
  BY <1>2 DEF CreateFleetMembers
<1>3. CASE MembersUnwritten
  BY <1>3 DEF MembersUnwritten, Fault
<1>4. CASE Watch
  BY <1>4 DEF Watch
<1>5. CASE Dispatch
  BY <1>5 DEF Dispatch, Fault, RunsHere
<1>6. CASE SweepSettled
  BY <1>6 DEF SweepSettled
<1>7. CASE SweepOverdue
  BY <1>7 DEF SweepOverdue
<1>8. CASE TimeOut
  BY <1>8 DEF TimeOut, Forget
<1>9. CASE CancelMembers
  BY <1>9 DEF CancelMembers, Abandoned
<1>10. CASE CancelClose
  BY <1>10 DEF CancelClose, First
<1>11. CASE CancelLegs
  BY <1>11 DEF CancelLegs, Forget
<1>12. CASE DeadlinePasses
  BY <1>12 DEF DeadlinePasses
<1>13. CASE Restart
  BY <1>13 DEF Restart, Fault, Forget
<1>14. ASSUME NEW m \in Members, FailToStart(m) PROVE JoinFacts'
  BY <1>14 DEF FailToStart, SettleMember, Settled, Report, Fault
<1>15. ASSUME NEW m \in Members, OnReport(m) PROVE JoinFacts'
  BY <1>15 DEF OnReport, Forget, Idle
<1>16. ASSUME NEW j \in Jobs, Claim(j) PROVE JoinFacts'
  BY <1>16 DEF Claim, AttemptsOf
<1>17. ASSUME NEW j \in Jobs, Reclaim(j) PROVE JoinFacts'
  BY <1>17 DEF Reclaim, Returned, Fault, JobOf
<1>18. ASSUME NEW l \in Legs, Load(l) PROVE JoinFacts'
  BY <1>18 DEF Load, JobOf
<1>19. ASSUME NEW l \in Legs, LoadFails(l) PROVE JoinFacts'
  BY <1>19 DEF LoadFails, Fault, Returned, JobOf, Holds
<1>20. ASSUME NEW l \in Legs, Park(l) PROVE JoinFacts'
  BY <1>20 DEF Park
<1>21. ASSUME NEW l \in Legs, Return(l) PROVE JoinFacts'
  BY <1>21 DEF Return
<1>22. ASSUME NEW l \in Legs, Settle(l) PROVE JoinFacts'
  BY <1>22 DEF Settle, Settled, MemberOf
<1>23. ASSUME NEW l \in Legs, RingBell(l) PROVE JoinFacts'
  BY <1>23 DEF RingBell, Report, Fault, Leave, Holds, JobOf, MemberOf
<1>24. ASSUME NEW l \in Legs, LeaveQuietly(l) PROVE JoinFacts'
  BY <1>24 DEF LeaveQuietly, Leave, Holds, JobOf
<1>25. ASSUME NEW l \in Legs, Die(l) PROVE JoinFacts'
  BY <1>25 DEF Die, Fault
<1>26. ASSUME NEW l \in Legs, Beat(l) PROVE JoinFacts'
  BY <1>26 DEF Beat
<1>27. ASSUME NEW l \in Legs, StopWorker(l) PROVE JoinFacts'
  BY <1>27 DEF StopWorker, Fault
<1>28. ASSUME NEW l \in Legs, CancelArrives(l) PROVE JoinFacts'
  BY <1>28 DEF CancelArrives
<1>29. ASSUME NEW h \in Hands, ReadTally(h) PROVE JoinFacts'
  BY <1>29 DEF ReadTally
<1>30. ASSUME NEW h \in Hands, Close(h) PROVE JoinFacts'
  BY <1>30 DEF Close, First, Forget
<1>31. ASSUME NEW h \in Hands, Abandon(h) PROVE JoinFacts'
  BY <1>31 DEF Abandon, Abandoned
<1>32. ASSUME NEW c \in Cards, Answer(c) PROVE JoinFacts'
  BY <1>32 DEF Answer
<1>33. ASSUME NEW c \in Cards, ResumeFleetMember(c) PROVE JoinFacts'
  BY <1>33 DEF ResumeFleetMember, Carried, Fault
<1>34. ASSUME NEW c \in Cards, ResumeFails(c) PROVE JoinFacts'
  BY <1>34 DEF ResumeFails, SettleMember, Settled, Report, Fault
<1>35. ASSUME NEW c \in Cards, CardExpires(c) PROVE JoinFacts'
  BY <1>35 DEF CardExpires
<1>36. CASE UNCHANGED vars
  BY <1>36 DEF vars
<1>37. QED
  BY <1>1, <1>2, <1>3, <1>4, <1>5, <1>6, <1>7, <1>8, <1>9, <1>10, <1>11, <1>12, <1>13,
     <1>14, <1>15, <1>16, <1>17, <1>18, <1>19, <1>20, <1>21, <1>22, <1>23, <1>24, <1>25,
     <1>26, <1>27, <1>28, <1>29, <1>30, <1>31, <1>32, <1>33, <1>34, <1>35, <1>36
  DEF Next, LegStep, HandStep, CardStep

\* It holds at the beginning.
LEMMA JoinInit == Init => TypeOK /\ JoinFacts
<1> SUFFICES ASSUME Init PROVE TypeOK /\ JoinFacts
  OBVIOUS
<1>1. 0 \in 0 .. MaxDelegationAttempts /\ 0 \in 0 .. MaxFaults
  OBVIOUS
<1>2. TypeOK
  <2>1. tries \in [Jobs -> 0 .. MaxDelegationAttempts] /\ faults \in 0 .. MaxFaults
    BY <1>1 DEF Init
  <2>2. wakes \in 0 .. 1
    BY DEF Init
  <2>3. overdue \in BOOLEAN /\ watched \in BOOLEAN
    BY DEF Init
  <2>4. /\ unstarted \subseteq Members /\ counted \subseteq Members /\ reports \subseteq Members
        /\ ran \subseteq Legs
    BY DEF Init
  <2>5. /\ del \in [Members -> {"none", "running"} \cup Terminal]
        /\ card \in [Cards -> {"none", "open", "late", "answered"}]
        /\ job \in [Jobs -> {"none", "pending", "claimed", "done", "dead"}]
        /\ hand \in [Hands -> {"idle", "abandon", "read", "close"}]
        /\ step \in [Cards -> {"none", "resume", "settle"}]
    BY DEF Init
  <2>6. /\ leg \in [Legs -> {"none", "gone"} \cup Alive]
        /\ ctx \in [Legs -> {"live", "told", "cancelled"}]
    BY DEF Init
  <2>7. QED
    BY <2>1, <2>2, <2>3, <2>4, <2>5, <2>6 DEF Init, TypeOK
<1>3. JoinFacts
  BY DEF Init, JoinFacts
<1>4. QED
  BY <1>2, <1>3

\* The types and the invariant of the join hold in every reachable state.
THEOREM JoinInvariant == Spec => [](TypeOK /\ JoinFacts)
<1>1. Init => TypeOK /\ JoinFacts
  BY JoinInit
<1>2. TypeOK /\ JoinFacts /\ [Next]_vars => TypeOK' /\ JoinFacts'
  BY TypeStep, JoinStep
<1>3. QED
  BY <1>1, <1>2, PTL DEF Spec

\* Every variable of the fleet keeps its type, and no bound is ever exceeded.
THEOREM FleetTypeCorrect == Spec => []TypeOK
BY JoinInvariant, PTL

-----------------------------------------------------------------------------
(* The refinement of FleetJoin *)

\* FleetJoin sees the batch's row, its members' rows and the wakes, nothing else.
LEMMA Unseen ==
  ASSUME UNCHANGED <<fleet, del, wakes>>
  PROVE  UNCHANGED Join!vars
BY DEF Join!vars

\* CompleteDelegation is Bring, or nothing when the row was settled before.
LEMMA MemberSettled ==
  ASSUME TypeOK, JoinFacts, NEW m \in Members, NEW r \in Terminal,
         UNCHANGED <<fleet, wakes>>, del' = Settled(m, r)
  PROVE  [Join!Next]_(Join!vars)
<1>1. CASE del[m] = "running"
  <2>1. Join!Bring(m, r)
    BY <1>1 DEF Settled, Terminal, TypeOK, JoinFacts, Join!Bring
  <2>2. QED
    BY <2>1 DEF Join!Next, Terminal
<1>2. CASE del[m] # "running"
  <2>1. del' = del
    BY <1>2 DEF Settled, TypeOK
  <2>2. QED
    BY <2>1, Unseen
<1>3. QED
  BY <1>1, <1>2

\* Every step of the fleet is a step of FleetJoin, or none.
LEMMA JoinMove ==
  ASSUME TypeOK, JoinFacts, [Next]_vars
  PROVE  [Join!Next]_(Join!vars)
<1> USE DEF TypeOK, Terminal, rowVars
<1>1. CASE CreateFleet
  <2>1. Join!Start
    BY <1>1 DEF CreateFleet, JoinFacts, Join!Start
  <2>2. QED
    BY <2>1 DEF Join!Next
<1>2. CASE CreateFleetMembers
  <2>1. Join!Give
    BY <1>2 DEF CreateFleetMembers, JoinFacts, Join!Give
  <2>2. QED
    BY <2>1 DEF Join!Next
<1>3. CASE MembersUnwritten
  BY <1>3, Unseen DEF MembersUnwritten
<1>4. CASE Watch
  BY <1>4, Unseen DEF Watch
<1>5. CASE Dispatch
  BY <1>5, Unseen DEF Dispatch
<1>6. CASE SweepSettled
  BY <1>6, Unseen DEF SweepSettled
<1>7. CASE SweepOverdue
  BY <1>7, Unseen DEF SweepOverdue
<1>8. CASE TimeOut
  BY <1>8, Unseen DEF TimeOut
<1>9. CASE CancelMembers
  <2>1. Join!WriteOff
    BY <1>9 DEF CancelMembers, Abandoned, Join!WriteOff
  <2>2. QED
    BY <2>1 DEF Join!Next
<1>10. CASE CancelClose
  <2>1. Join!Cancel \/ UNCHANGED Join!vars
    BY <1>10 DEF CancelClose, First, JoinFacts, Join!Cancel, Join!NobodyOut, Join!vars
  <2>2. QED
    BY <2>1 DEF Join!Next
<1>11. CASE CancelLegs
  BY <1>11, Unseen DEF CancelLegs
<1>12. CASE DeadlinePasses
  BY <1>12, Unseen DEF DeadlinePasses
<1>13. CASE Restart
  BY <1>13, Unseen DEF Restart
<1>14. ASSUME NEW m \in Members, FailToStart(m) PROVE [Join!Next]_(Join!vars)
  <2>1. UNCHANGED <<fleet, wakes>> /\ del' = Settled(m, "failed")
    BY <1>14 DEF FailToStart, SettleMember
  <2>2. m \in Members /\ "failed" \in Terminal
    BY <1>14 DEF FailToStart
  <2>3. QED
    BY <2>1, <2>2, MemberSettled
<1>15. ASSUME NEW m \in Members, OnReport(m) PROVE [Join!Next]_(Join!vars)
  BY <1>15, Unseen DEF OnReport
<1>16. ASSUME NEW j \in Jobs, Claim(j) PROVE [Join!Next]_(Join!vars)
  BY <1>16, Unseen DEF Claim
<1>17. ASSUME NEW j \in Jobs, Reclaim(j) PROVE [Join!Next]_(Join!vars)
  BY <1>17, Unseen DEF Reclaim
<1>18. ASSUME NEW l \in Legs, Load(l) PROVE [Join!Next]_(Join!vars)
  BY <1>18, Unseen DEF Load
<1>19. ASSUME NEW l \in Legs, LoadFails(l) PROVE [Join!Next]_(Join!vars)
  BY <1>19, Unseen DEF LoadFails
<1>20. ASSUME NEW l \in Legs, Park(l) PROVE [Join!Next]_(Join!vars)
  BY <1>20, Unseen DEF Park
<1>21. ASSUME NEW l \in Legs, Return(l) PROVE [Join!Next]_(Join!vars)
  BY <1>21, Unseen DEF Return
<1>22. ASSUME NEW l \in Legs, Settle(l) PROVE [Join!Next]_(Join!vars)
  <2>1. UNCHANGED <<fleet, wakes>> /\ del' = Settled(MemberOf(l), leg[l])
    BY <1>22 DEF Settle
  <2>2. MemberOf(l) \in Members /\ leg[l] \in Terminal
    BY <1>22, LegParts DEF Settle
  <2>3. QED
    BY <2>1, <2>2, MemberSettled
<1>23. ASSUME NEW l \in Legs, RingBell(l) PROVE [Join!Next]_(Join!vars)
  BY <1>23, Unseen DEF RingBell
<1>24. ASSUME NEW l \in Legs, LeaveQuietly(l) PROVE [Join!Next]_(Join!vars)
  BY <1>24, Unseen DEF LeaveQuietly
<1>25. ASSUME NEW l \in Legs, Die(l) PROVE [Join!Next]_(Join!vars)
  BY <1>25, Unseen DEF Die
<1>26. ASSUME NEW l \in Legs, Beat(l) PROVE [Join!Next]_(Join!vars)
  BY <1>26, Unseen DEF Beat
<1>27. ASSUME NEW l \in Legs, StopWorker(l) PROVE [Join!Next]_(Join!vars)
  BY <1>27, Unseen DEF StopWorker
<1>28. ASSUME NEW l \in Legs, CancelArrives(l) PROVE [Join!Next]_(Join!vars)
  BY <1>28, Unseen DEF CancelArrives
<1>29. ASSUME NEW h \in Hands, ReadTally(h) PROVE [Join!Next]_(Join!vars)
  BY <1>29, Unseen DEF ReadTally
<1>30. ASSUME NEW h \in Hands, Close(h) PROVE [Join!Next]_(Join!vars)
  <2>1. Join!Close \/ UNCHANGED Join!vars
    BY <1>30 DEF Close, First, Tally, JoinFacts, Join!Close, Join!Back, Join!vars
  <2>2. QED
    BY <2>1 DEF Join!Next
<1>31. ASSUME NEW h \in Hands, Abandon(h) PROVE [Join!Next]_(Join!vars)
  <2>1. Join!WriteOff \/ UNCHANGED Join!vars
    BY <1>31 DEF Abandon, Abandoned, JoinFacts, Join!WriteOff, Join!vars
  <2>2. QED
    BY <2>1 DEF Join!Next
<1>32. ASSUME NEW c \in Cards, Answer(c) PROVE [Join!Next]_(Join!vars)
  BY <1>32, Unseen DEF Answer
<1>33. ASSUME NEW c \in Cards, ResumeFleetMember(c) PROVE [Join!Next]_(Join!vars)
  BY <1>33, Unseen DEF ResumeFleetMember
<1>34. ASSUME NEW c \in Cards, ResumeFails(c) PROVE [Join!Next]_(Join!vars)
  <2>1. UNCHANGED <<fleet, wakes>> /\ del' = Settled(c[1], "failed")
    BY <1>34 DEF ResumeFails, SettleMember
  <2>2. c[1] \in Members /\ "failed" \in Terminal
    BY <1>34, CardParts DEF ResumeFails
  <2>3. QED
    BY <2>1, <2>2, MemberSettled
<1>35. ASSUME NEW c \in Cards, CardExpires(c) PROVE [Join!Next]_(Join!vars)
  BY <1>35, Unseen DEF CardExpires
<1>36. CASE UNCHANGED vars
  BY <1>36, Unseen DEF vars
<1>37. QED
  BY <1>1, <1>2, <1>3, <1>4, <1>5, <1>6, <1>7, <1>8, <1>9, <1>10, <1>11, <1>12, <1>13,
     <1>14, <1>15, <1>16, <1>17, <1>18, <1>19, <1>20, <1>21, <1>22, <1>23, <1>24, <1>25,
     <1>26, <1>27, <1>28, <1>29, <1>30, <1>31, <1>32, <1>33, <1>34, <1>35, <1>36
  DEF Next, LegStep, HandStep, CardStep

\* The batch keeps FleetJoin's promise, however the reports, the sweep, the timer
\* and the cancellation race: no result is overwritten, the batch ends once and with
\* everybody accounted for, and the Gateway is woken at most once, never after a cancel.
THEOREM FleetKeepsThePromise == Spec => JoinIsKept
<1>1. Init => Join!Init
  BY DEF Init, Join!Init
<1>2. TypeOK /\ JoinFacts /\ [Next]_vars => [Join!Next]_(Join!vars)
  BY JoinMove
<1>3. QED
  BY JoinInvariant, <1>1, <1>2, PTL DEF Spec, JoinIsKept, Join!Spec

-----------------------------------------------------------------------------
(* An answer runs once *)

\* A leg that carries an answer is the first attempt of its job, whatever became
\* of it.
OnceFacts == \A l \in Legs : JobOf(l) \in Cards /\ (leg[l] # "none" \/ l \in ran) => l[3] = 1

\* The leg a claim begins.
ClaimedLeg(j) == <<j[1], j[2], tries[j] + 1>>

\* Every step keeps it: only a claim begins such a leg, and of a job never tried.
LEMMA OnceStep ==
  ASSUME TypeOK, OnceFacts, [Next]_vars
  PROVE  OnceFacts'
<1> USE DEF TypeOK, OnceFacts, jobVars, legVars, Alive, Terminal
<1>1. CASE CreateFleet
  BY <1>1 DEF CreateFleet
<1>2. CASE CreateFleetMembers
  BY <1>2 DEF CreateFleetMembers
<1>3. CASE MembersUnwritten
  BY <1>3 DEF MembersUnwritten, Fault
<1>4. CASE Watch
  BY <1>4 DEF Watch
<1>5. CASE Dispatch
  BY <1>5, CardParts, LegParts DEF Dispatch, Fault, RunsHere
<1>6. CASE SweepSettled
  BY <1>6 DEF SweepSettled
<1>7. CASE SweepOverdue
  BY <1>7 DEF SweepOverdue
<1>8. CASE TimeOut
  BY <1>8 DEF TimeOut, Forget
<1>9. CASE CancelMembers
  BY <1>9 DEF CancelMembers, Abandoned
<1>10. CASE CancelClose
  BY <1>10 DEF CancelClose, First
<1>11. CASE CancelLegs
  BY <1>11 DEF CancelLegs, Forget, RunsHere
<1>12. CASE DeadlinePasses
  BY <1>12 DEF DeadlinePasses
<1>13. CASE Restart
  BY <1>13 DEF Restart, Fault, Forget
<1>14. ASSUME NEW m \in Members, FailToStart(m) PROVE OnceFacts'
  BY <1>14 DEF FailToStart, SettleMember, Settled, Report, Fault
<1>15. ASSUME NEW m \in Members, OnReport(m) PROVE OnceFacts'
  BY <1>15 DEF OnReport, Forget, Idle
<1>16. ASSUME NEW j \in Jobs, Claim(j) PROVE OnceFacts'
  <2>1. j \in Cards => tries[j] + 1 = 1
    BY <1>16, CardParts DEF Claim, AttemptsOf
  <2>2. \A l \in Legs : leg'[l] # "none" => l = ClaimedLeg(j) \/ leg[l] # "none"
    BY <1>16 DEF Claim, ClaimedLeg
  <2>3. JobOf(ClaimedLeg(j)) = j /\ ClaimedLeg(j)[3] = tries[j] + 1
    BY JobParts DEF ClaimedLeg, JobOf
  <2>4. QED
    BY <1>16, <2>1, <2>2, <2>3 DEF Claim
<1>17. ASSUME NEW j \in Jobs, Reclaim(j) PROVE OnceFacts'
  BY <1>17 DEF Reclaim, Returned, Fault
<1>18. ASSUME NEW l \in Legs, Load(l) PROVE OnceFacts'
  BY <1>18 DEF Load
<1>19. ASSUME NEW l \in Legs, LoadFails(l) PROVE OnceFacts'
  BY <1>19 DEF LoadFails, Fault, Returned, Holds
<1>20. ASSUME NEW l \in Legs, Park(l) PROVE OnceFacts'
  BY <1>20 DEF Park
<1>21. ASSUME NEW l \in Legs, Return(l) PROVE OnceFacts'
  BY <1>21 DEF Return
<1>22. ASSUME NEW l \in Legs, Settle(l) PROVE OnceFacts'
  BY <1>22 DEF Settle, Settled, MemberOf
<1>23. ASSUME NEW l \in Legs, RingBell(l) PROVE OnceFacts'
  BY <1>23 DEF RingBell, Report, Fault, Leave, Holds
<1>24. ASSUME NEW l \in Legs, LeaveQuietly(l) PROVE OnceFacts'
  BY <1>24 DEF LeaveQuietly, Leave, Holds
<1>25. ASSUME NEW l \in Legs, Die(l) PROVE OnceFacts'
  BY <1>25 DEF Die, Fault
<1>26. ASSUME NEW l \in Legs, Beat(l) PROVE OnceFacts'
  BY <1>26 DEF Beat
<1>27. ASSUME NEW l \in Legs, StopWorker(l) PROVE OnceFacts'
  BY <1>27 DEF StopWorker, Fault
<1>28. ASSUME NEW l \in Legs, CancelArrives(l) PROVE OnceFacts'
  BY <1>28 DEF CancelArrives
<1>29. ASSUME NEW h \in Hands, ReadTally(h) PROVE OnceFacts'
  BY <1>29 DEF ReadTally
<1>30. ASSUME NEW h \in Hands, Close(h) PROVE OnceFacts'
  BY <1>30 DEF Close, First, Forget
<1>31. ASSUME NEW h \in Hands, Abandon(h) PROVE OnceFacts'
  BY <1>31 DEF Abandon, Abandoned
<1>32. ASSUME NEW c \in Cards, Answer(c) PROVE OnceFacts'
  BY <1>32 DEF Answer
<1>33. ASSUME NEW c \in Cards, ResumeFleetMember(c) PROVE OnceFacts'
  BY <1>33 DEF ResumeFleetMember, Carried, Fault
<1>34. ASSUME NEW c \in Cards, ResumeFails(c) PROVE OnceFacts'
  BY <1>34 DEF ResumeFails, SettleMember, Settled, Report, Fault
<1>35. ASSUME NEW c \in Cards, CardExpires(c) PROVE OnceFacts'
  BY <1>35 DEF CardExpires
<1>36. CASE UNCHANGED vars
  BY <1>36 DEF vars
<1>37. QED
  BY <1>1, <1>2, <1>3, <1>4, <1>5, <1>6, <1>7, <1>8, <1>9, <1>10, <1>11, <1>12, <1>13,
     <1>14, <1>15, <1>16, <1>17, <1>18, <1>19, <1>20, <1>21, <1>22, <1>23, <1>24, <1>25,
     <1>26, <1>27, <1>28, <1>29, <1>30, <1>31, <1>32, <1>33, <1>34, <1>35, <1>36
  DEF Next, LegStep, HandStep, CardStep

\* "the one outcome an approval must never produce": an answer is carried into an
\* agent at most once, whatever dies, stalls or is delivered again.
THEOREM DecisionRunsOnceHolds == Spec => []DecisionRunsOnce
<1>1. Init => OnceFacts
  BY DEF Init, OnceFacts
<1>2. TypeOK /\ OnceFacts /\ [Next]_vars => OnceFacts'
  BY OnceStep
<1>3. TypeOK /\ OnceFacts => DecisionRunsOnce
  <2> SUFFICES ASSUME TypeOK, OnceFacts, NEW c \in Cards
               PROVE  Cardinality({l \in ran : JobOf(l) = c}) <= 1
    BY DEF DecisionRunsOnce
  <2>1. ASSUME NEW l \in ran, JobOf(l) = c PROVE l = <<c[1], c[2], 1>>
    BY <2>1, LegParts DEF TypeOK, OnceFacts, JobOf
  <2>2. {l \in ran : JobOf(l) = c} \subseteq {<<c[1], c[2], 1>>}
    BY <2>1
  <2>3. IsFiniteSet({<<c[1], c[2], 1>>}) /\ Cardinality({<<c[1], c[2], 1>>}) = 1
    BY FS_Singleton
  <2>4. Cardinality({l \in ran : JobOf(l) = c}) <= Cardinality({<<c[1], c[2], 1>>})
    BY <2>2, <2>3, FS_Subset
  <2>5. QED
    BY <2>3, <2>4
<1>4. QED
  BY FleetTypeCorrect, <1>1, <1>2, <1>3, PTL DEF Spec

-----------------------------------------------------------------------------
(* A member that runs is expected *)

\* The parts of the invariant of a fleet nothing has gone wrong with.
\* Until its dispatch a batch has no job, no leg and no card.
NotYet ==
  start \in {"none", "row", "members", "watched"} =>
    /\ \A j \in Jobs : job[j] = "none"
    /\ \A l \in Legs : leg[l] = "none" /\ ctx[l] = "live"
    /\ \A c \in Cards : card[c] = "none" /\ step[c] = "none"

\* Its members' rows are written, and its dispatch does not fail.
Written ==
  /\ start # "failing"
  /\ start \in {"members", "watched", "over"} => \A m \in Members : del[m] # "none"

\* A member that reaches the person's computer has no job to run it.
LocalHasNoJob == \A j \in Jobs : j[2] = 0 /\ j[1] \in Local => job[j] = "none"

\* Whoever works on a member elsewhere holds its job.
WorkerHolds == \A l \in Legs : leg[l] \in Alive /\ ~RunsHere(l) => Holds(l)

\* A card has a job only once its answer was sent on.
CardOnce ==
  \A c \in Cards :
    /\ step[c] # "settle"
    /\ step[c] = "resume" => job[c] = "none"
    /\ card[c] # "answered" => step[c] = "none" /\ job[c] = "none"

\* Who rings the bell has settled the row, and nobody is stopped before it is.
RungIsOver == \A l \in Legs : leg[l] = "reporting" => del[MemberOf(l)] \in Terminal
StoppedIsOver == \A l \in Legs : ctx[l] # "live" => del[MemberOf(l)] # "running"

ExpectFacts ==
  /\ NotYet /\ Written /\ LocalHasNoJob /\ WorkerHolds /\ CardOnce /\ RungIsOver /\ StoppedIsOver

\* Who will bring a member back.
Underway(l) == leg[l] \in Alive \ {"reporting", "leaving"}
Expected(m) ==
  \/ \E j \in Jobs : j[1] = m /\ job[j] = "pending"
  \/ \E l \in Legs : MemberOf(l) = m /\ Underway(l)
  \/ \E c \in Cards : c[1] = m /\ (card[c] \in {"open", "late"} \/ step[c] = "resume")

EachExpected == \A m \in Members : start = "over" /\ del[m] = "running" => Expected(m)

FaultlessFacts == faults = 0 => ExpectFacts /\ EachExpected

\* A quiet step has no fault in it.
LEMMA NoFault ==
  ASSUME faults = 0, faults' = 0, NEW kind
  PROVE  ~Fault(kind)
BY DEF Fault

\* The steps of the join alone do not touch any of this.
LEMMA ExpectFrame ==
  ASSUME ExpectFacts, UNCHANGED <<start, del, card, job, tries, step, leg, ctx>>
  PROVE  ExpectFacts'
BY DEF ExpectFacts, NotYet, Written, LocalHasNoJob, WorkerHolds, CardOnce, RungIsOver,
     StoppedIsOver, Holds

\* A claim begins one leg, of the job it claims.
LEMMA ClaimLeg ==
  ASSUME TypeOK, NEW j \in Jobs, Claim(j)
  PROVE  /\ ClaimedLeg(j) \in Legs /\ JobOf(ClaimedLeg(j)) = j /\ MemberOf(ClaimedLeg(j)) = j[1]
         /\ leg' = [leg EXCEPT ![ClaimedLeg(j)] = "claimed"]
<1>1. tries[j] + 1 \in Attempts
  BY JobParts DEF TypeOK, Claim, Attempts
<1>2. QED
  BY <1>1, JobParts DEF Claim, ClaimedLeg, JobOf, MemberOf, Legs

\* Two workers cannot both hold a job ...
LEMMA OneHolder ==
  ASSUME WorkerHolds, NEW k \in Legs, NEW l \in Legs, leg[k] \in Alive, leg[l] \in Alive,
         ~RunsHere(k), JobOf(k) = JobOf(l)
  PROVE  k = l
<1>1. k[1] = l[1] /\ k[2] = l[2] /\ ~RunsHere(l)
  BY DEF JobOf, RunsHere
<1>2. k[3] = l[3]
  BY <1>1 DEF WorkerHolds, Holds
<1>3. QED
  BY <1>1, <1>2, LegParts

\* ... so that one of them may leave it.
LEMMA LeaveHolds ==
  ASSUME TypeOK, WorkerHolds, NEW l \in Legs, leg[l] \in Alive, Leave(l), UNCHANGED tries
  PROVE  WorkerHolds'
<1>1. ASSUME NEW k \in Legs, leg'[k] \in Alive, ~RunsHere(k) PROVE Holds(k)'
  <2>1. k # l /\ leg[k] \in Alive
    BY <1>1 DEF TypeOK, Leave, Alive
  <2>2. JobOf(k) # JobOf(l)
    BY <1>1, <2>1, OneHolder
  <2>3. QED
    BY <1>1, <2>1, <2>2, LegParts DEF TypeOK, WorkerHolds, Holds, Leave
<1>2. QED
  BY <1>1 DEF WorkerHolds, RunsHere

\* Every quiet step keeps the parts.
LEMMA ExpectFactsStep ==
  ASSUME TypeOK, JoinFacts, ExpectFacts, [Next]_vars, faults = 0, faults' = 0
  PROVE  ExpectFacts'
<1> USE DEF TypeOK, ExpectFacts, rowVars, jobVars, startVars, legVars, Alive, Terminal
<1>1. CASE CreateFleet
  <2>1. NotYet'
    BY <1>1 DEF CreateFleet, NotYet
  <2>2. Written'
    BY <1>1 DEF CreateFleet, Written
  <2>3. LocalHasNoJob' /\ WorkerHolds' /\ CardOnce' /\ RungIsOver' /\ StoppedIsOver'
    BY <1>1 DEF CreateFleet, LocalHasNoJob, WorkerHolds, RunsHere, Holds, CardOnce,
         RungIsOver, StoppedIsOver
  <2>4. QED
    BY <2>1, <2>2, <2>3 DEF ExpectFacts
<1>2. CASE CreateFleetMembers
  <2>1. NotYet'
    BY <1>2 DEF CreateFleetMembers, NotYet
  <2>2. Written'
    BY <1>2 DEF CreateFleetMembers, Written
  <2>3. RungIsOver'
    BY <1>2 DEF CreateFleetMembers, RungIsOver, NotYet
  <2>4. StoppedIsOver'
    BY <1>2 DEF CreateFleetMembers, StoppedIsOver, NotYet
  <2>5. LocalHasNoJob' /\ WorkerHolds' /\ CardOnce'
    BY <1>2 DEF CreateFleetMembers, LocalHasNoJob, WorkerHolds, RunsHere, Holds, CardOnce
  <2>6. QED
    BY <2>1, <2>2, <2>3, <2>4, <2>5 DEF ExpectFacts
<1>3. CASE MembersUnwritten
  BY <1>3, NoFault DEF MembersUnwritten
<1>4. CASE Watch
  <2>1. NotYet'
    BY <1>4 DEF Watch, NotYet
  <2>2. Written'
    BY <1>4 DEF Watch, Written
  <2>3. LocalHasNoJob' /\ WorkerHolds' /\ CardOnce' /\ RungIsOver' /\ StoppedIsOver'
    BY <1>4 DEF Watch, LocalHasNoJob, WorkerHolds, RunsHere, Holds, CardOnce, RungIsOver,
         StoppedIsOver
  <2>4. QED
    BY <2>1, <2>2, <2>3 DEF ExpectFacts
<1>5. CASE Dispatch
  <2>1. NotYet'
    BY <1>5 DEF Dispatch, NotYet, Fault, RunsHere
  <2>2. Written'
    BY <1>5 DEF Dispatch, Written, Fault, RunsHere
  <2>3. LocalHasNoJob'
    BY <1>5 DEF Dispatch, LocalHasNoJob, Fault, RunsHere
  <2>4. WorkerHolds'
    BY <1>5, LegParts DEF Dispatch, WorkerHolds, RunsHere, Holds, Fault, NotYet
  <2>5. CardOnce'
    BY <1>5, CardParts DEF Dispatch, CardOnce, Fault, RunsHere, NotYet
  <2>6. RungIsOver'
    BY <1>5 DEF Dispatch, RungIsOver, Fault, RunsHere, NotYet
  <2>7. StoppedIsOver'
    BY <1>5 DEF Dispatch, StoppedIsOver
  <2>8. QED
    BY <2>1, <2>2, <2>3, <2>4, <2>5, <2>6, <2>7 DEF ExpectFacts
<1>6. CASE SweepSettled
  BY <1>6, ExpectFrame DEF SweepSettled
<1>7. CASE SweepOverdue
  BY <1>7, ExpectFrame DEF SweepOverdue
<1>8. CASE TimeOut
  BY <1>8, ExpectFrame DEF TimeOut
<1>9. CASE CancelMembers
  <2>1. Written'
    BY <1>9 DEF CancelMembers, Written, Abandoned
  <2>2. RungIsOver'
    BY <1>9, LegParts DEF CancelMembers, RungIsOver, Abandoned
  <2>3. StoppedIsOver'
    BY <1>9, LegParts DEF CancelMembers, StoppedIsOver, Abandoned, MemberOf
  <2>4. NotYet' /\ LocalHasNoJob' /\ WorkerHolds' /\ CardOnce'
    BY <1>9 DEF CancelMembers, NotYet, LocalHasNoJob, WorkerHolds, RunsHere, Holds, CardOnce
  <2>5. QED
    BY <2>1, <2>2, <2>3, <2>4 DEF ExpectFacts
<1>10. CASE CancelClose
  BY <1>10, ExpectFrame DEF CancelClose
<1>11. CASE CancelLegs
  <2>1. NotYet'
    BY <1>11 DEF CancelLegs, NotYet, Forget, RunsHere
  <2>2. StoppedIsOver'
    <3>1. \A m \in Members : del[m] # "running" /\ del'[m] = del[m]
      BY <1>11 DEF CancelLegs, JoinFacts
    <3>2. QED
      BY <3>1, LegParts DEF StoppedIsOver
  <2>3. Written' /\ LocalHasNoJob' /\ WorkerHolds' /\ CardOnce' /\ RungIsOver'
    BY <1>11 DEF CancelLegs, Written, LocalHasNoJob, WorkerHolds, RunsHere, Holds, CardOnce,
         RungIsOver
  <2>4. QED
    BY <2>1, <2>2, <2>3 DEF ExpectFacts
<1>12. CASE DeadlinePasses
  BY <1>12, ExpectFrame DEF DeadlinePasses
<1>13. CASE Restart
  BY <1>13, NoFault DEF Restart
<1>14. ASSUME NEW m \in Members, FailToStart(m) PROVE ExpectFacts'
  <2>1. FALSE
    BY <1>14 DEF FailToStart, Written
  <2>2. QED
    BY <2>1
<1>15. ASSUME NEW m \in Members, OnReport(m) PROVE ExpectFacts'
  BY <1>15, ExpectFrame DEF OnReport
<1>16. ASSUME NEW j \in Jobs, Claim(j) PROVE ExpectFacts'
  <2>1. NotYet'
    BY <1>16 DEF Claim, NotYet
  <2>2. LocalHasNoJob'
    BY <1>16 DEF Claim, LocalHasNoJob
  <2>3. WorkerHolds'
    <3>1. ClaimedLeg(j) \in Legs /\ JobOf(ClaimedLeg(j)) = j
          /\ leg' = [leg EXCEPT ![ClaimedLeg(j)] = "claimed"]
      BY <1>16, ClaimLeg
    <3>2. job' = [job EXCEPT ![j] = "claimed"] /\ tries' = [tries EXCEPT ![j] = @ + 1]
          /\ job[j] = "pending"
      BY <1>16 DEF Claim
    <3>3. ASSUME NEW l \in Legs, leg'[l] \in Alive, ~RunsHere(l) PROVE Holds(l)'
      <4>1. CASE l = ClaimedLeg(j)
        BY <4>1, <3>1, <3>2 DEF Holds, ClaimedLeg
      <4>2. CASE l # ClaimedLeg(j)
        BY <4>2, <3>1, <3>2, <3>3, LegParts DEF Holds, WorkerHolds
      <4>3. QED
        BY <4>1, <4>2
    <3>4. QED
      BY <3>3 DEF WorkerHolds, RunsHere
  <2>4. CardOnce'
    <3>1. job' = [job EXCEPT ![j] = "claimed"] /\ UNCHANGED <<card, step>> /\ job[j] = "pending"
      BY <1>16 DEF Claim
    <3>2. QED
      BY <3>1, CardParts DEF CardOnce
  <2>5. RungIsOver'
    BY <1>16 DEF Claim, RungIsOver
  <2>6. Written' /\ StoppedIsOver'
    BY <1>16 DEF Claim, Written, StoppedIsOver
  <2>7. QED
    BY <2>1, <2>2, <2>3, <2>4, <2>5, <2>6 DEF ExpectFacts
<1>17. ASSUME NEW j \in Jobs, Reclaim(j) PROVE ExpectFacts'
  <2>1. NotYet'
    BY <1>17 DEF Reclaim, NotYet, Returned, Fault
  <2>2. LocalHasNoJob'
    BY <1>17 DEF Reclaim, LocalHasNoJob, Returned, Fault
  <2>3. WorkerHolds'
    <3>1. job' = [job EXCEPT ![j] = Returned(j)[j]] /\ UNCHANGED <<leg, tries>>
      BY <1>17 DEF Reclaim, Returned
    <3>2. \A l \in Legs : JobOf(l) = j => leg[l] \notin Alive
      BY <1>17, NoFault DEF Reclaim
    <3>3. QED
      BY <3>1, <3>2, LegParts DEF WorkerHolds, Holds, RunsHere
  <2>4. CardOnce'
    BY <1>17, CardParts DEF Reclaim, CardOnce, Returned, Fault
  <2>5. Written' /\ RungIsOver' /\ StoppedIsOver'
    BY <1>17 DEF Reclaim, Written, RungIsOver, StoppedIsOver
  <2>6. QED
    BY <2>1, <2>2, <2>3, <2>4, <2>5 DEF ExpectFacts
<1>18. ASSUME NEW l \in Legs, Load(l) PROVE ExpectFacts'
  <2>1. NotYet'
    BY <1>18 DEF Load, NotYet
  <2>2. WorkerHolds'
    BY <1>18 DEF Load, WorkerHolds, RunsHere, Holds
  <2>3. RungIsOver'
    BY <1>18, LegParts DEF Load, RungIsOver
  <2>4. Written' /\ LocalHasNoJob' /\ CardOnce' /\ StoppedIsOver'
    BY <1>18 DEF Load, Written, LocalHasNoJob, CardOnce, StoppedIsOver
  <2>5. QED
    BY <2>1, <2>2, <2>3, <2>4 DEF ExpectFacts
<1>19. ASSUME NEW l \in Legs, LoadFails(l) PROVE ExpectFacts'
  BY <1>19, NoFault DEF LoadFails
<1>20. ASSUME NEW l \in Legs, Park(l) PROVE ExpectFacts'
  <2>1. NotYet'
    BY <1>20 DEF Park, NotYet
  <2>2. WorkerHolds'
    BY <1>20 DEF Park, WorkerHolds, RunsHere, Holds
  <2>3. CardOnce'
    BY <1>20, CardParts DEF Park, CardOnce
  <2>4. RungIsOver'
    BY <1>20 DEF Park, RungIsOver
  <2>5. Written' /\ LocalHasNoJob' /\ StoppedIsOver'
    BY <1>20 DEF Park, Written, LocalHasNoJob, StoppedIsOver
  <2>6. QED
    BY <2>1, <2>2, <2>3, <2>4, <2>5 DEF ExpectFacts
<1>21. ASSUME NEW l \in Legs, Return(l) PROVE ExpectFacts'
  <2>1. NotYet'
    BY <1>21 DEF Return, NotYet
  <2>2. WorkerHolds'
    BY <1>21 DEF Return, WorkerHolds, RunsHere, Holds
  <2>3. RungIsOver'
    BY <1>21 DEF Return, RungIsOver
  <2>4. Written' /\ LocalHasNoJob' /\ CardOnce' /\ StoppedIsOver'
    BY <1>21 DEF Return, Written, LocalHasNoJob, CardOnce, StoppedIsOver
  <2>5. QED
    BY <2>1, <2>2, <2>3, <2>4 DEF ExpectFacts
<1>22. ASSUME NEW l \in Legs, Settle(l) PROVE ExpectFacts'
  <2>1. NotYet'
    BY <1>22 DEF Settle, NotYet, Settled, MemberOf
  <2>2. Written'
    BY <1>22 DEF Settle, Written, Settled, MemberOf
  <2>3. WorkerHolds'
    BY <1>22 DEF Settle, WorkerHolds, RunsHere, Holds, Settled, MemberOf
  <2>4. RungIsOver'
    BY <1>22, LegParts DEF Settle, RungIsOver, Settled, MemberOf, NotYet, Written
  <2>5. StoppedIsOver'
    BY <1>22, LegParts DEF Settle, StoppedIsOver, Settled, MemberOf
  <2>6. LocalHasNoJob' /\ CardOnce'
    BY <1>22 DEF Settle, LocalHasNoJob, CardOnce
  <2>7. QED
    BY <2>1, <2>2, <2>3, <2>4, <2>5, <2>6 DEF ExpectFacts
<1>23. ASSUME NEW l \in Legs, RingBell(l) PROVE ExpectFacts'
  <2>1. NotYet'
    BY <1>23 DEF RingBell, NotYet, Report, Fault, Leave, Holds
  <2>2. LocalHasNoJob'
    BY <1>23 DEF RingBell, LocalHasNoJob, Report, Fault, Leave, Holds
  <2>3. WorkerHolds'
    BY <1>23, LeaveHolds DEF RingBell
  <2>4. CardOnce'
    BY <1>23, LegParts, CardParts DEF RingBell, CardOnce, Report, Fault, Leave, Holds
  <2>5. RungIsOver'
    BY <1>23 DEF RingBell, RungIsOver, Report, Fault, Leave, Holds
  <2>6. Written' /\ StoppedIsOver'
    BY <1>23 DEF RingBell, Written, StoppedIsOver
  <2>7. QED
    BY <2>1, <2>2, <2>3, <2>4, <2>5, <2>6 DEF ExpectFacts
<1>24. ASSUME NEW l \in Legs, LeaveQuietly(l) PROVE ExpectFacts'
  <2>1. NotYet'
    BY <1>24 DEF LeaveQuietly, NotYet, Leave, Holds
  <2>2. LocalHasNoJob'
    BY <1>24 DEF LeaveQuietly, LocalHasNoJob, Leave, Holds
  <2>3. WorkerHolds'
    BY <1>24, LeaveHolds DEF LeaveQuietly
  <2>4. CardOnce'
    BY <1>24, LegParts, CardParts DEF LeaveQuietly, CardOnce, Leave, Holds
  <2>5. RungIsOver'
    BY <1>24 DEF LeaveQuietly, RungIsOver, Leave, Holds
  <2>6. Written' /\ StoppedIsOver'
    BY <1>24 DEF LeaveQuietly, Written, StoppedIsOver
  <2>7. QED
    BY <2>1, <2>2, <2>3, <2>4, <2>5, <2>6 DEF ExpectFacts
<1>25. ASSUME NEW l \in Legs, Die(l) PROVE ExpectFacts'
  BY <1>25, NoFault DEF Die
<1>26. ASSUME NEW l \in Legs, Beat(l) PROVE ExpectFacts'
  <2>1. NotYet'
    BY <1>26 DEF Beat, NotYet
  <2>2. StoppedIsOver'
    BY <1>26 DEF Beat, StoppedIsOver, WorkerHolds, RunsHere, Holds
  <2>3. Written' /\ LocalHasNoJob' /\ WorkerHolds' /\ CardOnce' /\ RungIsOver'
    BY <1>26 DEF Beat, Written, LocalHasNoJob, WorkerHolds, RunsHere, Holds, CardOnce,
         RungIsOver
  <2>4. QED
    BY <2>1, <2>2, <2>3 DEF ExpectFacts
<1>27. ASSUME NEW l \in Legs, StopWorker(l) PROVE ExpectFacts'
  BY <1>27, NoFault DEF StopWorker
<1>28. ASSUME NEW l \in Legs, CancelArrives(l) PROVE ExpectFacts'
  <2>1. NotYet'
    BY <1>28 DEF CancelArrives, NotYet
  <2>2. StoppedIsOver'
    BY <1>28 DEF CancelArrives, StoppedIsOver
  <2>3. Written' /\ LocalHasNoJob' /\ WorkerHolds' /\ CardOnce' /\ RungIsOver'
    BY <1>28 DEF CancelArrives, Written, LocalHasNoJob, WorkerHolds, RunsHere, Holds,
         CardOnce, RungIsOver
  <2>4. QED
    BY <2>1, <2>2, <2>3 DEF ExpectFacts
<1>29. ASSUME NEW h \in Hands, ReadTally(h) PROVE ExpectFacts'
  BY <1>29, ExpectFrame DEF ReadTally
<1>30. ASSUME NEW h \in Hands, Close(h) PROVE ExpectFacts'
  BY <1>30, ExpectFrame DEF Close
<1>31. ASSUME NEW h \in Hands, Abandon(h) PROVE ExpectFacts'
  <2>1. Written'
    BY <1>31 DEF Abandon, Written, Abandoned
  <2>2. RungIsOver'
    BY <1>31, LegParts DEF Abandon, RungIsOver, Abandoned
  <2>3. StoppedIsOver'
    BY <1>31, LegParts DEF Abandon, StoppedIsOver, Abandoned
  <2>4. NotYet' /\ LocalHasNoJob' /\ WorkerHolds' /\ CardOnce'
    BY <1>31 DEF Abandon, NotYet, LocalHasNoJob, WorkerHolds, RunsHere, Holds, CardOnce
  <2>5. QED
    BY <2>1, <2>2, <2>3, <2>4 DEF ExpectFacts
<1>32. ASSUME NEW c \in Cards, Answer(c) PROVE ExpectFacts'
  <2>1. NotYet'
    BY <1>32 DEF Answer, NotYet
  <2>2. CardOnce'
    BY <1>32 DEF Answer, CardOnce
  <2>3. Written' /\ LocalHasNoJob' /\ WorkerHolds' /\ RungIsOver' /\ StoppedIsOver'
    BY <1>32 DEF Answer, Written, LocalHasNoJob, WorkerHolds, RunsHere, Holds, RungIsOver,
         StoppedIsOver
  <2>4. QED
    BY <2>1, <2>2, <2>3 DEF ExpectFacts
<1>33. ASSUME NEW c \in Cards, ResumeFleetMember(c) PROVE ExpectFacts'
  <2>1. NotYet'
    BY <1>33, NoFault DEF ResumeFleetMember, NotYet, Carried, Fault
  <2>2. LocalHasNoJob'
    BY <1>33, NoFault, CardParts DEF ResumeFleetMember, LocalHasNoJob, Carried, Fault
  <2>3. WorkerHolds'
    <3>1. job' = [job EXCEPT ![c] = "pending"] /\ UNCHANGED <<leg, tries>> /\ job[c] = "none"
      BY <1>33, NoFault DEF ResumeFleetMember, Carried, CardOnce
    <3>2. QED
      BY <3>1, LegParts DEF WorkerHolds, Holds, RunsHere
  <2>4. CardOnce'
    BY <1>33, NoFault, CardParts DEF ResumeFleetMember, CardOnce, Carried, Fault
  <2>5. Written' /\ RungIsOver' /\ StoppedIsOver'
    BY <1>33 DEF ResumeFleetMember, Written, RungIsOver, StoppedIsOver
  <2>6. QED
    BY <2>1, <2>2, <2>3, <2>4, <2>5 DEF ExpectFacts
<1>34. ASSUME NEW c \in Cards, ResumeFails(c) PROVE ExpectFacts'
  <2>1. FALSE
    BY <1>34 DEF ResumeFails, CardOnce
  <2>2. QED
    BY <2>1
<1>35. ASSUME NEW c \in Cards, CardExpires(c) PROVE ExpectFacts'
  <2>1. NotYet'
    BY <1>35 DEF CardExpires, NotYet
  <2>2. CardOnce'
    BY <1>35 DEF CardExpires, CardOnce
  <2>3. Written' /\ LocalHasNoJob' /\ WorkerHolds' /\ RungIsOver' /\ StoppedIsOver'
    BY <1>35 DEF CardExpires, Written, LocalHasNoJob, WorkerHolds, RunsHere, Holds,
         RungIsOver, StoppedIsOver
  <2>4. QED
    BY <2>1, <2>2, <2>3 DEF ExpectFacts
<1>36. CASE UNCHANGED vars
  BY <1>36, ExpectFrame DEF vars
<1>37. QED
  BY <1>1, <1>2, <1>3, <1>4, <1>5, <1>6, <1>7, <1>8, <1>9, <1>10, <1>11, <1>12, <1>13,
     <1>14, <1>15, <1>16, <1>17, <1>18, <1>19, <1>20, <1>21, <1>22, <1>23, <1>24, <1>25,
     <1>26, <1>27, <1>28, <1>29, <1>30, <1>31, <1>32, <1>33, <1>34, <1>35, <1>36
  DEF Next, LegStep, HandStep, CardStep

\* A fault is never taken back.
LEMMA FaultsGrow ==
  ASSUME TypeOK, [Next]_vars
  PROVE  faults' >= faults
<1> USE DEF TypeOK, Fault, rowVars, jobVars, startVars, trackVars, legVars
<1>1. CASE CreateFleet
  BY <1>1 DEF CreateFleet
<1>2. CASE CreateFleetMembers
  BY <1>2 DEF CreateFleetMembers
<1>3. CASE MembersUnwritten
  BY <1>3 DEF MembersUnwritten
<1>4. CASE Watch
  BY <1>4 DEF Watch
<1>5. CASE Dispatch
  BY <1>5 DEF Dispatch
<1>6. CASE SweepSettled
  BY <1>6 DEF SweepSettled
<1>7. CASE SweepOverdue
  BY <1>7 DEF SweepOverdue
<1>8. CASE TimeOut
  BY <1>8 DEF TimeOut
<1>9. CASE CancelMembers
  BY <1>9 DEF CancelMembers
<1>10. CASE CancelClose
  BY <1>10 DEF CancelClose
<1>11. CASE CancelLegs
  BY <1>11 DEF CancelLegs
<1>12. CASE DeadlinePasses
  BY <1>12 DEF DeadlinePasses
<1>13. CASE Restart
  BY <1>13 DEF Restart
<1>14. ASSUME NEW m \in Members, FailToStart(m) PROVE faults' >= faults
  BY <1>14 DEF FailToStart, SettleMember, Report
<1>15. ASSUME NEW m \in Members, OnReport(m) PROVE faults' >= faults
  BY <1>15 DEF OnReport
<1>16. ASSUME NEW j \in Jobs, Claim(j) PROVE faults' >= faults
  BY <1>16 DEF Claim
<1>17. ASSUME NEW j \in Jobs, Reclaim(j) PROVE faults' >= faults
  BY <1>17 DEF Reclaim
<1>18. ASSUME NEW l \in Legs, Load(l) PROVE faults' >= faults
  BY <1>18 DEF Load
<1>19. ASSUME NEW l \in Legs, LoadFails(l) PROVE faults' >= faults
  BY <1>19 DEF LoadFails
<1>20. ASSUME NEW l \in Legs, Park(l) PROVE faults' >= faults
  BY <1>20 DEF Park
<1>21. ASSUME NEW l \in Legs, Return(l) PROVE faults' >= faults
  BY <1>21 DEF Return
<1>22. ASSUME NEW l \in Legs, Settle(l) PROVE faults' >= faults
  BY <1>22 DEF Settle
<1>23. ASSUME NEW l \in Legs, RingBell(l) PROVE faults' >= faults
  BY <1>23 DEF RingBell, Report
<1>24. ASSUME NEW l \in Legs, LeaveQuietly(l) PROVE faults' >= faults
  BY <1>24 DEF LeaveQuietly
<1>25. ASSUME NEW l \in Legs, Die(l) PROVE faults' >= faults
  BY <1>25 DEF Die
<1>26. ASSUME NEW l \in Legs, Beat(l) PROVE faults' >= faults
  BY <1>26 DEF Beat
<1>27. ASSUME NEW l \in Legs, StopWorker(l) PROVE faults' >= faults
  BY <1>27 DEF StopWorker
<1>28. ASSUME NEW l \in Legs, CancelArrives(l) PROVE faults' >= faults
  BY <1>28 DEF CancelArrives
<1>29. ASSUME NEW h \in Hands, ReadTally(h) PROVE faults' >= faults
  BY <1>29 DEF ReadTally
<1>30. ASSUME NEW h \in Hands, Close(h) PROVE faults' >= faults
  BY <1>30 DEF Close
<1>31. ASSUME NEW h \in Hands, Abandon(h) PROVE faults' >= faults
  BY <1>31 DEF Abandon
<1>32. ASSUME NEW c \in Cards, Answer(c) PROVE faults' >= faults
  BY <1>32 DEF Answer
<1>33. ASSUME NEW c \in Cards, ResumeFleetMember(c) PROVE faults' >= faults
  BY <1>33 DEF ResumeFleetMember
<1>34. ASSUME NEW c \in Cards, ResumeFails(c) PROVE faults' >= faults
  BY <1>34 DEF ResumeFails, SettleMember, Report
<1>35. ASSUME NEW c \in Cards, CardExpires(c) PROVE faults' >= faults
  BY <1>35 DEF CardExpires
<1>36. CASE UNCHANGED vars
  BY <1>36 DEF vars
<1>37. QED
  BY <1>1, <1>2, <1>3, <1>4, <1>5, <1>6, <1>7, <1>8, <1>9, <1>10, <1>11, <1>12, <1>13,
     <1>14, <1>15, <1>16, <1>17, <1>18, <1>19, <1>20, <1>21, <1>22, <1>23, <1>24, <1>25,
     <1>26, <1>27, <1>28, <1>29, <1>30, <1>31, <1>32, <1>33, <1>34, <1>35, <1>36
  DEF Next, LegStep, HandStep, CardStep

\* Every quiet step leaves somebody who will bring a running member back.
LEMMA EachExpectedStep ==
  ASSUME TypeOK, JoinFacts, ExpectFacts, EachExpected, [Next]_vars, faults = 0, faults' = 0
  PROVE  EachExpected'
<1> USE DEF TypeOK, ExpectFacts, EachExpected, Expected, Underway, rowVars, jobVars,
     startVars, legVars, Alive, Terminal
<1>1. CASE CreateFleet
  BY <1>1 DEF CreateFleet
<1>2. CASE CreateFleetMembers
  BY <1>2 DEF CreateFleetMembers
<1>3. CASE MembersUnwritten
  BY <1>3 DEF MembersUnwritten, Fault
<1>4. CASE Watch
  BY <1>4 DEF Watch
<1>5. CASE Dispatch
  <2>1. /\ leg' = [l \in Legs |-> IF RunsHere(l) /\ l[3] = 1 THEN "claimed" ELSE leg[l]]
        /\ job' = [j \in Jobs |-> IF j[2] = 0 /\ j[1] \notin Local THEN "pending" ELSE job[j]]
    BY <1>5, NoFault DEF Dispatch
  <2>2. ASSUME NEW m \in Members, m \in Local PROVE Expected(m)'
    <3>1. <<m, 0, 1>> \in Legs /\ MemberOf(<<m, 0, 1>>) = m
      <4>1. <<m, 0>> \in Jobs /\ 1 \in Attempts
        BY DEF Jobs, Attempts
      <4>2. <<m, 0, 1>> = <<(<<m, 0>>)[1], (<<m, 0>>)[2], 1>>
        OBVIOUS
      <4>3. QED
        BY <4>1, <4>2 DEF Legs, MemberOf
    <3>2. leg'[<<m, 0, 1>>] = "claimed"
      BY <2>1, <2>2, <3>1 DEF RunsHere
    <3>3. QED
      BY <3>1, <3>2
  <2>3. ASSUME NEW m \in Members, m \notin Local PROVE Expected(m)'
    <3>1. <<m, 0>> \in Jobs /\ job'[<<m, 0>>] = "pending"
      BY <2>1, <2>3 DEF Jobs
    <3>2. QED
      BY <3>1
  <2>4. QED
    BY <2>2, <2>3
<1>6. CASE SweepSettled
  BY <1>6 DEF SweepSettled
<1>7. CASE SweepOverdue
  BY <1>7 DEF SweepOverdue
<1>8. CASE TimeOut
  BY <1>8 DEF TimeOut, Forget
<1>9. CASE CancelMembers
  BY <1>9 DEF CancelMembers, Abandoned
<1>10. CASE CancelClose
  BY <1>10 DEF CancelClose, First
<1>11. CASE CancelLegs
  BY <1>11, JobParts, LegParts, CardParts DEF CancelLegs, Forget, RunsHere
<1>12. CASE DeadlinePasses
  BY <1>12 DEF DeadlinePasses
<1>13. CASE Restart
  BY <1>13 DEF Restart, Fault, Forget
<1>14. ASSUME NEW m \in Members, FailToStart(m) PROVE EachExpected'
  BY <1>14 DEF FailToStart, Written
<1>15. ASSUME NEW m \in Members, OnReport(m) PROVE EachExpected'
  BY <1>15 DEF OnReport, Forget, Idle
<1>16. ASSUME NEW j \in Jobs, Claim(j) PROVE EachExpected'
  <2>1. /\ ClaimedLeg(j) \in Legs /\ MemberOf(ClaimedLeg(j)) = j[1]
        /\ leg' = [leg EXCEPT ![ClaimedLeg(j)] = "claimed"]
    BY <1>16, ClaimLeg
  <2>2. \A i \in Jobs : job[i] = "pending" => i = j \/ job'[i] = "pending"
    BY <1>16 DEF Claim
  <2>3. \A l \in Legs : Underway(l) => Underway(l)'
    BY <2>1
  <2>4. UNCHANGED <<start, del, card, step>>
    BY <1>16 DEF Claim
  <2>5. leg'[ClaimedLeg(j)] = "claimed"
    BY <2>1
  <2>6. QED
    BY <2>1, <2>2, <2>3, <2>4, <2>5
<1>17. ASSUME NEW j \in Jobs, Reclaim(j) PROVE EachExpected'
  BY <1>17, JobParts, LegParts, CardParts DEF Reclaim, Returned, Fault
<1>18. ASSUME NEW l \in Legs, Load(l) PROVE EachExpected'
  <2>1. del[MemberOf(l)] = "running" => Underway(l)'
    BY <1>18 DEF Load
  <2>2. \A k \in Legs : k # l => leg'[k] = leg[k]
    BY <1>18 DEF Load
  <2>3. UNCHANGED <<start, del, job, card, step>>
    BY <1>18 DEF Load
  <2>4. QED
    BY <2>1, <2>2, <2>3
<1>19. ASSUME NEW l \in Legs, LoadFails(l) PROVE EachExpected'
  BY <1>19 DEF LoadFails, Fault, Returned, Holds
<1>20. ASSUME NEW l \in Legs, Park(l) PROVE EachExpected'
  <2>1. \E c \in Cards : c[1] = MemberOf(l) /\ card'[c] = "open"
    BY <1>20 DEF Park
  <2>2. \A c \in Cards : card[c] # "none" => card'[c] = card[c] \/ card'[c] = "open"
    BY <1>20 DEF Park
  <2>3. \A k \in Legs : k # l => leg'[k] = leg[k]
    BY <1>20 DEF Park
  <2>4. UNCHANGED <<start, del, job, step>>
    BY <1>20 DEF Park
  <2>5. QED
    BY <2>1, <2>2, <2>3, <2>4
<1>21. ASSUME NEW l \in Legs, Return(l) PROVE EachExpected'
  <2>1. del[MemberOf(l)] = "running" => Underway(l)'
    BY <1>21 DEF Return, StoppedIsOver
  <2>2. \A k \in Legs : k # l => leg'[k] = leg[k]
    BY <1>21 DEF Return
  <2>3. UNCHANGED <<start, del, job, card, step>>
    BY <1>21 DEF Return
  <2>4. QED
    BY <2>1, <2>2, <2>3
<1>22. ASSUME NEW l \in Legs, Settle(l) PROVE EachExpected'
  BY <1>22, JobParts, LegParts, CardParts DEF Settle, Settled, MemberOf
<1>23. ASSUME NEW l \in Legs, RingBell(l) PROVE EachExpected'
  BY <1>23, JobParts, LegParts, CardParts DEF RingBell, Report, Fault, Leave, Holds
<1>24. ASSUME NEW l \in Legs, LeaveQuietly(l) PROVE EachExpected'
  BY <1>24, JobParts, LegParts, CardParts DEF LeaveQuietly, Leave, Holds
<1>25. ASSUME NEW l \in Legs, Die(l) PROVE EachExpected'
  BY <1>25 DEF Die, Fault
<1>26. ASSUME NEW l \in Legs, Beat(l) PROVE EachExpected'
  BY <1>26, JobParts, LegParts, CardParts DEF Beat
<1>27. ASSUME NEW l \in Legs, StopWorker(l) PROVE EachExpected'
  BY <1>27 DEF StopWorker, Fault
<1>28. ASSUME NEW l \in Legs, CancelArrives(l) PROVE EachExpected'
  BY <1>28, JobParts, LegParts, CardParts DEF CancelArrives
<1>29. ASSUME NEW h \in Hands, ReadTally(h) PROVE EachExpected'
  BY <1>29 DEF ReadTally
<1>30. ASSUME NEW h \in Hands, Close(h) PROVE EachExpected'
  BY <1>30 DEF Close, First, Forget
<1>31. ASSUME NEW h \in Hands, Abandon(h) PROVE EachExpected'
  BY <1>31 DEF Abandon, Abandoned
<1>32. ASSUME NEW c \in Cards, Answer(c) PROVE EachExpected'
  BY <1>32, JobParts, LegParts, CardParts DEF Answer
<1>33. ASSUME NEW c \in Cards, ResumeFleetMember(c) PROVE EachExpected'
  BY <1>33, JobParts, LegParts, CardParts DEF ResumeFleetMember, Carried, Fault
<1>34. ASSUME NEW c \in Cards, ResumeFails(c) PROVE EachExpected'
  BY <1>34, JobParts, LegParts, CardParts DEF ResumeFails, SettleMember, Settled, Report, Fault
<1>35. ASSUME NEW c \in Cards, CardExpires(c) PROVE EachExpected'
  BY <1>35, JobParts, LegParts, CardParts DEF CardExpires
<1>36. CASE UNCHANGED vars
  BY <1>36 DEF vars
<1>37. QED
  BY <1>1, <1>2, <1>3, <1>4, <1>5, <1>6, <1>7, <1>8, <1>9, <1>10, <1>11, <1>12, <1>13,
     <1>14, <1>15, <1>16, <1>17, <1>18, <1>19, <1>20, <1>21, <1>22, <1>23, <1>24, <1>25,
     <1>26, <1>27, <1>28, <1>29, <1>30, <1>31, <1>32, <1>33, <1>34, <1>35, <1>36
  DEF Next, LegStep, HandStep, CardStep

\* While nothing has gone wrong, a member that runs has somebody who will bring it
\* back: a job, a leg, a card or an answer on its way.
THEOREM RunningIsExpectedHolds == Spec => []RunningIsExpected
<1>1. Init => FaultlessFacts
  <2> SUFFICES ASSUME Init PROVE ExpectFacts /\ EachExpected
    BY DEF FaultlessFacts
  <2>1. NotYet /\ Written /\ StoppedIsOver /\ EachExpected
    BY DEF Init, NotYet, Written, StoppedIsOver, EachExpected
  <2>2. LocalHasNoJob /\ WorkerHolds /\ RungIsOver
    BY DEF Init, LocalHasNoJob, WorkerHolds, RungIsOver, Alive
  <2>3. CardOnce
    BY CardParts DEF Init, CardOnce
  <2>4. QED
    BY <2>1, <2>2, <2>3 DEF ExpectFacts
<1>2. ASSUME TypeOK, TypeOK', JoinFacts, FaultlessFacts, [Next]_vars PROVE FaultlessFacts'
  <2>1. faults' = 0 => faults = 0
    BY <1>2, FaultsGrow DEF TypeOK
  <2>2. QED
    BY <1>2, <2>1, ExpectFactsStep, EachExpectedStep DEF FaultlessFacts
<1>3. FaultlessFacts => RunningIsExpected
  BY DEF FaultlessFacts, EachExpected, Expected, Underway, RunningIsExpected
<1>4. QED
  BY JoinInvariant, <1>1, <1>2, <1>3, PTL DEF Spec

===============================================================================
