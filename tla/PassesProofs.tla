---------------------------- MODULE PassesProofs ----------------------------
(***************************************************************************)
(* Theorems about the parts of a controller's passes: the dependencies of  *)
(* tasks, the check jobs of one task, admission, the worktree a task is    *)
(* prepared in, and a project's governance; and about MCController, which  *)
(* runs them side by side. They hold for any tasks, any dependencies       *)
(* (cyclic ones included), any number of checks, any limits and policies.  *)
(***************************************************************************)
EXTENDS MCController, TLAPS, SequenceTheorems, FiniteSetTheorems
-----------------------------------------------------------------------------
(* The dependencies of tasks.                                              *)

DepStates == Blocked \union {"QUEUED", "READY", "RUNNING", "DONE", "FAILED", "CANCELLED"}

\* A task that has left QUEUED has its prerequisites done, or an obligation that keeps it
\* from being dispatched, however it got where it is: a retry makes it READY without
\* looking at its prerequisites, and only the obligation stops it then.
Held(t)   == dt[t] \notin {"QUEUED", "CANCELLED"} => AllDone(t) \/ waits[t] # {}
Started(t) == dt[t] \in {"RUNNING", "in flight", "DONE", "FAILED"} => AllDone(t)
DepInv == DepTypeOK /\ \A t \in DTasks : Held(t) /\ Started(t)

LEMMA DepInvInit == DepInit => DepInv
BY DEF DepInit, DepInv, DepTypeOK, Held, Started

\* DONE is never left: what is done stays done.
LEMMA DoneStays ==
  ASSUME DepInv, NEW u \in DTasks, NEW s \in DepStates, Become(u, s), dt[u] # "DONE"
  PROVE  /\ dt' \in [DTasks -> DepStates] /\ dt'[u] = s
         /\ \A t \in DTasks \ {u} : dt'[t] = dt[t]
         /\ \A t \in DTasks : AllDone(t) => AllDone(t)'
<1>1. dt \in [DTasks -> DepStates]
  BY DEF DepInv, DepTypeOK, DepStates
<1>2. /\ dt' \in [DTasks -> DepStates] /\ dt'[u] = s
      /\ \A t \in DTasks \ {u} : dt'[t] = dt[t]
  BY <1>1 DEF Become
<1>3. \A t \in DTasks : dt[t] = "DONE" => dt'[t] = "DONE"
  BY <1>2
<1>4. ASSUME NEW t \in DTasks, AllDone(t) PROVE AllDone(t)'
  BY <1>3, <1>4, DependencyAssumption DEF AllDone
<1> QED BY <1>2, <1>4

\* One task moves to a state it may be in, and no obligation of another one changes.
LEMMA OneMoves ==
  ASSUME DepInv, NEW u \in DTasks, NEW s \in DepStates, Become(u, s), dt[u] # "DONE",
         waits' \in [DTasks -> SUBSET DTasks], \A t \in DTasks \ {u} : waits'[t] = waits[t],
         s \notin {"QUEUED", "CANCELLED"} => AllDone(u) \/ waits'[u] # {},
         s \in {"RUNNING", "in flight", "DONE", "FAILED"} => AllDone(u)
  PROVE  DepInv'
<1>1. /\ dt' \in [DTasks -> DepStates] /\ dt'[u] = s
      /\ \A t \in DTasks \ {u} : dt'[t] = dt[t]
      /\ \A t \in DTasks : AllDone(t) => AllDone(t)'
  BY DoneStays
<1>2. \A t \in DTasks : Held(t) /\ Started(t)
  BY DEF DepInv
<1>3. \A t \in DTasks : Held(t)' /\ Started(t)'
  BY <1>1, <1>2 DEF Held, Started
<1> QED BY <1>1, <1>3 DEF DepInv, DepTypeOK, DepStates

LEMMA DepInvStep == DepInv /\ [DepNext]_depVars => DepInv'
<1> SUFFICES ASSUME DepInv, [DepNext]_depVars PROVE DepInv'
  OBVIOUS
<1>1. /\ dt \in [DTasks -> DepStates] /\ waits \in [DTasks -> SUBSET DTasks]
      /\ \A t \in DTasks : Held(t) /\ Started(t)
  BY DEF DepInv, DepTypeOK, DepStates
<1>2. ASSUME NEW u \in DTasks, BlockOnDependency(u) PROVE DepInv'
  <2>1. PICK d \in Failed(u) : waits' = [waits EXCEPT ![u] = @ \union {d}]
    BY <1>2 DEF BlockOnDependency
  <2>2. d \in DTasks
    BY <2>1, DependencyAssumption DEF Failed
  <2>3. /\ waits' \in [DTasks -> SUBSET DTasks] /\ waits'[u] # {}
        /\ \A t \in DTasks \ {u} : waits'[t] = waits[t]
    BY <1>1, <2>1, <2>2
  <2>4. Become(u, "dependency") /\ dt[u] # "DONE"
    BY <1>2 DEF BlockOnDependency, Candidate
  <2> QED BY <2>3, <2>4, OneMoves DEF DepStates, Blocked
<1>3. ASSUME NEW u \in DTasks, RequeueTask(u) PROVE DepInv'
  BY <1>1, <1>3, OneMoves DEF RequeueTask, DepStates, Blocked
<1>4. ASSUME NEW u \in DTasks, ReadyTask(u) PROVE DepInv'
  <2>1. /\ AllDone(u) /\ dt[u] \in {"QUEUED", "dependency"}
        /\ waits' = [waits EXCEPT ![u] = {d \in @ : dt[d] # "DONE"}]
    BY <1>4 DEF ReadyTask, Candidate
  <2>2. waits' \in [DTasks -> SUBSET DTasks] /\ \A t \in DTasks \ {u} : waits'[t] = waits[t]
    BY <1>1, <2>1
  <2>3. CASE Become(u, "READY")
    BY <2>1, <2>2, <2>3, OneMoves DEF DepStates, Blocked
  <2>4. CASE UNCHANGED dt
    <3>1. Held(u)' /\ \A t \in DTasks : Started(t)' = Started(t) /\ (t # u => Held(t)' = Held(t))
      BY <2>1, <2>2, <2>4 DEF Held, Started, AllDone
    <3> QED BY <1>1, <2>2, <2>4, <3>1 DEF DepInv, DepTypeOK, DepStates
  <2> QED BY <1>4, <2>3, <2>4 DEF ReadyTask
<1>5. ASSUME NEW u \in DTasks, RefuseWaiting(u) \/ DispatchTask(u) PROVE DepInv'
  BY <1>1, <1>5, OneMoves DEF RefuseWaiting, DispatchTask, StillWaiting, DepStates, Blocked, Held
<1>6. ASSUME NEW u \in DTasks, ParkTask(u) \/ ResumeParked(u) \/ TaskEnds(u) PROVE DepInv'
  <2>1. AllDone(u) /\ dt[u] # "DONE" /\ UNCHANGED waits
    BY <1>1, <1>6 DEF ParkTask, ResumeParked, TaskEnds, Started
  <2> QED BY <1>1, <1>6, <2>1, OneMoves DEF ParkTask, ResumeParked, TaskEnds, DepStates, Blocked
<1>7. ASSUME NEW u \in DTasks, DepRetry(u) PROVE DepInv'
  BY <1>1, <1>7, OneMoves DEF DepRetry, DepStates, Blocked, Held
<1>8. ASSUME NEW u \in DTasks, DepCancel(u) PROVE DepInv'
  BY <1>1, <1>8, OneMoves DEF DepCancel, DepStates
<1>9. CASE UNCHANGED depVars
  BY <1>9 DEF depVars, DepInv, DepTypeOK, Held, Started, AllDone
<1> QED BY <1>2, <1>3, <1>4, <1>5, <1>6, <1>7, <1>8, <1>9 DEF DepNext, DepTick, PromoteTask
-----------------------------------------------------------------------------
(* The check jobs of one task.                                             *)

StageRow ==
  [check : Checks, rev : 0..MaxRevs, form : 0..MaxEdits, n : Nat,
   state : {"reserved", "launching", "running", "waiting", "unknown", "succeeded"},
   spec : BOOLEAN, job : {"none", "born", "live", "done", "gone"}, marked : BOOLEAN,
   result : Verdicts \union {"none"}, verdict : Verdicts \union {"none"}]

TaskRow ==
  [state : {"READY", "RUNNING", "CHECKING", "REVIEWING", "BLOCKED", "FAILED", "DONE"}, rev : 0..MaxRevs,
   used : 0..RepairLimit, repairs : 0..RepairLimit, recoveries : 0..RecoveryLimit,
   working : BOOLEAN, parked : BOOLEAN]

CkRows ==
  /\ CkTypeOK /\ stages \in Seq(StageRow)
  /\ accept \in [state : {"none", "reserved", "running", "succeeded", "waiting"}, rev : 0..MaxRevs]
  /\ at \in [step : {"idle", "schedule", "launch", "write", "spawn", "bind", "repair", "accept",
                     "complete"}, s : Nat]
  /\ edits \in 0..MaxEdits /\ \A c \in Checks : spec[c] <= edits
  /\ \A o \in obls : o.s \in DOMAIN stages

\* The stages a pass looks at; what a round of checks has, and what an acceptance stands on.
Busy      == CheckStages({"reserved", "launching", "running"})
Ran(c)    == \E s \in DOMAIN stages :
               stages[s].check = c /\ stages[s].rev = ck.rev /\ stages[s].verdict # "none"
Passed(c) == \E s \in DOMAIN stages :
               /\ stages[s].check = c /\ stages[s].rev = ck.rev /\ stages[s].verdict = "PASS"
               /\ s = Latest(Collected(StageFp(s)))

\* What the controller's step knows.
CkHandled ==
  /\ at.step \in {"schedule", "complete"} => ck.state = "CHECKING"
  /\ at.step = "complete" => Busy = {} /\ \A c \in Checks : Ran(c)
  /\ at.step = "launch" => at.s \in DOMAIN stages /\ stages[at.s].state = "reserved"
  /\ at.step \in {"write", "spawn", "bind"} => at.s \in DOMAIN stages /\ stages[at.s].state = "launching"
  /\ at.step = "repair" => ck.state = "RUNNING" /\ ~ck.working /\ ~ck.parked
  /\ at.step = "accept" => ck.state = "REVIEWING"

\* One stage at a time is under way, only while the task is CHECKING, and a job that lives is
\* that stage's or a given-up one's.
CkAlone ==
  /\ Busy # {} => ck.state = "CHECKING"
  /\ \A s, t \in Busy : s = t
  /\ \A s \in DOMAIN stages :
       stages[s].job \in {"born", "live"} => stages[s].state \in {"launching", "running", "unknown"}
  /\ ck.working => ck.state = "RUNNING"
  /\ ck.parked => ck.state = "BLOCKED"

\* An acceptance is under way on the evidence it is granted on.
CkAccepting ==
  /\ accept.state \in {"reserved", "running"} =>
       ck.state = "REVIEWING" /\ accept.rev = ck.rev /\ \A c \in Checks : Passed(c)
  /\ ck.state = "DONE" => obls = {} /\ accept.rev = ck.rev /\ \A c \in Checks : Passed(c)

\* A repair that is parked or about to be launched is one the episode has not paid for yet.
CkCharged ==
  /\ ck.repairs <= ck.used
  /\ at.step = "repair" \/ ck.parked => ck.repairs < ck.used

CkInv == CkRows /\ CkHandled /\ CkAlone /\ CkAccepting /\ CkCharged
-----------------------------------------------------------------------------
(* Lemmas about the stages.                                                *)

\* Verdicts are read by revision, fingerprint and stage: where these stay, evidence stays.
LEMMA EvidenceStays ==
  ASSUME DOMAIN stages' = DOMAIN stages, ck'.rev = ck.rev,
         \A s \in DOMAIN stages : /\ stages'[s].check = stages[s].check /\ stages'[s].rev = stages[s].rev
                                  /\ stages'[s].form = stages[s].form
                                  /\ stages'[s].verdict = stages[s].verdict,
         NEW c
  PROVE  Ran(c)' = Ran(c) /\ Passed(c)' = Passed(c)
<1>1. Ran(c)' = Ran(c) BY DEF Ran
<1>2. \A s \in DOMAIN stages : StageFp(s)' = StageFp(s) BY DEF StageFp
<1>3. \A s \in DOMAIN stages : Collected(StageFp(s))' = Collected(StageFp(s))
  BY <1>2 DEF Collected
<1>4. \A s \in DOMAIN stages : Latest(Collected(StageFp(s)))' = Latest(Collected(StageFp(s)))
  BY <1>3 DEF Latest
<1>5. Passed(c)' = Passed(c) BY <1>4 DEF Passed
<1> QED BY <1>1, <1>5

\* One row of a stage is written.
LEMMA RowWritten ==
  ASSUME stages \in Seq(StageRow), NEW s \in DOMAIN stages, NEW row \in StageRow,
         stages' = [stages EXCEPT ![s] = row]
  PROVE  /\ stages' \in Seq(StageRow) /\ DOMAIN stages' = DOMAIN stages /\ stages'[s] = row
         /\ \A t \in DOMAIN stages : t # s => stages'[t] = stages[t]
BY ExceptSeq

LEMMA RowAdded ==
  ASSUME stages \in Seq(StageRow), NEW row \in StageRow, stages' = Append(stages, row)
  PROVE  /\ stages' \in Seq(StageRow) /\ DOMAIN stages' = DOMAIN stages \union {Len(stages) + 1}
         /\ Len(stages) + 1 \notin DOMAIN stages /\ Len(stages) \in Nat
         /\ stages'[Len(stages) + 1] = row
         /\ \A t \in DOMAIN stages : stages'[t] = stages[t]
<1>1. Len(stages) \in Nat /\ DOMAIN stages = 1..Len(stages)
  BY LenProperties
<1> QED BY <1>1, AppendProperties

LEMMA RowOf ==
  ASSUME stages \in Seq(StageRow), NEW s \in DOMAIN stages
  PROVE  stages[s] \in StageRow
BY ElementOfSeq, LenProperties

LEMMA StagesStay ==
  ASSUME UNCHANGED stages, ck'.rev = ck.rev
  PROVE  Busy' = Busy /\ \A c : Ran(c)' = Ran(c) /\ Passed(c)' = Passed(c)
<1>1. Busy' = Busy BY DEF Busy, CheckStages
<1>2. \A c : Ran(c)' = Ran(c) /\ Passed(c)' = Passed(c) BY EvidenceStays
<1> QED BY <1>1, <1>2

\* A nonempty set of stages has a latest.
LEMMA Greatest ==
  ASSUME NEW n \in Nat, NEW S \in SUBSET (1..n), S # {}
  PROVE  \E m \in S : \A x \in S : x <= m
<1> DEFINE T == {n - x : x \in S}
<1>1. \A x \in S : x \in 1..n /\ n - x \in Nat OBVIOUS
<1>2. T \subseteq Nat BY <1>1
<1>3. PICK x \in S : TRUE OBVIOUS
<1>4. n - x \in T OBVIOUS
<1>5. T # {} BY <1>4
<1>6. IsWellFoundedOn(OpToRel(<, Nat), Nat) BY NatLessThanWellFounded
<1>7. PICK d \in T : \A y \in T : ~(<<y, d>> \in OpToRel(<, Nat))
  <2> HIDE DEF T
  <2> QED BY <1>2, <1>5, <1>6, WFMin
<1>8. \A y \in T : ~(y < d) BY <1>2, <1>7 DEF OpToRel
<1>9. PICK m \in S : d = n - m OBVIOUS
<1>10. \A y \in S : ~(n - y < n - m) BY <1>8, <1>9
<1> QED BY <1>1, <1>10

LEMMA LatestCollected ==
  ASSUME stages \in Seq(StageRow), NEW fp, Collected(fp) # {}
  PROVE  Latest(Collected(fp)) \in Collected(fp)
<1> DEFINE S == Collected(fp)
<1>1. S \in SUBSET (1..Len(stages)) /\ Len(stages) \in Nat
  BY LenProperties DEF Collected
<1>2. S # {} OBVIOUS
<1> HIDE DEF S
<1>3. \E m \in S : \A x \in S : x <= m
  BY <1>1, <1>2, Greatest
<1>4. Latest(S) \in S BY <1>3, Zenon DEF Latest
<1> QED BY <1>4 DEF S

\* A check that ran for this revision has passed it, when none of its latest results fails.
LEMMA RanAndPassed ==
  ASSUME stages \in Seq(StageRow), FailedRequired = {}, NEW c, Ran(c)
  PROVE  Passed(c)
<1>1. PICK s \in DOMAIN stages :
        stages[s].check = c /\ stages[s].rev = ck.rev /\ stages[s].verdict # "none"
  BY DEF Ran
<1> DEFINE fp == StageFp(s)
           S  == Collected(fp)
<1>2. s \in S BY <1>1 DEF Collected
<1>3. Latest(S) \in S BY <1>2, LatestCollected
<1> DEFINE l == Latest(S)
<1>4. l \in DOMAIN stages /\ StageFp(l) = fp /\ l = Latest(Collected(StageFp(l)))
  BY <1>3 DEF Collected
<1>5. stages[l].check = c /\ stages[l].rev = ck.rev
  BY <1>1, <1>4 DEF StageFp
<1>6. fp \in RevisionFps BY <1>1 DEF RevisionFps
<1>7. Verdict(fp) = "PASS" BY <1>6 DEF FailedRequired
<1>8. stages[l].verdict = "PASS" BY <1>7 DEF Verdict
<1> HIDE DEF l
<1> QED BY <1>4, <1>5, <1>8 DEF Passed
-----------------------------------------------------------------------------
(* The steps that leave the stages as they are.                            *)

LEMMA Turned ==
  ASSUME CkRows, NEW to \in {"READY", "RUNNING", "CHECKING", "REVIEWING", "BLOCKED", "FAILED", "DONE"},
         ck' = [ck EXCEPT !.state = to]
  PROVE  /\ ck' \in TaskRow /\ ck'.state = to /\ ck'.rev = ck.rev /\ ck'.used = ck.used
         /\ ck'.repairs = ck.repairs /\ ck'.working = ck.working /\ ck'.parked = ck.parked
BY DEF CkRows, CkTypeOK, TaskRow

LEMMA ChecksPassedKeeps == ASSUME CkInv, ChecksPassed PROVE CkInv'
<1>1. /\ at.step = "complete" /\ ck.state = "CHECKING" /\ Busy = {} /\ \A c \in Checks : Ran(c)
      /\ ~ck.working /\ ~ck.parked /\ accept.state \notin {"reserved", "running"}
      /\ UNCHANGED <<spec, stages, lost, edits>>
  BY DEF ChecksPassed, CkInv, CkHandled, CkAlone, CkAccepting
<1>2. \A c \in Checks : Passed(c)
  BY <1>1, RanAndPassed DEF ChecksPassed, CkInv, CkRows
<1>3. /\ ck' \in TaskRow /\ ck'.rev = ck.rev /\ ck'.used = ck.used
      /\ ck'.repairs = ck.repairs /\ ck'.working = ck.working /\ ck'.parked = ck.parked
      /\ \/ ck'.state = "BLOCKED" /\ at' = CkIdle /\ UNCHANGED accept
         \/ /\ ck'.state = "REVIEWING" /\ at' = [step |-> "accept", s |-> 0]
            /\ accept' \in [state : {"none", "reserved", "running", "succeeded", "waiting"}, rev : 0..MaxRevs]
            /\ accept'.rev = ck.rev
  <2>1. CASE obls' # {} BY <2>1, Turned DEF ChecksPassed, Block, CkInv
  <2>2. CASE obls' = {}
    <3>1. accept' = (IF accept.rev = ck.rev THEN accept ELSE [state |-> "reserved", rev |-> ck.rev])
      BY <2>2 DEF ChecksPassed
    <3>2. /\ accept' \in [state : {"none", "reserved", "running", "succeeded", "waiting"}, rev : 0..MaxRevs]
          /\ accept'.rev = ck.rev
      BY <3>1 DEF CkInv, CkRows, CkTypeOK
    <3> QED BY <2>2, <3>2, Turned DEF ChecksPassed, Go, CkInv
  <2> QED BY <2>1, <2>2
<1>4. obls' \subseteq obls BY DEF ChecksPassed
<1>5. CkRows' BY <1>1, <1>3, <1>4 DEF CkInv, CkRows, CkTypeOK, TaskRow, CkIdle
<1>6. Busy' = Busy /\ \A c : Ran(c)' = Ran(c) /\ Passed(c)' = Passed(c) BY <1>1, <1>3, StagesStay
<1>7. CkHandled' /\ CkAlone' BY <1>1, <1>3, <1>6 DEF CkInv, CkHandled, CkAlone, CkIdle
<1>8. CkAccepting' /\ CkCharged' BY <1>1, <1>2, <1>3, <1>6 DEF CkInv, CkAccepting, CkCharged, CkIdle
<1> QED BY <1>5, <1>7, <1>8 DEF CkInv

LEMMA ChecksFailedKeeps == ASSUME CkInv, ChecksFailed PROVE CkInv'
<1>1. /\ at.step = "complete" /\ ck.state = "CHECKING" /\ Busy = {}
      /\ ~ck.working /\ ~ck.parked /\ accept.state \notin {"reserved", "running"}
      /\ UNCHANGED <<spec, stages, accept, lost, edits>>
  BY DEF ChecksFailed, CkInv, CkHandled, CkAlone, CkAccepting
<1>2. \/ ck.used < RepairLimit /\ ck' = RepairCharged /\ Go("repair", 0)
      \/ at' = CkIdle /\ \E s \in {"FAILED", "BLOCKED"} : ck' = [ck EXCEPT !.state = s]
  BY DEF ChecksFailed
<1>3. /\ ck' \in TaskRow /\ ck'.rev = ck.rev /\ ck'.repairs = ck.repairs
      /\ ck'.working = ck.working /\ ck'.parked = ck.parked
      /\ \/ ck'.state = "RUNNING" /\ at' = [step |-> "repair", s |-> 0] /\ ck'.used = ck.used + 1
         \/ ck'.state \in {"FAILED", "BLOCKED"} /\ at' = CkIdle /\ ck'.used = ck.used
  <2>1. CASE ck.used < RepairLimit /\ ck' = RepairCharged /\ Go("repair", 0)
    <3>1. ck.used + 1 \in 0..RepairLimit BY <2>1, CheckJobsAssumption DEF CkInv, CkRows, CkTypeOK
    <3>2. ck' = [ck EXCEPT !.state = "RUNNING", !.used = ck.used + 1] BY <2>1 DEF RepairCharged
    <3> QED BY <2>1, <3>1, <3>2 DEF CkInv, CkRows, CkTypeOK, TaskRow, Go
  <2>2. CASE at' = CkIdle /\ \E s \in {"FAILED", "BLOCKED"} : ck' = [ck EXCEPT !.state = s]
    BY <2>2, Turned DEF CkInv
  <2> QED BY <1>2, <2>1, <2>2
<1>4. \A o \in obls' : o.s \in DOMAIN stages
  <2>1. ASSUME NEW fp \in FailedRequired PROVE Latest(Collected(fp)) \in DOMAIN stages
    <3>1. PICK s \in DOMAIN stages : stages[s].verdict # "none" /\ fp = StageFp(s)
      BY <2>1 DEF FailedRequired, RevisionFps
    <3>2. Collected(fp) # {} BY <3>1 DEF Collected
    <3>3. Latest(Collected(fp)) \in Collected(fp) BY <3>2, LatestCollected DEF CkInv, CkRows
    <3> QED BY <3>3 DEF Collected
  <2>2. ASSUME NEW o \in obls', o \notin obls PROVE o.s \in DOMAIN stages
    <3>1. PICK fp \in FailedRequired : o.s = Latest(Collected(fp)) BY <2>2 DEF ChecksFailed
    <3> QED BY <2>1, <3>1
  <2> QED BY <2>2 DEF CkInv, CkRows
<1>5. CkRows' BY <1>1, <1>3, <1>4 DEF CkInv, CkRows, CkTypeOK, TaskRow, CkIdle
<1>6. Busy' = Busy /\ \A c : Ran(c)' = Ran(c) /\ Passed(c)' = Passed(c) BY <1>1, <1>3, StagesStay
<1>7. CkHandled' /\ CkAlone' BY <1>1, <1>3, <1>6 DEF CkInv, CkHandled, CkAlone, CkIdle
<1>8. CkAccepting' BY <1>1, <1>3, <1>6 DEF CkInv, CkAccepting
<1>9. CkCharged' BY <1>1, <1>3 DEF CkInv, CkCharged, CkIdle, CkRows, CkTypeOK
<1> QED BY <1>5, <1>7, <1>8, <1>9 DEF CkInv

LEMMA LaunchRepairKeeps == ASSUME CkInv, LaunchRepair PROVE CkInv'
<1>1. /\ at.step = "repair" /\ at' = CkIdle /\ ck.state = "RUNNING" /\ ~ck.working /\ ~ck.parked
      /\ Busy = {} /\ ck.repairs < ck.used /\ accept.state \notin {"reserved", "running"}
      /\ UNCHANGED <<spec, stages, accept, obls, lost, edits>>
  BY DEF LaunchRepair, CkInv, CkHandled, CkAlone, CkAccepting, CkCharged
<1>2. /\ ck' \in TaskRow /\ ck'.rev = ck.rev /\ ck'.used = ck.used
      /\ \/ ck'.state = "RUNNING" /\ ~ck'.parked /\ ck'.repairs \in {ck.repairs, ck.repairs + 1}
         \/ ck'.state = "BLOCKED" /\ ~ck'.working /\ ck'.repairs = ck.repairs
  <2>1. CASE ck.repairs < RepairLimit /\ ck' = [ck EXCEPT !.repairs = @ + 1, !.working = TRUE]
    <3>1. ck.repairs + 1 \in 0..RepairLimit BY <2>1, CheckJobsAssumption DEF CkInv, CkRows, CkTypeOK
    <3>2. ck' = [ck EXCEPT !.repairs = ck.repairs + 1, !.working = TRUE] BY <2>1
    <3> QED BY <1>1, <3>1, <3>2 DEF CkInv, CkRows, CkTypeOK, TaskRow
  <2>2. CASE UNCHANGED ck BY <1>1, <2>2 DEF CkInv, CkRows, CkTypeOK, TaskRow
  <2>3. CASE ck' = [ck EXCEPT !.state = "BLOCKED", !.parked = TRUE]
    BY <1>1, <2>3 DEF CkInv, CkRows, CkTypeOK, TaskRow
  <2> QED BY <2>1, <2>2, <2>3 DEF LaunchRepair
<1>3. CkRows' BY <1>1, <1>2 DEF CkInv, CkRows, CkTypeOK, TaskRow, CkIdle
<1>4. Busy' = Busy /\ \A c : Ran(c)' = Ran(c) /\ Passed(c)' = Passed(c) BY <1>1, <1>2, StagesStay
<1>5. CkHandled' /\ CkAlone' BY <1>1, <1>2, <1>4 DEF CkInv, CkHandled, CkAlone, CkIdle
<1>6. CkAccepting' BY <1>1, <1>2, <1>4 DEF CkInv, CkAccepting
<1>7. CkCharged' BY <1>1, <1>2 DEF CkInv, CkCharged, CkIdle, CkRows, CkTypeOK, TaskRow
<1> QED BY <1>3, <1>5, <1>6, <1>7 DEF CkInv

LEMMA WorkerEndsKeeps == ASSUME CkInv, WorkerEnds PROVE CkInv'
<1>1. /\ at = CkIdle /\ ck.working /\ ck.state = "RUNNING" /\ ~ck.parked
      /\ Busy = {} /\ accept.state \notin {"reserved", "running"}
      /\ UNCHANGED <<spec, stages, accept, obls, lost, edits>>
  BY DEF WorkerEnds, CkInv, CkAlone, CkAccepting
<1>2. /\ ck' \in TaskRow /\ ck'.used = ck.used /\ ck'.repairs = ck.repairs
      /\ ~ck'.working /\ ~ck'.parked
      /\ \/ ck'.state = "CHECKING" /\ at' = [step |-> "schedule", s |-> 0]
         \/ ck'.state = "BLOCKED" /\ at' = at
  <2>1. ASSUME NEW r \in {ck.rev, ck.rev + 1} \ {0}, r <= MaxRevs,
               ck' = [ck EXCEPT !.state = "CHECKING", !.rev = r, !.working = FALSE]
        PROVE  /\ ck' \in TaskRow /\ ck'.used = ck.used /\ ck'.repairs = ck.repairs
               /\ ~ck'.working /\ ck'.parked = ck.parked /\ ck'.state = "CHECKING"
    <3>1. r \in 0..MaxRevs BY <2>1, CheckJobsAssumption DEF CkInv, CkRows, CkTypeOK
    <3> QED BY <2>1, <3>1 DEF CkInv, CkRows, CkTypeOK, TaskRow
  <2>2. CASE ck' = [ck EXCEPT !.state = "BLOCKED", !.working = FALSE] /\ UNCHANGED at
    BY <1>1, <2>2 DEF CkInv, CkRows, CkTypeOK, TaskRow
  <2>3. CASE ~(ck' = [ck EXCEPT !.state = "BLOCKED", !.working = FALSE] /\ UNCHANGED at)
    BY <1>1, <2>1, <2>3 DEF WorkerEnds, Go
  <2> QED BY <2>2, <2>3
<1>3. CkRows' BY <1>1, <1>2 DEF CkInv, CkRows, CkTypeOK, TaskRow, CkIdle
<1>4. Busy' = Busy BY <1>1 DEF Busy, CheckStages
<1>5. CkHandled' /\ CkAlone' BY <1>1, <1>2, <1>4 DEF CkInv, CkHandled, CkAlone, CkIdle
<1>6. CkAccepting' BY <1>1, <1>2 DEF CkInv, CkAccepting
<1>7. CkCharged' BY <1>1, <1>2 DEF CkInv, CkCharged, CkIdle
<1> QED BY <1>3, <1>5, <1>6, <1>7 DEF CkInv

LEMMA FinishAcceptKeeps == ASSUME CkInv, FinishAccept PROVE CkInv'
<1>1. /\ accept.state \in {"reserved", "running"} /\ ck.state = "REVIEWING" /\ at' = CkIdle
      /\ Busy = {} /\ ~ck.working /\ ~ck.parked /\ \A c \in Checks : Passed(c)
      /\ UNCHANGED <<spec, stages, obls, lost, edits>>
  BY DEF FinishAccept, CkInv, CkAlone, CkAccepting
<1>2. /\ ck' \in TaskRow /\ ck'.rev = ck.rev /\ ck'.used = ck.used
      /\ ck'.repairs = ck.repairs /\ ck'.working = ck.working /\ ck'.parked = ck.parked
      /\ accept' \in [state : {"succeeded", "waiting"}, rev : 0..MaxRevs]
      /\ \/ ck'.state = "DONE" /\ obls = {} /\ accept'.rev = ck.rev
         \/ ck'.state = "BLOCKED"
  BY Turned DEF FinishAccept, Block, CkInv, CkRows
<1>3. CkRows' BY <1>1, <1>2 DEF CkInv, CkRows, CkTypeOK, TaskRow, CkIdle
<1>4. Busy' = Busy /\ \A c : Ran(c)' = Ran(c) /\ Passed(c)' = Passed(c) BY <1>1, <1>2, StagesStay
<1>5. CkHandled' /\ CkAlone' BY <1>1, <1>2, <1>4 DEF CkInv, CkHandled, CkAlone, CkIdle
<1>6. CkAccepting' BY <1>1, <1>2, <1>4 DEF CkInv, CkAccepting
<1>7. CkCharged' BY <1>1, <1>2 DEF CkInv, CkCharged, CkIdle
<1> QED BY <1>3, <1>5, <1>6, <1>7 DEF CkInv

LEMMA BlockRecoveredKeeps == ASSUME CkInv, BlockRecovered PROVE CkInv'
<1>1. /\ at = CkIdle /\ Busy = {} /\ ~ck.working /\ accept.state \notin {"reserved", "running"}
      /\ ck.state \in {"RUNNING", "CHECKING", "REVIEWING"} /\ ~ck.parked
      /\ UNCHANGED <<spec, stages, accept, obls, at, lost, edits>>
  BY DEF BlockRecovered, RecoveredState, OpenStage, Busy, CheckStages, CkInv, CkAlone
<1>2. /\ ck' \in TaskRow /\ ck'.state = "BLOCKED" /\ ck'.rev = ck.rev /\ ck'.used = ck.used
      /\ ck'.repairs = ck.repairs /\ ck'.working = ck.working /\ ck'.parked = ck.parked
  BY Turned DEF BlockRecovered, Block, CkInv
<1>3. CkRows' BY <1>1, <1>2 DEF CkInv, CkRows, CkTypeOK, TaskRow, CkIdle
<1>4. Busy' = Busy BY <1>1 DEF Busy, CheckStages
<1>5. CkHandled' /\ CkAlone' BY <1>1, <1>2, <1>4 DEF CkInv, CkHandled, CkAlone, CkIdle
<1>6. CkAccepting' BY <1>1, <1>2 DEF CkInv, CkAccepting
<1>7. CkCharged' BY <1>1, <1>2 DEF CkInv, CkCharged, CkIdle
<1> QED BY <1>3, <1>5, <1>6, <1>7 DEF CkInv

LEMMA OthersKeep ==
  ASSUME CkInv,
         \/ ResumeRepair \/ LaunchAccept \/ RefuseDispatch \/ DispatchWorker \/ DenyCheck \/ CkRetry \/ CkCrash
         \/ \E c \in Checks : EditCheck(c)
         \/ \E s \in DOMAIN stages : RelaunchCheck(s)
  PROVE  CkInv'
<1>1. CASE ResumeRepair
  BY <1>1, StagesStay, CheckJobsAssumption DEF ResumeRepair, CkInv, CkRows, CkTypeOK, CkHandled, CkAlone,
    CkAccepting, CkCharged, CkIdle, Go
<1>2. CASE LaunchAccept
  BY <1>2, StagesStay, CheckJobsAssumption DEF LaunchAccept, CkInv, CkRows, CkTypeOK, CkHandled, CkAlone,
    CkAccepting, CkCharged, CkIdle
<1>3. CASE RefuseDispatch
  BY <1>3, StagesStay, CheckJobsAssumption DEF RefuseDispatch, CkInv, CkRows, CkTypeOK, CkHandled, CkAlone,
    CkAccepting, CkCharged, CkIdle, Block
<1>4. CASE DispatchWorker
  BY <1>4, StagesStay, CheckJobsAssumption DEF DispatchWorker, CkInv, CkRows, CkTypeOK, CkHandled, CkAlone,
    CkAccepting, CkCharged, CkIdle
<1>5. CASE DenyCheck
  BY <1>5, StagesStay, CheckJobsAssumption DEF DenyCheck, CkInv, CkRows, CkTypeOK, CkHandled, CkAlone,
    CkAccepting, CkCharged, CkIdle
<1>6. CASE CkRetry
  BY <1>6, StagesStay, CheckJobsAssumption DEF CkRetry, CkInv, CkRows, CkTypeOK, CkHandled, CkAlone,
    CkAccepting, CkCharged, CkIdle
<1>7. CASE CkCrash
  BY <1>7, StagesStay, CheckJobsAssumption DEF CkCrash, CkInv, CkRows, CkTypeOK, CkHandled, CkAlone,
    CkAccepting, CkCharged, CkIdle
<1>8. ASSUME NEW c \in Checks, EditCheck(c) PROVE CkInv'
  <2>1. edits + 1 \in 0..MaxEdits /\ edits' = edits + 1 /\ spec' = [spec EXCEPT ![c] = spec[c] + 1]
    BY <1>8, CheckJobsAssumption DEF EditCheck, CkInv, CkRows
  <2>2. MaxEdits \in Nat /\ edits \in Nat /\ spec \in [Checks -> 0..MaxEdits]
    BY CheckJobsAssumption DEF CkInv, CkRows, CkTypeOK
  <2>3. ASSUME NEW d \in Checks PROVE spec'[d] \in 0..edits'
    <3>1. spec[d] \in Nat /\ spec[d] <= edits BY <2>2 DEF CkInv, CkRows
    <3> QED BY <2>1, <2>2, <3>1
  <2>4. spec' \in [Checks -> 0..MaxEdits] /\ \A d \in Checks : spec'[d] <= edits'
    <3>1. spec' = [d \in Checks |-> spec'[d]] BY <2>1, <2>2
    <3>2. \A d \in Checks : spec'[d] \in 0..MaxEdits BY <2>1, <2>2, <2>3
    <3> QED BY <2>1, <2>2, <2>3, <3>1, <3>2
  <2> QED
    BY <1>8, <2>1, <2>4, StagesStay DEF EditCheck, CkInv, CkRows, CkTypeOK, CkHandled, CkAlone,
      CkAccepting, CkCharged
<1>9. ASSUME NEW s \in DOMAIN stages, RelaunchCheck(s) PROVE CkInv'
  <2>1. s \in Nat BY LenProperties DEF CkInv, CkRows
  <2>2. s \in Busy BY <1>9 DEF RelaunchCheck, Busy, CheckStages
  <2> QED
    BY <1>9, <2>1, <2>2, StagesStay DEF RelaunchCheck, Passable, Go, CkInv, CkRows, CkTypeOK, CkHandled,
      CkAlone, CkAccepting, CkCharged, CkIdle
<1> QED BY <1>1, <1>2, <1>3, <1>4, <1>5, <1>6, <1>7, <1>8, <1>9
-----------------------------------------------------------------------------
(* The steps that write the row of a stage.                                *)

\* What is kept where a stage's check, revision, form and verdict are.
SameInput(s, row) ==
  /\ row.check = stages[s].check /\ row.rev = stages[s].rev /\ row.form = stages[s].form
  /\ row.verdict = stages[s].verdict

LEMMA InputStays ==
  ASSUME CkInv, NEW s \in DOMAIN stages, NEW row \in StageRow, SameInput(s, row),
         stages' = [stages EXCEPT ![s] = row], ck'.rev = ck.rev
  PROVE  \A c : Ran(c)' = Ran(c) /\ Passed(c)' = Passed(c)
<1>1. /\ DOMAIN stages' = DOMAIN stages /\ stages'[s] = row
      /\ \A t \in DOMAIN stages : t # s => stages'[t] = stages[t]
  BY RowWritten DEF CkInv, CkRows
<1> QED BY <1>1, EvidenceStays DEF SameInput

\* A job's own steps: it is no longer than it was, and its stage is where it was.
LEMMA JobKeeps ==
  ASSUME CkInv, NEW s \in DOMAIN stages, MarkJob(s) \/ CompleteJob(s) \/ KillJob(s)
  PROVE  CkInv'
<1>1. stages[s] \in StageRow BY RowOf DEF CkInv, CkRows
<1>2. PICK row \in StageRow :
        /\ stages' = [stages EXCEPT ![s] = row] /\ SameInput(s, row) /\ row.state = stages[s].state
        /\ row.job \in {"live", "done", "gone"} /\ stages[s].job \in {"born", "live"}
  BY <1>1 DEF MarkJob, CompleteJob, KillJob, Job, StageRow, SameInput, Verdicts
<1>3. UNCHANGED <<ck, spec, accept, obls, at, edits>>
  BY DEF MarkJob, CompleteJob, KillJob, Job
<1>4. /\ stages' \in Seq(StageRow) /\ DOMAIN stages' = DOMAIN stages /\ stages'[s] = row
      /\ \A t \in DOMAIN stages : t # s => stages'[t] = stages[t]
  BY <1>2, RowWritten DEF CkInv, CkRows
<1>5. Busy' = Busy BY <1>2, <1>4 DEF Busy, CheckStages
<1>6. \A c : Ran(c)' = Ran(c) /\ Passed(c)' = Passed(c) BY <1>2, <1>3, InputStays
<1>7. CkRows' BY <1>3, <1>4 DEF CkInv, CkRows, CkTypeOK
<1>8. CkHandled' /\ CkAlone'
  BY <1>2, <1>3, <1>4, <1>5, <1>6 DEF CkInv, CkHandled, CkAlone
<1>9. CkAccepting' /\ CkCharged' BY <1>3, <1>6 DEF CkInv, CkAccepting, CkCharged
<1> QED BY <1>7, <1>8, <1>9 DEF CkInv

\* The controller starts the job of the stage in its hands.
LEMMA LaunchKeeps ==
  ASSUME CkInv, NEW s \in DOMAIN stages, AdmitCheck(s) \/ WriteSpec(s) \/ SpawnJob(s) \/ BindJob(s)
  PROVE  CkInv'
<1>1. stages[s] \in StageRow BY RowOf DEF CkInv, CkRows
<1>2. s \in Nat BY LenProperties DEF CkInv, CkRows
<1>3. /\ at.s = s /\ at.step \in {"launch", "write", "spawn", "bind"}
      /\ stages[s].state = (IF at.step = "launch" THEN "reserved" ELSE "launching")
      /\ s \in Busy /\ ck.state = "CHECKING"
  BY DEF AdmitCheck, WriteSpec, SpawnJob, BindJob, CkInv, CkHandled, CkAlone, Busy, CheckStages
<1>4. PICK row \in StageRow :
        /\ stages' = [stages EXCEPT ![s] = row] /\ SameInput(s, row)
        /\ \/ row.state = "launching" /\ \E step \in {"write", "spawn", "bind"} : at' = [step |-> step, s |-> s]
           \/ row.state = "running" /\ at' = CkIdle
        /\ row.job \in {"born", "live"} => row.state \in {"launching", "running"}
  <2>1. stages[s].job \in {"born", "live"} => stages[s].state = "launching"
    BY <1>3 DEF CkInv, CkAlone
  <2>2. CASE AdmitCheck(s)
    <3> DEFINE row == [stages[s] EXCEPT !.state = "launching"]
    <3>1. stages' = [stages EXCEPT ![s] = row] BY <2>2 DEF AdmitCheck
    <3>2. row \in StageRow /\ SameInput(s, row) /\ row.state = "launching"
      BY <1>1 DEF StageRow, SameInput
    <3> HIDE DEF row
    <3> QED BY <2>2, <3>1, <3>2 DEF AdmitCheck, Go
  <2>3. CASE WriteSpec(s)
    <3> DEFINE row == [stages[s] EXCEPT !.spec = TRUE]
    <3>1. stages' = [stages EXCEPT ![s] = row] /\ at.step = "write" BY <2>3 DEF WriteSpec
    <3>2. row \in StageRow /\ SameInput(s, row) /\ row.state = "launching"
      BY <1>1, <1>3, <3>1 DEF StageRow, SameInput
    <3> HIDE DEF row
    <3> QED BY <2>3, <3>1, <3>2 DEF WriteSpec, Go
  <2>4. CASE SpawnJob(s)
    <3> DEFINE row == [stages[s] EXCEPT !.job = "born"]
    <3>1. stages' = [stages EXCEPT ![s] = row] /\ at.step = "spawn" BY <2>4 DEF SpawnJob
    <3>2. row \in StageRow /\ SameInput(s, row) /\ row.state = "launching"
      BY <1>1, <1>3, <3>1 DEF StageRow, SameInput
    <3> HIDE DEF row
    <3> QED BY <2>4, <3>1, <3>2 DEF SpawnJob, Go
  <2>5. CASE BindJob(s)
    <3> DEFINE row == [stages[s] EXCEPT !.state = "running"]
    <3>1. stages' = [stages EXCEPT ![s] = row] BY <2>5 DEF BindJob
    <3>2. row \in StageRow /\ SameInput(s, row) /\ row.state = "running"
      BY <1>1 DEF StageRow, SameInput
    <3> HIDE DEF row
    <3> QED BY <2>5, <3>1, <3>2 DEF BindJob
  <2> QED BY <2>2, <2>3, <2>4, <2>5
<1>5. UNCHANGED <<ck, spec, accept, obls, edits>>
  BY DEF AdmitCheck, WriteSpec, SpawnJob, BindJob
<1>6. /\ stages' \in Seq(StageRow) /\ DOMAIN stages' = DOMAIN stages /\ stages'[s] = row
      /\ \A t \in DOMAIN stages : t # s => stages'[t] = stages[t]
  BY <1>4, RowWritten DEF CkInv, CkRows
<1>7. Busy' = Busy BY <1>3, <1>4, <1>6 DEF Busy, CheckStages
<1>8. \A c : Ran(c)' = Ran(c) /\ Passed(c)' = Passed(c) BY <1>4, <1>5, InputStays
<1>9. CkRows' BY <1>2, <1>4, <1>5, <1>6 DEF CkInv, CkRows, CkTypeOK, CkIdle
<1>10. CkHandled' /\ CkAlone'
  BY <1>3, <1>4, <1>5, <1>6, <1>7, <1>8 DEF CkInv, CkHandled, CkAlone, CkIdle
<1>11. CkAccepting' /\ CkCharged' BY <1>3, <1>4, <1>5, <1>8 DEF CkInv, CkAccepting, CkCharged, CkIdle
<1> QED BY <1>9, <1>10, <1>11 DEF CkInv

\* A stage that a pass gives up blocks its task; its job, if it may live, is left alone.
LEMMA GivenUpKeeps ==
  ASSUME CkInv, NEW s \in DOMAIN stages, ChangedCheck(s) \/ UnknownCheck(s) \/ LostCheck(s)
  PROVE  CkInv'
<1>1. stages[s] \in StageRow BY RowOf DEF CkInv, CkRows
<1>2. at = CkIdle /\ s \in Busy /\ ck.state = "CHECKING"
  BY DEF ChangedCheck, UnknownCheck, LostCheck, Passable, Busy, CheckStages, CkInv, CkAlone
<1>3. PICK row \in StageRow :
        /\ stages' = [stages EXCEPT ![s] = row] /\ SameInput(s, row)
        /\ row.state \in {"unknown", "waiting"} /\ row.job = stages[s].job
        /\ row.job \in {"born", "live"} => row.state = "unknown"
  <2>1. CASE ChangedCheck(s) \/ UnknownCheck(s)
    BY <1>1, <2>1 DEF ChangedCheck, UnknownCheck, StageRow, SameInput
  <2>2. CASE LostCheck(s)
    <3> DEFINE row == [stages[s] EXCEPT !.state = "waiting"]
    <3>1. GateJobStatus(s) = "lost" /\ stages' = [stages EXCEPT ![s] = row] BY <2>2 DEF LostCheck
    <3>2. stages[s].job \notin {"born", "live"} BY <3>1 DEF GateJobStatus
    <3>3. row \in StageRow /\ SameInput(s, row) /\ row.state = "waiting" /\ row.job = stages[s].job
      BY <1>1 DEF StageRow, SameInput
    <3> HIDE DEF row
    <3> QED BY <3>1, <3>2, <3>3
  <2> QED BY <2>1, <2>2
<1>4. /\ UNCHANGED <<spec, accept, at, edits>>
      /\ ck' \in TaskRow /\ ck'.state = "BLOCKED" /\ ck'.rev = ck.rev /\ ck'.used = ck.used
      /\ ck'.repairs = ck.repairs /\ ck'.working = ck.working /\ ck'.parked = ck.parked
  <2>1. CASE ChangedCheck(s) \/ UnknownCheck(s)
    BY <2>1, Turned DEF ChangedCheck, UnknownCheck, Block, CkInv
  <2>2. CASE LostCheck(s)
    <3> DEFINE n == IF ck.recoveries < RecoveryLimit THEN ck.recoveries + 1 ELSE ck.recoveries
    <3>1. n \in 0..RecoveryLimit BY CheckJobsAssumption DEF CkInv, CkRows, CkTypeOK
    <3>2. ck' = [ck EXCEPT !.state = "BLOCKED", !.recoveries = n] BY <2>2 DEF LostCheck
    <3> HIDE DEF n
    <3> QED BY <2>2, <3>1, <3>2 DEF LostCheck, CkInv, CkRows, CkTypeOK, TaskRow
  <2> QED BY <2>1, <2>2
<1>5. /\ stages' \in Seq(StageRow) /\ DOMAIN stages' = DOMAIN stages /\ stages'[s] = row
      /\ \A t \in DOMAIN stages : t # s => stages'[t] = stages[t]
  BY <1>3, RowWritten DEF CkInv, CkRows
<1>6. Busy' = {} BY <1>2, <1>3, <1>5 DEF Busy, CheckStages, CkInv, CkAlone
<1>7. \A c : Ran(c)' = Ran(c) /\ Passed(c)' = Passed(c) BY <1>3, <1>4, InputStays
<1>8. \A o \in obls' : o.s \in DOMAIN stages
  BY DEF ChangedCheck, UnknownCheck, LostCheck, Oblige, CkInv, CkRows
<1>9. CkRows' BY <1>3, <1>4, <1>5, <1>8 DEF CkInv, CkRows, CkTypeOK, TaskRow
<1>10. CkHandled' /\ CkAlone'
  BY <1>2, <1>3, <1>4, <1>5, <1>6, <1>7 DEF CkInv, CkHandled, CkAlone, CkIdle
<1>11. CkAccepting' /\ CkCharged' BY <1>2, <1>3, <1>4, <1>7 DEF CkInv, CkAccepting, CkCharged, CkAlone
<1> QED BY <1>9, <1>10, <1>11 DEF CkInv

\* A verdict is recorded; the task is CHECKING, so no acceptance stands on the older ones.
LEMMA CollectKeeps ==
  ASSUME CkInv, NEW s \in DOMAIN stages, CollectCheck(s)
  PROVE  CkInv'
<1>1. stages[s] \in StageRow BY RowOf DEF CkInv, CkRows
<1>2. at = CkIdle /\ s \in Busy /\ ck.state = "CHECKING" /\ stages[s].job = "done"
  BY DEF CollectCheck, Passable, GateJobStatus, Busy, CheckStages, CkInv, CkAlone
<1>3. PICK row \in StageRow :
        /\ stages' = [stages EXCEPT ![s] = row] /\ row.job = "done"
        /\ \/ row.state = "succeeded" /\ at' = [step |-> "schedule", s |-> 0]
           \/ row.state = stages[s].state /\ at' = at
  <2>1. CASE UNCHANGED at /\ stages' = [stages EXCEPT ![s].verdict = stages[s].result]
    <3> DEFINE row == [stages[s] EXCEPT !.verdict = stages[s].result]
    <3>1. stages' = [stages EXCEPT ![s] = row] BY <2>1
    <3>2. row \in StageRow /\ row.job = "done" /\ row.state = stages[s].state BY <1>1, <1>2 DEF StageRow
    <3> HIDE DEF row
    <3> QED BY <2>1, <3>1, <3>2
  <2>2. CASE /\ Go("schedule", 0)
             /\ stages' = [stages EXCEPT ![s].verdict = stages[s].result, ![s].state = "succeeded"]
    <3> DEFINE row == [stages[s] EXCEPT !.verdict = stages[s].result, !.state = "succeeded"]
    <3>1. stages' = [stages EXCEPT ![s] = row] BY <2>2
    <3>2. row \in StageRow /\ row.job = "done" /\ row.state = "succeeded" BY <1>1, <1>2 DEF StageRow
    <3> HIDE DEF row
    <3> QED BY <2>2, <3>1, <3>2 DEF Go
  <2> QED BY <2>1, <2>2 DEF CollectCheck
<1>4. UNCHANGED <<ck, spec, accept, obls, edits>>
  BY DEF CollectCheck
<1>5. /\ stages' \in Seq(StageRow) /\ DOMAIN stages' = DOMAIN stages /\ stages'[s] = row
      /\ \A t \in DOMAIN stages : t # s => stages'[t] = stages[t]
  BY <1>3, RowWritten DEF CkInv, CkRows
<1>6. Busy' \subseteq Busy BY <1>3, <1>5 DEF Busy, CheckStages
<1>7. CkRows' BY <1>3, <1>4, <1>5 DEF CkInv, CkRows, CkTypeOK
<1>8. CkHandled' /\ CkAlone'
  BY <1>2, <1>3, <1>4, <1>5, <1>6 DEF CkInv, CkHandled, CkAlone, CkIdle
<1>9. CkAccepting' /\ CkCharged' BY <1>2, <1>3, <1>4 DEF CkInv, CkAccepting, CkCharged, CkIdle
<1> QED BY <1>7, <1>8, <1>9 DEF CkInv
-----------------------------------------------------------------------------
(* The steps that add a stage.                                             *)

\* Nothing else is under way when a stage is added.
LEMMA AddedKeeps ==
  ASSUME CkInv, NEW row \in StageRow, stages' = Append(stages, row), Busy = {},
         row.state \in {"reserved", "launching"}, row.job = "none",
         at' = [step |-> IF row.state = "reserved" THEN "launch" ELSE "write", s |-> Len(stages) + 1],
         UNCHANGED <<spec, accept, obls, edits>>,
         ck' \in TaskRow, ck'.state = "CHECKING", ck'.used = ck.used, ck'.repairs = ck.repairs,
         ~ck'.working, ~ck'.parked, accept.state \notin {"reserved", "running"}
  PROVE  CkInv'
<1>1. /\ stages' \in Seq(StageRow) /\ DOMAIN stages' = DOMAIN stages \union {Len(stages) + 1}
      /\ Len(stages) + 1 \notin DOMAIN stages /\ Len(stages) \in Nat
      /\ stages'[Len(stages) + 1] = row
      /\ \A t \in DOMAIN stages : stages'[t] = stages[t]
  BY RowAdded DEF CkInv, CkRows
<1>2. Busy' = {Len(stages) + 1} BY <1>1 DEF Busy, CheckStages
<1>3. CkRows' BY <1>1 DEF CkInv, CkRows, CkTypeOK, TaskRow
<1>4. CkHandled' BY <1>1 DEF CkInv, CkHandled
<1>5. CkAlone' BY <1>1, <1>2 DEF CkInv, CkAlone
<1>6. CkAccepting' /\ CkCharged' BY DEF CkInv, CkAccepting, CkCharged
<1> QED BY <1>3, <1>4, <1>5, <1>6 DEF CkInv

LEMMA NewRow ==
  ASSUME CkInv, NEW c \in Checks, NEW n \in Nat
  PROVE  /\ NewStage(c, n) \in StageRow
         /\ NewStage(c, n).state = "reserved" /\ NewStage(c, n).job = "none"
         /\ [NewStage(c, n) EXCEPT !.state = "launching"] \in StageRow
         /\ [NewStage(c, n) EXCEPT !.state = "launching"].state = "launching"
         /\ [NewStage(c, n) EXCEPT !.state = "launching"].job = "none"
BY DEF NewStage, StageRow, CkInv, CkRows, CkTypeOK

LEMMA ScheduleKeeps == ASSUME CkInv, ScheduleNextCheck PROVE CkInv'
<1>1. /\ at.step = "schedule" /\ ck.state = "CHECKING" /\ ~ck.working /\ ~ck.parked
      /\ accept.state \notin {"reserved", "running"} /\ UNCHANGED <<ck, spec, accept, obls, lost, edits>>
  BY DEF ScheduleNextCheck, CkInv, CkHandled, CkAlone, CkAccepting
<1>2. CASE at' = CkIdle /\ UNCHANGED stages
  BY <1>1, <1>2, StagesStay DEF CkInv, CkRows, CkTypeOK, CkHandled, CkAlone, CkAccepting, CkCharged, CkIdle
<1>3. CASE CheckStages(OpenStage) = {} /\ Unchecked = {} /\ Go("complete", 0) /\ UNCHANGED stages
  <2>1. Busy = {} BY <1>3 DEF Busy, CheckStages, OpenStage
  <2>2. ASSUME NEW c \in Checks PROVE Ran(c)
    <3>1. PICK s : s \in Collected(Fingerprint(c)) BY <1>3, <2>2 DEF Unchecked
    <3> QED BY <3>1 DEF Collected, StageFp, Fingerprint, Ran
  <2> QED
    BY <1>1, <1>3, <2>1, <2>2, StagesStay DEF Go, CkInv, CkRows, CkTypeOK, CkHandled, CkAlone, CkAccepting,
      CkCharged
<1>4. ASSUME CheckStages(OpenStage) = {}, NEW c \in Unchecked,
             stages' = Append(stages, NewStage(c, 0)), Go("launch", Len(stages) + 1)
      PROVE  CkInv'
  <2>1. Busy = {} BY <1>4 DEF Busy, CheckStages, OpenStage
  <2>2. c \in Checks BY <1>4 DEF Unchecked
  <2>3. NewStage(c, 0) \in StageRow /\ NewStage(c, 0).state = "reserved" /\ NewStage(c, 0).job = "none"
    BY <2>2, NewRow
  <2>4. ck' \in TaskRow BY <1>1 DEF CkInv, CkRows, CkTypeOK, TaskRow
  <2> QED BY <1>1, <1>4, <2>1, <2>3, <2>4, AddedKeeps DEF Go
<1> QED BY <1>2, <1>3, <1>4 DEF ScheduleNextCheck

\* The check of the oldest gate obligation is a registered one.
LEMMA OldestRegistered ==
  ASSUME CkRows, GateObligations # {}
  PROVE  OldestGate.check \in Checks
<1> DEFINE T == {o.s : o \in GateObligations}
<1>1. \A o \in GateObligations : o.s \in DOMAIN stages /\ o.s \in Nat
  BY LenProperties DEF GateObligations, CkRows
<1>2. T \subseteq Nat /\ T # {} BY <1>1
<1>3. IsWellFoundedOn(OpToRel(<, Nat), Nat) BY NatLessThanWellFounded
<1>4. PICK d \in T : \A y \in T : ~(<<y, d>> \in OpToRel(<, Nat))
  <2> HIDE DEF T
  <2> QED BY <1>2, <1>3, WFMin
<1>5. \A y \in T : ~(y < d) BY <1>2, <1>4 DEF OpToRel
<1>6. PICK o \in GateObligations : d = o.s OBVIOUS
<1>7. \A p \in GateObligations : o.s <= p.s BY <1>1, <1>5, <1>6
<1> DEFINE oldest == CHOOSE q \in GateObligations : \A p \in GateObligations : q.s <= p.s
<1>8. oldest \in GateObligations BY <1>6, <1>7, Zenon
<1>9. OldestGate = stages[oldest.s] BY DEF OldestGate
<1> HIDE DEF oldest
<1>10. stages[oldest.s] \in StageRow BY <1>1, <1>8, RowOf DEF CkRows
<1> QED BY <1>9, <1>10 DEF StageRow

LEMMA RetryKeeps == ASSUME CkInv, RetryCheck PROVE CkInv'
<1>1. /\ at = CkIdle /\ ck.state = "READY" /\ ~ck.working /\ ~ck.parked /\ Busy = {}
      /\ accept.state \notin {"reserved", "running"} /\ UNCHANGED <<spec, accept, obls, lost, edits>>
  BY DEF RetryCheck, CkInv, CkAlone, CkAccepting
<1> DEFINE c == OldestGate.check
           n == Cardinality({s \in DOMAIN stages : StageFp(s) = Fingerprint(c)})
           row == [NewStage(c, n) EXCEPT !.state = "launching"]
<1>2. stages' = Append(stages, row) /\ at' = [step |-> "write", s |-> Len(stages) + 1]
  BY DEF RetryCheck, Go
<1>3. c \in Checks BY OldestRegistered DEF RetryCheck, CkInv
<1>4. n \in Nat
  <2> DEFINE S == {s \in DOMAIN stages : StageFp(s) = Fingerprint(c)}
  <2>1. S \subseteq 1..Len(stages) /\ Len(stages) \in Nat BY LenProperties DEF CkInv, CkRows
  <2>2. IsFiniteSet(1..Len(stages)) BY <2>1, FS_Interval
  <2>3. IsFiniteSet(S) BY <2>1, <2>2, FS_Subset
  <2> QED BY <2>3, FS_CardinalityType
<1>5. /\ ck' \in TaskRow /\ ck'.state = "CHECKING" /\ ck'.used = ck.used /\ ck'.repairs = ck.repairs
      /\ ~ck'.working /\ ~ck'.parked
  <2>1. ck.recoveries + 1 \in 0..RecoveryLimit
    BY CheckJobsAssumption DEF RetryCheck, OutOfRecoveries, CkInv, CkRows, CkTypeOK
  <2>2. ck' = [ck EXCEPT !.state = "CHECKING", !.recoveries = ck.recoveries + 1] BY DEF RetryCheck
  <2> QED BY <1>1, <2>1, <2>2 DEF CkInv, CkRows, CkTypeOK, TaskRow
<1>6. row \in StageRow /\ row.state = "launching" /\ row.job = "none"
  <2> HIDE DEF c, n
  <2> QED BY <1>3, <1>4, NewRow
<1> HIDE DEF row
<1> QED BY <1>1, <1>2, <1>5, <1>6, AddedKeeps
-----------------------------------------------------------------------------
LEMMA CkInvInit == CkInit => CkInv
<1> SUFFICES ASSUME CkInit PROVE CkInv OBVIOUS
<1>1. stages = <<>> /\ DOMAIN stages = {} /\ stages \in Seq(StageRow) BY DEF CkInit
<1>2. CkRows
  BY <1>1, CheckJobsAssumption DEF CkInit, CkRows, CkTypeOK, CkIdle, NoStage
<1>3. Busy = {} BY <1>1 DEF Busy, CheckStages
<1> QED BY <1>1, <1>2, <1>3, CheckJobsAssumption
  DEF CkInit, CkInv, CkHandled, CkAlone, CkAccepting, CkCharged, CkIdle, NoStage

LEMMA CkInvStep == CkInv /\ [CkNext]_ckVars => CkInv'
<1> SUFFICES ASSUME CkInv, [CkNext]_ckVars PROVE CkInv' OBVIOUS
<1>1. CASE UNCHANGED ckVars
  <2>1. UNCHANGED <<ck, spec, stages, accept, obls, at, edits>> BY <1>1 DEF ckVars
  <2>2. Busy' = Busy /\ \A c : Ran(c)' = Ran(c) /\ Passed(c)' = Passed(c) BY <2>1, StagesStay
  <2>3. CkRows' BY <2>1 DEF CkInv, CkRows, CkTypeOK
  <2> QED BY <2>1, <2>2, <2>3 DEF CkInv, CkHandled, CkAlone, CkAccepting, CkCharged
<1>2. CASE \/ ResumeRepair \/ LaunchAccept \/ RefuseDispatch \/ DispatchWorker \/ DenyCheck \/ CkRetry
           \/ CkCrash \/ \E c \in Checks : EditCheck(c)
  BY <1>2, OthersKeep
<1>3. ASSUME NEW s \in DOMAIN stages,
             \/ WriteSpec(s) \/ SpawnJob(s) \/ BindJob(s) \/ ChangedCheck(s) \/ RelaunchCheck(s)
             \/ UnknownCheck(s) \/ LostCheck(s) \/ CollectCheck(s)
             \/ AdmitCheck(s) \/ MarkJob(s) \/ CompleteJob(s) \/ KillJob(s)
      PROVE  CkInv'
  BY <1>3, LaunchKeeps, GivenUpKeeps, OthersKeep, CollectKeeps, JobKeeps
<1>4. CASE ScheduleNextCheck \/ RetryCheck BY <1>4, ScheduleKeeps, RetryKeeps
<1>5. CASE ChecksPassed \/ ChecksFailed \/ LaunchRepair \/ FinishAccept \/ BlockRecovered \/ WorkerEnds
  BY <1>5, ChecksPassedKeeps, ChecksFailedKeeps, LaunchRepairKeeps, FinishAcceptKeeps, BlockRecoveredKeeps,
    WorkerEndsKeeps
<1> QED BY <1>1, <1>2, <1>3, <1>4, <1>5 DEF CkNext, CkTick

\* What the invariant says of the jobs, the acceptance and the budget.
LEMMA CkInvSays == CkInv => JobsApart /\ DoneOnEvidence /\ RepairsCharged
<1> SUFFICES ASSUME CkInv PROVE JobsApart /\ DoneOnEvidence /\ RepairsCharged OBVIOUS
<1>1. Followed \subseteq Busy BY DEF Followed, Busy, CheckStages, CkInv, CkAlone
<1>2. JobsApart BY <1>1 DEF JobsApart, CkInv, CkAlone
<1>3. DoneOnEvidence BY DEF DoneOnEvidence, Passed, CkInv, CkAccepting
<1> QED BY <1>2, <1>3 DEF RepairsCharged, CkInv, CkCharged
-----------------------------------------------------------------------------
(* Theorems about CheckJobs.                                               *)

\* A task is DONE on the passing latest result of every check at the very revision it is
\* accepted at, whichever handler died, whichever job was lost and whichever check was edited.
THEOREM DoneStandsOnEvidence == CkSpec => []DoneOnEvidence
BY CkInvInit, CkInvStep, CkInvSays, PTL DEF CkSpec

\* No repair the episode paid for goes uncounted on the task, through crashes between the two
\* charges, parked repairs and retries.
THEOREM RepairsAreCharged == CkSpec => []RepairsCharged
BY CkInvInit, CkInvStep, CkInvSays, PTL DEF CkSpec

\* A check's job that a pass still looks at shares the worktree with no worker and with no
\* other such job.
THEOREM JobsStayApart == CkSpec => []JobsApart
BY CkInvInit, CkInvStep, CkInvSays, PTL DEF CkSpec
-----------------------------------------------------------------------------
(* Scheduling.                                                             *)

\* The states of the tasks, which are all that exclusion is about.
StInv == st \in [STasks -> Holding \union {"ready", "out"}] /\ RepoApart

LEMMA StInvInit == SchedInit => StInv
BY DEF SchedInit, StInv, RepoApart, Holding

\* A task that takes up what was admitted, or keeps or gives up what it holds.
LEMMA TaskMoves ==
  ASSUME StInv, NEW t \in STasks, NEW s \in Holding \union {"ready", "out"}, st' = [st EXCEPT ![t] = s],
         s \in Holding => st[t] \in Holding \/ \A u \in ActiveWork \ {t} : ~Conflict(t, u)
  PROVE  StInv'
<1>1. /\ st' \in [STasks -> Holding \union {"ready", "out"}] /\ st'[t] = s
      /\ \A u \in STasks \ {t} : st'[u] = st[u]
  BY DEF StInv
<1>2. \A u, v \in STasks : Conflict(u, v) = Conflict(v, u) BY DEF Conflict
<1>3. ASSUME NEW u \in STasks, u # t, s \in Holding, st[u] \in Holding PROVE ~Conflict(t, u)
  <2>1. CASE st[t] \in Holding BY <1>3, <2>1 DEF StInv, RepoApart
  <2>2. CASE st[t] \notin Holding
    <3>1. u \in ActiveWork \ {t} BY <1>3 DEF ActiveWork
    <3> QED BY <1>3, <2>2, <3>1
  <2> QED BY <2>1, <2>2
<1>4. RepoApart' = \A u, v \in STasks : u # v /\ {st'[u], st'[v]} \subseteq Holding => ~Conflict(u, v)
  BY DEF RepoApart, Conflict
<1>5. ASSUME NEW u \in STasks, NEW v \in STasks, u # v, {st'[u], st'[v]} \subseteq Holding
      PROVE  ~Conflict(u, v)
  <2>1. CASE u # t /\ v # t BY <1>1, <1>5, <2>1 DEF StInv, RepoApart
  <2>2. CASE u = t BY <1>1, <1>3, <1>5, <2>2
  <2>3. CASE v = t BY <1>1, <1>2, <1>3, <1>5, <2>3
  <2> QED BY <2>1, <2>2, <2>3
<1> QED BY <1>1, <1>4, <1>5 DEF StInv

LEMMA StInvStep == StInv /\ [SchedNext]_schedVars => StInv'
<1> SUFFICES ASSUME StInv, [SchedNext]_schedVars PROVE StInv' OBVIOUS
<1>1. CASE UNCHANGED st BY <1>1 DEF StInv, RepoApart
<1>2. CASE Offer
  <2> DEFINE t == Head(pass)
  <2>1. CASE st' = [st EXCEPT ![t] = "model"] /\ Admitted(t, "model")
    <3>1. CASE t \in STasks BY <2>1, <3>1, TaskMoves DEF Admitted, Holding
    <3>2. CASE t \notin STasks
      <4>1. st' = st BY <2>1, <3>2 DEF StInv
      <4> QED BY <1>1, <4>1
    <3> QED BY <3>1, <3>2
  <2> QED BY <1>1, <1>2, <2>1 DEF Offer
<1>3. ASSUME NEW t \in STasks, WorkEnds(t) \/ TaskOver(t) \/ Submit(t) PROVE StInv'
  BY <1>3, TaskMoves DEF WorkEnds, TaskOver, Submit, Holding
<1>4. ASSUME NEW t \in STasks, CheckNext(t) \/ RepairNext(t) PROVE StInv'
  BY <1>4, TaskMoves DEF CheckNext, RepairNext, Holding
<1> QED BY <1>1, <1>2, <1>3, <1>4 DEF SchedNext, Ticks, BeginTick, schedVars
-----------------------------------------------------------------------------
(* Workspaces.                                                             *)

Revisions == [root : Int, len : Nat]
WsRows ==
  /\ branch \in [root : Int, log : Seq(Nat)] /\ head \in Int
  /\ wtask \in [state : Terminal \union {"READY", "RUNNING", "BLOCKED"}, base : Revisions,
                path : BOOLEAN, result : BOOLEAN]
  /\ integrated \in Revisions
  /\ prep \in [at : {"idle", "integrate", "record"}, fresh : BOOLEAN, base : Revisions]

\* The branch has the dependencies' commits, then work; it has all of them before a preparation
\* is recorded, and in what an earlier preparation left behind as integrated.
LogInv ==
  /\ \A i \in DOMAIN branch.log : branch.log[i] = IF i <= Deps THEN i ELSE Work
  /\ wtask.state = "RUNNING" \/ prep.at = "record" => Len(branch.log) >= Deps
  /\ integrated # NoRev => integrated.len >= Deps
WsInv == WsRows /\ LogInv

LEMMA WsInvInit == WsInit => WsInv
<1> SUFFICES ASSUME WsInit PROVE WsInv OBVIOUS
<1>1. NoRev \in Revisions BY DEF NoRev, Revisions
<1>2. <<>> \in Seq(Nat) /\ DOMAIN <<>> = {} OBVIOUS
<1> QED BY <1>1, <1>2 DEF WsInit, WsInv, WsRows, LogInv, NoBranch, Idle

\* The log grows by one commit: the next of the dependencies', or work once it has them all.
LEMMA LogGrows ==
  ASSUME WsInv, NEW c \in Nat, branch' = [branch EXCEPT !.log = Append(@, c)],
         c = IF Len(branch.log) < Deps THEN Len(branch.log) + 1 ELSE Work
  PROVE  /\ branch' \in [root : Int, log : Seq(Nat)] /\ Len(branch'.log) = Len(branch.log) + 1
         /\ \A i \in DOMAIN branch'.log : branch'.log[i] = IF i <= Deps THEN i ELSE Work
         /\ Len(branch.log) \in Nat
<1> DEFINE log == branch.log
<1>1. log \in Seq(Nat) /\ branch.root \in Int BY DEF WsInv, WsRows
<1>2. branch' = [branch EXCEPT !.log = Append(log, c)] OBVIOUS
<1>3. branch'.log = Append(log, c) /\ branch'.root = branch.root BY <1>2 DEF WsInv, WsRows
<1>4. /\ Append(log, c) \in Seq(Nat) /\ Len(Append(log, c)) = Len(log) + 1 /\ Len(log) \in Nat
      /\ DOMAIN log = 1..Len(log) /\ DOMAIN Append(log, c) = 1..(Len(log) + 1)
      /\ Append(log, c)[Len(log) + 1] = c /\ \A i \in 1..Len(log) : Append(log, c)[i] = log[i]
  BY <1>1, AppendProperties, LenProperties
<1>5. branch' \in [root : Int, log : Seq(Nat)] BY <1>1, <1>2, <1>4 DEF WsInv, WsRows
<1>6. \A i \in DOMAIN log : log[i] = IF i <= Deps THEN i ELSE Work BY DEF WsInv, LogInv
<1>7. ASSUME NEW i \in 1..(Len(log) + 1) PROVE Append(log, c)[i] = IF i <= Deps THEN i ELSE Work
  <2>1. CASE i \in 1..Len(log) BY <1>4, <1>6, <2>1
  <2>2. CASE i \notin 1..Len(log)
    <3>1. i = Len(log) + 1 BY <1>4, <2>2
    <3> QED BY <1>4, <3>1, WorkspaceAssumption
  <2> QED BY <2>1, <2>2
<1> QED BY <1>3, <1>4, <1>5, <1>7

\* The first commit without an equivalent on the branch is the one after its last, and with none
\* left the branch has them all.
LEMMA NextCommit ==
  ASSUME WsInv
  PROVE  /\ \A c \in 1..Deps : Equivalent(c) <=> c <= Len(branch.log)
         /\ Len(branch.log) \in Nat
<1>1. branch.log \in Seq(Nat) /\ Len(branch.log) \in Nat /\ DOMAIN branch.log = 1..Len(branch.log)
  <2>1. branch.log \in Seq(Nat) BY DEF WsInv, WsRows
  <2> QED BY <2>1, LenProperties
<1>2. \A i \in 1..Len(branch.log) : branch.log[i] = IF i <= Deps THEN i ELSE Work
  BY <1>1 DEF WsInv, LogInv
<1>3. ASSUME NEW c \in 1..Deps PROVE Equivalent(c) <=> c <= Len(branch.log)
  <2>1. ToSet(branch.log) = {branch.log[i] : i \in 1..Len(branch.log)} BY <1>1 DEF ToSet
  <2>2. Equivalent(c) <=> \E i \in 1..Len(branch.log) : branch.log[i] = c BY <2>1 DEF Equivalent
  <2>3. c \in Nat /\ c # Work /\ c <= Deps /\ Deps \in Nat BY WorkspaceAssumption DEF Work
  <2>4. ASSUME c <= Len(branch.log) PROVE \E i \in 1..Len(branch.log) : branch.log[i] = c
    BY <1>1, <1>2, <2>3, <2>4
  <2>5. ASSUME NEW i \in 1..Len(branch.log), branch.log[i] = c PROVE c <= Len(branch.log)
    BY <1>1, <1>2, <2>3, <2>5
  <2> QED BY <2>2, <2>4, <2>5
<1> QED BY <1>1, <1>3

LEMMA WsInvStep == WsInv /\ [WsNext]_wsVars => WsInv'
<1> SUFFICES ASSUME WsInv, [WsNext]_wsVars PROVE WsInv' OBVIOUS
<1>1. /\ NoRev \in Revisions /\ <<>> \in Seq(Nat) /\ DOMAIN <<>> = {}
      /\ \A r \in Revisions : r.root \in Int /\ r.len \in Nat
      /\ Len(branch.log) \in Nat /\ Deps \in Nat
  BY NextCommit, WorkspaceAssumption DEF NoRev, Revisions
<1>2. CASE PrepareWorkspace
  <2>1. PICK base \in Revisions :
          /\ prep' = [at |-> "integrate", fresh |-> branch = NoBranch, base |-> base]
          /\ branch' = IF branch = NoBranch THEN [root |-> base.root, log |-> <<>>] ELSE branch
    <3> DEFINE base == IF wtask.base = NoRev THEN [root |-> head, len |-> 0] ELSE wtask.base
    <3>1. base \in Revisions BY DEF WsInv, WsRows, Revisions
    <3>2. /\ prep' = [at |-> "integrate", fresh |-> branch = NoBranch, base |-> base]
          /\ branch' = IF branch = NoBranch THEN [root |-> base.root, log |-> <<>>] ELSE branch
      BY <1>2 DEF PrepareWorkspace
    <3> HIDE DEF base
    <3> QED BY <3>1, <3>2
  <2>2. wtask.state = "READY" /\ UNCHANGED <<head, wtask, integrated>> BY <1>2 DEF PrepareWorkspace
  <2>3. /\ branch' \in [root : Int, log : Seq(Nat)]
        /\ \A i \in DOMAIN branch'.log : branch'.log[i] = IF i <= Deps THEN i ELSE Work
    <3>1. CASE branch = NoBranch
      <4>1. branch' = [root |-> base.root, log |-> <<>>] BY <2>1, <3>1
      <4> QED BY <1>1, <4>1
    <3>2. CASE branch # NoBranch BY <2>1, <3>2 DEF WsInv, WsRows, LogInv
    <3> QED BY <3>1, <3>2
  <2> QED BY <2>1, <2>2, <2>3 DEF WsInv, WsRows, LogInv
<1>3. CASE ReuseIntegration
  <2>1. /\ prep' = [prep EXCEPT !.at = "record", !.base = integrated] /\ Deps > 0
        /\ integrated # NoRev /\ HoldsRevision(branch, integrated)
        /\ UNCHANGED <<branch, head, wtask, integrated>>
    BY <1>3 DEF ReuseIntegration, IntegratedBefore, gitVars
  <2>2. integrated.len >= Deps /\ integrated \in Revisions BY <2>1 DEF WsInv, WsRows, LogInv
  <2>3. Len(branch.log) >= Deps BY <1>1, <2>1, <2>2 DEF HoldsRevision
  <2> QED BY <2>1, <2>2, <2>3 DEF WsInv, WsRows, LogInv
<1>4. CASE CherryPick
  <2>1. PICK c \in 1..Deps :
          /\ ~Equivalent(c) /\ \A b \in 1..(c - 1) : Equivalent(b)
          /\ IF dir /\ ~dirty
             THEN branch' = [branch EXCEPT !.log = Append(@, c)] /\ UNCHANGED <<prep, wtask>>
             ELSE prep' = Idle /\ wtask' = [wtask EXCEPT !.state = "BLOCKED"] /\ UNCHANGED branch
    BY <1>4 DEF CherryPick
  <2>2. c = Len(branch.log) + 1 /\ c \in Nat
    <3>1. c \in Nat /\ c > Len(branch.log) BY <1>1, <2>1, NextCommit
    <3>2. c > 1 => c - 1 \in 1..Deps /\ Equivalent(c - 1) BY <1>1, <2>1, <3>1
    <3>3. c > 1 => c - 1 <= Len(branch.log) BY <3>2, NextCommit
    <3> QED BY <1>1, <3>1, <3>3
  <2>3. UNCHANGED <<head, integrated>> BY <1>4 DEF CherryPick
  <2>4. CASE dir /\ ~dirty
    <3>1. branch' = [branch EXCEPT !.log = Append(@, c)] /\ UNCHANGED <<prep, wtask>> BY <2>1, <2>4
    <3>2. c = IF Len(branch.log) < Deps THEN Len(branch.log) + 1 ELSE Work BY <1>1, <2>1, <2>2
    <3>3. /\ branch' \in [root : Int, log : Seq(Nat)] /\ Len(branch'.log) = Len(branch.log) + 1
          /\ \A i \in DOMAIN branch'.log : branch'.log[i] = IF i <= Deps THEN i ELSE Work
      BY <2>2, <3>1, <3>2, LogGrows
    <3> QED BY <1>1, <2>3, <3>1, <3>3 DEF WsInv, WsRows, LogInv
  <2>5. CASE ~(dir /\ ~dirty)
    <3>1. prep' = Idle /\ wtask' = [wtask EXCEPT !.state = "BLOCKED"] /\ UNCHANGED branch BY <2>1, <2>5
    <3> QED BY <1>1, <2>3, <3>1 DEF WsInv, WsRows, LogInv, Idle, Terminal
  <2> QED BY <2>4, <2>5
<1>5. CASE DependenciesIntegrated
  <2>1. /\ integrated' = Rev(branch) /\ prep' = [prep EXCEPT !.at = "record", !.base = Rev(branch)]
        /\ Deps > 0 /\ UNCHANGED <<branch, head, wtask>> /\ \A c \in 1..Deps : Equivalent(c)
    BY <1>5 DEF DependenciesIntegrated, gitVars
  <2>2. Equivalent(Deps) BY <1>1, <2>1
  <2>3. Len(branch.log) >= Deps BY <1>1, <2>1, <2>2, NextCommit
  <2>4. Rev(branch) \in Revisions /\ Rev(branch).len = Len(branch.log)
    BY <1>1 DEF Rev, Revisions, WsInv, WsRows
  <2> QED BY <1>1, <2>1, <2>3, <2>4 DEF WsInv, WsRows, LogInv
<1>6. CASE RecordWorkspace
  <2>1. /\ prep.at = (IF Deps = 0 THEN "integrate" ELSE "record") /\ prep' = Idle
        /\ wtask' = [wtask EXCEPT !.state = "RUNNING", !.base = prep.base, !.path = TRUE]
        /\ UNCHANGED <<branch, head, integrated>>
    BY <1>6 DEF RecordWorkspace, gitVars
  <2>2. Len(branch.log) >= Deps BY <1>1, <2>1 DEF WsInv, LogInv
  <2> QED BY <1>1, <2>1, <2>2 DEF WsInv, WsRows, LogInv, Idle
<1>7. CASE FinalizeWorkspace
  <2>1. wtask.state = "RUNNING" /\ UNCHANGED <<head, integrated, prep>>
        /\ Len(branch.log) >= Deps
    BY <1>7 DEF FinalizeWorkspace, WsInv, LogInv
  <2>2. wtask' \in [state : Terminal \union {"READY", "RUNNING", "BLOCKED"}, base : Revisions,
                    path : BOOLEAN, result : BOOLEAN]
    BY <1>7 DEF FinalizeWorkspace, WsInv, WsRows, Terminal
  <2>3. CASE branch' = [branch EXCEPT !.log = Append(@, Work)]
    <3>1. Work \in Nat /\ Work = IF Len(branch.log) < Deps THEN Len(branch.log) + 1 ELSE Work
      BY <1>1, <2>1 DEF Work
    <3>2. /\ branch' \in [root : Int, log : Seq(Nat)] /\ Len(branch'.log) = Len(branch.log) + 1
          /\ \A i \in DOMAIN branch'.log : branch'.log[i] = IF i <= Deps THEN i ELSE Work
      BY <2>3, <3>1, LogGrows
    <3> QED BY <1>1, <2>1, <2>2, <3>2 DEF WsInv, WsRows, LogInv
  <2>4. CASE UNCHANGED branch BY <2>1, <2>2, <2>4 DEF WsInv, WsRows, LogInv
  <2> QED BY <1>7, <2>3, <2>4 DEF FinalizeWorkspace
<1>8. CASE Abandon BY <1>1, <1>8 DEF Abandon, gitVars, WsInv, WsRows, LogInv, Idle
<1>9. CASE Retry \/ Cancel BY <1>9 DEF Retry, Cancel, gitVars, WsInv, WsRows, LogInv, Terminal
<1>10. CASE ClearPath BY <1>10 DEF ClearPath, gitVars, WsInv, WsRows, LogInv
<1>11. CASE BaseMoves BY <1>11 DEF BaseMoves, WsInv, WsRows, LogInv
<1>12. CASE UNCHANGED <<head, branch, wtask, integrated, prep>>
  BY <1>12 DEF WsInv, WsRows, LogInv
<1> QED
  BY <1>2, <1>3, <1>4, <1>5, <1>6, <1>7, <1>8, <1>9, <1>10, <1>11, <1>12
  DEF WsNext, WorkerWrites, Merge, ListWorktree, RemoveWorktree, wsVars, gitVars

LEMMA WsInvSays == WsInv => DependenciesOnce
BY DEF WsInv, LogInv, DependenciesOnce
-----------------------------------------------------------------------------
(* Theorems about admission, dependencies and worktrees.                   *)

\* Tasks that must not share a repository never both hold it, whatever was admitted, parked,
\* checked or repaired meanwhile.
THEOREM RepositoriesApart == SchedSpec => []RepoApart
<1>1. StInv => RepoApart BY DEF StInv
<1> QED BY <1>1, StInvInit, StInvStep, PTL DEF SchedSpec

\* No task is worked on before its prerequisites are done, whatever was retried, cancelled
\* or failed in whatever order, and whatever the dependencies look like.
THEOREM PrerequisitesFirst == DepSpec => []DependenciesFirst
<1>1. DepInv => DependenciesFirst
  BY DEF DepInv, Started, DependenciesFirst
<1> QED BY <1>1, DepInvInit, DepInvStep, PTL DEF DepSpec
\* A task works over each commit of its dependencies, once and in order, before its own,
\* whichever git command the controller died after.
THEOREM CommitsOnce == WsSpec => []DependenciesOnce
BY WsInvInit, WsInvStep, WsInvSays, PTL DEF WsSpec

LEMMA Committed ==
  WsInv /\ [WsNext]_wsVars => (dirty /\ ~dirty' => Len(branch'.log) > Len(branch.log))
<1> SUFFICES ASSUME WsInv, [WsNext]_wsVars, dirty, ~dirty'
             PROVE  Len(branch'.log) > Len(branch.log)
  OBVIOUS
<1>1. FinalizeWorkspace /\ branch' = [branch EXCEPT !.log = Append(@, Work)]
  <2>1. CASE PrepareWorkspace BY <2>1 DEF PrepareWorkspace
  <2>2. CASE ReuseIntegration \/ CherryPick \/ DependenciesIntegrated
    BY <2>2 DEF ReuseIntegration, CherryPick, DependenciesIntegrated, gitVars
  <2>3. CASE RecordWorkspace \/ Abandon \/ WorkerWrites
    BY <2>3 DEF RecordWorkspace, Abandon, WorkerWrites, gitVars
  <2>4. CASE FinalizeWorkspace BY <2>4 DEF FinalizeWorkspace
  <2>5. CASE Retry \/ Cancel \/ BaseMoves \/ Merge BY <2>5 DEF Retry, Cancel, BaseMoves, Merge, gitVars
  <2>6. CASE ListWorktree \/ ClearPath BY <2>6 DEF ListWorktree, ClearPath, gitVars
  <2>7. CASE RemoveWorktree BY <2>7 DEF RemoveWorktree, Removable
  <2>8. CASE UNCHANGED wsVars BY <2>8 DEF wsVars, gitVars
  <2> QED BY <2>1, <2>2, <2>3, <2>4, <2>5, <2>6, <2>7, <2>8 DEF WsNext
<1>2. Len(branch.log) >= Deps /\ Len(branch.log) \in Nat /\ Deps \in Nat
  BY <1>1, NextCommit, WorkspaceAssumption DEF FinalizeWorkspace, WsInv, LogInv
<1>3. Len(branch'.log) = Len(branch.log) + 1
  <2>1. Work \in Nat /\ Work = IF Len(branch.log) < Deps THEN Len(branch.log) + 1 ELSE Work
    BY <1>2 DEF Work
  <2> QED BY <1>1, <2>1, LogGrows
<1> QED BY <1>2, <1>3

\* Uncommitted work leaves its worktree only by being committed, whoever prunes, retries or
\* dies in between.
THEOREM WorkIsKept == WsSpec => WorkSurvives
BY WsInvInit, WsInvStep, Committed, PTL DEF WsSpec, WorkSurvives
-----------------------------------------------------------------------------
(* The standing policy and the briefs of a project, its plans, its work and its merges. *)

\* What the code writes: complete, validated policies.
Whole(p) == p \in Policies /\ Valid(p)

Decisions == [type : Types \union {Unset}, choice : ReviewChoices \union {Unset}, decided : BOOLEAN, version : Nat]
Briefs    == [type : Types \union {Unset}, choice : ReviewChoices \union {Unset}, decided : BOOLEAN, version : Nat,
              rev : Nat]
PlanRows  == [state : {"none", "presented", "accepted", "submitted"}, of : {<<>>} \union (Nat \X Nat), under : Nat]
WorkRows  == [state : {"none", "queued", "running", "deciding", "reviewing", "done", "cancelled"},
              change : Changes \union {None}, seen : Policies \union {None}, review : {"none", "approved", "stale"}]

GovRows ==
  /\ gov \in Decisions /\ doc \in Briefs /\ plan \in PlanRows /\ work \in WorkRows
  /\ pref \in ReviewChoices \union {Unset} /\ merge \in {"none", "live"}
  /\ \/ cmd = None
     \/ cmd \in [kind : {"policy"}, policy : Requests, acknowledged : BOOLEAN]
     \/ cmd \in [kind : {"merge"}, fresh : BOOLEAN]

\* A project has a whole policy; without one nothing is decided, planned in or worked on.
PoliciesWhole ==
  /\ held # None => Whole(Policy)
  /\ \A p \in known : Whole(p)
  /\ held = None => /\ gov = Undecided /\ work.state = "none" /\ plan.state # "submitted"
                    /\ merge = "none" /\ cmd = None

\* Nobody decides for a client against a required review.
ClientsKept ==
  /\ gov.type # Unset /\ gov.choice # Unset => MayDecide(gov.type, gov.choice)
  /\ doc.type # Unset /\ doc.choice # Unset => MayDecide(doc.type, doc.choice)

\* An approval, or the request that is about to record one, stands on a review of this moment.
MergesReviewed ==
  merge = "live" \/ (cmd.kind = "merge" /\ cmd.fresh) => work.state = "done" /\ ReviewedEnough

PlansKept ==
  plan.state = "submitted" => plan.under <= gov.version /\ SubmittedAsAccepted

GovInv == GovRows /\ PoliciesWhole /\ ClientsKept /\ MergesReviewed /\ PlansKept

\* A whole policy is read as it was written.
LEMMA WholeIsNormal ==
  ASSUME NEW p, Whole(p)
  PROVE  Normalized(p) = p
<1>1. p \in Policies /\ Valid(p) BY DEF Whole
<1>2. DOMAIN p = {"trigger", "rules", "skips", "blocks", "quality", "route", "capacity"} /\ p = [x \in DOMAIN p |-> p[x]]
  BY <1>1 DEF Policies
<1>3. DOMAIN Unclassified = {"trigger", "rules", "skips", "blocks", "quality", "route", "capacity"}
  BY DEF Unclassified, Experiment
<1>4. [f \in DOMAIN Unclassified |-> IF f \in DOMAIN p THEN p[f] ELSE Unclassified[f]] = p BY <1>2, <1>3
<1>5. (IF p.trigger = "required" THEN {} ELSE p.skips) = p.skips /\ (IF p.blocks = {} THEN DefaultBlocks ELSE p.blocks) = p.blocks
  BY <1>1 DEF Valid
<1>6. Normalized(p) = [p EXCEPT !.skips = p.skips, !.blocks = p.blocks]
  BY <1>2, <1>4, <1>5 DEF Normalized
<1> QED BY <1>2, <1>6

LEMMA PresetsWhole ==
  /\ Whole(Experiment) /\ Whole(Personal) /\ Whole(Client) /\ Whole(Unclassified)
  /\ Unclassified.trigger = "off" /\ Personal.trigger = "risk"
  /\ Client.trigger = "required" /\ Client.skips = {} /\ Client.route = "independent" /\ Client.capacity = "blocked"
<1>1. {} \in SUBSET (Signs \union {"always"}) /\ DefaultRules \in SUBSET (Signs \union {"always"}) /\ DefaultRules # {}
      /\ DefaultSkips \in SUBSET Classes /\ {} \in SUBSET Classes
      /\ DefaultBlocks \in (SUBSET Severities) \ {{}} /\ "critical" \in DefaultBlocks
  BY DEF DefaultRules, DefaultSkips, DefaultBlocks, Signs, Classes, Severities
<1>2. {0, 1, 2} \subseteq 0..2 OBVIOUS
<1>3. Experiment = [trigger |-> "off", rules |-> {}, skips |-> DefaultSkips, blocks |-> DefaultBlocks,
                    quality |-> 0, route |-> "independent", capacity |-> "pending"]
  BY DEF Experiment
<1>4. Unclassified = [trigger |-> "off", rules |-> {}, skips |-> DefaultSkips, blocks |-> DefaultBlocks,
                      quality |-> 1, route |-> "independent", capacity |-> "pending"]
  BY <1>3 DEF Unclassified
<1>5. Experiment \in Policies BY <1>1, <1>2, <1>3 DEF Policies, Triggers
<1>6. /\ Personal \in Policies /\ Personal.trigger = "risk" /\ Personal.rules = DefaultRules
      /\ Personal.blocks = DefaultBlocks /\ Personal.route = "independent"
  BY <1>1, <1>2, <1>3, <1>5 DEF Personal, Policies, Triggers
<1>7. /\ Client \in Policies /\ Client.trigger = "required" /\ Client.skips = {} /\ Client.blocks = DefaultBlocks
      /\ Client.route = "independent" /\ Client.capacity = "blocked"
  BY <1>1, <1>2, <1>6 DEF Client, Policies, Triggers
<1>8. Whole(Experiment) BY <1>1, <1>3, <1>5 DEF Whole, Valid
<1>9. Whole(Unclassified) BY <1>1, <1>2, <1>4 DEF Whole, Policies, Valid, Triggers
<1>10. Whole(Personal) BY <1>1, <1>6 DEF Whole, Valid
<1>11. Whole(Client) BY <1>1, <1>7 DEF Whole, Valid
<1> QED BY <1>4, <1>6, <1>7, <1>8, <1>9, <1>10, <1>11

LEMMA RequestsWhole == \A q \in Requests : Whole(q)
<1>1. ASSUME NEW m \in {"none", "substantive", "required"}
      PROVE  Whole(Migrated([mode |-> m, skips |-> DefaultSkips]))
  <2> DEFINE old == [mode |-> m, skips |-> DefaultSkips]
             base == IF m = "none" THEN Unclassified ELSE IF m = "required" THEN Client
                     ELSE [Personal EXCEPT !.rules = {"always"}]
             q == [base EXCEPT !.trigger = TriggerOf(m), !.skips = IF m = "required" THEN {} ELSE DefaultSkips]
  <2>1. Migrated(old) = q BY DEF Migrated
  <2>2. Personal \in Policies /\ Unclassified \in Policies /\ Client \in Policies
        /\ Valid(Personal) /\ Valid(Unclassified) /\ Valid(Client)
    BY PresetsWhole DEF Whole
  <2>3. {"always"} \in SUBSET (Signs \union {"always"}) /\ DefaultSkips \in SUBSET Classes /\ {} \in SUBSET Classes
    BY DEF DefaultSkips, Classes
  <2>4. base \in Policies /\ "critical" \in base.blocks /\ (m = "substantive" => base.rules = {"always"})
    BY <2>2, <2>3 DEF Policies, Valid
  <2> HIDE DEF base
  <2>5. TriggerOf(m) \in Triggers /\ (TriggerOf(m) = "risk" => m = "substantive")
        /\ (TriggerOf(m) = "required" => m = "required")
    BY DEF TriggerOf, Triggers
  <2>6. q \in Policies BY <2>3, <2>4, <2>5 DEF Policies
  <2>7. Valid(q) BY <2>3, <2>4, <2>5 DEF Policies, Valid
  <2> QED BY <2>1, <2>6, <2>7 DEF Whole
<1> QED BY <1>1, PresetsWhole DEF Requests

\* The policy a choice stands for agrees with any decision that makes this choice.
LEMMA ChoiceAgrees ==
  ASSUME NEW g, g.choice \in ReviewChoices, MayDecide(g.type, g.choice)
  PROVE  Whole(ForChoice(g.choice)) /\ ~Conflicts(g, ForChoice(g.choice))
<1>1. CASE g.choice = "off" BY <1>1, PresetsWhole DEF ForChoice, Conflicts, MayDecide, ReviewChoices, Unset
<1>2. CASE g.choice = "risk" BY <1>2, PresetsWhole DEF ForChoice, Conflicts, MayDecide, ReviewChoices, Unset
<1>3. CASE g.choice = "required" BY <1>3, PresetsWhole DEF ForChoice, Conflicts, MayDecide, ReviewChoices, Unset
<1> QED BY <1>1, <1>2, <1>3 DEF ReviewChoices

LEMMA ConfiguredKeeps ==
  ASSUME GovInv, NEW p, Whole(p), Configured(p)
  PROVE  /\ held' # None /\ Policy' = p /\ (\A q \in known' : Whole(q)) /\ merge' = "none"
         /\ work' \in WorkRows /\ work'.state = work.state
<1>1. p # None BY DEF Whole, Policies, None
<1>2. Policy' = p BY WholeIsNormal DEF Configured, Policy
<1>3. work' \in WorkRows /\ work'.state = work.state BY DEF GovInv, GovRows, WorkRows, Configured
<1> QED BY <1>1, <1>2, <1>3 DEF Configured, GovInv, PoliciesWhole

\* A new configuration of a registered project: what was to be approved is not, and the project
\* may be decided about anew.
LEMMA Reconfigured ==
  ASSUME GovInv, NEW p, Whole(p), Configured(p), held # None,
         gov' \in Decisions, gov' = gov \/ gov'.version = gov.version + 1,
         gov'.type # Unset /\ gov'.choice # Unset => MayDecide(gov'.type, gov'.choice),
         cmd' = None \/ cmd' = Outdated, UNCHANGED <<doc, pref, plan>>
  PROVE  GovInv' /\ Policy' = p
<1>1. /\ held' # None /\ Policy' = p /\ (\A q \in known' : Whole(q)) /\ merge' = "none"
      /\ work' \in WorkRows /\ work'.state = work.state
  BY ConfiguredKeeps
<1>2. /\ \/ cmd' = None
         \/ cmd' \in [kind : {"policy"}, policy : Requests, acknowledged : BOOLEAN]
         \/ cmd' \in [kind : {"merge"}, fresh : BOOLEAN]
      /\ cmd'.kind = "merge" => ~cmd'.fresh
  <2>1. CASE cmd' = None BY <2>1 DEF None
  <2>2. CASE cmd' = Outdated
    <3>1. CASE cmd = None BY <2>2, <3>1 DEF Outdated, None
    <3>2. CASE cmd \in [kind : {"policy"}, policy : Requests, acknowledged : BOOLEAN] BY <2>2, <3>2 DEF Outdated
    <3>3. CASE cmd \in [kind : {"merge"}, fresh : BOOLEAN] BY <2>2, <3>3 DEF Outdated
    <3> QED BY <3>1, <3>2, <3>3 DEF GovInv, GovRows
  <2> QED BY <2>1, <2>2
<1>3. GovRows' BY <1>1, <1>2 DEF GovInv, GovRows
<1>4. PoliciesWhole' BY <1>1 DEF PoliciesWhole
<1>5. ClientsKept' BY DEF GovInv, ClientsKept
<1>6. MergesReviewed' BY <1>1, <1>2 DEF MergesReviewed
<1>7. PlansKept'
  <2>1. gov.version \in Nat /\ plan.under \in Nat BY DEF GovInv, GovRows, Decisions, PlanRows
  <2> QED BY <2>1 DEF GovInv, PlansKept, SubmittedAsAccepted, Shown
<1> QED BY <1>1, <1>3, <1>4, <1>5, <1>6, <1>7 DEF GovInv

\* A project comes into being with its decision, or without one and then unclassified.
LEMMA RegisteredAnew ==
  ASSUME GovInv, held = None, NEW p, Whole(p), Configured(p), gov' \in Decisions,
         gov'.type # Unset /\ gov'.choice # Unset => MayDecide(gov'.type, gov'.choice),
         cmd' = cmd, UNCHANGED <<doc, pref, plan>>
  PROVE  GovInv' /\ Policy' = p
<1>1. /\ held' # None /\ Policy' = p /\ (\A q \in known' : Whole(q)) /\ merge' = "none"
      /\ work' \in WorkRows /\ work'.state = work.state
  BY ConfiguredKeeps
<1>2. cmd = None /\ plan.state # "submitted" BY DEF GovInv, PoliciesWhole
<1>3. GovRows' BY <1>1, <1>2 DEF GovInv, GovRows
<1>4. PoliciesWhole' BY <1>1 DEF PoliciesWhole
<1>5. ClientsKept' BY DEF GovInv, ClientsKept
<1>6. MergesReviewed' BY <1>1, <1>2 DEF MergesReviewed, None
<1>7. PlansKept' BY <1>2 DEF PlansKept
<1> QED BY <1>1, <1>3, <1>4, <1>5, <1>6, <1>7 DEF GovInv

LEMMA DecidedAs ==
  ASSUME NEW g \in Decisions, NEW type \in Types, NEW choice \in ReviewChoices
  PROVE  /\ Decided(g, type, choice) \in Decisions
         /\ Decided(g, type, choice).type = type /\ Decided(g, type, choice).choice = choice
         /\ Decided(g, type, choice).decided /\ Decided(g, type, choice).version = g.version + 1
<1>1. PICK v \in Nat : v = g.version + 1 BY DEF Decisions
<1>2. Decided(g, type, choice) = [g EXCEPT !.type = type, !.choice = choice, !.decided = TRUE, !.version = v]
  BY <1>1 DEF Decided
<1>3. DOMAIN g = {"type", "choice", "decided", "version"} /\ g = [x \in DOMAIN g |-> g[x]] BY DEF Decisions
<1>4. Decided(g, type, choice) = [type |-> type, choice |-> choice, decided |-> TRUE, version |-> v] BY <1>2, <1>3
<1> QED BY <1>1, <1>4 DEF Decisions

LEMMA UndecidedRow == Undecided \in Decisions /\ Undecided.version = 0 /\ Unset \notin Types /\ Unset \notin ReviewChoices
BY DEF Undecided, Decisions, Unset, Types, ReviewChoices
-----------------------------------------------------------------------------
(* The steps of the configuration.                                         *)

LEMMA DecideKeeps ==
  ASSUME GovInv, NEW type \in Kinds, NEW choice \in ReviewChoices, NEW person, DecideProject(type, choice, person)
  PROVE  GovInv' /\ Ready(gov', Policy')
<1>1. type \in Types /\ gov \in Decisions /\ MayDecide(type, choice) /\ held # None
  BY GovernanceAssumption DEF GovInv, GovRows, DecideProject, HasProject
<1>2. gov' = Decided(gov, type, choice) /\ Configured(PolicyUnder(gov')) /\ cmd' = Outdated /\ UNCHANGED <<doc, pref, plan>>
  BY DEF DecideProject
<1>3. /\ gov' \in Decisions /\ gov'.type = type /\ gov'.choice = choice /\ gov'.decided /\ gov'.version = gov.version + 1
  BY <1>1, <1>2, DecidedAs
<1> PICK g \in Decisions : g = gov' BY <1>3
<1>4. Whole(PolicyUnder(g)) /\ ~Conflicts(g, PolicyUnder(g))
  <2>1. CASE Conflicts(g, Policy) BY <1>1, <1>3, <2>1, ChoiceAgrees DEF PolicyUnder
  <2>2. CASE ~Conflicts(g, Policy) BY <1>1, <2>2 DEF PolicyUnder, GovInv, PoliciesWhole
  <2> QED BY <2>1, <2>2
<1>5. GovInv' /\ Policy' = PolicyUnder(g) BY <1>1, <1>2, <1>3, <1>4, Reconfigured
<1> QED BY <1>1, <1>3, <1>4, <1>5, UndecidedRow DEF Ready, Missing

LEMMA CreateKeeps ==
  ASSUME GovInv, NEW type \in Kinds \union {Unset}, NEW choice \in ReviewChoices \union {Unset}, CreateProject(type, choice)
  PROVE  GovInv' /\ (gov'.version # gov.version => Ready(gov', Policy'))
<1> DEFINE full == IF type = "client" /\ choice = Unset THEN "required" ELSE choice
           own  == [Undecided EXCEPT !.type = type, !.choice = full]
           p    == IF gov'.decided THEN ForChoice(gov'.choice) ELSE Unclassified
<1>1. /\ held = None /\ Configured(p) /\ cmd' = cmd /\ UNCHANGED <<doc, pref, plan>>
      /\ type # Unset /\ full # Unset => MayDecide(type, full)
      /\ gov' = IF type # Unset /\ full # Unset THEN Decided(Undecided, type, full)
                ELSE IF choice = Unset /\ Filled(own, Eligible) THEN Decided(own, type, pref) ELSE own
  BY DEF CreateProject, HasProject
<1>2. type \in Types \union {Unset} /\ full \in ReviewChoices \union {Unset} /\ gov = Undecided
  BY <1>1, GovernanceAssumption DEF ReviewChoices, GovInv, PoliciesWhole
<1>3. own \in Decisions /\ own.type = type /\ own.choice = full /\ ~own.decided /\ own.version = 0
  BY <1>2 DEF Undecided, Decisions
<1> HIDE DEF full
<1>4. /\ gov' \in Decisions /\ (gov'.type # Unset /\ gov'.choice # Unset => MayDecide(gov'.type, gov'.choice))
      /\ gov'.decided => gov'.type \in Types /\ gov'.choice \in ReviewChoices
      /\ ~gov'.decided => gov'.version = 0
  <2>1. CASE type # Unset /\ full # Unset
    <3>1. type \in Types /\ full \in ReviewChoices /\ gov' = Decided(Undecided, type, full) BY <1>1, <1>2, <2>1
    <3> QED BY <1>1, <3>1, DecidedAs, UndecidedRow
  <2>2. CASE ~(type # Unset /\ full # Unset) /\ choice = Unset /\ Filled(own, Eligible)
    <3>1. type \in Types /\ type # "client" /\ pref \in ReviewChoices /\ gov' = Decided(own, type, pref)
      BY <1>1, <1>3, <2>2 DEF Filled, Eligible, Types, GovInv, GovRows
    <3> QED BY <1>3, <3>1, DecidedAs DEF MayDecide
  <2>3. CASE ~(type # Unset /\ full # Unset) /\ ~(choice = Unset /\ Filled(own, Eligible))
    <3>1. gov' = own BY <1>1, <2>3
    <3> QED BY <1>3, <2>3, <3>1
  <2> QED BY <2>1, <2>2, <2>3
<1> PICK g \in Decisions : g = gov' BY <1>4
<1>5. Whole(p) /\ (g.decided => ~Conflicts(g, p))
  BY <1>4, ChoiceAgrees, PresetsWhole, UndecidedRow
<1>6. GovInv' /\ Policy' = p
  BY <1>1, <1>4, <1>5, RegisteredAnew
<1> QED BY <1>2, <1>4, <1>5, <1>6, UndecidedRow DEF Ready, Missing

LEMMA PolicySet ==
  ASSUME GovInv, EndPolicy
  PROVE  GovInv' /\ gov' = gov
<1>1. cmd # None BY DEF EndPolicy, None
<1>2. Whole(cmd.policy) /\ held # None BY <1>1, RequestsWhole DEF EndPolicy, GovInv, GovRows, PoliciesWhole
<1>3. Configured(cmd.policy) /\ cmd' = None /\ UNCHANGED <<gov, doc, pref, plan>> BY DEF EndPolicy
<1>4. gov' \in Decisions /\ (gov'.type # Unset /\ gov'.choice # Unset => MayDecide(gov'.type, gov'.choice))
  BY <1>3 DEF GovInv, GovRows, ClientsKept
<1> PICK p : p = cmd.policy OBVIOUS
<1> QED BY <1>2, <1>3, <1>4, Reconfigured

LEMMA ConfigurationApplied ==
  ASSUME GovInv, NEW p \in Curated \union known, ApplyConfiguration(p)
  PROVE  GovInv' /\ gov' = gov
<1>1. Whole(p) BY GovernanceAssumption DEF Whole, GovInv, PoliciesWhole
<1>2. held # None /\ Configured(p) /\ cmd' = Outdated /\ UNCHANGED <<gov, doc, pref, plan>>
  BY DEF ApplyConfiguration, HasProject
<1>3. gov' \in Decisions /\ (gov'.type # Unset /\ gov'.choice # Unset => MayDecide(gov'.type, gov'.choice))
  BY <1>2 DEF GovInv, GovRows, ClientsKept
<1> QED BY <1>1, <1>2, <1>3, Reconfigured

LEMMA BootstrapKeeps ==
  ASSUME GovInv, Bootstrap
  PROVE  GovInv' /\ Ready(gov', Policy')
<1>1. /\ held = None /\ gov' = Decided(Undecided, doc.type, doc.choice) /\ Configured(ForChoice(doc.choice)) /\ cmd' = cmd
      /\ UNCHANGED <<doc, pref, plan>>
  BY DEF Bootstrap, HasProject
<1>2. doc.type \in Types /\ doc.choice \in ReviewChoices /\ MayDecide(doc.type, doc.choice)
  BY DEF Bootstrap, BriefReady, Missing, GovInv, GovRows, Briefs, ClientsKept
<1>3. /\ gov' \in Decisions /\ gov'.type = doc.type /\ gov'.choice = doc.choice /\ gov'.decided
  BY <1>1, <1>2, DecidedAs, UndecidedRow
<1> PICK g \in Decisions : g = gov' BY <1>3
<1>4. Whole(ForChoice(g.choice)) /\ ~Conflicts(g, ForChoice(g.choice))
  BY <1>2, <1>3, ChoiceAgrees
<1>5. GovInv' /\ Policy' = ForChoice(g.choice) BY <1>1, <1>2, <1>3, <1>4, RegisteredAnew
<1> QED BY <1>2, <1>3, <1>4, <1>5, UndecidedRow DEF Ready, Missing
-----------------------------------------------------------------------------
(* The steps of the brief, the plan, the task and its merge.               *)

LEMMA BriefKeeps ==
  ASSUME GovInv, NEW type \in Kinds \union {Unset, "same"}, NEW choice \in ReviewChoices \union {Unset, "same"},
         UpdateBrief(type, choice)
  PROVE  GovInv' /\ gov' = gov
<1> DEFINE t      == IF type = "same" THEN doc.type ELSE type
           c      == IF choice = "same" THEN doc.choice ELSE choice
           given  == [doc EXCEPT !.type = t, !.choice = c, !.rev = @ + 1]
           wanted == IF t = "client" /\ choice = "same" THEN "required" ELSE c
<1>1. /\ t # Unset /\ wanted # Unset => MayDecide(t, wanted)
      /\ doc' = IF type = "same" /\ choice = "same" THEN given
                ELSE IF t # Unset /\ wanted # Unset THEN Decided(given, t, wanted)
                ELSE IF choice = "same" /\ Filled(given, Eligible) THEN Decided(given, t, pref)
                ELSE given
      /\ Withdraw /\ UNCHANGED <<gov, held, known, pref, merge, cmd, settings>>
  <2>1. doc \in Briefs BY DEF GovInv, GovRows
  <2>2. given.type = t /\ given.choice = c BY <2>1 DEF Briefs
  <2> QED BY <2>2 DEF UpdateBrief
<1>2. doc \in Briefs /\ t \in Types \union {Unset} /\ c \in ReviewChoices \union {Unset}
      /\ wanted \in ReviewChoices \union {Unset} /\ pref \in ReviewChoices \union {Unset}
  BY GovernanceAssumption DEF GovInv, GovRows, Briefs, ReviewChoices
<1> HIDE DEF wanted
<1> HIDE DEF t, c
<1>3. given \in Briefs /\ given.type = t /\ given.choice = c
  <2>1. PICK v \in Nat : v = doc.rev + 1 BY <1>2 DEF Briefs
  <2>2. given = [doc EXCEPT !.type = t, !.choice = c, !.rev = v] BY <2>1
  <2> HIDE DEF given
  <2> QED BY <1>2, <2>2 DEF Briefs
<1>4. doc' \in Briefs /\ (doc'.type # Unset /\ doc'.choice # Unset => MayDecide(doc'.type, doc'.choice))
  <2> HIDE DEF given
  <2>1. CASE type = "same" /\ choice = "same"
    <3>1. doc' = given /\ t = doc.type /\ c = doc.choice BY <1>1, <2>1 DEF t, c
    <3> QED BY <1>3, <3>1 DEF GovInv, ClientsKept
  <2>2. ASSUME NEW k \in ReviewChoices, t # Unset, MayDecide(t, k), doc' = Decided(given, t, k)
        PROVE  doc' \in Briefs /\ (doc'.type # Unset /\ doc'.choice # Unset => MayDecide(doc'.type, doc'.choice))
    <3> DEFINE row == [type |-> t, choice |-> k, decided |-> TRUE, version |-> given.version + 1, rev |-> given.rev]
    <3>1. doc' = row BY <1>3, <2>2 DEF Decided, Briefs
    <3>2. given.version + 1 \in Nat /\ given.rev \in Nat /\ t \in Types BY <1>2, <1>3, <2>2 DEF Briefs
    <3>3. row \in Briefs BY <3>2 DEF Briefs
    <3> QED BY <2>2, <3>1, <3>3
  <2>3. CASE ~(type = "same" /\ choice = "same") /\ t # Unset /\ wanted # Unset
    BY <1>1, <1>2, <2>2, <2>3
  <2>4. CASE ~(type = "same" /\ choice = "same") /\ ~(t # Unset /\ wanted # Unset) /\ choice = "same" /\ Filled(given, Eligible)
    <3>1. t = "personal" /\ pref \in ReviewChoices BY <1>2, <1>3, <2>4 DEF Filled, Eligible
    <3> QED BY <1>1, <2>2, <2>4, <3>1, UndecidedRow DEF MayDecide, Types
  <2>5. CASE ~(type = "same" /\ choice = "same") /\ ~(t # Unset /\ wanted # Unset)
             /\ ~(choice = "same" /\ Filled(given, Eligible))
    <3>1. doc' = given BY <1>1, <2>5
    <3>2. t = Unset \/ c = Unset BY <1>2, <2>5 DEF wanted, Unset
    <3> QED BY <1>3, <3>1, <3>2
  <2> QED BY <2>1, <2>3, <2>4, <2>5
<1>5. /\ plan' \in PlanRows /\ plan'.state # "submitted" /\ work' \in WorkRows
      /\ work.state # "queued" => work' = work
      /\ work.state = "none" => work'.state = "none"
  BY <1>1 DEF Withdraw, NoPlan, GovInv, GovRows, PlanRows, WorkRows
<1>6. GovRows' BY <1>1, <1>4, <1>5 DEF GovInv, GovRows
<1>7. PoliciesWhole' BY <1>1, <1>5 DEF GovInv, PoliciesWhole, Policy
<1>8. MergesReviewed' BY <1>1, <1>5 DEF GovInv, MergesReviewed, ReviewedEnough, Policy
<1> QED BY <1>1, <1>4, <1>5, <1>6, <1>7, <1>8 DEF GovInv, ClientsKept, PlansKept

\* Steps that leave the decisions, the policy and the brief as they are.
LEMMA PlanAndWork ==
  ASSUME GovInv, UNCHANGED <<gov, held, known, doc>>, plan' \in PlanRows, work' \in WorkRows,
         pref' \in ReviewChoices \union {Unset}, UNCHANGED <<merge, cmd>>,
         work' = work \/ (held # None /\ work.state # "done"),
         plan'.state = "submitted" => plan' = plan \/ (held # None /\ plan'.under = gov.version /\ plan'.of = Shown /\ Agree)
  PROVE  GovInv' /\ gov' = gov
<1>1. GovRows' BY DEF GovInv, GovRows
<1>2. PoliciesWhole' BY DEF GovInv, PoliciesWhole, Policy
<1>3. MergesReviewed' BY DEF GovInv, MergesReviewed, ReviewedEnough, Policy
<1>4. gov.version \in Nat BY DEF GovInv, GovRows, Decisions
<1>5. PlansKept' BY <1>4 DEF GovInv, PlansKept, SubmittedAsAccepted, Shown, Agree
<1> QED BY <1>1, <1>2, <1>3, <1>5 DEF GovInv, ClientsKept

LEMMA CommandBegun ==
  ASSUME GovInv, NEW p \in Requests, NEW acknowledged \in BOOLEAN, BeginPolicy(p, acknowledged)
  PROVE  GovInv' /\ gov' = gov
<1>1. /\ cmd' = [kind |-> "policy", policy |-> p, acknowledged |-> acknowledged] /\ held # None
      /\ UNCHANGED <<gov, held, known, doc, pref, plan, work, merge>>
  BY DEF BeginPolicy, HasProject
<1>2. cmd' \in [kind : {"policy"}, policy : Requests, acknowledged : BOOLEAN] /\ cmd'.kind # "merge" BY <1>1
<1> QED BY <1>1, <1>2 DEF GovInv, GovRows, PoliciesWhole, ClientsKept, MergesReviewed, ReviewedEnough, Policy, PlansKept,
                           SubmittedAsAccepted, Shown

LEMMA MergeKeeps ==
  ASSUME GovInv, BeginMerge \/ EndMerge
  PROVE  GovInv' /\ gov' = gov
<1>1. CASE BeginMerge
  <2>1. /\ cmd' = [kind |-> "merge", fresh |-> TRUE] /\ work.state = "done" /\ ReviewedEnough
        /\ UNCHANGED <<gov, held, known, doc, pref, plan, work, merge>>
    BY <1>1 DEF BeginMerge
  <2>2. cmd' \in [kind : {"merge"}, fresh : BOOLEAN] BY <2>1
  <2> QED BY <2>1, <2>2 DEF GovInv, GovRows, PoliciesWhole, ClientsKept, MergesReviewed, ReviewedEnough, Policy, PlansKept,
                             SubmittedAsAccepted, Shown
<1>2. CASE EndMerge
  <2>1. /\ cmd.kind = "merge" /\ cmd' = None /\ merge' = IF cmd.fresh THEN "live" ELSE "none"
        /\ UNCHANGED <<gov, held, known, doc, pref, plan, work>>
    BY <1>2 DEF EndMerge
  <2>2. cmd # None /\ held # None /\ cmd'.kind # "merge" BY <2>1 DEF None, GovInv, PoliciesWhole
  <2> QED BY <2>1, <2>2 DEF GovInv, GovRows, PoliciesWhole, ClientsKept, MergesReviewed, ReviewedEnough, Policy, PlansKept,
                             SubmittedAsAccepted, Shown
<1> QED BY <1>1, <1>2

LEMMA WorkKeeps ==
  ASSUME GovInv,
         \/ \E choice \in ReviewChoices \union {Unset} : SetPreference(choice)
         \/ Propose \/ Accept \/ (\E change \in Changes : SubmitPlan(change) \/ AddTask(change))
         \/ Dispatch \/ ReadChange \/ (\E requested \in BOOLEAN : DecideReview(requested)) \/ ReviewApproves
  PROVE  GovInv' /\ gov' = gov
<1>1. /\ plan \in PlanRows /\ work \in WorkRows /\ pref \in ReviewChoices \union {Unset} /\ doc \in Briefs /\ gov \in Decisions
      /\ held # None => Whole(Policy)
      /\ work.state # "none" => held # None
  BY DEF GovInv, GovRows, PoliciesWhole
<1>2. Shown \in Nat \X Nat BY <1>1 DEF Shown, Briefs
<1>3. CASE \E choice \in ReviewChoices \union {Unset} : SetPreference(choice)
  BY <1>1, <1>3, PlanAndWork DEF SetPreference
<1>4. CASE Propose
  <2>1. plan' \in PlanRows /\ plan'.state # "submitted" BY <1>2, <1>4 DEF Propose, PlanRows
  <2> QED BY <1>1, <1>4, <2>1, PlanAndWork DEF Propose
<1>5. CASE Accept
  <2>1. plan' \in PlanRows /\ plan'.state # "submitted" BY <1>1, <1>5 DEF Accept, PlanRows
  <2> QED BY <1>1, <1>5, <2>1, PlanAndWork DEF Accept
<1>6. ASSUME NEW change \in Changes, SubmitPlan(change) PROVE GovInv' /\ gov' = gov
  <2>1. plan' \in PlanRows /\ plan'.under = gov.version /\ plan'.of = Shown
    BY <1>1, <1>6 DEF SubmitPlan, PlanRows, Decisions
  <2>2. work' \in WorkRows BY <1>1, <1>6 DEF SubmitPlan, WorkRows
  <2> QED BY <1>1, <1>6, <2>1, <2>2, PlanAndWork DEF SubmitPlan, HasProject
<1>7. ASSUME NEW change \in Changes, AddTask(change) PROVE GovInv' /\ gov' = gov
  <2>1. work' \in WorkRows BY <1>1, <1>7 DEF AddTask, WorkRows
  <2> QED BY <1>1, <1>7, <2>1, PlanAndWork DEF AddTask, HasProject
<1>8. CASE Dispatch
  <2>1. work' \in WorkRows BY <1>1, <1>8 DEF Dispatch, Task, WorkRows
  <2> QED BY <1>1, <1>8, <2>1, PlanAndWork DEF Dispatch, Task
<1>9. CASE ReadChange
  <2>1. work' \in WorkRows BY <1>1, <1>9 DEF ReadChange, Task, WorkRows, Whole
  <2> QED BY <1>1, <1>9, <2>1, PlanAndWork DEF ReadChange, Task
<1>10. ASSUME NEW requested \in BOOLEAN, DecideReview(requested) PROVE GovInv' /\ gov' = gov
  <2>1. work' \in WorkRows BY <1>1, <1>10 DEF DecideReview, Task, WorkRows
  <2> QED BY <1>1, <1>10, <2>1, PlanAndWork DEF DecideReview, Task
<1>11. CASE ReviewApproves
  <2>1. work' \in WorkRows BY <1>1, <1>11 DEF ReviewApproves, Task, WorkRows
  <2> QED BY <1>1, <1>11, <2>1, PlanAndWork DEF ReviewApproves, Task
<1> QED BY <1>3, <1>4, <1>5, <1>6, <1>7, <1>8, <1>9, <1>10, <1>11

LEMMA GovInvInit == GovInit => GovInv
<1> SUFFICES ASSUME GovInit PROVE GovInv OBVIOUS
<1>1. PICK g \in Created :
        doc = [type |-> g.type, choice |-> g.choice, decided |-> g.decided, version |-> g.version, rev |-> 1]
  BY DEF GovInit
<1>2. g \in Decisions /\ (g.type # Unset /\ g.choice # Unset => MayDecide(g.type, g.choice))
  <2>1. ASSUME NEW type \in Kinds, NEW choice \in ReviewChoices, MayDecide(type, choice), g = Decided(Undecided, type, choice)
        PROVE  g \in Decisions /\ (g.type # Unset /\ g.choice # Unset => MayDecide(g.type, g.choice))
    <3>1. type \in Types BY GovernanceAssumption
    <3> QED BY <2>1, <3>1, DecidedAs, UndecidedRow
  <2>2. CASE g = Undecided BY <2>2, UndecidedRow DEF Undecided
  <2> QED BY <2>1, <2>2 DEF Created
<1>3. doc \in Briefs /\ doc.type = g.type /\ doc.choice = g.choice BY <1>1, <1>2 DEF Decisions, Briefs
<1>4. NoPlan \in PlanRows /\ NoPlan.state # "submitted" BY DEF NoPlan, PlanRows
<1>5. [state |-> "none", change |-> None, seen |-> None, review |-> "none"] \in WorkRows BY DEF WorkRows
<1>6. held # None => Whole(Policy) BY GovernanceAssumption DEF GovInit, Whole, Policy
<1>7. GovRows BY <1>3, <1>4, <1>5, UndecidedRow DEF GovInit, GovRows
<1>8. PoliciesWhole BY <1>4, <1>6 DEF GovInit, PoliciesWhole
<1>9. ClientsKept BY <1>2, <1>3 DEF GovInit, ClientsKept, Undecided
<1>10. MergesReviewed /\ PlansKept BY <1>4 DEF GovInit, MergesReviewed, PlansKept, None
<1> QED BY <1>7, <1>8, <1>9, <1>10 DEF GovInv

LEMMA GovInvStep == GovInv /\ [GovNext]_govVars => GovInv' /\ [DecisionSettles]_govVars
<1> SUFFICES ASSUME GovInv, [GovNext]_govVars PROVE GovInv' /\ [DecisionSettles]_govVars OBVIOUS
<1>1. CASE UNCHANGED govVars
  BY <1>1 DEF govVars, GovInv, GovRows, PoliciesWhole, ClientsKept, MergesReviewed, ReviewedEnough, Policy, PlansKept,
              SubmittedAsAccepted, Shown
<1>2. CASE GovNext
  <2>1. ASSUME gov' = gov PROVE DecisionSettles BY <2>1 DEF DecisionSettles
  <2> QED BY <1>2, <2>1, DecideKeeps, CreateKeeps, PolicySet, ConfigurationApplied, BootstrapKeeps, BriefKeeps,
             CommandBegun, MergeKeeps, WorkKeeps DEF GovNext, DecisionSettles
<1> QED BY <1>1, <1>2

LEMMA GovInvSays == GovInv => ReadyIsReviewed /\ LiveApprovalReviewed /\ SubmittedAsAccepted
<1> SUFFICES ASSUME GovInv PROVE ReadyIsReviewed /\ LiveApprovalReviewed /\ SubmittedAsAccepted OBVIOUS
<1>1. ReadyIsReviewed
  <2> SUFFICES ASSUME HasProject, Ready(gov, Policy)
               PROVE  /\ gov.choice = "required" => \A class \in Classes, signs \in SUBSET Signs : Asks(Policy, class, signs)
                      /\ gov.choice = "off" => \A class \in Classes, signs \in SUBSET Signs : ~Asks(Policy, class, signs)
                      /\ gov.choice = "risk" => \A class \in Classes \ Policy.skips : Asks(Policy, class, Signs)
                      /\ gov.type = "client" => /\ gov.choice = "required" /\ Policy.route = "independent"
                                                /\ Policy.capacity = "blocked" /\ "critical" \in Policy.blocks
    BY DEF ReadyIsReviewed
  <2>1. Whole(Policy) /\ gov \in Decisions BY DEF GovInv, GovRows, PoliciesWhole, HasProject
  <2>2. /\ Policy.trigger = gov.choice
        /\ gov.choice = "required" => Policy.skips = {}
        /\ gov.type = "client" => Policy.route = "independent" /\ Policy.capacity = "blocked"
    BY <2>1 DEF Ready, Missing, Conflicts
  <2>3. gov.choice = "risk" => \E rule \in Policy.rules : Matches(rule, Signs)
    <3>1. Policy.rules \subseteq Signs \union {"always"} BY <2>1 DEF Whole, Policies
    <3>2. gov.choice = "risk" => Policy.rules # {} BY <2>1, <2>2 DEF Whole, Valid
    <3> QED BY <3>1, <3>2 DEF Matches
  <2>4. gov.type = "client" => gov.choice = "required"
    BY DEF GovInv, ClientsKept, Ready, Missing, MayDecide
  <2>5. "critical" \in Policy.blocks BY <2>1 DEF Whole, Valid
  <2>6. gov.choice = "required" => \A class \in Classes, signs \in SUBSET Signs : Asks(Policy, class, signs)
    BY <2>2 DEF Asks, Reviews
  <2>7. gov.choice = "off" => \A class \in Classes, signs \in SUBSET Signs : ~Asks(Policy, class, signs)
    BY <2>2 DEF Asks, Reviews
  <2>8. gov.choice = "risk" => \A class \in Classes \ Policy.skips : Asks(Policy, class, Signs)
    BY <2>2, <2>3 DEF Asks, Reviews
  <2> QED BY <2>2, <2>4, <2>5, <2>6, <2>7, <2>8
<1>2. LiveApprovalReviewed BY DEF GovInv, MergesReviewed, ReviewedEnough, LiveApprovalReviewed, Asks
<1>3. SubmittedAsAccepted BY DEF GovInv, PlansKept, SubmittedAsAccepted
<1> QED BY <1>1, <1>2, <1>3

\* Whoever decides, configures, revises or weakens in between: a ready project is reviewed as it
\* was decided, a live approval is of a change reviewed under the policy of this moment, a
\* submitted plan is reviewed as it was accepted, and every decision leaves the project ready.
THEOREM GovernanceStands == GovSpec => GovernanceHolds
BY GovInvInit, GovInvStep, GovInvSays, PTL DEF GovSpec, GovernanceHolds
-----------------------------------------------------------------------------
(* Types: the bounds of the counters, beside the invariants above.         *)

\* A tick looks at tasks.
LEMMA OrdersAre ==
  ASSUME NEW S \in SUBSET STasks, NEW o \in fairOrder(S)
  PROVE  o \in Seq(STasks)
<1>1. IsFiniteSet(S) BY SchedulingAssumption, FS_Subset
<1>2. Cardinality(S) \in Nat BY <1>1, FS_CardinalityType
<1>3. o \in [1..Cardinality(S) -> S] BY DEF fairOrder
<1> QED BY <1>2, <1>3, SeqDef

LEMMA SchedTypeInit == SchedInit => SchedTypeOK
<1> SUFFICES ASSUME SchedInit PROVE SchedTypeOK OBVIOUS
<1>1. /\ ModelWorkers \in Nat \ {0} /\ RaiseAfter \in Nat /\ MaxAge \in Nat /\ MaxLead \in Nat
      /\ <<>> \in Seq(STasks)
  BY SchedulingAssumption
<1>2. floor \in Nat /\ floor <= ModelWorkers BY <1>1 DEF floor
<1> QED BY <1>1, <1>2 DEF SchedInit, SchedTypeOK, Holding

LEMMA SchedTypeStep == SchedTypeOK /\ [SchedNext]_schedVars => SchedTypeOK'
<1> SUFFICES ASSUME SchedTypeOK, [SchedNext]_schedVars PROVE SchedTypeOK' OBVIOUS
<1>1. /\ ModelWorkers \in Nat \ {0} /\ RaiseAfter \in Nat /\ MaxAge \in Nat /\ MaxLead \in Nat /\ floor = 1
      /\ ProjectOf \in [STasks -> Projects]
  BY SchedulingAssumption DEF floor
<1>2. /\ st \in [STasks -> Holding \union {"ready", "out"}] /\ age \in [STasks -> 0..MaxAge]
      /\ service \in [Projects -> 0..MaxLead] /\ pass \in Seq(STasks)
      /\ adaptive \in [target : floor..ModelWorkers, streak : 0..RaiseAfter]
  BY DEF SchedTypeOK
<1>3. ASSUME NEW pressure \in BOOLEAN, NEW overloaded \in BOOLEAN, BeginTick(pressure, overloaded) PROVE SchedTypeOK'
  <2>1. adaptive' \in [target : floor..ModelWorkers, streak : 0..RaiseAfter]
    <3>1. adaptive.target \in floor..ModelWorkers /\ adaptive.streak \in 0..RaiseAfter BY <1>2
    <3>2. Lowered \in floor..ModelWorkers BY <1>1, <3>1 DEF Lowered
    <3>3. adaptive.target < ModelWorkers => adaptive.target + 1 \in floor..ModelWorkers BY <1>1, <3>1
    <3>4. 0 \in 0..RaiseAfter /\ (adaptive.streak < RaiseAfter => adaptive.streak + 1 \in 0..RaiseAfter) BY <1>1, <3>1
    <3>5. [adaptive EXCEPT !.streak = IF @ < RaiseAfter THEN @ + 1 ELSE @] \in [target : floor..ModelWorkers, streak : 0..RaiseAfter]
      BY <1>2, <3>4
    <3>6. Observe(pressure) \in [target : floor..ModelWorkers, streak : 0..RaiseAfter]
      BY <3>2, <3>3, <3>4, <3>5 DEF Observe
    <3> QED BY <1>3, <3>6 DEF BeginTick
  <2>2. age' \in [STasks -> 0..MaxAge]
    <3>1. \A t \in STasks : age[t] \in 0..MaxAge /\ (age[t] < MaxAge => age[t] + 1 \in 0..MaxAge) BY <1>1, <1>2
    <3> QED BY <1>3, <3>1 DEF BeginTick, Older
  <2>3. pass' \in Seq(STasks)
    <3>1. PICK S \in Scanned : \E o \in fairOrder(Waiting("parked")), next \in fairOrder(S) :
                                 pass' = IF overloaded THEN o ELSE o \o next
      BY <1>3 DEF BeginTick
    <3>2. PICK o \in fairOrder(Waiting("parked")), next \in fairOrder(S) :
                 pass' = IF overloaded THEN o ELSE o \o next
      BY <3>1
    <3>3. Waiting("parked") \in SUBSET STasks /\ S \in SUBSET STasks BY DEF Waiting, Scanned
    <3>4. o \in Seq(STasks) /\ next \in Seq(STasks) BY <3>3, OrdersAre
    <3> QED BY <3>2, <3>4, ConcatProperties
  <2>4. UNCHANGED <<st, service>> BY <1>3 DEF BeginTick
  <2> QED BY <1>2, <2>1, <2>2, <2>3, <2>4 DEF SchedTypeOK
<1>4. ASSUME NEW t \in STasks, NEW s \in Holding \union {"ready", "out"}, st' = [st EXCEPT ![t] = s],
             age' = [age EXCEPT ![t] = 0] \/ age' = age, UNCHANGED <<service, adaptive, pass>>
      PROVE  SchedTypeOK'
  <2>1. 0 \in 0..MaxAge BY <1>1
  <2> QED BY <1>2, <1>4, <2>1 DEF SchedTypeOK
<1>5. CASE Offer
  <2>1. pass # <<>> /\ pass' = Tail(pass) /\ adaptive' = adaptive BY <1>5 DEF Offer
  <2>2. Head(pass) \in STasks /\ pass' \in Seq(STasks) BY <1>2, <2>1
  <2> PICK t \in STasks : t = Head(pass) BY <2>2
  <2>3. CASE st[t] \in {"parked", "ready"} /\ Admitted(t, "model")
    <3>1. /\ st' = [st EXCEPT ![t] = "model"] /\ age' = [age EXCEPT ![t] = 0]
          /\ service' = IF st[t] = "ready" THEN Dispatched(ProjectOf[t]) ELSE service
      BY <1>5, <2>3 DEF Offer
    <3>2. "model" \in Holding /\ 0 \in 0..MaxAge BY <1>1 DEF Holding
    <3>3. Dispatched(ProjectOf[t]) \in [Projects -> 0..MaxLead]
      <4> DEFINE raised == [service EXCEPT ![ProjectOf[t]] = IF @ < MaxLead THEN @ + 1 ELSE @]
      <4>1. ProjectOf[t] \in Projects BY <1>1
      <4>2. raised \in [Projects -> 0..MaxLead] BY <1>1, <1>2, <4>1
      <4> HIDE DEF raised
      <4>3. \A q \in Projects : raised[q] \in 0..MaxLead /\ (raised[q] > 0 => raised[q] - 1 \in 0..MaxLead) BY <1>1, <4>2
      <4>4. (\A q \in Projects : raised[q] > 0) => [q \in Projects |-> raised[q] - 1] \in [Projects -> 0..MaxLead] BY <4>3
      <4> QED BY <4>2, <4>4 DEF Dispatched, raised
    <3> QED BY <1>2, <2>1, <2>2, <3>1, <3>2, <3>3 DEF SchedTypeOK
  <2>4. CASE ~(st[t] \in {"parked", "ready"} /\ Admitted(t, "model"))
    <3>1. UNCHANGED <<st, age, service>> BY <1>5, <2>4 DEF Offer
    <3> QED BY <1>2, <2>1, <2>2, <3>1 DEF SchedTypeOK
  <2> QED BY <2>3, <2>4
<1>6. ASSUME NEW t \in STasks, WorkEnds(t) \/ CheckNext(t) \/ RepairNext(t) \/ TaskOver(t) \/ Submit(t) PROVE SchedTypeOK'
  <2>1. {"held", "gate", "model", "parked"} \subseteq Holding BY DEF Holding
  <2>2. PICK s \in Holding \union {"ready", "out"} : st' = [st EXCEPT ![t] = s]
    BY <1>6, <2>1 DEF WorkEnds, CheckNext, RepairNext, TaskOver, Submit
  <2>3. (age' = [age EXCEPT ![t] = 0] \/ age' = age) /\ UNCHANGED <<service, adaptive, pass>>
    BY <1>6 DEF WorkEnds, CheckNext, RepairNext, TaskOver, Submit
  <2> QED BY <1>4, <2>2, <2>3
<1>7. CASE UNCHANGED schedVars BY <1>2, <1>7 DEF schedVars, SchedTypeOK
<1> QED BY <1>3, <1>5, <1>6, <1>7 DEF SchedNext, Ticks

\* What is recorded of the worktree is a revision the base branch, the dependencies and the
\* task's own commits can make.
Bounded  == [root : -1..MaxHead, len : 0..(Deps + MaxWork)]
WsBounds ==
  /\ head \in 0..MaxHead /\ branch.root \in -1..MaxHead /\ Len(branch.log) <= Deps + MaxWork
  /\ merged \in BOOLEAN /\ dir \in BOOLEAN /\ dirty \in BOOLEAN
  /\ prune \in [at : {"idle", "listed", "clear"}, refused : BOOLEAN]
  /\ wtask.base \in Bounded /\ integrated \in Bounded /\ prep.base \in Bounded

LEMMA WsBoundsInit == WsInit => WsBounds
<1>1. MaxHead \in Nat /\ Deps \in Nat /\ MaxWork \in Nat BY WorkspaceAssumption
<1>2. NoRev \in Bounded /\ 0 \in 0..MaxHead /\ -1 \in -1..MaxHead /\ 0 <= Deps + MaxWork BY <1>1 DEF NoRev, Bounded
<1> SUFFICES ASSUME WsInit PROVE WsBounds OBVIOUS
<1>3. branch.root = -1 /\ branch.log = <<>> BY DEF WsInit, NoBranch
<1>4. Len(branch.log) = 0 BY <1>3
<1>5. prep.base = NoRev /\ wtask.base = NoRev BY DEF WsInit, Idle
<1>6. prune \in [at : {"idle", "listed", "clear"}, refused : BOOLEAN] BY DEF WsInit
<1>7. head = 0 /\ integrated = NoRev /\ {merged, dir, dirty} \subseteq BOOLEAN BY DEF WsInit
<1> QED BY <1>2, <1>3, <1>4, <1>5, <1>6, <1>7 DEF WsBounds

LEMMA WsBoundsStep == WsInv /\ WsBounds /\ [WsNext]_wsVars => WsBounds'
<1> SUFFICES ASSUME WsInv, WsBounds, [WsNext]_wsVars PROVE WsBounds' OBVIOUS
<1>1. /\ NoRev \in Bounded /\ Deps \in Nat /\ MaxHead \in Nat /\ MaxWork \in Nat
      /\ \A r \in Bounded : r.root \in -1..MaxHead /\ r.len \in 0..(Deps + MaxWork)
      /\ Idle.base = NoRev
  BY WorkspaceAssumption DEF NoRev, Bounded, Idle
<1>2. /\ Len(branch.log) \in Nat /\ branch \in [root : Int, log : Seq(Nat)] /\ wtask.base \in Revisions
      /\ wtask \in [state : Terminal \union {"READY", "RUNNING", "BLOCKED"}, base : Revisions,
                    path : BOOLEAN, result : BOOLEAN]
      /\ prep \in [at : {"idle", "integrate", "record"}, fresh : BOOLEAN, base : Revisions]
  BY NextCommit DEF WsInv, WsRows
<1>3. ASSUME NEW c, branch' = [branch EXCEPT !.log = Append(@, c)], c \in Nat, Len(branch.log) < Deps + MaxWork
      PROVE  branch'.root = branch.root /\ Len(branch'.log) <= Deps + MaxWork
  <2>1. branch'.root = branch.root /\ branch'.log = Append(branch.log, c) BY <1>2, <1>3
  <2>2. Len(Append(branch.log, c)) = Len(branch.log) + 1 BY <1>2, <1>3, AppendProperties
  <2> QED BY <1>1, <1>2, <1>3, <2>1, <2>2
<1>4. CASE PrepareWorkspace
  <2>1. PICK base \in Bounded :
          /\ prep' = [at |-> "integrate", fresh |-> branch = NoBranch, base |-> base]
          /\ branch' = IF branch = NoBranch THEN [root |-> base.root, log |-> <<>>] ELSE branch
    <3> DEFINE base == IF wtask.base = NoRev THEN [root |-> head, len |-> 0] ELSE wtask.base
    <3>1. base \in Bounded BY <1>1 DEF WsBounds, Bounded
    <3>2. /\ prep' = [at |-> "integrate", fresh |-> branch = NoBranch, base |-> base]
          /\ branch' = IF branch = NoBranch THEN [root |-> base.root, log |-> <<>>] ELSE branch
      BY <1>4 DEF PrepareWorkspace
    <3> HIDE DEF base
    <3> QED BY <3>1, <3>2
  <2>2. dir' = TRUE /\ UNCHANGED <<head, merged, dirty, wtask, integrated, prune>> BY <1>4 DEF PrepareWorkspace
  <2>3. branch'.root \in -1..MaxHead /\ Len(branch'.log) <= Deps + MaxWork
    <3>1. CASE branch = NoBranch
      <4>1. branch' = [root |-> base.root, log |-> <<>>] BY <2>1, <3>1
      <4> QED BY <1>1, <4>1
    <3>2. CASE branch # NoBranch BY <2>1, <3>2 DEF WsBounds
    <3> QED BY <3>1, <3>2
  <2> QED BY <2>1, <2>2, <2>3 DEF WsBounds
<1>5. CASE ReuseIntegration
  <2>1. prep'.base = integrated /\ UNCHANGED <<gitVars, wtask, integrated, prune>> BY <1>2, <1>5 DEF ReuseIntegration
  <2> QED BY <2>1 DEF WsBounds, gitVars
<1>6. CASE CherryPick
  <2>1. PICK c \in 1..Deps :
          /\ Len(branch.log) < Deps + MaxWork
          /\ IF dir /\ ~dirty
             THEN branch' = [branch EXCEPT !.log = Append(@, c)] /\ UNCHANGED <<prep, wtask>>
             ELSE prep' = Idle /\ wtask' = [wtask EXCEPT !.state = "BLOCKED"] /\ UNCHANGED branch
    BY <1>6 DEF CherryPick
  <2>2. UNCHANGED <<head, merged, dir, dirty, integrated, prune>> BY <1>6 DEF CherryPick
  <2>3. CASE dir /\ ~dirty
    <3>1. branch'.root = branch.root /\ Len(branch'.log) <= Deps + MaxWork /\ UNCHANGED <<prep, wtask>>
      BY <1>1, <1>3, <2>1, <2>3
    <3> QED BY <2>2, <3>1 DEF WsBounds
  <2>4. CASE ~(dir /\ ~dirty)
    <3>1. prep' = Idle /\ wtask'.base = wtask.base /\ UNCHANGED branch BY <1>2, <2>1, <2>4
    <3> QED BY <1>1, <2>2, <3>1 DEF WsBounds
  <2> QED BY <2>3, <2>4
<1>7. CASE DependenciesIntegrated
  <2>1. integrated' = Rev(branch) /\ prep'.base = Rev(branch) /\ UNCHANGED <<gitVars, wtask, prune>>
    BY <1>2, <1>7 DEF DependenciesIntegrated
  <2>2. Rev(branch) \in Bounded BY <1>1, <1>2 DEF Rev, Bounded, WsBounds
  <2> QED BY <2>1, <2>2 DEF WsBounds, gitVars
<1>8. CASE RecordWorkspace
  <2>1. wtask'.base = prep.base /\ prep' = Idle /\ UNCHANGED <<gitVars, integrated, prune>> BY <1>2, <1>8 DEF RecordWorkspace
  <2> QED BY <1>1, <2>1 DEF WsBounds, gitVars
<1>9. CASE FinalizeWorkspace
  <2>1. wtask'.base = wtask.base /\ UNCHANGED <<head, dir, integrated, prep, prune>> BY <1>2, <1>9 DEF FinalizeWorkspace
  <2>2. dirty' \in BOOLEAN /\ merged' \in BOOLEAN BY <1>9 DEF FinalizeWorkspace, WsBounds
  <2>3. branch'.root = branch.root /\ Len(branch'.log) <= Deps + MaxWork
    <3>1. CASE branch' = branch BY <3>1 DEF WsBounds
    <3>2. CASE branch' = [branch EXCEPT !.log = Append(@, Work)] /\ Len(branch.log) < Deps + MaxWork
      BY <1>3, <3>2 DEF Work
    <3> QED BY <1>9, <3>1, <3>2 DEF FinalizeWorkspace
  <2> QED BY <2>1, <2>2, <2>3 DEF WsBounds
<1>10. CASE Abandon \/ Retry \/ Cancel \/ ClearPath
  <2>1. wtask'.base = wtask.base /\ prep'.base \in Bounded /\ UNCHANGED <<gitVars, integrated>>
        /\ prune' \in [at : {"idle", "listed", "clear"}, refused : BOOLEAN]
    BY <1>1, <1>2, <1>10 DEF Abandon, Retry, Cancel, ClearPath, WsBounds
  <2> QED BY <2>1 DEF WsBounds, gitVars
<1>11. CASE WorkerWrites \/ Merge \/ ListWorktree \/ RemoveWorktree
  <2>1. UNCHANGED <<head, branch, wtask, integrated, prep>> BY <1>11 DEF WorkerWrites, Merge, ListWorktree, RemoveWorktree, gitVars
  <2>2. merged' \in BOOLEAN /\ dir' \in BOOLEAN /\ dirty' \in BOOLEAN
    BY <1>11 DEF WorkerWrites, Merge, ListWorktree, RemoveWorktree, gitVars, WsBounds
  <2>3. prune' \in [at : {"idle", "listed", "clear"}, refused : BOOLEAN]
    BY <1>2, <1>11 DEF WorkerWrites, Merge, ListWorktree, RemoveWorktree, gitVars, WsBounds
  <2> QED BY <2>1, <2>2, <2>3 DEF WsBounds
<1>12. CASE BaseMoves BY <1>1, <1>12 DEF BaseMoves, WsBounds
<1>13. CASE UNCHANGED wsVars BY <1>13 DEF wsVars, gitVars, WsBounds
<1> QED BY <1>4, <1>5, <1>6, <1>7, <1>8, <1>9, <1>10, <1>11, <1>12, <1>13 DEF WsNext

LEMMA WsTyped == WsInv /\ WsBounds => WsTypeOK
<1> SUFFICES ASSUME WsInv, WsBounds PROVE WsTypeOK OBVIOUS
<1>1. ToSet(branch.log) \subseteq 0..Deps
  <2>1. Deps \in Nat /\ \A i \in DOMAIN branch.log : i \in Nat /\ i >= 1 /\ branch.log[i] = IF i <= Deps THEN i ELSE Work
    BY WorkspaceAssumption DEF WsInv, WsRows, LogInv
  <2>2. \A i \in DOMAIN branch.log : branch.log[i] \in 0..Deps BY <2>1 DEF Work
  <2> QED BY <2>2 DEF ToSet
<1>2. \A r \in {wtask.base, integrated, prep.base} : r.root \in -1..MaxHead /\ r.len \in 0..(Deps + MaxWork)
  BY DEF WsBounds, Bounded
<1> QED BY <1>1, <1>2 DEF WsInv, WsRows, WsBounds, WsTypeOK

\* Decisions and revisions are counted.
GovCounts ==
  /\ gov.version <= MaxDecisions /\ settings \in 0..MaxSettings
  /\ doc.version <= doc.rev /\ doc.rev \in 1..MaxRevisions

LEMMA GovCountsInit == GovInit => GovCounts
<1> SUFFICES ASSUME GovInit PROVE GovCounts OBVIOUS
<1>1. PICK g \in Created :
        doc = [type |-> g.type, choice |-> g.choice, decided |-> g.decided, version |-> g.version, rev |-> 1]
  BY DEF GovInit
<1>2. g.version \in {0, 1}
  <2>1. ASSUME NEW type \in Kinds, NEW choice \in ReviewChoices, g = Decided(Undecided, type, choice) PROVE g.version = 1
    <3>1. type \in Types BY GovernanceAssumption
    <3> QED BY <2>1, <3>1, DecidedAs, UndecidedRow
  <2>2. CASE g = Undecided BY <2>2, UndecidedRow
  <2> QED BY <2>1, <2>2 DEF Created
<1> QED BY <1>1, <1>2, GovernanceAssumption DEF GovInit, GovCounts, Undecided

LEMMA GovCountsStep == GovInv /\ GovCounts /\ [GovNext]_govVars => GovCounts'
<1> SUFFICES ASSUME GovInv, GovCounts, [GovNext]_govVars PROVE GovCounts' OBVIOUS
<1>1. /\ gov \in Decisions /\ doc \in Briefs /\ gov.version \in Nat /\ doc.version \in Nat /\ doc.rev \in Nat
      /\ MaxDecisions \in Nat /\ MaxSettings \in Nat /\ MaxRevisions \in Nat \ {0}
      /\ held = None => gov = Undecided
      /\ pref \in ReviewChoices \union {Unset}
  BY GovernanceAssumption DEF GovInv, GovRows, Decisions, Briefs, PoliciesWhole
<1>2. ASSUME gov'.version <= MaxDecisions, UNCHANGED <<doc, settings>> PROVE GovCounts' BY <1>2 DEF GovCounts
<1>3. ASSUME NEW type \in Kinds, NEW choice \in ReviewChoices, NEW person \in BOOLEAN, DecideProject(type, choice, person)
      PROVE  GovCounts'
  <2>1. type \in Types BY GovernanceAssumption
  <2>2. gov' = Decided(gov, type, choice) /\ gov.version < MaxDecisions /\ UNCHANGED <<doc, settings>> BY <1>3 DEF DecideProject
  <2>3. gov'.version = gov.version + 1 BY <1>1, <2>1, <2>2, DecidedAs
  <2> QED BY <1>1, <1>2, <2>2, <2>3
<1>4. ASSUME NEW type \in Kinds \union {Unset}, NEW choice \in ReviewChoices \union {Unset}, CreateProject(type, choice)
      PROVE  GovCounts'
  <2>1. MaxDecisions > 0 /\ UNCHANGED <<doc, settings>> BY <1>4 DEF CreateProject
  <2>2. gov'.version \in {0, 1}
    <3> DEFINE full == IF type = "client" /\ choice = Unset THEN "required" ELSE choice
               own  == [Undecided EXCEPT !.type = type, !.choice = full]
    <3>1. own \in [type : {type}, choice : {full}, decided : {FALSE}, version : {0}] BY DEF Undecided
    <3> HIDE DEF own
    <3>2. \A x, y : Decided(own, x, y).version = 1 /\ Decided(Undecided, x, y).version = 1 BY <3>1 DEF Decided, Undecided
    <3>3. gov' = Decided(Undecided, type, full) \/ gov' = Decided(own, type, pref) \/ gov' = own
      BY <1>4 DEF CreateProject, own
    <3> QED BY <3>1, <3>2, <3>3
  <2> QED BY <1>1, <1>2, <2>1, <2>2
<1>5. ASSUME Bootstrap PROVE GovCounts'
  <2>1. MaxDecisions > 0 /\ UNCHANGED <<doc, settings>> /\ gov' = Decided(Undecided, doc.type, doc.choice) BY <1>5 DEF Bootstrap
  <2>2. \A x, y : Decided(Undecided, x, y).version = 1 BY DEF Decided, Undecided
  <2>3. gov'.version = 1 BY <2>1, <2>2
  <2> QED BY <1>1, <1>2, <2>1, <2>3
<1>6. ASSUME settings < MaxSettings, settings' = settings + 1, UNCHANGED <<gov, doc>> PROVE GovCounts'
  BY <1>1, <1>6 DEF GovCounts
<1>7. ASSUME NEW p, ApplyConfiguration(p) \/ (\E acknowledged \in BOOLEAN : BeginPolicy(p, acknowledged)) \/ SetPreference(p)
      PROVE  GovCounts'
  BY <1>6, <1>7 DEF ApplyConfiguration, BeginPolicy, SetPreference
<1>8. ASSUME NEW type \in Kinds \union {Unset, "same"}, NEW choice \in ReviewChoices \union {Unset, "same"}, UpdateBrief(type, choice)
      PROVE  GovCounts'
  <2> DEFINE given == [doc EXCEPT !.type = IF type = "same" THEN @ ELSE type,
                                  !.choice = IF choice = "same" THEN @ ELSE choice, !.rev = @ + 1]
  <2>1. /\ given.version = doc.version /\ given.rev = doc.rev + 1
        /\ DOMAIN given = {"type", "choice", "decided", "version", "rev"}
    BY <1>1 DEF Briefs
  <2> HIDE DEF given
  <2>2. \A x, y : Decided(given, x, y).version = doc.version + 1 /\ Decided(given, x, y).rev = doc.rev + 1
    BY <2>1 DEF Decided
  <2>3. doc' = given \/ \E x, y : doc' = Decided(given, x, y)
    BY <1>8, Zenon DEF UpdateBrief, given
  <2>4. doc.rev < MaxRevisions /\ UNCHANGED <<gov, settings>> BY <1>8 DEF UpdateBrief
  <2>5. doc'.rev = doc.rev + 1 /\ doc'.version \in {doc.version, doc.version + 1} BY <2>1, <2>2, <2>3
  <2> QED BY <1>1, <2>4, <2>5 DEF GovCounts
<1>9. CASE UNCHANGED <<gov, doc, settings>> BY <1>9 DEF GovCounts
<1>10. CASE EndPolicy \/ Propose \/ Accept \/ (\E change \in Changes : SubmitPlan(change) \/ AddTask(change))
            \/ Dispatch \/ ReadChange \/ (\E requested \in BOOLEAN : DecideReview(requested)) \/ ReviewApproves
            \/ BeginMerge \/ EndMerge \/ UNCHANGED govVars
  BY <1>9, <1>10 DEF EndPolicy, Propose, Accept, SubmitPlan, AddTask, Dispatch, ReadChange, DecideReview, ReviewApproves,
                     BeginMerge, EndMerge, Task, govVars
<1> QED BY <1>3, <1>4, <1>5, <1>7, <1>8, <1>10 DEF GovNext

LEMMA GovTyped == GovInv /\ GovCounts => GovTypeOK
<1> SUFFICES ASSUME GovInv, GovCounts PROVE GovTypeOK OBVIOUS
<1>1. /\ MaxDecisions \in Nat /\ MaxSettings \in Nat /\ MaxRevisions \in Nat \ {0}
      /\ gov \in Decisions /\ doc \in Briefs /\ gov.version \in Nat /\ doc.version \in Nat /\ doc.rev \in Nat
  BY GovernanceAssumption DEF GovInv, GovRows, Decisions, Briefs
<1>2. gov \in [type : Types \union {Unset}, choice : ReviewChoices \union {Unset}, decided : BOOLEAN, version : 0..MaxDecisions]
  <2>1. gov.version \in 0..MaxDecisions BY <1>1 DEF GovCounts
  <2> QED BY <1>1, <2>1 DEF Decisions
<1>3. doc.version \in 0..MaxRevisions /\ doc.rev \in 1..MaxRevisions /\ settings \in 0..MaxSettings BY <1>1 DEF GovCounts
<1>4. (held # None => Policy \in Policies) /\ known \subseteq Policies BY DEF GovInv, PoliciesWhole, Whole
<1>5. cmd.kind \in {"none", "policy", "merge"} BY DEF GovInv, GovRows, None
<1>6. /\ plan.state \in {"none", "presented", "accepted", "submitted"}
      /\ work.state \in {"none", "queued", "running", "deciding", "reviewing", "done", "cancelled"}
      /\ work.review \in {"none", "approved", "stale"}
      /\ merge \in {"none", "live"} /\ pref \in ReviewChoices \union {Unset}
  BY DEF GovInv, GovRows, PlanRows, WorkRows
<1> QED BY <1>2, <1>3, <1>4, <1>5, <1>6 DEF GovTypeOK
-----------------------------------------------------------------------------
(* The parts side by side.                                                 *)

LEMMA PartsInit == MCInit => CkInit /\ SchedInit /\ DepInit /\ WsInit /\ GovInit
BY DEF MCInit

LEMMA PartsStep ==
  [MCNext]_<<part, ckVars, schedVars, depVars, wsVars, govVars>> =>
    [CkNext]_ckVars /\ [SchedNext]_schedVars /\ [DepNext]_depVars /\ [WsNext]_wsVars /\ [GovNext]_govVars
BY DEF MCNext

\* A check's job in its worktree and an exclusive task in its repository work alone.
THEOREM ResourcesStayApart == MCSpec => []ResourcesApart
<1>1. CkInv /\ StInv => ResourcesApart BY CkInvSays DEF StInv, ResourcesApart
<1> QED BY <1>1, PartsInit, PartsStep, CkInvInit, CkInvStep, StInvInit, StInvStep, PTL DEF MCSpec

\* A task starts after what it depends on, from a worktree with each of those deliveries once.
THEOREM DependenciesStayKept == MCSpec => []DependenciesKept
<1>1. DepInv /\ WsInv => DependenciesKept
  BY WsInvSays DEF DepInv, Started, DependenciesFirst, DependenciesKept
<1> QED BY <1>1, PartsInit, PartsStep, DepInvInit, DepInvStep, WsInvInit, WsInvStep, PTL DEF MCSpec

\* What the run checks of the check jobs, beside the other parts.
THEOREM EvidenceAndCharges == MCSpec => [](DoneOnEvidence /\ RepairsCharged)
BY PartsInit, PartsStep, CkInvInit, CkInvStep, CkInvSays, PTL DEF MCSpec

\* And of a project's governance: what GovernanceStands says holds beside the other parts.
THEOREM GovernanceBeside == MCSpec => GovernanceHolds
BY PartsInit, PartsStep, GovInvInit, GovInvStep, GovInvSays, PTL DEF MCSpec, GovernanceHolds

\* Every part's state keeps its type, for any tasks, limits, policies and bounds.
THEOREM PartsTyped == MCSpec => []TypesOK
<1>1. CkInv => CkTypeOK BY DEF CkInv, CkRows
<1>2. DepInv => DepTypeOK BY DEF DepInv
<1>3. CkInv /\ SchedTypeOK /\ DepInv /\ WsInv /\ WsBounds /\ GovInv /\ GovCounts => TypesOK
  BY <1>1, <1>2, WsTyped, GovTyped DEF TypesOK
<1> QED BY <1>3, PartsInit, PartsStep, CkInvInit, CkInvStep, SchedTypeInit, SchedTypeStep, DepInvInit, DepInvStep,
           WsInvInit, WsInvStep, WsBoundsInit, WsBoundsStep, GovInvInit, GovInvStep, GovCountsInit, GovCountsStep, PTL DEF MCSpec
=============================================================================
