------------------------ MODULE ControllerLeaseProofs ------------------------
(***************************************************************************)
(* Theorems about ControllerLease, for any controllers, tasks and launches:*)
(* type correctness, launch fencing under every Delay, and, when no tick   *)
(* outlasts the lease, the exclusion of controllers and of the attempts of *)
(* a task.                                                                 *)
(***************************************************************************)
EXTENDS ControllerLease, TLAPS

States == {"READY", "RUNNING", "BLOCKED", "FAILED"}

\* The conjuncts of TypeOK: the records, and the locals of the controllers.
RecordsOK ==
  /\ task \in [Tasks -> States] /\ parked \in [Tasks -> BOOLEAN]
  /\ owed \in [Tasks -> BOOLEAN]
  /\ claim \in [Tasks -> Launches \union {None}] /\ aged \in [Tasks -> BOOLEAN]
  /\ owner \in [Launches -> Tasks \union {None}]
  /\ stage \in [StageIds -> {"none"} \union STAGE_STATES]
  /\ grant \in [Launches -> {"none", "reserved", "active", "released"}]
  /\ attempt \in [Launches -> {"none", "running", "failed"}]
  /\ worker \in [Launches -> {"none", "started", "recorded"}]

LocalsOK ==
  /\ ctl \in [Controllers -> Locals]
  /\ \A c \in Controllers : ctl[c].pc \in HandlerSteps => Job(c) \in Launches

\* The controllers other than c do not move.
Alone(c) == \A d \in Controllers \ {c} : ctl'[d] = ctl[d]

LEMMA RestLocals ==
  ASSUME NEW p \in {"off", "idle", "dead", "pass"} \union HandlerSteps
  PROVE  /\ AtRest(p) \in Locals
         /\ AtRest(p).pc = p
BY DEF AtRest, Locals, Passes, Phases, Origins, HandlerSteps

LEMMA HandlerLocals ==
  ASSUME NEW p \in HandlerSteps, NEW l \in Launches, NEW f \in Phases,
         NEW from \in Origins, NEW st \in {"none"} \union STAGE_STATES
  PROVE  /\ Handler(p, l, f, from, st) \in Locals
         /\ Handler(p, l, f, from, st).pc = p
         /\ Handler(p, l, f, from, st).job = l
<1>1. "attempts" \in Passes
  BY DEF Passes
<1>2. AtRest(p) \in Locals /\ AtRest(p).pc = p
  BY RestLocals
<1>3. [AtRest(p) EXCEPT !.job = l, !.phase = f] \in Locals
  BY <1>2 DEF Locals
<1>4. Handler(p, l, f, from, st) \in Locals
  BY <1>3 DEF Locals, Handler
<1>5. Handler(p, l, f, from, st).pc = p /\ Handler(p, l, f, from, st).job = l
  BY <1>2 DEF Locals, Handler
<1> QED BY <1>4, <1>5

LEMMA GotoLocals ==
  ASSUME LocalsOK, NEW c \in Controllers, ctl[c].pc \in HandlerSteps,
         NEW p \in HandlerSteps, Goto(c, p)
  PROVE  /\ LocalsOK' /\ Alone(c)
         /\ ctl'[c].pc = p /\ ctl'[c].job = ctl[c].job
BY DEF LocalsOK, Goto, Alone, Job, Locals

LEMMA TakeLocals ==
  ASSUME LocalsOK, NEW c \in Controllers, NEW x, NEW h \in Locals,
         h.pc \in HandlerSteps => h.job \in Launches, Take(c, x, h)
  PROVE  /\ LocalsOK' /\ Alone(c)
         /\ ctl'[c].pc = h.pc /\ ctl'[c].job = h.job
BY DEF LocalsOK, Take, Alone, Job, Locals

LEMMA DropLocals ==
  ASSUME LocalsOK, NEW c \in Controllers, NEW x, Drop(c, x)
  PROVE  LocalsOK' /\ Alone(c) /\ ctl'[c].pc = "pass"
<1>1. AtRest("pass") \in Locals /\ AtRest("pass").pc = "pass"
  BY RestLocals
<1>2. "pass" \notin HandlerSteps
  BY DEF HandlerSteps
<1> QED BY <1>1, <1>2, TakeLocals DEF Drop

LEMMA ReturnLocals ==
  ASSUME LocalsOK, NEW c \in Controllers, Return(c)
  PROVE  LocalsOK' /\ Alone(c) /\ ctl'[c].pc = "pass"
<1> DEFINE r == [AtRest("pass") EXCEPT !.pass = ctl[c].pass, !.todo = ctl[c].todo]
<1>1. ctl[c] \in Locals
  BY DEF LocalsOK
<1>2. r \in Locals /\ r.pc = "pass" /\ r.pc \notin HandlerSteps
  BY <1>1 DEF AtRest, Locals, Phases, Origins, HandlerSteps
<1>3. ctl' = [ctl EXCEPT ![c] = r]
  BY DEF Return
<1> QED BY <1>2, <1>3 DEF LocalsOK, Alone, Job

LEMMA EndTickLocals ==
  ASSUME LocalsOK, NEW c \in Controllers, EndTick(c)
  PROVE  LocalsOK' /\ Alone(c) /\ ctl'[c].pc = "idle"
BY RestLocals DEF LocalsOK, EndTick, Alone, Job, AtRest, HandlerSteps
-----------------------------------------------------------------------------
(* The record operations.                                                  *)

LEMMA SetTaskRecords ==
  ASSUME RecordsOK, NEW t, NEW to, t \in Tasks => to \in States, SetTask(t, to)
  PROVE  task' \in [Tasks -> States] /\ parked' \in [Tasks -> BOOLEAN]
BY DEF RecordsOK, SetTask

LEMMA UnclaimRecords ==
  ASSUME RecordsOK, NEW t, Unclaim(t) \/ UNCHANGED claimVars
  PROVE  claim' \in [Tasks -> Launches \union {None}] /\ aged' \in [Tasks -> BOOLEAN]
BY DEF RecordsOK, Unclaim, claimVars

LEMMA BlockTaskRecords ==
  ASSUME RecordsOK, NEW t, blockTask(t)
  PROVE  /\ task' \in [Tasks -> States] /\ parked' \in [Tasks -> BOOLEAN]
         /\ claim' \in [Tasks -> Launches \union {None}] /\ aged' \in [Tasks -> BOOLEAN]
BY SetTaskRecords, UnclaimRecords DEF blockTask, taskVars, claimVars, RecordsOK, States

\* Releasing a stage's admission lease never reopens a launch id for admission.
LEMMA ReleaseRecords ==
  ASSUME RecordsOK, NEW s, release(s)
  PROVE  /\ grant' \in [Launches -> {"none", "reserved", "active", "released"}]
         /\ \A l \in Launches : grant[l] # "none" => grant'[l] # "none"
BY DEF RecordsOK, release

LEMMA FinishStageRecords ==
  ASSUME RecordsOK, NEW s \in StageIds, NEW outcome \in STAGE_STATES, NEW to,
         owner[s[1]] \in Tasks => to \in States, finishStage(s, outcome, to)
  PROVE  /\ task' \in [Tasks -> States] /\ parked' \in [Tasks -> BOOLEAN]
         /\ claim' \in [Tasks -> Launches \union {None}] /\ aged' \in [Tasks -> BOOLEAN]
         /\ stage' \in [StageIds -> {"none"} \union STAGE_STATES]
         /\ grant' \in [Launches -> {"none", "reserved", "active", "released"}]
         /\ \A l \in Launches : grant[l] # "none" => grant'[l] # "none"
<1>1. stage' \in [StageIds -> {"none"} \union STAGE_STATES]
  BY DEF RecordsOK, finishStage
<1>2. /\ claim' \in [Tasks -> Launches \union {None}] /\ aged' \in [Tasks -> BOOLEAN]
  BY UnclaimRecords DEF finishStage
<1>3. task' \in [Tasks -> States] /\ parked' \in [Tasks -> BOOLEAN]
  BY SetTaskRecords DEF finishStage
<1> QED BY <1>1, <1>2, <1>3, ReleaseRecords DEF finishStage

LEMMA ThrowRecords ==
  ASSUME RecordsOK, LocalsOK, NEW c \in Controllers, Throw(c)
  PROVE  /\ task' \in [Tasks -> States] /\ parked' \in [Tasks -> BOOLEAN]
         /\ claim' \in [Tasks -> Launches \union {None}] /\ aged' \in [Tasks -> BOOLEAN]
         /\ stage' \in [StageIds -> {"none"} \union STAGE_STATES]
         /\ LocalsOK' /\ Alone(c) /\ ctl'[c].pc \in {"pass", "idle"}
<1>1. CASE /\ ctl[c].origin = "dispatch" /\ Return(c) /\ UNCHANGED stage
           /\ IF task[Subject(c)] \in {"READY", "RUNNING"}
              THEN SetTask(Subject(c), "BLOCKED") /\ Unclaim(Subject(c))
              ELSE UNCHANGED <<taskVars, claimVars>>
  <2>1. LocalsOK' /\ Alone(c) /\ ctl'[c].pc = "pass"
    BY <1>1, ReturnLocals
  <2>2. CASE SetTask(Subject(c), "BLOCKED") /\ Unclaim(Subject(c))
    BY <1>1, <2>1, <2>2, SetTaskRecords, UnclaimRecords DEF RecordsOK, States
  <2>3. CASE UNCHANGED <<taskVars, claimVars>>
    BY <1>1, <2>1, <2>3 DEF RecordsOK, taskVars, claimVars
  <2> QED BY <1>1, <2>2, <2>3
<1>2. CASE /\ stage' = [stage EXCEPT ![<<Job(c), "prepare">>] = "unknown"]
           /\ SetTask(Subject(c), "BLOCKED") /\ Unclaim(Subject(c)) /\ Return(c)
  <2>1. stage' \in [StageIds -> {"none"} \union STAGE_STATES]
    BY <1>2 DEF RecordsOK, STAGE_STATES, ACTIVE_STAGE_STATES
  <2> QED BY <1>2, <2>1, ReturnLocals, SetTaskRecords, UnclaimRecords DEF States
<1>3. CASE EndTick(c) /\ UNCHANGED <<taskVars, claimVars, stage>>
  BY <1>3, EndTickLocals DEF RecordsOK, taskVars, claimVars
<1> QED BY <1>1, <1>2, <1>3 DEF Throw
-----------------------------------------------------------------------------
(* The steps of a tick.                                                    *)

\* The steps of a launch at which its stage holds an admission lease.
Admitted == {"activate", "start", "spawn", "bind"}

\* What a step of controller c inside a tick may do: it keeps the types, leaves
\* the lease and the other controllers alone, and comes to an admitted step only
\* from another one or by the admission lease of a launch that had none.
Step(c) ==
  /\ RecordsOK' /\ LocalsOK' /\ Alone(c) /\ UNCHANGED leaseVars
  /\ \A l \in Launches : grant[l] # "none" => grant'[l] # "none"
  /\ ctl'[c].pc \in Admitted =>
       \/ ctl[c].pc \in Admitted /\ ctl'[c].job = ctl[c].job
       \/ grant[ctl'[c].job] = "none" /\ grant'[ctl'[c].job] # "none"

LEMMA HereOK ==
  ASSUME LocalsOK, NEW c \in Controllers, ctl[c].pc \in HandlerSteps
  PROVE  Job(c) \in Launches /\ Here(c) \in StageIds /\ ctl[c] \in Locals
BY DEF LocalsOK, Here, Job, StageIds, Locals

LEMMA FailStep ==
  ASSUME RecordsOK, LocalsOK, NEW c \in Controllers, Fail(c), UNCHANGED owed
  PROVE  Step(c)
BY ThrowRecords DEF Fail, Step, RecordsOK, leaseVars, Admitted

LEMMA RefusedStep ==
  ASSUME RecordsOK, LocalsOK, NEW c \in Controllers, NEW s, release(s), Throw(c),
         UNCHANGED <<leaseVars, owner, attempt, worker>>, owed' \in [Tasks -> BOOLEAN]
  PROVE  Step(c)
BY ThrowRecords, ReleaseRecords DEF Step, RecordsOK, leaseVars, Admitted

LEMMA FinishedStep ==
  ASSUME RecordsOK, NEW c \in Controllers, NEW s \in StageIds,
         NEW outcome \in STAGE_STATES, NEW to,
         owner[s[1]] \in Tasks => to \in States, finishStage(s, outcome, to),
         UNCHANGED <<leaseVars, owner, attempt, worker>>, owed' \in [Tasks -> BOOLEAN],
         LocalsOK', Alone(c), ctl'[c].pc \notin Admitted
  PROVE  Step(c)
BY FinishStageRecords DEF Step, RecordsOK, leaseVars

\* A step that changes only where the controller is.
LEMMA QuietStep ==
  ASSUME RecordsOK, NEW c \in Controllers, LocalsOK', Alone(c), ctl'[c].pc \notin Admitted,
         UNCHANGED <<leaseVars, taskVars, owed, claimVars, rowVars>>
  PROVE  Step(c)
BY DEF Step, RecordsOK, leaseVars, taskVars, claimVars, rowVars

LEMMA SnapshotItems ==
  ASSUME NEW p \in Passes
  PROVE  Snapshot(p) \subseteq Launches \union Tasks \union (StageIds \X STAGE_STATES)
BY DEF Snapshot, Passes, Unsettled, STAGE_STATES, ACTIVE_STAGE_STATES

LEMMA EndPassStep ==
  ASSUME RecordsOK, LocalsOK, NEW c \in Controllers, EndPass(c)
  PROVE  Step(c)
<1>1. CASE EndTick(c)
  BY <1>1, EndTickLocals, QuietStep DEF EndPass, Admitted
<1>2. CASE ctl[c].pass # "ready"
  <2> DEFINE p == nextPass[ctl[c].pass]
  <2>1. ctl[c].pass \in Passes
    BY DEF LocalsOK, Locals
  <2>2. p \in Passes
    BY <1>2, <2>1 DEF nextPass, Passes
  <2>3. ctl' = [ctl EXCEPT ![c].pass = p, ![c].todo = Snapshot(p)] /\ ctl[c].pc = "pass"
    BY <1>2 DEF EndPass
  <2>4. LocalsOK' /\ Alone(c) /\ ctl'[c].pc = "pass"
    <3> DEFINE r == [ctl[c] EXCEPT !.pass = p, !.todo = Snapshot(p)]
    <3>1. ctl[c] \in Locals /\ ctl \in [Controllers -> Locals]
      BY DEF LocalsOK
    <3>2. r \in Locals /\ r.pc = "pass" /\ r.pc \notin HandlerSteps
      BY <2>2, <2>3, <3>1, SnapshotItems DEF Locals, HandlerSteps
    <3>3. ctl' = [ctl EXCEPT ![c] = r]
      BY <2>3, <3>1 DEF Locals
    <3> HIDE DEF r
    <3> QED BY <3>1, <3>2, <3>3 DEF LocalsOK, Alone, Job
  <2> QED BY <2>4, QuietStep DEF EndPass, Admitted
<1> QED BY <1>1, <1>2 DEF EndPass

LEMMA ReconcileStep ==
  ASSUME RecordsOK, LocalsOK, NEW c \in Controllers, NEW l \in Launches, Reconcile(c, l)
  PROVE  Step(c)
<1>1. CASE /\ Drop(c, l) /\ worker' = [worker EXCEPT ![l] = "recorded"]
           /\ stage' = IF worker[l] = "started" /\ stage[<<l, "implement">>] \in {"reserved", "launching"}
                       THEN [stage EXCEPT ![<<l, "implement">>] = "running"] ELSE stage
           /\ UNCHANGED <<leaseVars, taskVars, owed, claimVars, owner, grant, attempt>>
  <2>1. stage' \in [StageIds -> {"none"} \union STAGE_STATES]
    BY <1>1 DEF RecordsOK, STAGE_STATES, ACTIVE_STAGE_STATES
  <2>2. LocalsOK' /\ Alone(c) /\ ctl'[c].pc = "pass"
    BY <1>1, DropLocals
  <2> QED BY <1>1, <2>1, <2>2
       DEF Step, RecordsOK, leaseVars, taskVars, claimVars, Admitted
<1>2. CASE Drop(c, l) /\ UNCHANGED <<leaseVars, taskVars, owed, claimVars, rowVars>>
  BY <1>2, DropLocals, QuietStep DEF Admitted
<1>3. CASE /\ attempt' = [attempt EXCEPT ![l] = "failed"]
           /\ \/ blockTask(owner[l]) /\ Drop(c, l)
              \/ EndTick(c) /\ UNCHANGED <<taskVars, claimVars>>
           /\ UNCHANGED <<leaseVars, owed, owner, stage, grant, worker>>
  <2>1. LocalsOK' /\ Alone(c) /\ ctl'[c].pc \notin Admitted
    BY <1>3, DropLocals, EndTickLocals DEF Admitted
  <2>2. /\ task' \in [Tasks -> States] /\ parked' \in [Tasks -> BOOLEAN]
        /\ claim' \in [Tasks -> Launches \union {None}] /\ aged' \in [Tasks -> BOOLEAN]
    BY <1>3, BlockTaskRecords DEF RecordsOK, taskVars, claimVars
  <2>3. attempt' \in [Launches -> {"none", "running", "failed"}]
    BY <1>3 DEF RecordsOK
  <2> QED BY <1>3, <2>1, <2>2, <2>3 DEF Step, RecordsOK, leaseVars
<1> QED BY <1>1, <1>2, <1>3 DEF Reconcile

LEMMA OrphanImplementStep ==
  ASSUME RecordsOK, LocalsOK, NEW c \in Controllers, NEW l \in Launches,
         NEW st \in STAGE_STATES, OrphanImplement(c, l, st)
  PROVE  Step(c)
<1> DEFINE s == <<l, "implement">>  x == <<s, st>>
<1>1. s \in StageIds /\ s[1] = l
  BY DEF StageIds, Phases
<1>2. UNCHANGED owed /\ owed \in [Tasks -> BOOLEAN]
  BY DEF OrphanImplement, RecordsOK
<1>3. CASE Drop(c, x) /\ UNCHANGED <<leaseVars, taskVars, claimVars, rowVars>>
  BY <1>2, <1>3, DropLocals, QuietStep DEF Admitted
<1>4. ASSUME NEW outcome \in STAGE_STATES, NEW to, owner[l] \in Tasks => to \in States,
             Finish(c, s, outcome, to, Drop(c, x))
      PROVE  Step(c)
  <2>1. CASE finishStage(s, outcome, to) /\ Drop(c, x) /\ UNCHANGED <<leaseVars, owner, attempt, worker>>
    <3>1. LocalsOK' /\ Alone(c) /\ ctl'[c].pc \notin Admitted
      BY <2>1, DropLocals DEF Admitted
    <3> QED BY <1>1, <1>2, <1>4, <2>1, <3>1, FinishedStep
  <2>2. CASE release(s) /\ Throw(c) /\ UNCHANGED <<leaseVars, owner, attempt, worker>>
    BY <1>2, <2>2, RefusedStep
  <2> QED BY <1>4, <2>1, <2>2 DEF Finish
<1>5. CASE Finish(c, s, "unknown", "BLOCKED", Drop(c, x))
  BY <1>4, <1>5 DEF STAGE_STATES, ACTIVE_STAGE_STATES, States
<1>6. CASE Finish(c, s, "failed", task[owner[l]], Drop(c, x))
  BY <1>4, <1>6 DEF STAGE_STATES, RecordsOK
<1> QED BY <1>3, <1>5, <1>6 DEF OrphanImplement

LEMMA OrphanHandlerStep ==
  ASSUME RecordsOK, LocalsOK, NEW c \in Controllers, NEW l \in Launches,
         NEW st \in STAGE_STATES, OrphanPrepare(c, l, st) \/ OrphanPreflight(c, l, st)
  PROVE  Step(c)
<1>1. ASSUME NEW p \in {"begin", "reserve"}, NEW f \in Phases, NEW from \in Origins,
             NEW got \in {"none"} \union STAGE_STATES, NEW x,
             Take(c, x, Handler(p, l, f, from, got)),
             UNCHANGED <<leaseVars, taskVars, owed, claimVars, rowVars>>
      PROVE  Step(c)
  <2> DEFINE h == Handler(p, l, f, from, got)
  <2>1. h \in Locals /\ h.pc = p /\ h.job = l
    BY HandlerLocals DEF HandlerSteps
  <2>2. LocalsOK' /\ Alone(c) /\ ctl'[c].pc = p
    <3>1. Take(c, x, h)
      BY <1>1
    <3> HIDE DEF h
    <3> QED BY <2>1, <3>1, TakeLocals DEF HandlerSteps
  <2> QED BY <1>1, <2>2, QuietStep DEF Admitted
<1>2. CASE OrphanPrepare(c, l, st)
  BY <1>1, <1>2 DEF OrphanPrepare, Phases, Origins
<1>3. CASE OrphanPreflight(c, l, st)
  BY <1>1, <1>3 DEF OrphanPreflight, Phases, Origins
<1> QED BY <1>2, <1>3

LEMMA ReleaseClaimStep ==
  ASSUME RecordsOK, LocalsOK, NEW c \in Controllers, NEW t \in Tasks, ReleaseClaim(c, t)
  PROVE  Step(c)
<1>1. LocalsOK' /\ Alone(c) /\ ctl'[c].pc = "pass"
  BY DropLocals DEF ReleaseClaim
<1>2. claim' \in [Tasks -> Launches \union {None}] /\ aged' \in [Tasks -> BOOLEAN]
  BY UnclaimRecords DEF ReleaseClaim
<1> QED BY <1>1, <1>2 DEF ReleaseClaim, Step, RecordsOK, leaseVars, taskVars, rowVars, Admitted

LEMMA StrandedTaskStep ==
  ASSUME RecordsOK, LocalsOK, NEW c \in Controllers, NEW t \in Tasks, StrandedTask(c, t)
  PROVE  Step(c)
<1>1. LocalsOK' /\ Alone(c) /\ ctl'[c].pc \notin Admitted
  BY DropLocals, EndTickLocals DEF StrandedTask, Admitted
<1>2. /\ task' \in [Tasks -> States] /\ parked' \in [Tasks -> BOOLEAN]
      /\ claim' \in [Tasks -> Launches \union {None}] /\ aged' \in [Tasks -> BOOLEAN]
  BY BlockTaskRecords DEF StrandedTask, RecordsOK, taskVars, claimVars
<1> QED BY <1>1, <1>2 DEF StrandedTask, Step, RecordsOK, leaseVars, rowVars

LEMMA UseOwner ==
  ASSUME RecordsOK, NEW l \in Launches, NEW t \in Tasks \union {None}, Use(l, t)
  PROVE  owner' \in [Launches -> Tasks \union {None}]
BY DEF RecordsOK, Use

\* The dispatch of a task under a fresh launch id, or none.
LEMMA DispatchStep ==
  ASSUME RecordsOK, LocalsOK, NEW c \in Controllers, NEW t \in Tasks,
         ResumeParked(c, t) \/ Dispatch(c, t) \/ RetryPreflight(c, t)
  PROVE  Step(c)
<1>1. UNCHANGED <<leaseVars, owed, stage, grant, attempt, worker>>
  BY DEF ResumeParked, Dispatch, RetryPreflight
<1>2. task' \in [Tasks -> States] /\ parked' \in [Tasks -> BOOLEAN]
  BY SetTaskRecords, BlockTaskRecords
     DEF ResumeParked, Dispatch, RetryPreflight, RecordsOK, taskVars, States
<1>3. claim' \in [Tasks -> Launches \union {None}] /\ aged' \in [Tasks -> BOOLEAN]
  <2>1. CASE ResumeParked(c, t)
    BY <2>1, UnclaimRecords DEF ResumeParked
  <2>2. CASE Dispatch(c, t)
    BY <2>2, BlockTaskRecords, UnclaimRecords DEF Dispatch, RecordsOK, claimVars
  <2>3. CASE RetryPreflight(c, t)
    BY <2>3, UnclaimRecords DEF RetryPreflight
  <2> QED BY <2>1, <2>2, <2>3
<1>4. CASE Drop(c, t) /\ UNCHANGED owner
  <2>1. LocalsOK' /\ Alone(c) /\ ctl'[c].pc \notin Admitted
    BY <1>4, DropLocals DEF Admitted
  <2> QED BY <1>1, <1>2, <1>3, <1>4, <2>1 DEF Step, RecordsOK, leaseVars
<1>5. ASSUME NEW l \in Launches, NEW p \in {"admit", "reserve"}, NEW f \in Phases,
             NEW from \in Origins, Use(l, t), Take(c, t, Handler(p, l, f, from, "none"))
      PROVE  Step(c)
  <2> DEFINE h == Handler(p, l, f, from, "none")
  <2>1. h \in Locals /\ h.pc = p /\ h.job = l
    BY HandlerLocals DEF HandlerSteps
  <2>2. LocalsOK' /\ Alone(c) /\ ctl'[c].pc = p
    <3>1. Take(c, t, h)
      BY <1>5
    <3> HIDE DEF h
    <3> QED BY <2>1, <3>1, TakeLocals DEF HandlerSteps
  <2>3. owner' \in [Launches -> Tasks \union {None}]
    BY <1>5, UseOwner
  <2> QED BY <1>1, <1>2, <1>3, <2>2, <2>3 DEF Step, RecordsOK, leaseVars, Admitted
<1> QED BY <1>4, <1>5 DEF ResumeParked, Dispatch, RetryPreflight, Phases, Origins
-----------------------------------------------------------------------------
(* The steps of the pipeline.                                              *)

\* An update of some of the locals of a controller in a handler.
LEMMA MoveLocals ==
  ASSUME LocalsOK, NEW c \in Controllers, NEW r \in Locals, ctl' = [ctl EXCEPT ![c] = r],
         r.pc \in HandlerSteps => r.job \in Launches
  PROVE  LocalsOK' /\ Alone(c) /\ ctl'[c] = r
BY DEF LocalsOK, Alone, Job

LEMMA SupersededType ==
  ASSUME RecordsOK, LocalsOK, NEW c \in Controllers
  PROVE  superseded(c) \in [StageIds -> {"none"} \union STAGE_STATES]
BY DEF superseded, RecordsOK, STAGE_STATES

LEMMA ReserveStageStep ==
  ASSUME RecordsOK, LocalsOK, NEW c \in Controllers, reserveStage(c)
  PROVE  Step(c)
<1>1. ctl[c].pc = "reserve" /\ UNCHANGED owed
  BY DEF reserveStage
<1>2. Job(c) \in Launches /\ Here(c) \in StageIds /\ ctl[c] \in Locals
  BY <1>1, HereOK DEF HandlerSteps
<1>3. ASSUME NEW got \in {"none"} \union STAGE_STATES,
             ctl' = [ctl EXCEPT ![c].pc = opened(c), ![c].got = got]
      PROVE  LocalsOK' /\ Alone(c) /\ ctl'[c].pc \notin Admitted
  <2> DEFINE r == [ctl[c] EXCEPT !.pc = opened(c), !.got = got]
  <2>1. r \in Locals /\ r.pc \notin Admitted /\ r.job \in Launches
    BY <1>2, <1>3 DEF Locals, Job, opened, Admitted, HandlerSteps
  <2>2. ctl' = [ctl EXCEPT ![c] = r]
    BY <1>2, <1>3 DEF Locals, LocalsOK
  <2> HIDE DEF r
  <2> QED BY <2>1, <2>2, MoveLocals
<1>4. CASE /\ stage' = superseded(c)
           /\ ctl' = [ctl EXCEPT ![c].pc = opened(c), ![c].got = stage[Here(c)]]
           /\ UNCHANGED <<leaseVars, taskVars, claimVars, owner, grant, attempt, worker>>
  <2>1. stage[Here(c)] \in {"none"} \union STAGE_STATES
    BY <1>2 DEF RecordsOK
  <2> QED BY <1>1, <1>3, <1>4, <2>1, SupersededType
       DEF Step, RecordsOK, leaseVars, taskVars, claimVars
<1>5. CASE /\ stage' = [superseded(c) EXCEPT ![Here(c)] = "reserved"]
           /\ task' = [task EXCEPT ![Subject(c)] = "RUNNING"]
           /\ ctl' = [ctl EXCEPT ![c].pc = opened(c), ![c].got = "reserved"]
           /\ UNCHANGED <<leaseVars, parked, claimVars, owner, grant, attempt, worker>>
  <2>1. "reserved" \in STAGE_STATES
    BY DEF STAGE_STATES, ACTIVE_STAGE_STATES
  <2>2. stage' \in [StageIds -> {"none"} \union STAGE_STATES]
    BY <1>5, <2>1, SupersededType
  <2>3. task' \in [Tasks -> States]
    BY <1>5 DEF RecordsOK, States
  <2> QED BY <1>1, <1>3, <1>5, <2>1, <2>2, <2>3 DEF Step, RecordsOK, leaseVars, claimVars
<1> QED BY <1>1, <1>4, <1>5, FailStep DEF reserveStage

LEMMA BeginStageStep ==
  ASSUME RecordsOK, LocalsOK, NEW c \in Controllers, BeginStage(c)
  PROVE  Step(c)
<1>1. ctl[c].pc = "begin" /\ ctl[c].pc \in HandlerSteps /\ UNCHANGED owed
  BY DEF BeginStage, HandlerSteps
<1>2. CASE /\ stage' = [stage EXCEPT ![Here(c)] = "running"] /\ Goto(c, "close")
           /\ UNCHANGED <<leaseVars, taskVars, claimVars, owner, grant, attempt, worker>>
  <2>1. stage' \in [StageIds -> {"none"} \union STAGE_STATES]
    BY <1>2 DEF RecordsOK, STAGE_STATES, ACTIVE_STAGE_STATES
  <2>2. LocalsOK' /\ Alone(c) /\ ctl'[c].pc = "close"
    BY <1>1, <1>2, GotoLocals DEF HandlerSteps
  <2> QED BY <1>1, <1>2, <2>1, <2>2
       DEF Step, RecordsOK, leaseVars, taskVars, claimVars, Admitted
<1>3. CASE Goto(c, "close") /\ UNCHANGED <<leaseVars, taskVars, claimVars, rowVars>>
  <2>1. LocalsOK' /\ Alone(c) /\ ctl'[c].pc = "close"
    BY <1>1, <1>3, GotoLocals DEF HandlerSteps
  <2> QED BY <1>1, <1>3, <2>1, QuietStep DEF Admitted
<1> QED BY <1>1, <1>2, <1>3, FailStep DEF BeginStage

LEMMA CloseStep ==
  ASSUME RecordsOK, LocalsOK, NEW c \in Controllers, ClosePrepare(c) \/ ClosePreflight(c)
  PROVE  Step(c)
<1>1. /\ ctl[c].pc \in HandlerSteps /\ Job(c) \in Launches /\ Here(c) \in StageIds
      /\ ctl[c] \in Locals
  BY HereOK DEF ClosePrepare, ClosePreflight, HandlerSteps
<1>2. owed' \in [Tasks -> BOOLEAN]
  BY DEF ClosePrepare, ClosePreflight, RecordsOK
<1>3. ASSUME NEW p \in {"reserve", "admit"}, NEW f \in Phases, Advance(c, p, f)
      PROVE  LocalsOK' /\ Alone(c) /\ ctl'[c].pc = p
  <2> DEFINE r == [ctl[c] EXCEPT !.pc = p, !.phase = f]
  <2>1. r \in Locals /\ r.pc = p /\ r.job \in Launches
    BY <1>1, <1>3 DEF Locals, Job, HandlerSteps
  <2>2. ctl' = [ctl EXCEPT ![c] = r]
    BY <1>1, <1>3 DEF Locals, LocalsOK, Advance
  <2> HIDE DEF r
  <2> QED BY <2>1, <2>2, MoveLocals
<1>4. CASE Fail(c) /\ UNCHANGED owed
  BY <1>4, FailStep
<1>5. ASSUME NEW outcome \in STAGE_STATES, NEW to \in States, finishStage(Here(c), outcome, to),
             LocalsOK', Alone(c), ctl'[c].pc \notin Admitted,
             UNCHANGED <<leaseVars, owner, attempt, worker>>
      PROVE  Step(c)
  BY <1>1, <1>2, <1>5, FinishedStep
<1>6. CASE /\ release(Here(c)) /\ Throw(c) /\ UNCHANGED <<leaseVars, owner, attempt, worker>>
  BY <1>2, <1>6, RefusedStep
<1>7. {"succeeded", "waiting"} \subseteq STAGE_STATES /\ {"RUNNING", "BLOCKED"} \subseteq States
  BY DEF STAGE_STATES, ACTIVE_STAGE_STATES, States
<1>8. CASE ClosePrepare(c)
  <2>1. CASE Finish(c, Here(c), "succeeded", "RUNNING", Advance(c, "reserve", "preflight"))
    BY <1>3, <1>5, <1>6, <1>7, <2>1 DEF Finish, Phases, Admitted
  <2> QED BY <1>4, <1>8, <2>1 DEF ClosePrepare
<1>9. CASE ClosePreflight(c)
  <2>1. CASE Finish(c, Here(c), "succeeded", "RUNNING", Advance(c, "admit", "implement"))
    BY <1>3, <1>5, <1>6, <1>7, <2>1 DEF Finish, Phases, Admitted
  <2>2. CASE Finish(c, Here(c), "waiting", "BLOCKED", Return(c))
    BY <1>5, <1>6, <1>7, <2>2, ReturnLocals DEF Finish, Admitted
  <2> QED BY <1>9, <2>1, <2>2 DEF ClosePreflight
<1> QED BY <1>8, <1>9

LEMMA AdmitStep ==
  ASSUME RecordsOK, LocalsOK, NEW c \in Controllers, Admit(c)
  PROVE  Step(c)
<1>1. /\ ctl[c].pc \in HandlerSteps
      /\ UNCHANGED <<owed, leaseVars, owner, grant, attempt, worker>>
  BY DEF Admit, HandlerSteps
<1>2. CASE Goto(c, "reserve") /\ UNCHANGED <<taskVars, claimVars, stage>>
  <2>1. LocalsOK' /\ Alone(c) /\ ctl'[c].pc = "reserve"
    BY <1>1, <1>2, GotoLocals DEF HandlerSteps
  <2> QED BY <1>1, <1>2, <2>1 DEF Step, RecordsOK, leaseVars, taskVars, claimVars, Admitted
<1>3. CASE /\ task' = [task EXCEPT ![Subject(c)] = "BLOCKED"]
           /\ parked' = [parked EXCEPT ![Subject(c)] = TRUE]
           /\ Unclaim(Subject(c)) /\ Return(c) /\ UNCHANGED stage
  <2>1. task' \in [Tasks -> States] /\ parked' \in [Tasks -> BOOLEAN]
    BY <1>3 DEF RecordsOK, States
  <2> QED BY <1>1, <1>3, <2>1, UnclaimRecords, ReturnLocals DEF Step, RecordsOK, leaseVars, Admitted
<1>4. CASE blockTask(Subject(c)) /\ Return(c) /\ UNCHANGED stage
  BY <1>1, <1>4, BlockTaskRecords, ReturnLocals DEF Step, RecordsOK, leaseVars, Admitted
<1>5. CASE Return(c) /\ UNCHANGED <<taskVars, claimVars, stage>>
  BY <1>1, <1>5, ReturnLocals DEF Step, RecordsOK, leaseVars, taskVars, claimVars, Admitted
<1>6. CASE Throw(c)
  BY <1>1, <1>6, ThrowRecords DEF Step, RecordsOK, leaseVars, Admitted
<1> QED BY <1>2, <1>3, <1>4, <1>5, <1>6 DEF Admit

LEMMA AdmissionStep ==
  ASSUME RecordsOK, LocalsOK, NEW c \in Controllers,
         reserveAdmission(c) \/ activateAdmission(c)
  PROVE  Step(c)
<1>1. /\ ctl[c].pc \in HandlerSteps /\ Job(c) \in Launches /\ ctl[c].job = Job(c)
      /\ UNCHANGED owed
  BY HereOK DEF reserveAdmission, activateAdmission, HandlerSteps, Job
<1>2. CASE Fail(c)
  BY <1>1, <1>2, FailStep
<1>3. CASE /\ grant[Job(c)] = "none" /\ grant' = [grant EXCEPT ![Job(c)] = "reserved"]
           /\ Goto(c, "activate")
           /\ UNCHANGED <<leaseVars, taskVars, claimVars, owner, stage, attempt, worker>>
  <2>1. LocalsOK' /\ Alone(c) /\ ctl'[c].job = Job(c)
    BY <1>1, <1>3, GotoLocals DEF HandlerSteps
  <2>2. /\ grant' \in [Launches -> {"none", "reserved", "active", "released"}]
        /\ \A l \in Launches : grant[l] # "none" => grant'[l] # "none"
        /\ grant'[Job(c)] # "none"
    BY <1>1, <1>3 DEF RecordsOK
  <2> QED BY <1>1, <1>3, <2>1, <2>2 DEF Step, RecordsOK, leaseVars, taskVars, claimVars
<1>4. CASE /\ ctl[c].pc = "activate" /\ grant' = [grant EXCEPT ![Job(c)] = "active"]
           /\ stage' = [stage EXCEPT ![Here(c)] = "launching"] /\ Goto(c, "start")
           /\ UNCHANGED <<leaseVars, taskVars, claimVars, owner, attempt, worker>>
  <2>1. LocalsOK' /\ Alone(c) /\ ctl'[c].job = ctl[c].job
    BY <1>1, <1>4, GotoLocals DEF HandlerSteps
  <2>2. /\ grant' \in [Launches -> {"none", "reserved", "active", "released"}]
        /\ \A l \in Launches : grant[l] # "none" => grant'[l] # "none"
        /\ stage' \in [StageIds -> {"none"} \union STAGE_STATES]
    BY <1>4 DEF RecordsOK, STAGE_STATES, ACTIVE_STAGE_STATES
  <2> QED BY <1>1, <1>4, <2>1, <2>2
       DEF Step, RecordsOK, leaseVars, taskVars, claimVars, Admitted
<1> QED BY <1>2, <1>3, <1>4 DEF reserveAdmission, activateAdmission

LEMMA StartAttemptStep ==
  ASSUME RecordsOK, LocalsOK, NEW c \in Controllers, startAttempt(c)
  PROVE  Step(c)
<1>1. /\ ctl[c].pc = "start" /\ ctl[c].pc \in HandlerSteps /\ Job(c) \in Launches
      /\ Here(c) \in StageIds /\ UNCHANGED owed /\ owed' \in [Tasks -> BOOLEAN]
  BY HereOK DEF startAttempt, HandlerSteps, RecordsOK
<1>2. CASE /\ attempt' = [attempt EXCEPT ![Job(c)] = "running"]
           /\ claim' = [claim EXCEPT ![Subject(c)] = Job(c)]
           /\ aged' = [aged EXCEPT ![Subject(c)] = FALSE] /\ Goto(c, "spawn")
           /\ UNCHANGED <<leaseVars, taskVars, owner, stage, grant, worker>>
  <2>1. LocalsOK' /\ Alone(c) /\ ctl'[c].job = ctl[c].job
    BY <1>1, <1>2, GotoLocals DEF HandlerSteps
  <2>2. /\ attempt' \in [Launches -> {"none", "running", "failed"}]
        /\ claim' \in [Tasks -> Launches \union {None}] /\ aged' \in [Tasks -> BOOLEAN]
    BY <1>1, <1>2 DEF RecordsOK
  <2> QED BY <1>1, <1>2, <2>1, <2>2 DEF Step, RecordsOK, leaseVars, taskVars, Admitted
<1>3. CASE Fail(c)
  BY <1>1, <1>3, FailStep
<1>4. ASSUME NEW outcome \in {"failed", "waiting"},
             Finish(c, Here(c), outcome, "BLOCKED", Return(c))
      PROVE  Step(c)
  <2>1. outcome \in STAGE_STATES /\ "BLOCKED" \in States
    BY DEF STAGE_STATES, ACTIVE_STAGE_STATES, States
  <2>2. CASE /\ finishStage(Here(c), outcome, "BLOCKED") /\ Return(c)
             /\ UNCHANGED <<leaseVars, owner, attempt, worker>>
    <3>1. LocalsOK' /\ Alone(c) /\ ctl'[c].pc \notin Admitted
      BY <2>2, ReturnLocals DEF Admitted
    <3> QED BY <1>1, <2>1, <2>2, <3>1, FinishedStep
  <2>3. CASE release(Here(c)) /\ Throw(c) /\ UNCHANGED <<leaseVars, owner, attempt, worker>>
    BY <1>1, <2>3, RefusedStep
  <2> QED BY <1>4, <2>2, <2>3 DEF Finish
<1> QED BY <1>2, <1>3, <1>4 DEF startAttempt

LEMMA WorkerStep ==
  ASSUME RecordsOK, LocalsOK, NEW c \in Controllers,
         Spawn(c) \/ Bind(c) \/ UnlaunchAttempt(c)
  PROVE  Step(c)
<1>1. /\ ctl[c].pc \in HandlerSteps /\ ctl[c].pc \in Admitted \union {"unlaunch"}
      /\ Job(c) \in Launches /\ Here(c) \in StageIds
  BY HereOK DEF Spawn, Bind, UnlaunchAttempt, HandlerSteps, Admitted
<1>2. ASSUME NEW p \in {"bind", "unlaunch", "unstage"}, Goto(c, p)
      PROVE  LocalsOK' /\ Alone(c) /\ ctl'[c].pc = p /\ ctl'[c].job = ctl[c].job
  BY <1>1, <1>2, GotoLocals DEF HandlerSteps
<1>3. CASE Spawn(c)
  <2>1. worker' \in [Launches -> {"none", "started", "recorded"}]
    BY <1>3 DEF Spawn, RecordsOK
  <2>2. LocalsOK' /\ Alone(c) /\ ctl'[c].pc \in {"bind", "unlaunch"} /\ ctl'[c].job = ctl[c].job
    BY <1>2, <1>3 DEF Spawn
  <2> QED BY <1>3, <2>1, <2>2 DEF Spawn, Step, RecordsOK, leaseVars, taskVars, claimVars, Admitted
<1>4. CASE Bind(c)
  <2>1. worker' \in [Launches -> {"none", "started", "recorded"}]
    BY <1>4 DEF Bind, RecordsOK
  <2>2. stage' \in [StageIds -> {"none"} \union STAGE_STATES]
    BY <1>4 DEF Bind, RecordsOK, STAGE_STATES, ACTIVE_STAGE_STATES
  <2>3. LocalsOK' /\ Alone(c) /\ ctl'[c].pc \notin Admitted
    BY <1>2, <1>4, ReturnLocals DEF Bind, Admitted
  <2> QED BY <1>4, <2>1, <2>2, <2>3 DEF Bind, Step, RecordsOK, leaseVars, taskVars, claimVars
<1>5. CASE UnlaunchAttempt(c)
  <2>1. attempt' \in [Launches -> {"none", "running", "failed"}]
    BY <1>5 DEF UnlaunchAttempt, RecordsOK
  <2>2. LocalsOK' /\ Alone(c) /\ ctl'[c].pc = "unstage"
    BY <1>2, <1>5 DEF UnlaunchAttempt
  <2> QED BY <1>5, <2>1, <2>2
       DEF UnlaunchAttempt, Step, RecordsOK, leaseVars, taskVars, claimVars, Admitted
<1> QED BY <1>3, <1>4, <1>5

LEMMA UnlaunchStageStep ==
  ASSUME RecordsOK, LocalsOK, NEW c \in Controllers, UnlaunchStage(c)
  PROVE  Step(c)
<1>1. /\ ctl[c].pc \in HandlerSteps /\ Here(c) \in StageIds /\ owed' \in [Tasks -> BOOLEAN]
  BY HereOK DEF UnlaunchStage, HandlerSteps, RecordsOK
<1>2. CASE /\ finishStage(Here(c), "failed", "RUNNING") /\ Goto(c, "handle")
           /\ UNCHANGED <<leaseVars, owner, attempt, worker>>
  <2>1. LocalsOK' /\ Alone(c) /\ ctl'[c].pc \notin Admitted
    BY <1>1, <1>2, GotoLocals DEF HandlerSteps, Admitted
  <2> QED BY <1>1, <1>2, <2>1, FinishedStep DEF STAGE_STATES, States
<1>3. CASE release(Here(c)) /\ Throw(c) /\ UNCHANGED <<leaseVars, owner, attempt, worker>>
  BY <1>1, <1>3, RefusedStep
<1> QED BY <1>2, <1>3 DEF UnlaunchStage, Finish

LEMMA HandleFailureStep ==
  ASSUME RecordsOK, LocalsOK, NEW c \in Controllers, handleFailure(c)
  PROVE  Step(c)
<1>1. /\ UNCHANGED <<owed, leaseVars, stage, grant, attempt, worker>>
      /\ ctl[c] \in Locals /\ Subject(c) \in Tasks \union {None}
  BY HereOK DEF handleFailure, HandlerSteps, RecordsOK, Subject, Job
<1>2. CASE /\ SetTask(Subject(c), "RUNNING") /\ UNCHANGED claimVars
           /\ \E l \in Launches : /\ Use(l, Subject(c))
                                  /\ ctl' = [ctl EXCEPT ![c].pc = "admit", ![c].job = l]
  <2>1. PICK l \in Launches : /\ Use(l, Subject(c))
                              /\ ctl' = [ctl EXCEPT ![c].pc = "admit", ![c].job = l]
    BY <1>2
  <2> DEFINE r == [ctl[c] EXCEPT !.pc = "admit", !.job = l]
  <2>2. r \in Locals /\ r.pc = "admit" /\ r.job \in Launches
    BY <1>1 DEF Locals, HandlerSteps
  <2>3. ctl' = [ctl EXCEPT ![c] = r]
    BY <1>1, <2>1 DEF Locals, LocalsOK
  <2>4. LocalsOK' /\ Alone(c) /\ ctl'[c].pc = "admit"
    <3> HIDE DEF r
    <3> QED BY <2>2, <2>3, MoveLocals
  <2>5. /\ task' \in [Tasks -> States] /\ parked' \in [Tasks -> BOOLEAN]
        /\ owner' \in [Launches -> Tasks \union {None}]
    BY <1>1, <1>2, <2>1, SetTaskRecords, UseOwner DEF States
  <2> QED BY <1>1, <1>2, <2>4, <2>5 DEF Step, RecordsOK, leaseVars, claimVars, Admitted
<1>3. ASSUME NEW to \in {"READY", "FAILED"}, SetTask(Subject(c), to), Unclaim(Subject(c)),
             Return(c), UNCHANGED owner
      PROVE  Step(c)
  <2>1. to \in States
    BY DEF States
  <2> QED BY <1>1, <1>3, <2>1, SetTaskRecords, UnclaimRecords, ReturnLocals
       DEF Step, RecordsOK, leaseVars, Admitted
<1>4. CASE blockTask(Subject(c)) /\ Return(c) /\ UNCHANGED owner
  BY <1>1, <1>4, BlockTaskRecords, ReturnLocals DEF Step, RecordsOK, leaseVars, Admitted
<1>5. CASE Throw(c) /\ UNCHANGED owner
  BY <1>1, <1>5, ThrowRecords DEF Step, RecordsOK, leaseVars, Admitted
<1> QED BY <1>2, <1>3, <1>4, <1>5 DEF handleFailure

\* Every step of a tick but its first, and every step of a launch.
LEMMA TickStep ==
  ASSUME RecordsOK, LocalsOK, NEW c \in Controllers, Tick(c) \/ Pipeline(c), ~BeginTick(c)
  PROVE  Step(c)
<1>1. CASE Tick(c)
  BY <1>1, EndPassStep, ReconcileStep, OrphanImplementStep, OrphanHandlerStep,
     ReleaseClaimStep, StrandedTaskStep, DispatchStep DEF Tick
<1>2. CASE Pipeline(c)
  BY <1>2, ReserveStageStep, BeginStageStep, CloseStep, AdmitStep, AdmissionStep,
     StartAttemptStep, WorkerStep, UnlaunchStageStep, HandleFailureStep DEF Pipeline
<1> QED BY <1>1, <1>2

LEMMA TickIsInside ==
  ASSUME NEW c \in Controllers, Tick(c) \/ Pipeline(c), ~BeginTick(c)
  PROVE  InTick(c)
<1>1. ctl[c].pc = "pass" \/ ctl[c].pc \in HandlerSteps
  BY DEF Tick, Pipeline, Listed, EndPass, Reconcile, OrphanImplement, OrphanPrepare,
     OrphanPreflight, ReleaseClaim, StrandedTask, ResumeParked, Dispatch, RetryPreflight,
     reserveStage, BeginStage, ClosePrepare, ClosePreflight, Admit, reserveAdmission,
     activateAdmission, startAttempt, Spawn, Bind, UnlaunchAttempt, UnlaunchStage,
     handleFailure, HandlerSteps
<1> QED BY <1>1 DEF InTick, HandlerSteps
-----------------------------------------------------------------------------
(* The steps outside a tick, and the invariants.                           *)

LeaseOK == holder \in Controllers \union {None} /\ stale \in BOOLEAN

\* A process starts, begins a tick, stops or dies.
LEMMA ProcessStep ==
  ASSUME RecordsOK, LocalsOK, LeaseOK, NEW c \in Controllers,
         Start(c) \/ BeginTick(c) \/ Stop(c) \/ Crash(c)
  PROVE  /\ RecordsOK' /\ LocalsOK' /\ LeaseOK' /\ Alone(c) /\ UNCHANGED grant
         /\ ctl'[c].pc \in {"off", "idle", "dead", "pass"}
<1>1. /\ UNCHANGED <<taskVars, owed, claimVars, rowVars>> /\ ctl[c] \in Locals
  BY DEF Start, BeginTick, Stop, Crash, LocalsOK
<1>2. RecordsOK' /\ UNCHANGED grant
  BY <1>1 DEF RecordsOK, taskVars, claimVars, rowVars
<1>3. LeaseOK'
  BY DEF LeaseOK, Start, BeginTick, Stop, Crash, leaseVars
<1>4. ASSUME NEW r \in Locals, r.pc \in {"off", "idle", "dead", "pass"},
             ctl' = [ctl EXCEPT ![c] = r]
      PROVE  LocalsOK' /\ Alone(c) /\ ctl'[c].pc = r.pc
  BY <1>4, MoveLocals DEF HandlerSteps
<1>5. CASE Start(c)
  <2> DEFINE r == [ctl[c] EXCEPT !.pc = "idle"]
  <2>1. r \in Locals /\ r.pc = "idle"
    BY <1>1 DEF Locals
  <2>2. ctl' = [ctl EXCEPT ![c] = r]
    BY <1>1, <1>5 DEF Start, Goto, Locals, LocalsOK
  <2> HIDE DEF r
  <2> QED BY <1>2, <1>3, <1>4, <2>1, <2>2
<1>6. CASE BeginTick(c)
  <2> DEFINE r == [AtRest("pass") EXCEPT !.todo = Snapshot("attempts")]
  <2>1. r \in Locals /\ r.pc = "pass"
    BY RestLocals, SnapshotItems DEF AtRest, Locals, Passes, Phases, Origins
  <2>2. AtRest("off") \in Locals /\ AtRest("off").pc = "off"
    BY RestLocals
  <2>3. ctl' = [ctl EXCEPT ![c] = r] \/ ctl' = [ctl EXCEPT ![c] = AtRest("off")]
    BY <1>6 DEF BeginTick
  <2> HIDE DEF r
  <2> QED BY <1>2, <1>3, <1>4, <2>1, <2>2, <2>3
<1>7. CASE Stop(c)
  BY <1>2, <1>3, <1>4, <1>7, RestLocals DEF Stop
<1>8. CASE Crash(c)
  BY <1>2, <1>3, <1>4, <1>8, RestLocals DEF Crash
<1> QED BY <1>5, <1>6, <1>7, <1>8

\* The clock runs, or the operator retries a task.
LEMMA OtherStep ==
  ASSUME RecordsOK, LeaseOK, Expire \/ \E t \in Tasks : Age(t) \/ retryTask(t)
  PROVE  RecordsOK' /\ LeaseOK' /\ UNCHANGED <<ctl, grant>>
<1>1. CASE Expire
  BY <1>1 DEF Expire, RecordsOK, LeaseOK, taskVars, claimVars, rowVars
<1>2. ASSUME NEW t \in Tasks, Age(t)
      PROVE  RecordsOK' /\ LeaseOK' /\ UNCHANGED <<ctl, grant>>
  BY <1>2 DEF Age, RecordsOK, LeaseOK, leaseVars, taskVars, rowVars
<1>3. ASSUME NEW t \in Tasks, retryTask(t)
      PROVE  RecordsOK' /\ LeaseOK' /\ UNCHANGED <<ctl, grant>>
  <2>1. task' \in [Tasks -> States] /\ parked' \in [Tasks -> BOOLEAN]
    BY <1>3, SetTaskRecords DEF retryTask, States
  <2> QED BY <1>3, <2>1, UnclaimRecords DEF retryTask, RecordsOK, LeaseOK, leaseVars, rowVars
<1> QED BY <1>1, <1>2, <1>3

LEMMA NextSteps ==
  ASSUME [Next]_vars
  PROVE  \/ \E c \in Controllers : Start(c) \/ BeginTick(c) \/ Stop(c) \/ Crash(c)
         \/ \E c \in Controllers : (Tick(c) \/ Pipeline(c)) /\ ~BeginTick(c)
         \/ Expire \/ \E t \in Tasks : Age(t) \/ retryTask(t)
         \/ UNCHANGED vars
BY DEF Next, Unretried

\* Every variable, and every local of every controller, keeps its type; a
\* controller in a handler always has the launch it handles.
THEOREM TypeCorrect == Spec => []TypeOK
<1>1. Init => TypeOK
  <2> SUFFICES ASSUME Init PROVE TypeOK
    OBVIOUS
  <2>1. LeaseOK /\ RecordsOK
    BY DEF Init, LeaseOK, RecordsOK, States
  <2>2. LocalsOK
    <3>1. AtRest("off") \in Locals /\ AtRest("off").pc = "off" /\ "off" \notin HandlerSteps
      BY RestLocals DEF HandlerSteps
    <3> QED BY <3>1 DEF Init, LocalsOK
  <2> QED BY <2>1, <2>2 DEF TypeOK, LeaseOK, RecordsOK, LocalsOK, States
<1>2. TypeOK /\ [Next]_vars => TypeOK'
  <2> SUFFICES ASSUME LeaseOK, RecordsOK, LocalsOK, [Next]_vars
               PROVE  LeaseOK' /\ RecordsOK' /\ LocalsOK'
    BY DEF TypeOK, LeaseOK, RecordsOK, LocalsOK, States
  <2>1. ASSUME NEW c \in Controllers, (Tick(c) \/ Pipeline(c)) /\ ~BeginTick(c)
        PROVE  LeaseOK' /\ RecordsOK' /\ LocalsOK'
    BY <2>1, TickStep DEF Step, LeaseOK, leaseVars
  <2>2. CASE Expire \/ \E t \in Tasks : Age(t) \/ retryTask(t)
    BY <2>2, OtherStep DEF LocalsOK, Job
  <2>3. CASE UNCHANGED vars
    BY <2>3 DEF vars, leaseVars, taskVars, claimVars, rowVars, LeaseOK, RecordsOK, LocalsOK, Job
  <2> QED BY <2>1, <2>2, <2>3, ProcessStep, NextSteps
<1> QED BY <1>1, <1>2, PTL DEF Spec

\* The launches of the controllers at an admitted step hold an admission lease
\* and are pairwise distinct.
FenceInv ==
  /\ RecordsOK /\ LocalsOK /\ LeaseOK
  /\ \A c \in Controllers : ctl[c].pc \in Admitted => grant[Job(c)] # "none"
  /\ \A c, d \in Controllers :
       ctl[c].pc \in Admitted /\ ctl[d].pc \in Admitted /\ c # d => Job(c) # Job(d)

LEMMA FenceInductive ==
  ASSUME FenceInv, [Next]_vars
  PROVE  FenceInv'
<1> USE DEF FenceInv
<1> DEFINE In(c) == ctl[c].pc \in Admitted
<1>1. ASSUME NEW c \in Controllers, (Tick(c) \/ Pipeline(c)) /\ ~BeginTick(c)
      PROVE  FenceInv'
  <2>1. Step(c) /\ LeaseOK'
    BY <1>1, TickStep DEF Step, LeaseOK, leaseVars
  <2>2. ASSUME NEW d \in Controllers, d # c, In(d)'
        PROVE  /\ In(d) /\ Job(d)' = Job(d) /\ grant[Job(d)] # "none" /\ Job(d) \in Launches
               /\ grant'[Job(d)] # "none"
    BY <2>1, <2>2 DEF Step, Alone, Job, LocalsOK, Admitted, HandlerSteps
  <2>3. ASSUME In(c)'
        PROVE  /\ grant'[Job(c)'] # "none"
               /\ (In(c) /\ Job(c)' = Job(c)) \/ grant[Job(c)'] = "none"
    BY <2>1, <2>3 DEF Step, Job, LocalsOK, Admitted, HandlerSteps
  <2>4. ASSUME NEW d \in Controllers, In(d)'
        PROVE  grant'[Job(d)'] # "none"
    BY <2>2, <2>3, <2>4
  <2>5. ASSUME NEW d \in Controllers, d # c, In(c)', In(d)'
        PROVE  Job(c)' # Job(d)'
    BY <2>2, <2>3, <2>5
  <2>6. ASSUME NEW d \in Controllers, NEW e \in Controllers, d # e, In(d)', In(e)'
        PROVE  Job(d)' # Job(e)'
    <3>1. CASE d # c /\ e # c
      BY <2>2, <2>6, <3>1
    <3> QED BY <2>5, <2>6, <3>1
  <2> QED BY <2>1, <2>4, <2>6 DEF Step
<1>2. ASSUME NEW c \in Controllers, Start(c) \/ BeginTick(c) \/ Stop(c) \/ Crash(c)
      PROVE  FenceInv'
  <2>1. /\ RecordsOK' /\ LocalsOK' /\ LeaseOK' /\ Alone(c) /\ UNCHANGED grant
        /\ ctl'[c].pc \notin Admitted
    BY <1>2, ProcessStep DEF Admitted
  <2>2. \A d \in Controllers : In(d)' => In(d) /\ Job(d)' = Job(d)
    BY <2>1 DEF Alone, Job
  <2> QED BY <2>1, <2>2
<1>3. CASE Expire \/ \E t \in Tasks : Age(t) \/ retryTask(t)
  BY <1>3, OtherStep DEF LocalsOK, Job
<1>4. CASE UNCHANGED vars
  BY <1>4 DEF vars, leaseVars, taskVars, claimVars, rowVars, LeaseOK, RecordsOK, LocalsOK, Job
<1> QED BY <1>1, <1>2, <1>3, <1>4, NextSteps

\* Whatever the delays, and however many controllers recover one launch at once,
\* at most one of them is past its admission: the UNIQUE launch key and the
\* admission lease of its stage fence the worker's start, the controller lease
\* is not needed for it.
THEOREM LaunchFencing == Spec => []FencedLaunch
<1>1. Init => FenceInv
  <2> SUFFICES ASSUME Init PROVE FenceInv
    OBVIOUS
  <2>1. LeaseOK /\ RecordsOK
    BY DEF Init, LeaseOK, RecordsOK, States
  <2>2. \A c \in Controllers : ctl[c] \in Locals /\ ctl[c].pc = "off"
    BY RestLocals DEF Init
  <2>3. LocalsOK
    BY <2>2, RestLocals DEF Init, LocalsOK, HandlerSteps
  <2> QED BY <2>1, <2>2, <2>3 DEF FenceInv, Admitted
<1>2. FenceInv /\ [Next]_vars => FenceInv'
  BY FenceInductive
<1>3. FenceInv => FencedLaunch
  BY DEF FenceInv, FencedLaunch, Admitted
<1> QED BY <1>1, <1>2, <1>3, PTL DEF Spec

\* A controller inside a tick holds the lease, and its heartbeat is recent.
Exclusion ==
  /\ RecordsOK /\ LocalsOK /\ LeaseOK
  /\ \A c \in Controllers : InTick(c) => holder = c /\ ~stale

LEMMA ExclusionInductive ==
  ASSUME Delay = "none", Exclusion, [Next]_vars
  PROVE  Exclusion'
<1> USE DEF Exclusion
<1>1. ASSUME NEW c \in Controllers, (Tick(c) \/ Pipeline(c)) /\ ~BeginTick(c)
      PROVE  Exclusion'
  <2>1. Step(c) /\ InTick(c)
    BY <1>1, TickStep, TickIsInside
  <2> QED BY <2>1 DEF Step, Alone, InTick, leaseVars, LeaseOK
<1>2. ASSUME NEW c \in Controllers, Start(c) \/ BeginTick(c) \/ Stop(c) \/ Crash(c)
      PROVE  Exclusion'
  <2>1. RecordsOK' /\ LocalsOK' /\ LeaseOK' /\ Alone(c)
    BY <1>2, ProcessStep
  <2>2. ASSUME NEW d \in Controllers, d # c, InTick(d)'
        PROVE  InTick(d) /\ holder = d /\ ~stale
    BY <2>1, <2>2 DEF Alone, InTick
  <2>3. ctl \in [Controllers -> Locals]
    BY DEF LocalsOK
  <2>4. CASE Start(c) \/ Crash(c)
    <3>1. ~InTick(c)' /\ UNCHANGED leaseVars
      BY <2>3, <2>4, RestLocals DEF Start, Crash, Goto, InTick, Locals
    <3> QED BY <2>1, <2>2, <3>1 DEF leaseVars
  <2>5. CASE Stop(c)
    <3>1. ~InTick(c)' /\ (holder # c => UNCHANGED leaseVars)
      BY <2>3, <2>5, RestLocals DEF Stop, InTick, leaseVars
    <3> QED BY <2>1, <2>2, <3>1 DEF leaseVars
  <2>6. CASE BeginTick(c)
    <3>1. CASE Takeable(c) /\ holder' = c /\ stale' = FALSE
      <4>1. \A d \in Controllers \ {c} : ~InTick(d)'
        BY <2>2, <3>1, LeaseAssumption DEF Takeable
      <4> QED BY <2>1, <3>1, <4>1
    <3>2. CASE ctl' = [ctl EXCEPT ![c] = AtRest("off")] /\ UNCHANGED leaseVars
      <4>1. ~InTick(c)'
        BY <2>3, <3>2, RestLocals DEF InTick
      <4> QED BY <2>1, <2>2, <3>2, <4>1 DEF leaseVars
    <3> QED BY <2>6, <3>1, <3>2 DEF BeginTick
  <2> QED BY <1>2, <2>4, <2>5, <2>6
<1>3. CASE Expire \/ \E t \in Tasks : Age(t) \/ retryTask(t)
  <2>1. RecordsOK' /\ LocalsOK' /\ LeaseOK' /\ UNCHANGED ctl
    BY <1>3, OtherStep DEF LocalsOK, Job
  <2>2. CASE Expire
    BY <2>1, <2>2 DEF Expire, MayLag, InTick, LeaseOK
  <2>3. CASE \E t \in Tasks : Age(t) \/ retryTask(t)
    BY <2>1, <2>3 DEF Age, retryTask, InTick, leaseVars
  <2> QED BY <1>3, <2>2, <2>3
<1>4. CASE UNCHANGED vars
  BY <1>4 DEF vars, leaseVars, taskVars, claimVars, rowVars, LeaseOK, RecordsOK, LocalsOK,
     Job, InTick
<1> QED BY <1>1, <1>2, <1>3, <1>4, NextSteps

\* If no tick outlasts the lease, only one controller at a time is inside a tick:
\* a takeover waits for a stop or for a heartbeat that has gone stale.
THEOREM SingleDispatcher == ASSUME Delay = "none" PROVE Spec => []OneDispatcher
<1>1. Init => Exclusion
  <2> SUFFICES ASSUME Init PROVE Exclusion
    OBVIOUS
  <2>1. LeaseOK /\ RecordsOK
    BY DEF Init, LeaseOK, RecordsOK, States
  <2>2. \A c \in Controllers : ctl[c] \in Locals /\ ctl[c].pc = "off"
    BY RestLocals DEF Init
  <2>3. LocalsOK
    BY <2>2, RestLocals DEF Init, LocalsOK, HandlerSteps
  <2> QED BY <2>1, <2>2, <2>3 DEF Exclusion, InTick
<1>2. Exclusion /\ [Next]_vars => Exclusion'
  BY ExclusionInductive
<1>3. Exclusion => OneDispatcher
  BY DEF Exclusion, OneDispatcher
<1> QED BY <1>1, <1>2, <1>3, PTL DEF Spec
-----------------------------------------------------------------------------
(* One attempt of a task at a time.                                        *)

\* Something of launch l is under way: its attempt, or one of its stages.
Under(l) == attempt[l] = "running" \/ \E f \in Phases : Unsettled(<<l, f>>)

\* The stages of a launch follow one another, and its attempt comes after the last of them.
OrderedAt(l) ==
  /\ owner[l] = None => \A f \in Phases : stage[<<l, f>>] = "none"
  /\ stage[<<l, "implement">>] = "none" => attempt[l] = "none"
  /\ Unsettled(<<l, "prepare">>) => stage[<<l, "preflight">>] = "none"
  /\ Unsettled(<<l, "prepare">>) \/ Unsettled(<<l, "preflight">>) => stage[<<l, "implement">>] = "none"
Ordered == \A l \in Launches : OrderedAt(l)

\* One launch of a task is under way, and a task with a running attempt is RUNNING.
Exclusive == \A l, m \in Launches : Under(l) /\ Under(m) /\ owner[l] = owner[m] => l = m
AtWork    == \A l \in Launches : attempt[l] = "running" => task[owner[l]] = "RUNNING"

Before  == {"reserve", "begin", "close", "admit", "grant", "activate", "start"}
Started == {"spawn", "bind", "unlaunch"}
Granted == {"grant", "activate", "start"} \union Started \union {"unstage"}

\* A handler has the task of its launch to itself, and knows how far the launch has come.
Others(t, j) == \A m \in Launches : owner[m] = t /\ Under(m) => m = j

Owned(c) == /\ Subject(c) \in Tasks /\ Others(Subject(c), Job(c))
            /\ ctl[c].pass \in {"orphans", "pending", "ready"}
            /\ ctl[c].origin = "dispatch" => ctl[c].pass = "ready"
            /\ ctl[c].origin = "recovery" => ctl[c].pass = "orphans"

Knows(c) ==
  /\ ctl[c].pc \in Before => attempt[Job(c)] = "none"
  /\ ctl[c].pc \in Started => attempt[Job(c)] = "running"
  /\ ctl[c].pc \in {"unstage", "handle"} => attempt[Job(c)] # "running"
  /\ ctl[c].pc \in {"grant", "activate", "start"} => task[Subject(c)] = "RUNNING"
  /\ ctl[c].pc \in Granted \union {"admit", "handle"} => ctl[c].phase = "implement"
  /\ ctl[c].pc \in Granted => stage[Here(c)] # "none"
  /\ ctl[c].pc \in {"begin", "close"} => ctl[c].phase # "implement" /\ Unsettled(Here(c))
  /\ ctl[c].pc \in {"admit", "handle"} => \A f \in Phases : ~Unsettled(<<Job(c), f>>)
  /\ ctl[c].pc = "admit" => stage[<<Job(c), "implement">>] = "none"
  /\ ctl[c].pc = "reserve" =>
       /\ stage[Here(c)] = "none" \/ (Unsettled(Here(c)) /\ ctl[c].phase = "preflight")
       /\ stage[<<Job(c), "implement">>] = "none"
       /\ ctl[c].phase = "prepare" => stage[<<Job(c), "preflight">>] = "none"
       /\ \A f \in Phases : Unsettled(<<Job(c), f>>) => f = ctl[c].phase
  /\ ctl[c].origin = "recovery" =>
       IF ctl[c].phase = "prepare" THEN ctl[c].pc \in {"begin", "close"}
       ELSE ~Active(<<Job(c), "prepare">>)

Handled(c) == ctl[c].pc \in HandlerSteps => Owned(c) /\ Knows(c)

\* What a tick still has to look at is as it was listed; what it has looked at is settled,
\* runs, or is left by a failed dispatch to the next tick.
Listing(c) ==
  InTick(c) =>
    /\ ctl[c].pass = "attempts" => \A l \in ctl[c].todo : l \in Launches /\ attempt[l] = "running"
    /\ ctl[c].pass = "orphans" =>
         /\ \A x \in ctl[c].todo :
              /\ x[1] \in StageIds /\ x = <<x[1], stage[x[1]]>> /\ Unsettled(x[1])
              /\ ctl[c].pc \in HandlerSteps => owner[x[1][1]] # Subject(c)
         /\ \A s \in StageIds : Unsettled(s) =>
              \/ <<s, stage[s]>> \in ctl[c].todo \/ attempt[s[1]] = "running"
              \/ ctl[c].pc \in HandlerSteps /\ s[1] = Job(c)
    /\ ctl[c].pass \in {"claims", "stranded", "pending", "ready"} =>
         \A s \in StageIds : Unsettled(s) =>
           \/ attempt[s[1]] = "running"
           \/ ctl[c].pc \in HandlerSteps /\ s[1] = Job(c)
           \/ ctl[c].pass = "ready" /\ owner[s[1]] \notin ctl[c].todo
    /\ ctl[c].pass \in {"pending", "ready"} /\ ctl[c].pc \in HandlerSteps => Subject(c) \notin ctl[c].todo
    /\ ctl[c].pc = "pass" => ctl[c].origin = "other"

Sole == Ordered /\ Exclusive /\ AtWork /\ \A c \in Controllers : Handled(c) /\ Listing(c)

\* What the steps of a handler move: launch j of task t, or a settled stage of another one.
Mine(j, t) ==
  /\ \A l \in Launches \ {j} : owner'[l] = owner[l] /\ attempt'[l] = attempt[l]
  /\ \A s \in StageIds : s[1] # j =>
       \/ stage'[s] = stage[s]
       \/ ~Unsettled(s) /\ ~Unsettled(s)' /\ stage[s] # "none" /\ stage'[s] # "none"
  /\ \A u \in Tasks : u # t => task'[u] = task[u]

Rows == RecordsOK /\ Ordered /\ Exclusive /\ AtWork

LEMMA RowsKept ==
  ASSUME Rows, NEW j \in Launches, NEW t \in Tasks, Mine(j, t), Others(t, j), owner'[j] = t,
         OrderedAt(j)', attempt'[j] = "running" => task'[t] = "RUNNING"
  PROVE  Ordered' /\ Exclusive' /\ AtWork' /\ Others(t, j)'
<1>0. \A l \in Launches, f \in Phases : <<l, f>> \in StageIds
  BY DEF StageIds
<1>1. ASSUME NEW l \in Launches, l # j
      PROVE  /\ OrderedAt(l)'
             /\ Under(l)' => Under(l)
             /\ owner'[l] = owner[l] /\ attempt'[l] = attempt[l]
             /\ attempt[l] = "running" => owner[l] # t /\ owner[l] \in Tasks
  <2>1. /\ owner'[l] = owner[l] /\ attempt'[l] = attempt[l]
        /\ \A f \in Phases : /\ Unsettled(<<l, f>>)' = Unsettled(<<l, f>>)
                             /\ stage'[<<l, f>>] = "none" <=> stage[<<l, f>>] = "none"
    BY <1>0, <1>1 DEF Mine, Unsettled
  <2>2. OrderedAt(l)
    BY DEF Rows, Ordered
  <2>3. OrderedAt(l)'
    BY <2>1, <2>2 DEF OrderedAt, Phases
  <2>4. Under(l)' => Under(l)
    BY <2>1 DEF Under
  <2>5. attempt[l] = "running" => owner[l] # t /\ owner[l] \in Tasks
    BY <1>1, <2>2 DEF Others, Under, OrderedAt, Rows, RecordsOK, Phases
  <2> QED BY <2>1, <2>3, <2>4, <2>5
<1>2. Ordered'
  BY <1>1 DEF Ordered
<1>3. Others(t, j)'
  BY <1>1 DEF Others
<1>4. Exclusive'
  BY <1>1, <1>3 DEF Exclusive, Others, Rows
<1>5. AtWork'
  <2>1. ASSUME NEW l \in Launches, attempt'[l] = "running"
        PROVE  task'[owner'[l]] = "RUNNING"
    BY <1>1, <2>1 DEF AtWork, Mine, Rows
  <2> QED BY <2>1 DEF AtWork
<1> QED BY <1>2, <1>3, <1>4, <1>5

\* The stages of the other launches stay as the tick has listed them.
LEMMA ListingKept ==
  ASSUME Rows, LocalsOK, NEW c \in Controllers, Listing(c), InTick(c), NEW j \in Launches, NEW t \in Tasks,
         Mine(j, t), owner'[j] = t, ctl'[c].pass = ctl[c].pass, ctl'[c].pass # "attempts",
         ctl'[c].todo \subseteq ctl[c].todo,
         owner[j] = t \/ owner[j] = None,
         \A x \in ctl[c].todo \ ctl'[c].todo : ctl[c].pass = "orphans" => x[1][1] = j,
         ctl[c].pc \in HandlerSteps =>
           /\ t = Subject(c)
           /\ Job(c) = j \/ \A f \in Phases : ~Unsettled(<<Job(c), f>>),
         ctl'[c].pass = "orphans" => \A x \in ctl'[c].todo : owner[x[1][1]] # t,
         ctl'[c].pass \in {"pending", "ready"} => t \notin ctl'[c].todo,
         \/ ctl'[c].pc \in HandlerSteps /\ ctl'[c].job = j
         \/ /\ ctl'[c].pc = "pass" /\ ctl'[c].origin = "other"
            /\ \A f \in Phases : Unsettled(<<j, f>>)' => attempt'[j] = "running" \/ ctl[c].pass = "ready"
  PROVE  Listing(c)'
<1>0. \A s \in StageIds : s[1] \in Launches /\ s[2] \in Phases /\ s = <<s[1], s[2]>>
  BY DEF StageIds
<1>1. ASSUME NEW s \in StageIds, Unsettled(s), s[1] # j
      PROVE  /\ stage'[s] = stage[s] /\ Unsettled(s)'
             /\ owner'[s[1]] = owner[s[1]] /\ attempt'[s[1]] = attempt[s[1]]
  BY <1>0, <1>1 DEF Mine, Unsettled
<1>2. ASSUME NEW s \in StageIds, Unsettled(s)', s[1] # j
      PROVE  Unsettled(s)
  BY <1>2 DEF Mine, Unsettled
<1>3. ASSUME NEW s \in StageIds, s[1] = j, Unsettled(s)'
      PROVE  \/ attempt'[j] = "running"
             \/ ctl'[c].pc \in HandlerSteps /\ ctl'[c].job = j
             \/ ctl[c].pass = "ready"
  BY <1>0, <1>3
<1>4. CASE ctl[c].pass = "orphans"
  <2>1. ASSUME NEW x \in ctl'[c].todo
        PROVE  /\ x[1] \in StageIds /\ x = <<x[1], stage'[x[1]]>> /\ Unsettled(x[1])'
               /\ owner'[x[1][1]] # t
    <3>1. x[1] \in StageIds /\ x = <<x[1], stage[x[1]]>> /\ Unsettled(x[1]) /\ owner[x[1][1]] # t
      BY <1>4, <2>1 DEF Listing
    <3>2. x[1][1] # j
      <4>1. owner[j] = None => ~Unsettled(x[1]) \/ x[1][1] # j
        BY <1>0, <3>1 DEF Rows, Ordered, OrderedAt, Unsettled
      <4> QED BY <3>1, <4>1
    <3> QED BY <1>1, <3>1, <3>2
  <2>2. ASSUME NEW s \in StageIds, Unsettled(s)', s[1] # j
        PROVE  <<s, stage'[s]>> \in ctl'[c].todo \/ attempt'[s[1]] = "running"
    <3>1. Unsettled(s) /\ stage'[s] = stage[s] /\ attempt'[s[1]] = attempt[s[1]]
      BY <1>1, <1>2, <2>2
    <3>2. ~(ctl[c].pc \in HandlerSteps /\ s[1] = Job(c))
      BY <1>0, <2>2, <3>1
    <3>3. <<s, stage[s]>> \in ctl[c].todo \/ attempt[s[1]] = "running"
      BY <1>4, <3>1, <3>2 DEF Listing
    <3>4. <<s, stage[s]>> \in ctl[c].todo => <<s, stage[s]>> \in ctl'[c].todo
      BY <1>4, <2>2
    <3> QED BY <3>1, <3>3, <3>4
  <2>3. Subject(c)' = t \/ ctl'[c].pc \notin HandlerSteps
    BY DEF Subject, HandlerSteps
  <2> QED BY <1>3, <1>4, <2>1, <2>2, <2>3 DEF Listing, Job, HandlerSteps
<1>5. CASE ctl[c].pass \in {"claims", "stranded", "pending", "ready"}
  <2>1. ASSUME NEW s \in StageIds, Unsettled(s)', s[1] # j
        PROVE  attempt'[s[1]] = "running" \/ (ctl'[c].pass = "ready" /\ owner'[s[1]] \notin ctl'[c].todo)
    <3>1. /\ Unsettled(s) /\ attempt'[s[1]] = attempt[s[1]] /\ owner'[s[1]] = owner[s[1]]
      BY <1>1, <1>2, <2>1
    <3>2. ~(ctl[c].pc \in HandlerSteps /\ s[1] = Job(c))
      BY <1>0, <2>1, <3>1
    <3> QED BY <1>5, <3>1, <3>2 DEF Listing
  <2>2. ASSUME NEW s \in StageIds, Unsettled(s)', s[1] = j
        PROVE  \/ attempt'[s[1]] = "running"
               \/ ctl'[c].pc \in HandlerSteps /\ s[1] = Job(c)'
               \/ ctl'[c].pass = "ready" /\ owner'[s[1]] \notin ctl'[c].todo
    BY <1>3, <2>2 DEF Job
  <2>3. ctl'[c].pc \in HandlerSteps => Subject(c)' = t
    BY DEF Subject, HandlerSteps
  <2> QED BY <1>5, <2>1, <2>2, <2>3 DEF Listing, HandlerSteps
<1>6. ctl[c].pass \in Passes
  BY DEF LocalsOK, Locals
<1> QED BY <1>4, <1>5, <1>6 DEF Passes

\* One dispatcher, and one launch of a task at a time.
Safe == Exclusion /\ Sole

\* A step of the controller that is inside a tick concerns no other one.
LEMMA Ticker ==
  ASSUME Safe, Exclusion', NEW c \in Controllers, InTick(c), Alone(c),
         Ordered' /\ Exclusive' /\ AtWork', InTick(c)' => Handled(c)' /\ Listing(c)'
  PROVE  Safe'
<1>1. ASSUME NEW d \in Controllers, d # c
      PROVE  ~InTick(d)'
  BY <1>1 DEF Safe, Exclusion, Alone, InTick
<1>2. ASSUME NEW d \in Controllers
      PROVE  Handled(d)' /\ Listing(d)'
  BY <1>1 DEF Handled, Listing, InTick, HandlerSteps
<1> QED BY <1>2 DEF Safe, Sole

Onward(c, j) == /\ ctl'[c].pc \in HandlerSteps /\ ctl'[c].job = j /\ ctl'[c].pass = ctl[c].pass
                /\ ctl'[c].todo = ctl[c].todo /\ ctl'[c].origin = ctl[c].origin
Back(c)      == /\ ctl'[c].pc = "pass" /\ ctl'[c].pass = ctl[c].pass
                /\ ctl'[c].todo = ctl[c].todo /\ ctl'[c].origin = "other"

LEMMA ReturnIsBack ==
  ASSUME LocalsOK, NEW c \in Controllers, Return(c)
  PROVE  Back(c)
BY DEF Return, Back, AtRest, LocalsOK, Locals

\* The step of a handler: it goes on, returns, or ends the tick.
LEMMA HandlerKeeps ==
  ASSUME Safe, Exclusion', NEW c \in Controllers, ctl[c].pc \in HandlerSteps, Alone(c),
         NEW j \in Launches, Mine(j, Subject(c)), owner'[j] = Subject(c),
         j = Job(c) \/ (owner[j] = None /\ ~Under(Job(c))),
         OrderedAt(j)', attempt'[j] = "running" => task'[Subject(c)] = "RUNNING",
         \/ Onward(c, j) /\ Knows(c)'
         \/ Back(c) /\ \A f \in Phases : Unsettled(<<j, f>>)' => attempt'[j] = "running" \/ ctl[c].pass = "ready"
         \/ ~InTick(c)'
  PROVE  Safe'
<1>1. /\ RecordsOK /\ LocalsOK /\ Rows /\ Owned(c) /\ Listing(c) /\ InTick(c) /\ Job(c) \in Launches
      /\ Subject(c) = owner[Job(c)]
  BY HereOK DEF Safe, Exclusion, Sole, Rows, Handled, InTick, HandlerSteps, Subject, Job
<1>2. PICK t \in Tasks : t = Subject(c)
  BY <1>1 DEF Owned
<1>3. Others(t, j)
  BY <1>1, <1>2 DEF Owned, Others
<1>4. Ordered' /\ Exclusive' /\ AtWork' /\ Others(t, j)'
  BY <1>1, <1>2, <1>3, RowsKept
<1>5. CASE ~InTick(c)'
  BY <1>1, <1>4, <1>5, Ticker
<1>6. CASE \/ Onward(c, j)
           \/ Back(c) /\ \A f \in Phases : Unsettled(<<j, f>>)' => attempt'[j] = "running" \/ ctl[c].pass = "ready"
  <2>1. /\ ctl'[c].pass = ctl[c].pass /\ ctl'[c].todo = ctl[c].todo
        /\ ctl[c].pass \in {"orphans", "pending", "ready"}
    BY <1>1, <1>6 DEF Onward, Back, Owned
  <2>2. /\ ctl'[c].pass = "orphans" => \A x \in ctl'[c].todo : owner[x[1][1]] # t
        /\ ctl'[c].pass \in {"pending", "ready"} => t \notin ctl'[c].todo
    BY <1>1, <1>2, <2>1 DEF Listing
  <2>3. Job(c) = j \/ \A f \in Phases : ~Unsettled(<<Job(c), f>>)
    BY DEF Under
  <2>4. \/ ctl'[c].pc \in HandlerSteps /\ ctl'[c].job = j
        \/ /\ ctl'[c].pc = "pass" /\ ctl'[c].origin = "other"
           /\ \A f \in Phases : Unsettled(<<j, f>>)' => attempt'[j] = "running" \/ ctl[c].pass = "ready"
    BY <1>6 DEF Onward, Back
  <2>5. owner[j] = t \/ owner[j] = None
    BY <1>1, <1>2
  <2>6. Listing(c)'
    <3>1. ctl'[c].pass # "attempts"
      BY <2>1
    <3> QED BY <1>1, <1>2, <2>1, <2>2, <2>3, <2>4, <2>5, <3>1, ListingKept
  <2>7. CASE Onward(c, j) /\ Knows(c)'
    <3>1. Subject(c)' = t /\ Job(c)' = j
      BY <1>2, <2>7 DEF Onward, Subject, Job
    <3>2. Owned(c)'
      <4>1. Others(Subject(c), Job(c))'
        BY <1>4, <3>1 DEF Others
      <4> QED BY <1>1, <2>7, <3>1, <4>1 DEF Owned, Onward
    <3> QED BY <1>1, <1>4, <2>6, <2>7, <3>2, Ticker DEF Handled
  <2>8. CASE Back(c)
    <3>1. Handled(c)'
      BY <2>8 DEF Back, Handled, HandlerSteps
    <3> QED BY <1>1, <1>4, <2>6, <3>1, Ticker
  <2> QED BY <1>5, <1>6, <2>7, <2>8
<1> QED BY <1>5, <1>6

\* A step that moves the state of a task without a running attempt, at most, within a pass.
LEMMA CalmKeeps ==
  ASSUME Safe, Exclusion', NEW c \in Controllers, InTick(c), Alone(c), UNCHANGED <<owner, stage, attempt>>,
         NEW t \in Tasks, Running(t) = {}, \A u \in Tasks : u # t => task'[u] = task[u],
         InTick(c)' => Handled(c)' /\ Listing(c)'
  PROVE  Safe'
<1>1. Ordered' /\ Exclusive'
  BY DEF Safe, Sole, Ordered, OrderedAt, Exclusive, Under, Unsettled
<1>2. ASSUME NEW l \in Launches, attempt[l] = "running"
      PROVE  owner[l] \in Tasks /\ owner[l] # t /\ task[owner[l]] = "RUNNING"
  <2>1. OrderedAt(l) /\ owner[l] \in Tasks \union {None} /\ task[owner[l]] = "RUNNING"
    BY <1>2 DEF Safe, Sole, Ordered, AtWork, Exclusion, RecordsOK
  <2>2. owner[l] # None
    BY <1>2, <2>1 DEF OrderedAt, Phases
  <2>3. owner[l] # t
    BY <1>2 DEF Running
  <2> QED BY <2>1, <2>2, <2>3
<1>3. AtWork'
  BY <1>2 DEF AtWork
<1> QED BY <1>1, <1>3, Ticker

\* A step that leaves these rows alone.
LEMMA StillKeeps ==
  ASSUME Safe, Exclusion', NEW c \in Controllers, InTick(c), Alone(c), UNCHANGED <<owner, stage, attempt, task>>,
         InTick(c)' => Handled(c)' /\ Listing(c)'
  PROVE  Safe'
<1>1. Ordered' /\ Exclusive' /\ AtWork'
  BY DEF Safe, Sole, Ordered, OrderedAt, Exclusive, AtWork, Under, Unsettled
<1> QED BY <1>1, Ticker

\* The tick takes item x of its list up, for launch j of task t.
LEMMA TakeKeeps ==
  ASSUME Safe, Exclusion', NEW c \in Controllers, NEW p, NEW x, Listed(c, p, x), Alone(c),
         p \in {"orphans", "pending", "ready"}, ctl'[c].pass = p, ctl'[c].todo = ctl[c].todo \ {x},
         NEW j \in Launches, NEW t \in Tasks, Mine(j, t), owner'[j] = t, Others(t, j),
         IF p = "orphans" THEN owner[j] = t /\ x[1] \in StageIds /\ x[1][1] = j ELSE owner[j] = None /\ x = t,
         OrderedAt(j)', attempt'[j] = "running" => task'[t] = "RUNNING",
         \/ /\ ctl'[c].pc \in HandlerSteps /\ ctl'[c].job = j /\ Knows(c)'
            /\ ctl'[c].origin = "dispatch" => p = "ready"
            /\ ctl'[c].origin = "recovery" => p = "orphans"
         \/ /\ ctl'[c].pc = "pass" /\ ctl'[c].origin = "other"
            /\ \A f \in Phases : Unsettled(<<j, f>>)' => attempt'[j] = "running" \/ p = "ready"
  PROVE  Safe'
<1>1. /\ RecordsOK /\ LocalsOK /\ Rows /\ Listing(c) /\ InTick(c)
      /\ ctl[c].pass = p /\ x \in ctl[c].todo /\ ctl[c].pc = "pass" /\ ctl[c].pc \notin HandlerSteps
  BY DEF Safe, Exclusion, Sole, Rows, InTick, Listed, HandlerSteps
<1>2. Ordered' /\ Exclusive' /\ AtWork' /\ Others(t, j)'
  BY <1>1, RowsKept
<1>3. ASSUME p = "orphans", NEW y \in ctl'[c].todo
      PROVE  owner[y[1][1]] # t
  <2>1. /\ x[1] \in StageIds /\ x = <<x[1], stage[x[1]]>> /\ Unsettled(x[1]) /\ x[1][1] = j
        /\ y[1] \in StageIds /\ y = <<y[1], stage[y[1]]>> /\ Unsettled(y[1]) /\ y # x
    BY <1>1, <1>3 DEF Listing
  <2>2. y[1] # x[1]
    BY <2>1
  <2>3. ASSUME owner[y[1][1]] = t
        PROVE  FALSE
    <3>1. PICK f \in Phases, g \in Phases, m \in Launches : x[1] = <<j, f>> /\ y[1] = <<m, g>>
      BY <2>1 DEF StageIds
    <3>2. m = j
      BY <2>1, <2>3, <3>1 DEF Others, Under
    <3>3. OrderedAt(j) /\ f # g
      BY <1>1, <2>2, <3>1, <3>2 DEF Rows, Ordered
    <3> QED BY <2>1, <3>1, <3>2, <3>3 DEF OrderedAt, Phases, Unsettled
  <2> QED BY <2>3
<1>4. Listing(c)'
  <2>1. \A y \in ctl[c].todo \ ctl'[c].todo : ctl[c].pass = "orphans" => y[1][1] = j
    BY <1>1
  <2>2. ctl'[c].pass \in {"pending", "ready"} => t \notin ctl'[c].todo
    BY <1>1
  <2>3. owner[j] = t \/ owner[j] = None
    OBVIOUS
  <2>4. \/ ctl'[c].pc \in HandlerSteps /\ ctl'[c].job = j
        \/ /\ ctl'[c].pc = "pass" /\ ctl'[c].origin = "other"
           /\ \A f \in Phases : Unsettled(<<j, f>>)' => attempt'[j] = "running" \/ ctl[c].pass = "ready"
    BY <1>1
  <2>5. ctl'[c].todo \subseteq ctl[c].todo /\ ctl'[c].pass = ctl[c].pass /\ ctl'[c].pass # "attempts"
    BY <1>1
  <2>6. ctl'[c].pass = "orphans" => \A y \in ctl'[c].todo : owner[y[1][1]] # t
    BY <1>3
  <2> QED BY <1>1, <2>1, <2>2, <2>3, <2>4, <2>5, <2>6, ListingKept
<1>5. Handled(c)'
  <2> SUFFICES ASSUME ctl'[c].pc \in HandlerSteps
               PROVE  Owned(c)' /\ Knows(c)'
    BY DEF Handled
  <2>1. ctl'[c].job = j /\ Knows(c)' /\ Subject(c)' = t /\ Job(c)' = j
    BY DEF HandlerSteps, Subject, Job
  <2>2. Others(Subject(c), Job(c))'
    BY <1>2, <2>1 DEF Others
  <2> QED BY <2>1, <2>2 DEF Owned, HandlerSteps
<1> QED BY <1>1, <1>2, <1>4, <1>5, Ticker
-----------------------------------------------------------------------------
(* The passes of a tick.                                                   *)

LEMMA DropIsBack ==
  ASSUME LocalsOK, NEW c \in Controllers, NEW x, Drop(c, x)
  PROVE  /\ ctl'[c].pc = "pass" /\ ctl'[c].pass = ctl[c].pass /\ ctl'[c].todo = ctl[c].todo \ {x}
         /\ ctl'[c].origin = "other" /\ Alone(c)
BY DEF Drop, Take, AtRest, LocalsOK, Locals, Alone

LEMMA TakeHands ==
  ASSUME LocalsOK, NEW c \in Controllers, NEW x, NEW p, NEW l, NEW f, NEW from, NEW st,
         Take(c, x, Handler(p, l, f, from, st))
  PROVE  /\ ctl'[c].pc = p /\ ctl'[c].pass = ctl[c].pass /\ ctl'[c].todo = ctl[c].todo \ {x}
         /\ ctl'[c].job = l /\ ctl'[c].phase = f /\ ctl'[c].origin = from /\ ctl'[c].got = st /\ Alone(c)
BY DEF Take, Handler, AtRest, LocalsOK, Locals, Alone

LEMMA TickEnds ==
  ASSUME LocalsOK, NEW c \in Controllers, EndTick(c)
  PROVE  ~InTick(c)' /\ Alone(c)
BY DEF EndTick, AtRest, InTick, LocalsOK, Alone

\* Everything unsettled is on the list the pass over the orphans begins with.
LEMMA EndPassKeeps ==
  ASSUME Safe, Exclusion', NEW c \in Controllers, InTick(c), EndPass(c)
  PROVE  Safe'
<1>1. /\ LocalsOK /\ Listing(c) /\ ctl[c] \in Locals /\ ctl[c].pc = "pass" /\ ctl[c].todo = {}
      /\ UNCHANGED <<owner, stage, attempt, task>> /\ RecordsOK
  BY DEF Safe, Exclusion, Sole, EndPass, LocalsOK, rowVars, taskVars
<1>2. Ordered' /\ Exclusive' /\ AtWork'
  BY <1>1 DEF Safe, Sole, Ordered, OrderedAt, Exclusive, AtWork, Under, Unsettled
<1>3. CASE ctl[c].pass = "ready"
  <2>1. ~InTick(c)' /\ Alone(c)
    BY <1>1, <1>3, TickEnds DEF EndPass
  <2> QED BY <1>2, <2>1, Ticker
<1>4. CASE ctl[c].pass # "ready"
  <2>1. PICK p \in Passes : p = nextPass[ctl[c].pass] /\ p # "attempts"
    BY <1>1, <1>4 DEF Locals, Passes, nextPass
  <2>2. /\ ctl'[c].pc = "pass" /\ ctl'[c].pass = p /\ ctl'[c].todo = Snapshot(p)
        /\ ctl'[c].origin = ctl[c].origin /\ Alone(c)
    BY <1>1, <1>4, <2>1 DEF EndPass, LocalsOK, Locals, Alone
  <2>3. Handled(c)'
    BY <2>2 DEF Handled, HandlerSteps
  <2>4. InTick(c)' /\ ctl[c].origin = "other" /\ ctl[c].pc \notin HandlerSteps
    BY <1>1, <2>2 DEF InTick, Listing, HandlerSteps
  <2>5. Listing(c)'
    <3>1. CASE p = "orphans"
      <4>1. Snapshot(p) = {<<s, stage[s]>> : s \in {i \in StageIds : Unsettled(i)}}
        BY <3>1 DEF Snapshot
      <4>2. \A x \in ctl'[c].todo : x[1] \in StageIds /\ x = <<x[1], stage'[x[1]]>> /\ Unsettled(x[1])'
        BY <1>1, <2>2, <4>1 DEF Unsettled
      <4>3. \A s \in StageIds : Unsettled(s)' => <<s, stage'[s]>> \in ctl'[c].todo
        BY <1>1, <2>2, <4>1 DEF Unsettled
      <4> QED BY <2>2, <2>4, <3>1, <4>2, <4>3 DEF Listing, HandlerSteps
    <3>2. CASE p # "orphans"
      <4>1. ctl[c].pass \in {"orphans", "claims", "stranded", "pending"}
        BY <1>1, <1>4, <2>1, <3>2 DEF Locals, Passes, nextPass
      <4>2. \A s \in StageIds : Unsettled(s) => attempt[s[1]] = "running"
        BY <1>1, <2>4, <4>1 DEF Listing
      <4>3. \A s \in StageIds : Unsettled(s)' => attempt'[s[1]] = "running"
        BY <1>1, <4>2 DEF Unsettled
      <4> QED BY <2>1, <2>2, <2>4, <3>2, <4>3 DEF Listing, HandlerSteps
    <3> QED BY <3>1, <3>2
  <2> QED BY <1>2, <2>2, <2>3, <2>5, Ticker
<1> QED BY <1>3, <1>4

LEMMA ReconcileKeeps ==
  ASSUME Safe, Exclusion', NEW c \in Controllers, NEW l \in Launches, Reconcile(c, l)
  PROVE  Safe'
<1>1. /\ LocalsOK /\ RecordsOK /\ Rows /\ Listing(c) /\ InTick(c) /\ ctl[c].pass = "attempts"
      /\ l \in ctl[c].todo /\ owner' = owner
  BY DEF Safe, Exclusion, Sole, Rows, InTick, Reconcile, Listed, rowVars
<1>2. attempt[l] = "running" /\ Others(owner[l], l) /\ owner[l] \in Tasks /\ OrderedAt(l)
  <2>1. attempt[l] = "running" /\ OrderedAt(l) /\ owner[l] \in Tasks \union {None}
    BY <1>1 DEF Listing, Rows, Ordered, RecordsOK
  <2>2. owner[l] # None
    BY <2>1 DEF OrderedAt, Phases
  <2>3. Others(owner[l], l)
    BY <1>1, <2>1 DEF Rows, Exclusive, Others, Under
  <2> QED BY <2>1, <2>2, <2>3
<1>3. /\ Mine(l, owner[l])
      /\ attempt'[l] = "running" => task' = task
      /\ \A f \in Phases : stage'[<<l, f>>] = stage[<<l, f>>] \/ (f = "implement" /\ Unsettled(<<l, f>>))
      /\ stage'[<<l, "implement">>] # "none"
  <2>1. stage[<<l, "implement">>] # "none"
    BY <1>2 DEF OrderedAt
  <2> QED BY <1>1, <1>2, <2>1
       DEF Reconcile, Mine, rowVars, taskVars, blockTask, SetTask, RecordsOK, Unsettled, StageIds, Phases
<1>4. OrderedAt(l)'
  BY <1>1, <1>2, <1>3 DEF OrderedAt, Unsettled, Phases
<1>5. attempt'[l] = "running" => task'[owner[l]] = "RUNNING"
  BY <1>1, <1>2, <1>3 DEF Rows, AtWork
<1>6. Ordered' /\ Exclusive' /\ AtWork'
  <2>1. PICK t \in Tasks : t = owner[l]
    BY <1>2
  <2> QED BY <1>1, <1>2, <1>3, <1>4, <1>5, <2>1, RowsKept
<1>7. (Drop(c, l) \/ ~InTick(c)') /\ Alone(c)
  BY <1>1, DropIsBack, TickEnds DEF Reconcile
<1>8. InTick(c)' => Handled(c)' /\ Listing(c)'
  <2> SUFFICES ASSUME Drop(c, l) PROVE Handled(c)' /\ Listing(c)'
    BY <1>7
  <2>1. /\ ctl'[c].pc = "pass" /\ ctl'[c].pass = "attempts" /\ ctl'[c].todo = ctl[c].todo \ {l}
        /\ ctl'[c].origin = "other"
    BY <1>1, DropIsBack
  <2>2. \A m \in ctl'[c].todo : m \in Launches /\ attempt'[m] = "running"
    BY <1>1, <1>3, <2>1 DEF Listing, Mine
  <2> QED BY <2>1, <2>2 DEF Handled, Listing, HandlerSteps
<1> QED BY <1>1, <1>6, <1>7, <1>8, Ticker

LEMMA DropListing ==
  ASSUME LocalsOK, NEW c \in Controllers, NEW p, NEW x, Listed(c, p, x), Listing(c), Drop(c, x),
         p \in {"claims", "stranded", "pending", "ready"}, UNCHANGED <<owner, stage, attempt>>
  PROVE  Handled(c)' /\ Listing(c)'
<1>1. /\ ctl'[c].pc = "pass" /\ ctl'[c].pass = p /\ ctl'[c].todo \subseteq ctl[c].todo
      /\ ctl'[c].origin = "other" /\ ctl[c].pc = "pass" /\ ctl[c].pass = p
  BY DropIsBack DEF Listed
<1>2. \A s \in StageIds : Unsettled(s)' = Unsettled(s)
  BY DEF Unsettled
<1> QED BY <1>1, <1>2 DEF Handled, Listing, InTick, HandlerSteps

\* An exception inside a pass ends the tick.
LEMMA PassThrows ==
  ASSUME LocalsOK, NEW c \in Controllers, Listing(c), ctl[c].pc = "pass", Throw(c)
  PROVE  UNCHANGED <<task, stage>> /\ ~InTick(c)' /\ Alone(c)
<1>1. ctl[c].origin = "other"
  BY DEF Listing, InTick
<1>2. EndTick(c) /\ UNCHANGED <<taskVars, stage>>
  BY <1>1 DEF Throw
<1> QED BY <1>2, TickEnds DEF taskVars

LEMMA OrphanImplementKeeps ==
  ASSUME Safe, Exclusion', NEW c \in Controllers, NEW l \in Launches, NEW st, OrphanImplement(c, l, st)
  PROVE  Safe'
<1> DEFINE s == <<l, "implement">>  x == <<s, st>>
<1>1. /\ LocalsOK /\ RecordsOK /\ Rows /\ Listing(c) /\ InTick(c) /\ ctl[c].pass = "orphans" /\ ctl[c].pc = "pass"
      /\ Listed(c, "orphans", x) /\ x \in ctl[c].todo
      /\ UNCHANGED <<owner, attempt>> /\ s \in StageIds /\ x[1] = s /\ s[1] = l /\ x[1][1] = l
  BY DEF Safe, Exclusion, Sole, Rows, InTick, OrphanImplement, Listed, rowVars, Finish, StageIds, Phases
<1>2. Unsettled(s) /\ OrderedAt(l) /\ owner[l] \in Tasks \union {None}
  BY <1>1 DEF Listing, Rows, Ordered, RecordsOK
<1>3. PICK t \in Tasks : t = owner[l]
  BY <1>2 DEF OrderedAt, Unsettled, Phases
<1>4. Others(t, l) /\ ~Unsettled(<<l, "prepare">>) /\ ~Unsettled(<<l, "preflight">>) /\ stage[s] # "none"
  <2>1. Under(l)
    BY <1>2 DEF Under, Phases
  <2>2. Others(t, l)
    BY <1>1, <1>3, <2>1 DEF Rows, Exclusive, Others
  <2> QED BY <1>2, <2>2 DEF OrderedAt, Unsettled
<1>5. CASE attempt[l] = "running" /\ Drop(c, x) /\ UNCHANGED <<taskVars, rowVars>>
  <2>1. /\ Mine(l, t) /\ owner'[l] = t /\ UNCHANGED <<task, stage>>
    BY <1>1, <1>3, <1>5 DEF Mine, rowVars, taskVars
  <2>2. OrderedAt(l)'
    BY <1>1, <1>2, <2>1 DEF OrderedAt, Unsettled
  <2>3. /\ ctl'[c].pc = "pass" /\ ctl'[c].pass = "orphans" /\ ctl'[c].todo = ctl[c].todo \ {x}
        /\ ctl'[c].origin = "other" /\ Alone(c)
    BY <1>1, <1>5, DropIsBack
  <2>4. attempt'[l] = "running" /\ task'[t] = "RUNNING"
    BY <1>1, <1>3, <1>5, <2>1 DEF Rows, AtWork
  <2> QED BY <1>1, <1>3, <1>4, <2>1, <2>2, <2>3, <2>4, TakeKeeps
<1>6. ASSUME NEW outcome \in {"unknown", "failed"}, NEW to, attempt[l] # "running",
             finishStage(s, outcome, to), Drop(c, x)
      PROVE  Safe'
  <2>1. /\ Mine(l, t) /\ owner'[l] = t /\ stage' = [stage EXCEPT ![s] = outcome]
    BY <1>1, <1>3, <1>6 DEF Mine, finishStage, SetTask, RecordsOK, StageIds
  <2>2. \A f \in Phases : ~Unsettled(<<l, f>>)'
    BY <1>1, <1>4, <1>6, <2>1 DEF Unsettled, Phases, RecordsOK
  <2>3. stage'[s] # "none"
    BY <1>1, <1>6, <2>1 DEF RecordsOK
  <2>4. OrderedAt(l)'
    BY <1>1, <1>3, <2>1, <2>2, <2>3, LeaseAssumption DEF OrderedAt, Phases
  <2>5. /\ ctl'[c].pc = "pass" /\ ctl'[c].pass = "orphans" /\ ctl'[c].todo = ctl[c].todo \ {x}
        /\ ctl'[c].origin = "other" /\ Alone(c)
    BY <1>1, <1>6, DropIsBack
  <2>6. attempt'[l] # "running"
    BY <1>1, <1>6
  <2> QED BY <1>1, <1>3, <1>4, <2>1, <2>2, <2>4, <2>5, <2>6, TakeKeeps
<1>7. CASE Throw(c)
  BY <1>1, <1>7, PassThrows, StillKeeps
<1> QED BY <1>5, <1>6, <1>7 DEF OrphanImplement, Finish

LEMMA OrphanHandlerKeeps ==
  ASSUME Safe, Exclusion', NEW c \in Controllers, NEW l \in Launches, NEW st,
         OrphanPrepare(c, l, st) \/ OrphanPreflight(c, l, st)
  PROVE  Safe'
<1>1. PICK f \in {"prepare", "preflight"}, p \in {"begin", "reserve"}, from \in {"recovery", "other"},
           got \in {st, "none"} :
        /\ Listed(c, "orphans", <<<<l, f>>, st>>)
        /\ Take(c, <<<<l, f>>, st>>, Handler(p, l, f, from, got))
        /\ IF f = "prepare" THEN p = "begin" ELSE p = "reserve" /\ from = "other"
  BY DEF OrphanPrepare, OrphanPreflight
<1> DEFINE s == <<l, f>>  x == <<s, st>>
<1>2. /\ LocalsOK /\ RecordsOK /\ Rows /\ Listing(c) /\ InTick(c) /\ ctl[c].pass = "orphans" /\ ctl[c].pc = "pass"
      /\ x \in ctl[c].todo /\ UNCHANGED <<owner, stage, attempt, task>>
      /\ s \in StageIds /\ x[1] = s /\ x[1][1] = l
  BY <1>1 DEF Safe, Exclusion, Sole, Rows, InTick, OrphanPrepare, OrphanPreflight, Listed, rowVars, taskVars,
              StageIds, Phases
<1>3. Unsettled(s) /\ OrderedAt(l) /\ owner[l] \in Tasks \union {None}
  BY <1>2 DEF Listing, Rows, Ordered, RecordsOK
<1>4. PICK t \in Tasks : t = owner[l]
  BY <1>3 DEF OrderedAt, Unsettled, Phases
<1>5. Others(t, l)
  <2>1. Under(l)
    BY <1>3 DEF Under, Phases
  <2> QED BY <1>2, <1>4, <2>1 DEF Rows, Exclusive, Others
<1>6. Mine(l, t) /\ owner'[l] = t
  BY <1>2, <1>4 DEF Mine
<1>7. OrderedAt(l)'
  BY <1>2, <1>3 DEF OrderedAt, Unsettled
<1>8. /\ ctl'[c].pc = p /\ ctl'[c].pass = "orphans" /\ ctl'[c].todo = ctl[c].todo \ {x}
      /\ ctl'[c].job = l /\ ctl'[c].phase = f /\ ctl'[c].origin = from /\ Alone(c)
  BY <1>1, <1>2, TakeHands
<1>9. stage[<<l, "implement">>] = "none" /\ attempt[l] = "none" /\ (f = "prepare" => stage[<<l, "preflight">>] = "none")
      /\ \A g \in Phases : Unsettled(<<l, g>>) => g = f
  BY <1>3 DEF OrderedAt, Phases, Unsettled
<1>10. Knows(c)'
  <2>1. Job(c)' = l /\ Here(c)' = s /\ Unsettled(s)' /\ stage'[<<l, "implement">>] = "none" /\ attempt'[l] = "none"
        /\ (f = "prepare" => stage'[<<l, "preflight">>] = "none") /\ \A g \in Phases : Unsettled(<<l, g>>)' => g = f
    BY <1>2, <1>3, <1>8, <1>9 DEF Job, Here, Unsettled
  <2> QED BY <1>1, <1>8, <2>1 DEF Knows, Before, Started, Granted
<1>11. attempt'[l] # "running"
  BY <1>2, <1>9
<1>12. p \in HandlerSteps
  BY DEF HandlerSteps
<1> QED BY <1>1, <1>2, <1>4, <1>5, <1>6, <1>7, <1>8, <1>10, <1>11, <1>12, TakeKeeps

LEMMA ClaimsKeep ==
  ASSUME Safe, Exclusion', NEW c \in Controllers, NEW t \in Tasks, ReleaseClaim(c, t) \/ StrandedTask(c, t)
  PROVE  Safe'
<1>1. /\ LocalsOK /\ RecordsOK /\ Listing(c) /\ InTick(c) /\ UNCHANGED <<owner, stage, attempt>>
      /\ (Drop(c, t) \/ EndTick(c))
      /\ UNCHANGED task \/ (Running(t) = {} /\ \A u \in Tasks : u # t => task'[u] = task[u])
  BY DEF Safe, Exclusion, Sole, InTick, ReleaseClaim, StrandedTask, Listed, rowVars, taskVars, blockTask, SetTask,
         RecordsOK
<1>2. Alone(c) /\ (InTick(c)' => Drop(c, t))
  BY <1>1, DropIsBack, TickEnds
<1>3. PICK p \in {"claims", "stranded"} : Listed(c, p, t)
  BY DEF ReleaseClaim, StrandedTask
<1>4. InTick(c)' => Handled(c)' /\ Listing(c)'
  BY <1>1, <1>2, <1>3, DropListing
<1> QED BY <1>1, <1>2, <1>4, StillKeeps, CalmKeeps

\* A task that is taken up for a fresh launch has nothing under way.
LEMMA FreeTask ==
  ASSUME Safe, NEW c \in Controllers, NEW p \in {"pending", "ready"}, NEW t \in Tasks, Listed(c, p, t),
         task[t] # "RUNNING", NEW l \in Launches
  PROVE  Others(t, l)
<1>1. Listing(c) /\ InTick(c) /\ ctl[c].pc \notin HandlerSteps /\ AtWork
  BY DEF Safe, Sole, Listed, InTick, HandlerSteps
<1>2. ASSUME NEW m \in Launches, owner[m] = t, NEW f \in Phases, Unsettled(<<m, f>>)
      PROVE  attempt[m] = "running"
  <2>1. <<m, f>> \in StageIds
    BY DEF StageIds
  <2> QED BY <1>1, <1>2, <2>1 DEF Listing, Listed
<1>3. ASSUME NEW m \in Launches, owner[m] = t
      PROVE  attempt[m] # "running"
  BY <1>1, <1>3 DEF AtWork
<1> QED BY <1>2, <1>3 DEF Others, Under

LEMMA FreshLaunch ==
  ASSUME Safe, NEW l \in Launches, NEW t \in Tasks, Use(l, t), UNCHANGED <<stage, attempt>>,
         \A u \in Tasks : u # t => task'[u] = task[u]
  PROVE  /\ owner[l] = None /\ owner'[l] = t /\ Mine(l, t) /\ OrderedAt(l)' /\ attempt'[l] = "none"
         /\ \A f \in Phases : stage'[<<l, f>>] = "none" /\ ~Unsettled(<<l, f>>)'
<1>1. OrderedAt(l) /\ owner[l] = None /\ RecordsOK
  BY DEF Safe, Sole, Ordered, Use, Fresh, Exclusion
<1>2. /\ owner'[l] = t /\ Mine(l, t)
  BY <1>1 DEF Use, Mine, RecordsOK
<1>3. attempt'[l] = "none" /\ \A f \in Phases : stage'[<<l, f>>] = "none" /\ ~Unsettled(<<l, f>>)'
  BY <1>1 DEF OrderedAt, Phases, Unsettled
<1>4. OrderedAt(l)'
  BY <1>2, <1>3, LeaseAssumption DEF OrderedAt, Phases
<1> QED BY <1>1, <1>2, <1>3, <1>4

LEMMA DispatchKeeps ==
  ASSUME Safe, Exclusion', NEW c \in Controllers, NEW t \in Tasks,
         ResumeParked(c, t) \/ Dispatch(c, t) \/ RetryPreflight(c, t)
  PROVE  Safe'
<1>1. /\ LocalsOK /\ RecordsOK /\ Listing(c) /\ InTick(c) /\ UNCHANGED <<stage, attempt>>
      /\ \A u \in Tasks : u # t => task'[u] = task[u]
  BY DEF Safe, Exclusion, Sole, InTick, ResumeParked, Dispatch, RetryPreflight, Listed, taskVars, blockTask, SetTask,
         RecordsOK
<1>2. PICK p \in {"pending", "ready"} : Listed(c, p, t) /\ (Dispatch(c, t) => p = "ready")
  BY DEF ResumeParked, Dispatch, RetryPreflight
<1>3. CASE Drop(c, t) /\ UNCHANGED <<owner, task>>
  <2>1. Alone(c)
    BY <1>1, <1>3, DropIsBack
  <2> QED BY <1>1, <1>2, <1>3, <2>1, StillKeeps, DropListing
<1>4. CASE Drop(c, t) /\ UNCHANGED owner /\ task[t] = "READY"
  <2>1. Running(t) = {}
    BY <1>4 DEF Safe, Sole, AtWork, Running
  <2>2. Alone(c)
    BY <1>1, <1>4, DropIsBack
  <2> QED BY <1>1, <1>2, <1>4, <2>1, <2>2, CalmKeeps, DropListing
<1>5. ASSUME NEW l \in Launches, NEW h \in {"admit", "reserve"}, NEW f \in Phases, NEW from \in {"dispatch", "other"},
             Use(l, t), Take(c, t, Handler(h, l, f, from, "none")), task[t] # "RUNNING",
             h = "admit" => f = "implement",
             from = "dispatch" => p = "ready"
      PROVE  Safe'
  <2>1. Others(t, l)
    BY <1>2, <1>5, FreeTask
  <2>2. /\ owner[l] = None /\ owner'[l] = t /\ Mine(l, t) /\ OrderedAt(l)' /\ attempt'[l] = "none"
        /\ \A g \in Phases : stage'[<<l, g>>] = "none" /\ ~Unsettled(<<l, g>>)'
    BY <1>1, <1>5, FreshLaunch
  <2>3. /\ ctl'[c].pc = h /\ ctl'[c].pass = p /\ ctl'[c].todo = ctl[c].todo \ {t}
        /\ ctl'[c].job = l /\ ctl'[c].phase = f /\ ctl'[c].origin = from /\ Alone(c)
    BY <1>1, <1>2, <1>5, TakeHands DEF Listed
  <2>4. Knows(c)'
    <3>1. /\ Job(c)' = l /\ Here(c)' = <<l, f>> /\ attempt'[l] = "none"
          /\ stage'[<<l, f>>] = "none" /\ stage'[<<l, "implement">>] = "none" /\ stage'[<<l, "preflight">>] = "none"
          /\ \A g \in Phases : ~Unsettled(<<l, g>>)'
      BY <2>2, <2>3 DEF Job, Here, Phases
    <3> QED BY <1>5, <2>3, <3>1 DEF Knows, Before, Started, Granted
  <2>5. h \in HandlerSteps /\ attempt'[l] # "running"
    BY <2>2 DEF HandlerSteps
  <2> QED BY <1>2, <1>5, <2>1, <2>2, <2>3, <2>4, <2>5, TakeKeeps
<1>6. CASE ResumeParked(c, t)
  <2>1. CASE Drop(c, t) /\ UNCHANGED <<taskVars, owner>>
    BY <1>3, <2>1 DEF taskVars
  <2>2. CASE /\ task[t] = "BLOCKED"
             /\ \E l \in Launches : Use(l, t) /\ Take(c, t, Handler("admit", l, "implement", "other", "none"))
    BY <1>5, <2>2 DEF Phases
  <2> QED BY <1>6, <2>1, <2>2 DEF ResumeParked
<1>7. CASE Dispatch(c, t)
  <2>1. CASE Drop(c, t) /\ UNCHANGED <<taskVars, owner>>
    BY <1>3, <2>1 DEF taskVars
  <2>2. CASE Drop(c, t) /\ UNCHANGED owner /\ task[t] = "READY"
    BY <1>4, <2>2
  <2>3. CASE /\ task[t] = "READY"
             /\ \E l \in Launches : Use(l, t) /\ Take(c, t, Handler("reserve", l, "prepare", "dispatch", "none"))
    BY <1>2, <1>5, <1>7, <2>3 DEF Phases
  <2> QED BY <1>7, <2>1, <2>2, <2>3 DEF Dispatch
<1>8. CASE RetryPreflight(c, t)
  BY <1>5, <1>8 DEF RetryPreflight, Phases
<1> QED BY <1>6, <1>7, <1>8
-----------------------------------------------------------------------------
(* The steps of a launch.                                                  *)

LEMMA GotoOn ==
  ASSUME LocalsOK, NEW c \in Controllers, ctl[c].pc \in HandlerSteps, NEW p \in HandlerSteps, Goto(c, p)
  PROVE  /\ Onward(c, Job(c)) /\ Alone(c)
         /\ ctl'[c].pc = p /\ ctl'[c].phase = ctl[c].phase
BY DEF Goto, Onward, Alone, Job, LocalsOK, Locals

\* A handler that fails without a running attempt leaves what it has begun to recovery.
LEMMA ThrowKeeps ==
  ASSUME Safe, Exclusion', NEW c \in Controllers, ctl[c].pc \in HandlerSteps, Throw(c),
         UNCHANGED <<owner, attempt>>, attempt[Job(c)] # "running"
  PROVE  Safe'
<1>1. /\ LocalsOK /\ RecordsOK /\ Owned(c) /\ Knows(c) /\ Job(c) \in Launches /\ OrderedAt(Job(c))
      /\ Subject(c) = owner[Job(c)]
  BY HereOK DEF Safe, Exclusion, Sole, Handled, Ordered, Subject, Job
<1>2. PICK j \in Launches : j = Job(c)
  BY <1>1
<1>3. CASE EndTick(c) /\ UNCHANGED <<taskVars, stage>>
  <2>1. ~InTick(c)' /\ Alone(c) /\ InTick(c)
    BY <1>1, <1>3, TickEnds DEF InTick, HandlerSteps
  <2> QED BY <1>3, <2>1, StillKeeps DEF taskVars
<1>4. CASE Return(c)
  <2>1. /\ Mine(j, Subject(c)) /\ owner'[j] = Subject(c) /\ attempt'[j] # "running"
    BY <1>1, <1>2, <1>4 DEF Mine, Throw, SetTask, RecordsOK, taskVars, StageIds
  <2>2. Back(c) /\ Alone(c)
    BY <1>1, <1>4, ReturnIsBack, ReturnLocals
  <2>3. CASE ctl[c].origin = "dispatch" /\ UNCHANGED stage
    <3>1. OrderedAt(j)'
      BY <1>1, <1>2, <2>3 DEF OrderedAt, Unsettled
    <3> QED BY <1>1, <1>2, <2>1, <2>2, <2>3, <3>1, HandlerKeeps DEF Owned
  <2>4. CASE /\ ctl[c].origin = "recovery" /\ finishable(<<j, "prepare">>, "BLOCKED")
             /\ stage' = [stage EXCEPT ![<<j, "prepare">>] = "unknown"]
    <3>1. /\ ctl[c].phase = "prepare" /\ Unsettled(<<j, "prepare">>)
      <4>1. Active(<<j, "prepare">>)
        BY <2>4 DEF finishable
      <4>2. ctl[c].phase = "prepare" /\ ctl[c].pc \in {"begin", "close"}
        BY <1>1, <1>2, <2>4, <4>1 DEF Knows
      <4>3. Here(c) = <<j, "prepare">>
        BY <1>2, <4>2 DEF Here, Job
      <4> QED BY <1>1, <4>2, <4>3 DEF Knows
    <3>2. \A f \in Phases : ~Unsettled(<<j, f>>)' /\ (f # "prepare" => stage'[<<j, f>>] = "none")
      BY <1>1, <1>2, <2>4, <3>1 DEF OrderedAt, Unsettled, Phases, RecordsOK, StageIds
    <3>3. OrderedAt(j)'
      BY <1>1, <1>2, <2>1, <3>1, <3>2, LeaseAssumption DEF OrderedAt, Owned, Phases
    <3> QED BY <1>1, <1>2, <2>1, <2>2, <3>2, <3>3, HandlerKeeps
  <2>5. ctl[c].origin \in {"dispatch", "recovery"} \/ EndTick(c)
    BY DEF Throw
  <2>6. ~EndTick(c)
    BY <1>1, <2>2, TickEnds DEF Back, InTick
  <2> QED BY <1>2, <1>4, <2>3, <2>4, <2>6 DEF Throw
<1> QED BY <1>3, <1>4 DEF Throw

\* What the handler of a launch can rely on at each of its steps.
LEMMA AtStep ==
  ASSUME Safe, NEW c \in Controllers, ctl[c].pc \in HandlerSteps
  PROVE  /\ LocalsOK /\ RecordsOK /\ Owned(c) /\ Knows(c) /\ OrderedAt(Job(c)) /\ InTick(c)
         /\ Job(c) \in Launches /\ Here(c) \in StageIds /\ Here(c) = <<Job(c), ctl[c].phase>>
         /\ ctl[c].phase \in Phases /\ Subject(c) = owner[Job(c)] /\ Subject(c) \in Tasks
BY HereOK DEF Safe, Exclusion, Sole, Handled, Ordered, Subject, Job, Here, Owned, Locals, InTick, HandlerSteps

\* One stage of the launch is written, or none.
LEMMA StageMoves ==
  ASSUME RecordsOK, NEW j \in Launches, NEW f \in Phases, NEW t \in Tasks, NEW v,
         stage' = [stage EXCEPT ![<<j, f>>] = v] \/ (stage' = stage /\ v = stage[<<j, f>>]),
         owner' = owner, owner[j] = t, \A l \in Launches : l # j => attempt'[l] = attempt[l],
         \A u \in Tasks : u # t => task'[u] = task[u]
  PROVE  /\ Mine(j, t) /\ owner'[j] = t /\ stage'[<<j, f>>] = v
         /\ \A g \in Phases : g # f => stage'[<<j, g>>] = stage[<<j, g>>]
BY DEF RecordsOK, Mine, StageIds

LEMMA ReserveStageKeeps ==
  ASSUME Safe, Exclusion', NEW c \in Controllers, reserveStage(c)
  PROVE  Safe'
<1>1. ctl[c].pc = "reserve" /\ ctl[c].pc \in HandlerSteps /\ UNCHANGED <<owner, attempt>>
  BY DEF reserveStage, HandlerSteps, Fail
<1>2. PICK j \in Launches, t \in Tasks, f \in Phases :
        /\ j = Job(c) /\ t = Subject(c) /\ f = ctl[c].phase
        /\ Here(c) = <<j, f>> /\ Here(c) \in StageIds /\ owner[j] = t
  BY <1>1, AtStep
<1>3. /\ LocalsOK /\ RecordsOK /\ Owned(c) /\ Knows(c) /\ OrderedAt(j)
  BY <1>1, <1>2, AtStep
<1>4. /\ attempt[j] = "none" /\ stage[<<j, "implement">>] = "none"
      /\ stage[<<j, f>>] = "none" \/ (Unsettled(<<j, f>>) /\ f = "preflight")
      /\ f = "prepare" => stage[<<j, "preflight">>] = "none"
      /\ \A g \in Phases : Unsettled(<<j, g>>) => g = f
      /\ ctl[c].origin = "recovery" => f # "prepare" /\ ~Active(<<j, "prepare">>)
  BY <1>1, <1>2, <1>3 DEF Knows, Before
<1>5. ASSUME NEW p \in {"begin", "grant"}, NEW got, NEW v \in {"reserved", stage[<<j, f>>]}, v # "none",
             stage' = [superseded(c) EXCEPT ![<<j, f>>] = v],
             ctl' = [ctl EXCEPT ![c].pc = p, ![c].got = got], p = opened(c),
             v = "reserved" \/ f # "implement", \A u \in Tasks : u # t => task'[u] = task[u],
             f = "implement" => task'[t] = "RUNNING"
      PROVE  Safe'
  <2>1. /\ Onward(c, j) /\ Alone(c) /\ ctl'[c].pc = p /\ ctl'[c].phase = f
        /\ Job(c)' = j /\ Subject(c)' = t /\ Here(c)' = <<j, f>>
    BY <1>1, <1>2, <1>3, <1>5 DEF Onward, Alone, Job, Subject, Here, LocalsOK, Locals, HandlerSteps
  <2>2. /\ stage'[<<j, f>>] = v /\ Unsettled(<<j, f>>)'
        /\ \A g \in Phases : g # f => stage'[<<j, g>>] = stage[<<j, g>>]
    BY <1>2, <1>4, <1>5 DEF superseded, StageIds, Unsettled
  <2>3. Mine(j, t) /\ owner'[j] = t
    <3>1. \A s \in StageIds : s[1] # j =>
            stage'[s] = stage[s] \/ (stage[s] \in {"waiting", "unknown"} /\ stage'[s] = "failed")
      BY <1>2, <1>5 DEF superseded, StageIds
    <3> QED BY <1>1, <1>2, <1>5, <3>1 DEF Mine, Unsettled
  <2>4. OrderedAt(j)'
    BY <1>1, <1>2, <1>4, <2>2, <2>3, LeaseAssumption DEF OrderedAt, Unsettled, Phases
  <2>5. Knows(c)'
    <3>1. attempt'[j] = "none"
      BY <1>1, <1>4
    <3>2. IF f = "implement" THEN p = "grant" ELSE p = "begin"
      BY <1>2, <1>5 DEF opened
    <3>3. ctl'[c].origin = "recovery" => f # "prepare" /\ ~Active(<<j, "prepare">>)'
      BY <1>4, <2>1, <2>2 DEF Onward, Active, Phases
    <3> QED BY <1>5, <2>1, <2>2, <3>1, <3>2, <3>3 DEF Knows, Before, Started, Granted
  <2>6. attempt'[j] # "running"
    BY <1>1, <1>4
  <2> QED BY <1>1, <1>2, <2>1, <2>3, <2>4, <2>5, <2>6, HandlerKeeps
<1>6. CASE /\ stage[Here(c)] # "none" /\ stage' = superseded(c) /\ UNCHANGED taskVars
           /\ ctl' = [ctl EXCEPT ![c].pc = opened(c), ![c].got = stage[Here(c)]]
  <2>1. f # "implement" /\ opened(c) = "begin"
    BY <1>2, <1>4, <1>6 DEF opened
  <2>2. stage' = [superseded(c) EXCEPT ![<<j, f>>] = stage[<<j, f>>]]
    BY <1>2, <1>6 DEF superseded
  <2> QED BY <1>2, <1>5, <1>6, <2>1, <2>2 DEF taskVars
<1>7. CASE /\ stage[Here(c)] = "none" /\ stage' = [superseded(c) EXCEPT ![Here(c)] = "reserved"]
           /\ task' = [task EXCEPT ![Subject(c)] = "RUNNING"]
           /\ ctl' = [ctl EXCEPT ![c].pc = opened(c), ![c].got = "reserved"]
  <2>1. opened(c) \in {"begin", "grant"}
    BY DEF opened
  <2>2. /\ task'[t] = "RUNNING" /\ \A u \in Tasks : u # t => task'[u] = task[u]
    BY <1>2, <1>3, <1>7 DEF RecordsOK
  <2> QED BY <1>2, <1>5, <1>7, <2>1, <2>2
<1>8. CASE Fail(c)
  BY <1>1, <1>2, <1>4, <1>8, ThrowKeeps DEF Fail
<1> QED BY <1>6, <1>7, <1>8 DEF reserveStage

LEMMA BeginStageKeeps ==
  ASSUME Safe, Exclusion', NEW c \in Controllers, BeginStage(c)
  PROVE  Safe'
<1>1. ctl[c].pc = "begin" /\ ctl[c].pc \in HandlerSteps /\ UNCHANGED <<owner, attempt>>
  BY DEF BeginStage, HandlerSteps, Fail, rowVars
<1>2. PICK j \in Launches, t \in Tasks, f \in Phases :
        /\ j = Job(c) /\ t = Subject(c) /\ f = ctl[c].phase
        /\ Here(c) = <<j, f>> /\ Here(c) \in StageIds /\ owner[j] = t
  BY <1>1, AtStep
<1>3. /\ LocalsOK /\ RecordsOK /\ Owned(c) /\ Knows(c) /\ OrderedAt(j)
  BY <1>1, <1>2, AtStep
<1>4. /\ attempt[j] = "none" /\ f # "implement" /\ Unsettled(<<j, f>>)
      /\ ctl[c].origin = "recovery" => f = "prepare" \/ ~Active(<<j, "prepare">>)
  BY <1>1, <1>2, <1>3 DEF Knows, Before
<1>5. ASSUME NEW v \in {"running", stage[<<j, f>>]}, Goto(c, "close"), UNCHANGED task,
             stage' = [stage EXCEPT ![<<j, f>>] = v] \/ (stage' = stage /\ v = stage[<<j, f>>])
      PROVE  Safe'
  <2>1. /\ Onward(c, j) /\ Alone(c) /\ ctl'[c].pc = "close" /\ ctl'[c].phase = f
        /\ Job(c)' = j /\ Subject(c)' = t /\ Here(c)' = <<j, f>>
    BY <1>1, <1>2, <1>3, <1>5, GotoOn DEF HandlerSteps, Onward, Job, Subject, Here
  <2>2. /\ Mine(j, t) /\ owner'[j] = t /\ stage'[<<j, f>>] = v
        /\ \A g \in Phases : g # f => stage'[<<j, g>>] = stage[<<j, g>>]
    BY <1>1, <1>2, <1>3, <1>5, StageMoves
  <2>3. Unsettled(<<j, f>>)' /\ attempt'[j] = "none"
    BY <1>1, <1>4, <2>2 DEF Unsettled
  <2>4. OrderedAt(j)'
    BY <1>2, <1>3, <1>4, <2>2, <2>3, LeaseAssumption DEF OrderedAt, Unsettled, Phases
  <2>5. Knows(c)'
    <3>1. ctl'[c].origin = "recovery" => f = "prepare" \/ ~Active(<<j, "prepare">>)'
      BY <1>4, <2>1, <2>2 DEF Onward, Active, Phases
    <3> QED BY <1>4, <2>1, <2>3, <3>1 DEF Knows, Before, Started, Granted
  <2>6. attempt'[j] # "running"
    BY <2>3
  <2> QED BY <1>1, <1>2, <2>1, <2>2, <2>4, <2>5, <2>6, HandlerKeeps
<1>6. CASE stage' = [stage EXCEPT ![Here(c)] = "running"] /\ Goto(c, "close") /\ UNCHANGED taskVars
  BY <1>2, <1>5, <1>6 DEF taskVars
<1>7. CASE Goto(c, "close") /\ UNCHANGED <<taskVars, rowVars>>
  BY <1>5, <1>7 DEF taskVars, rowVars
<1>8. CASE Fail(c)
  BY <1>1, <1>2, <1>4, <1>8, ThrowKeeps DEF Fail
<1> QED BY <1>6, <1>7, <1>8 DEF BeginStage

LEMMA CloseKeeps ==
  ASSUME Safe, Exclusion', NEW c \in Controllers, ClosePrepare(c) \/ ClosePreflight(c)
  PROVE  Safe'
<1>1. ctl[c].pc = "close" /\ ctl[c].pc \in HandlerSteps /\ UNCHANGED <<owner, attempt>>
  BY DEF ClosePrepare, ClosePreflight, HandlerSteps, Fail, Finish
<1>2. PICK j \in Launches, t \in Tasks, f \in Phases :
        /\ j = Job(c) /\ t = Subject(c) /\ f = ctl[c].phase
        /\ Here(c) = <<j, f>> /\ Here(c) \in StageIds /\ owner[j] = t
  BY <1>1, AtStep
<1>3. /\ LocalsOK /\ RecordsOK /\ Owned(c) /\ Knows(c) /\ OrderedAt(j)
  BY <1>1, <1>2, AtStep
<1>4. /\ attempt[j] = "none" /\ f # "implement" /\ Unsettled(<<j, f>>) /\ stage[<<j, "implement">>] = "none"
      /\ f = "prepare" => stage[<<j, "preflight">>] = "none"
      /\ f = "preflight" => ~Unsettled(<<j, "prepare">>)
      /\ ctl[c].origin = "recovery" => f = "prepare" \/ ~Active(<<j, "prepare">>)
  <2>1. attempt[j] = "none" /\ f \in {"prepare", "preflight"} /\ Unsettled(<<j, f>>)
    BY <1>1, <1>2, <1>3 DEF Knows, Before, Phases
  <2>2. ctl[c].origin = "recovery" => f = "prepare" \/ ~Active(<<j, "prepare">>)
    BY <1>2, <1>3 DEF Knows
  <2>3. stage[<<j, "implement">>] = "none"
    BY <1>3, <2>1 DEF OrderedAt
  <2>4. f = "prepare" => stage[<<j, "preflight">>] = "none"
    BY <1>3, <2>1 DEF OrderedAt
  <2>5. f = "preflight" => ~Unsettled(<<j, "prepare">>)
    BY <1>3, <2>1 DEF OrderedAt, Unsettled
  <2> QED BY <2>1, <2>2, <2>3, <2>4, <2>5
<1>5. ASSUME NEW v \in {"succeeded", "waiting"}, NEW to, finishStage(Here(c), v, to)
      PROVE  /\ Mine(j, t) /\ owner'[j] = t /\ OrderedAt(j)' /\ stage'[<<j, f>>] = v /\ attempt'[j] = "none"
             /\ \A g \in Phases : ~Unsettled(<<j, g>>)' /\ (g # f => stage'[<<j, g>>] = stage[<<j, g>>])
  <2>1. /\ stage' = [stage EXCEPT ![<<j, f>>] = v] /\ SetTask(t, to)
    BY <1>2, <1>5 DEF finishStage
  <2>2. \A u \in Tasks : u # t => task'[u] = task[u]
    BY <1>3, <2>1 DEF SetTask, RecordsOK
  <2>3. /\ Mine(j, t) /\ owner'[j] = t /\ stage'[<<j, f>>] = v
        /\ \A g \in Phases : g # f => stage'[<<j, g>>] = stage[<<j, g>>]
    <3>1. RecordsOK /\ owner' = owner /\ owner[j] = t /\ \A l \in Launches : l # j => attempt'[l] = attempt[l]
      BY <1>1, <1>2, <1>3
    <3> QED BY <2>1, <2>2, <3>1, StageMoves
  <2>4. \A g \in Phases : ~Unsettled(<<j, g>>)'
    BY <1>4, <2>3 DEF Unsettled, Phases
  <2>5. OrderedAt(j)' /\ attempt'[j] = "none"
    BY <1>1, <1>2, <1>4, <2>3, <2>4, LeaseAssumption DEF OrderedAt, Phases
  <2> QED BY <2>3, <2>4, <2>5
<1>6. ASSUME NEW p \in {"reserve", "admit"}, NEW g \in {"preflight", "implement"}, NEW to, Advance(c, p, g),
             finishStage(Here(c), "succeeded", to),
             IF p = "admit" THEN f = "preflight" /\ g = "implement" ELSE f = "prepare" /\ g = "preflight"
      PROVE  Safe'
  <2>1. /\ Onward(c, j) /\ Alone(c) /\ ctl'[c].pc = p /\ ctl'[c].phase = g
        /\ Job(c)' = j /\ Subject(c)' = t /\ Here(c)' = <<j, g>>
    BY <1>1, <1>2, <1>3, <1>6 DEF Advance, Onward, Alone, Job, Subject, Here, LocalsOK, Locals, HandlerSteps, Finish,
       finishStage
  <2>2. /\ Mine(j, t) /\ owner'[j] = t /\ OrderedAt(j)' /\ stage'[<<j, f>>] = "succeeded" /\ attempt'[j] = "none"
        /\ \A h \in Phases : ~Unsettled(<<j, h>>)' /\ (h # f => stage'[<<j, h>>] = stage[<<j, h>>])
    BY <1>5, <1>6
  <2>3. Knows(c)'
    <3>1. stage'[<<j, "implement">>] = "none" /\ (f = "prepare" => stage'[<<j, g>>] = "none")
      BY <1>4, <1>6, <2>2 DEF Phases
    <3>2. ctl'[c].origin = "recovery" => ~Active(<<j, "prepare">>)'
      BY <1>4, <1>6, <2>1, <2>2 DEF Onward, Active, Phases, ACTIVE_STAGE_STATES
    <3> QED BY <1>6, <2>1, <2>2, <3>1, <3>2 DEF Knows, Before, Started, Granted
  <2>4. attempt'[j] # "running"
    BY <2>2
  <2> QED BY <1>1, <1>2, <2>1, <2>2, <2>3, <2>4, HandlerKeeps
<1>7. ASSUME finishStage(Here(c), "waiting", "BLOCKED"), Return(c)
      PROVE  Safe'
  <2>1. /\ Mine(j, t) /\ owner'[j] = t /\ OrderedAt(j)' /\ attempt'[j] # "running"
        /\ \A h \in Phases : ~Unsettled(<<j, h>>)'
    BY <1>5, <1>7
  <2>2. Back(c) /\ Alone(c)
    BY <1>3, <1>7, ReturnIsBack, ReturnLocals
  <2> QED BY <1>1, <1>2, <2>1, <2>2, HandlerKeeps
<1>8. CASE Throw(c)
  BY <1>1, <1>2, <1>4, <1>8, ThrowKeeps
<1>9. CASE ClosePrepare(c)
  BY <1>2, <1>6, <1>8, <1>9 DEF ClosePrepare, Finish, Fail
<1>10. CASE ClosePreflight(c)
  BY <1>2, <1>6, <1>7, <1>8, <1>10 DEF ClosePreflight, Finish
<1> QED BY <1>9, <1>10

\* A handler without anything under way returns, having moved its task at most.
LEMMA IdleReturn ==
  ASSUME Safe, Exclusion', NEW c \in Controllers, ctl[c].pc \in HandlerSteps, Return(c),
         UNCHANGED <<owner, stage, attempt>>, attempt[Job(c)] # "running",
         \A f \in Phases : ~Unsettled(<<Job(c), f>>),
         \A u \in Tasks : u # Subject(c) => task'[u] = task[u]
  PROVE  Safe'
<1>1. PICK j \in Launches, t \in Tasks : j = Job(c) /\ t = Subject(c) /\ owner[j] = t
  BY AtStep
<1>2. LocalsOK /\ OrderedAt(j) /\ Back(c) /\ Alone(c)
  BY <1>1, AtStep, ReturnIsBack, ReturnLocals
<1>3. /\ Mine(j, t) /\ owner'[j] = t /\ attempt'[j] # "running" /\ \A f \in Phases : ~Unsettled(<<j, f>>)'
  BY <1>1 DEF Mine, Unsettled
<1>4. OrderedAt(j)'
  BY <1>2 DEF OrderedAt, Unsettled
<1> QED BY <1>1, <1>2, <1>3, <1>4, HandlerKeeps

\* A handler goes on within its phase, the rows of its launch as they were.
LEMMA GoesOn ==
  ASSUME Safe, Exclusion', NEW c \in Controllers, ctl[c].pc \in HandlerSteps, NEW p \in HandlerSteps, Goto(c, p),
         UNCHANGED <<owner, stage, attempt, task>>, Knows(c)'
  PROVE  Safe'
<1>1. PICK j \in Launches, t \in Tasks : j = Job(c) /\ t = Subject(c) /\ owner[j] = t
  BY AtStep
<1>2. LocalsOK /\ OrderedAt(j) /\ Onward(c, j) /\ Alone(c) /\ AtWork
  BY <1>1, AtStep, GotoOn DEF Safe, Sole
<1>3. /\ Mine(j, t) /\ owner'[j] = t /\ (attempt'[j] = "running" => task'[t] = "RUNNING")
  BY <1>1, <1>2 DEF Mine, AtWork
<1>4. OrderedAt(j)'
  BY <1>2 DEF OrderedAt, Unsettled
<1> QED BY <1>1, <1>2, <1>3, <1>4, HandlerKeeps

LEMMA AdmitKeeps ==
  ASSUME Safe, Exclusion', NEW c \in Controllers, Admit(c)
  PROVE  Safe'
<1>1. ctl[c].pc = "admit" /\ ctl[c].pc \in HandlerSteps /\ UNCHANGED <<owner, attempt>>
  BY DEF Admit, HandlerSteps
<1>2. /\ LocalsOK /\ RecordsOK /\ Knows(c) /\ Job(c) \in Launches /\ Here(c) = <<Job(c), ctl[c].phase>>
  BY <1>1, AtStep
<1>3. /\ attempt[Job(c)] = "none" /\ ctl[c].phase = "implement" /\ stage[<<Job(c), "implement">>] = "none"
      /\ \A f \in Phases : ~Unsettled(<<Job(c), f>>)
      /\ ctl[c].origin = "recovery" => ~Active(<<Job(c), "prepare">>)
  BY <1>1, <1>2 DEF Knows, Before
<1>4. CASE Goto(c, "reserve") /\ UNCHANGED <<taskVars, stage>>
  <2>1. /\ ctl'[c].pc = "reserve" /\ ctl'[c].phase = "implement" /\ Job(c)' = Job(c) /\ Here(c)' = Here(c)
        /\ ctl'[c].origin = ctl[c].origin
    BY <1>1, <1>2, <1>3, <1>4, GotoOn DEF HandlerSteps, Onward, Job, Here
  <2>2. Knows(c)'
    BY <1>1, <1>2, <1>3, <1>4, <2>1 DEF Knows, Before, Started, Granted, Unsettled, Active
  <2>3. UNCHANGED task
    BY <1>4 DEF taskVars
  <2> QED BY <1>1, <1>4, <2>2, <2>3, GoesOn DEF HandlerSteps
<1>5. CASE Throw(c)
  BY <1>1, <1>3, <1>5, ThrowKeeps
<1>6. ASSUME Return(c), UNCHANGED stage, \A u \in Tasks : u # Subject(c) => task'[u] = task[u]
      PROVE  Safe'
  BY <1>1, <1>3, <1>6, IdleReturn
<1>7. CASE task' = [task EXCEPT ![Subject(c)] = "BLOCKED"] /\ Return(c) /\ UNCHANGED stage
  BY <1>2, <1>6, <1>7 DEF RecordsOK
<1>8. CASE blockTask(Subject(c)) /\ Return(c) /\ UNCHANGED stage
  BY <1>2, <1>6, <1>8 DEF RecordsOK, blockTask, SetTask, taskVars
<1>9. CASE Return(c) /\ UNCHANGED <<taskVars, stage>>
  BY <1>6, <1>9 DEF taskVars
<1> QED BY <1>4, <1>5, <1>7, <1>8, <1>9 DEF Admit

\* The stage of a launch between its admission and its attempt.
LEMMA AtGrant ==
  ASSUME Safe, NEW c \in Controllers, ctl[c].pc \in {"grant", "activate", "start"}
  PROVE  /\ ctl[c].pc \in HandlerSteps /\ LocalsOK /\ RecordsOK /\ Job(c) \in Launches /\ OrderedAt(Job(c))
         /\ Subject(c) \in Tasks /\ Subject(c) = owner[Job(c)] /\ ctl[c].phase = "implement"
         /\ Here(c) = <<Job(c), "implement">> /\ Here(c) \in StageIds
         /\ attempt[Job(c)] = "none" /\ stage[Here(c)] # "none" /\ task[Subject(c)] = "RUNNING"
         /\ ~Unsettled(<<Job(c), "prepare">>) /\ ~Unsettled(<<Job(c), "preflight">>)
         /\ ctl[c].origin = "recovery" => ~Active(<<Job(c), "prepare">>)
<1>1. ctl[c].pc \in HandlerSteps
  BY DEF HandlerSteps
<1>2. Knows(c) /\ OrderedAt(Job(c)) /\ LocalsOK /\ RecordsOK /\ Job(c) \in Launches
      /\ Here(c) = <<Job(c), ctl[c].phase>> /\ Here(c) \in StageIds
      /\ Subject(c) \in Tasks /\ Subject(c) = owner[Job(c)]
  BY <1>1, AtStep
<1>3. /\ ctl[c].phase = "implement" /\ attempt[Job(c)] = "none" /\ stage[Here(c)] # "none"
      /\ task[Subject(c)] = "RUNNING" /\ (ctl[c].origin = "recovery" => ~Active(<<Job(c), "prepare">>))
  BY <1>2 DEF Knows, Before, Granted
<1> QED BY <1>1, <1>2, <1>3 DEF OrderedAt

LEMMA AdmissionKeeps ==
  ASSUME Safe, Exclusion', NEW c \in Controllers, reserveAdmission(c) \/ activateAdmission(c)
  PROVE  Safe'
<1>1. ctl[c].pc \in {"grant", "activate"} /\ UNCHANGED <<owner, attempt>>
  BY DEF reserveAdmission, activateAdmission, Fail
<1>2. PICK j \in Launches, t \in Tasks : j = Job(c) /\ t = Subject(c) /\ owner[j] = t
  BY <1>1, AtGrant
<1>3. /\ ctl[c].pc \in HandlerSteps /\ LocalsOK /\ RecordsOK /\ OrderedAt(j)
      /\ ctl[c].phase = "implement" /\ Here(c) = <<j, "implement">>
      /\ attempt[j] = "none" /\ stage[<<j, "implement">>] # "none" /\ task[t] = "RUNNING"
      /\ ~Unsettled(<<j, "prepare">>) /\ ~Unsettled(<<j, "preflight">>)
      /\ ctl[c].origin = "recovery" => ~Active(<<j, "prepare">>)
  BY <1>1, <1>2, AtGrant
<1>4. ASSUME NEW p \in {"activate", "start"}, Goto(c, p), UNCHANGED task, NEW v, v # "none",
             stage' = [stage EXCEPT ![<<j, "implement">>] = v] \/ (stage' = stage /\ v = stage[<<j, "implement">>])
      PROVE  Safe'
  <2>1. /\ Onward(c, j) /\ Alone(c) /\ ctl'[c].pc = p /\ ctl'[c].phase = "implement"
        /\ Job(c)' = j /\ Subject(c)' = t /\ Here(c)' = <<j, "implement">>
    BY <1>1, <1>2, <1>3, <1>4, GotoOn DEF HandlerSteps, Onward, Job, Subject, Here
  <2>2. /\ Mine(j, t) /\ owner'[j] = t /\ stage'[<<j, "implement">>] = v
        /\ \A g \in Phases : g # "implement" => stage'[<<j, g>>] = stage[<<j, g>>]
    <3>1. /\ RecordsOK /\ owner' = owner /\ owner[j] = t /\ "implement" \in Phases
          /\ \A l \in Launches : l # j => attempt'[l] = attempt[l]
          /\ \A u \in Tasks : u # t => task'[u] = task[u]
      BY <1>1, <1>2, <1>3, <1>4 DEF Phases
    <3> QED BY <1>4, <3>1, StageMoves
  <2>3. OrderedAt(j)'
    BY <1>1, <1>2, <1>3, <1>4, <2>2, LeaseAssumption DEF OrderedAt, Unsettled, Phases
  <2>4. Knows(c)'
    <3>1. attempt'[j] = "none" /\ task'[t] = "RUNNING" /\ stage'[<<j, "implement">>] # "none"
      BY <1>1, <1>3, <1>4, <2>2
    <3>2. ctl'[c].origin = "recovery" => ~Active(<<j, "prepare">>)'
      BY <1>3, <2>1, <2>2 DEF Onward, Active, Phases
    <3> QED BY <1>4, <2>1, <3>1, <3>2 DEF Knows, Before, Started, Granted
  <2>5. attempt'[j] # "running"
    BY <1>1, <1>3
  <2> QED BY <1>2, <1>3, <2>1, <2>2, <2>3, <2>4, <2>5, HandlerKeeps
<1>5. CASE Fail(c)
  BY <1>2, <1>3, <1>5, ThrowKeeps DEF Fail
<1>6. CASE Goto(c, "activate") /\ UNCHANGED <<taskVars, stage>>
  BY <1>3, <1>4, <1>6 DEF taskVars
<1>7. CASE stage' = [stage EXCEPT ![Here(c)] = "launching"] /\ Goto(c, "start") /\ UNCHANGED taskVars
  BY <1>3, <1>4, <1>7 DEF taskVars
<1> QED BY <1>5, <1>6, <1>7 DEF reserveAdmission, activateAdmission

LEMMA StartAttemptKeeps ==
  ASSUME Safe, Exclusion', NEW c \in Controllers, startAttempt(c)
  PROVE  Safe'
<1>1. ctl[c].pc = "start" /\ UNCHANGED owner
  BY DEF startAttempt, Fail, Finish
<1>2. PICK j \in Launches, t \in Tasks : j = Job(c) /\ t = Subject(c) /\ owner[j] = t
  BY <1>1, AtGrant
<1>3. /\ ctl[c].pc \in HandlerSteps /\ LocalsOK /\ RecordsOK /\ OrderedAt(j)
      /\ ctl[c].phase = "implement" /\ Here(c) = <<j, "implement">>
      /\ attempt[j] = "none" /\ stage[<<j, "implement">>] # "none" /\ task[t] = "RUNNING"
      /\ ~Unsettled(<<j, "prepare">>) /\ ~Unsettled(<<j, "preflight">>)
      /\ ctl[c].origin = "recovery" => ~Active(<<j, "prepare">>)
  BY <1>1, <1>2, AtGrant
<1>4. CASE attempt' = [attempt EXCEPT ![Job(c)] = "running"] /\ Goto(c, "spawn") /\ UNCHANGED <<taskVars, stage>>
  <2>1. /\ Onward(c, j) /\ Alone(c) /\ ctl'[c].pc = "spawn" /\ ctl'[c].phase = "implement"
        /\ Job(c)' = j /\ Here(c)' = <<j, "implement">>
    BY <1>2, <1>3, <1>4, GotoOn DEF HandlerSteps, Onward, Job, Here
  <2>2. /\ Mine(j, t) /\ owner'[j] = t /\ task'[t] = "RUNNING" /\ attempt'[j] = "running"
    BY <1>1, <1>2, <1>3, <1>4 DEF Mine, RecordsOK, taskVars
  <2>3. OrderedAt(j)'
    BY <1>2, <1>3, <1>4, <2>2, LeaseAssumption DEF OrderedAt, Unsettled
  <2>4. Knows(c)'
    <3>1. stage'[<<j, "implement">>] # "none" /\ (ctl'[c].origin = "recovery" => ~Active(<<j, "prepare">>)')
      BY <1>3, <1>4, <2>1 DEF Onward, Active
    <3> QED BY <2>1, <2>2, <3>1 DEF Knows, Before, Started, Granted
  <2> QED BY <1>2, <1>3, <2>1, <2>2, <2>3, <2>4, HandlerKeeps
<1>5. CASE Fail(c)
  BY <1>2, <1>3, <1>5, ThrowKeeps DEF Fail
<1>6. ASSUME NEW v \in {"failed", "waiting"}, finishStage(Here(c), v, "BLOCKED"), Return(c), UNCHANGED attempt
      PROVE  Safe'
  <2>1. /\ stage' = [stage EXCEPT ![<<j, "implement">>] = v] /\ SetTask(t, "BLOCKED") /\ "implement" \in Phases
    BY <1>2, <1>3, <1>6 DEF finishStage, Phases
  <2>2. /\ \A u \in Tasks : u # t => task'[u] = task[u]
        /\ \A l \in Launches : l # j => attempt'[l] = attempt[l]
    BY <1>3, <1>6, <2>1 DEF SetTask, RecordsOK
  <2>3. /\ Mine(j, t) /\ owner'[j] = t /\ stage'[<<j, "implement">>] = v
        /\ \A g \in Phases : g # "implement" => stage'[<<j, g>>] = stage[<<j, g>>]
    <3>1. RecordsOK /\ owner' = owner /\ owner[j] = t
      BY <1>1, <1>2, <1>3
    <3> QED BY <2>1, <2>2, <3>1, StageMoves
  <2>4. \A g \in Phases : ~Unsettled(<<j, g>>)'
    BY <1>3, <2>3 DEF Unsettled, Phases
  <2>5. OrderedAt(j)' /\ attempt'[j] # "running"
    BY <1>2, <1>3, <1>6, <2>3, <2>4, LeaseAssumption DEF OrderedAt, Phases
  <2>6. Back(c) /\ Alone(c)
    BY <1>3, <1>6, ReturnIsBack, ReturnLocals
  <2> QED BY <1>2, <1>3, <2>3, <2>4, <2>5, <2>6, HandlerKeeps
<1>7. CASE Throw(c) /\ UNCHANGED attempt
  BY <1>1, <1>2, <1>3, <1>7, ThrowKeeps
<1> QED BY <1>1, <1>4, <1>5, <1>6, <1>7 DEF startAttempt, Finish

\* A launch whose attempt has started.
LEMMA AtWorker ==
  ASSUME Safe, NEW c \in Controllers, ctl[c].pc \in {"spawn", "bind", "unlaunch", "unstage"}
  PROVE  /\ ctl[c].pc \in HandlerSteps /\ LocalsOK /\ RecordsOK /\ Job(c) \in Launches /\ OrderedAt(Job(c))
         /\ Subject(c) \in Tasks /\ Subject(c) = owner[Job(c)] /\ ctl[c].phase = "implement"
         /\ Here(c) = <<Job(c), "implement">> /\ Here(c) \in StageIds /\ stage[Here(c)] # "none"
         /\ attempt[Job(c)] = "running" <=> ctl[c].pc # "unstage"
         /\ attempt[Job(c)] = "running" => task[Subject(c)] = "RUNNING"
         /\ ~Unsettled(<<Job(c), "prepare">>) /\ ~Unsettled(<<Job(c), "preflight">>)
         /\ ctl[c].origin = "recovery" => ~Active(<<Job(c), "prepare">>)
<1>1. ctl[c].pc \in HandlerSteps
  BY DEF HandlerSteps
<1>2. Knows(c) /\ OrderedAt(Job(c)) /\ LocalsOK /\ RecordsOK /\ Job(c) \in Launches
      /\ Here(c) = <<Job(c), ctl[c].phase>> /\ Here(c) \in StageIds
      /\ Subject(c) \in Tasks /\ Subject(c) = owner[Job(c)] /\ AtWork
  BY <1>1, AtStep DEF Safe, Sole
<1>3. /\ ctl[c].phase = "implement" /\ stage[Here(c)] # "none"
      /\ attempt[Job(c)] = "running" <=> ctl[c].pc # "unstage"
      /\ ctl[c].origin = "recovery" => ~Active(<<Job(c), "prepare">>)
  BY <1>2 DEF Knows, Granted, Started
<1> QED BY <1>1, <1>2, <1>3 DEF OrderedAt, AtWork

LEMMA WorkerKeeps ==
  ASSUME Safe, Exclusion', NEW c \in Controllers, Spawn(c) \/ Bind(c) \/ UnlaunchAttempt(c)
  PROVE  Safe'
<1>1. ctl[c].pc \in {"spawn", "bind", "unlaunch"} /\ UNCHANGED <<owner, task>>
  BY DEF Spawn, Bind, UnlaunchAttempt, taskVars
<1>2. PICK j \in Launches, t \in Tasks : j = Job(c) /\ t = Subject(c) /\ owner[j] = t
  BY <1>1, AtWorker
<1>3. /\ ctl[c].pc \in HandlerSteps /\ LocalsOK /\ RecordsOK /\ OrderedAt(j) /\ Here(c) = <<j, "implement">>
      /\ ctl[c].phase = "implement" /\ attempt[j] = "running" /\ task[t] = "RUNNING"
      /\ stage[<<j, "implement">>] # "none" /\ ~Unsettled(<<j, "prepare">>) /\ ~Unsettled(<<j, "preflight">>)
      /\ ctl[c].origin = "recovery" => ~Active(<<j, "prepare">>)
  BY <1>1, <1>2, AtWorker
<1>4. ASSUME NEW p \in {"bind", "unlaunch"}, Goto(c, p), UNCHANGED <<stage, attempt>>
      PROVE  Safe'
  <2>1. /\ ctl'[c].pc = p /\ ctl'[c].phase = "implement" /\ Job(c)' = j /\ Here(c)' = <<j, "implement">>
        /\ ctl'[c].origin = ctl[c].origin
    BY <1>2, <1>3, <1>4, GotoOn DEF HandlerSteps, Onward, Job, Here
  <2>2. Knows(c)'
    <3>1. stage'[<<j, "implement">>] # "none" /\ (ctl'[c].origin = "recovery" => ~Active(<<j, "prepare">>)')
          /\ attempt'[j] = "running"
      BY <1>3, <1>4, <2>1 DEF Active
    <3> QED BY <2>1, <3>1 DEF Knows, Before, Started, Granted
  <2>3. p \in HandlerSteps
    BY DEF HandlerSteps
  <2> QED BY <1>1, <1>3, <1>4, <2>2, <2>3, GoesOn
<1>5. CASE stage' = [stage EXCEPT ![Here(c)] = "running"] /\ Return(c) /\ UNCHANGED attempt
  <2>1. /\ Mine(j, t) /\ owner'[j] = t /\ stage'[<<j, "implement">>] = "running"
        /\ \A g \in Phases : g # "implement" => stage'[<<j, g>>] = stage[<<j, g>>]
    <3>1. /\ \A u \in Tasks : u # t => task'[u] = task[u]
          /\ \A l \in Launches : l # j => attempt'[l] = attempt[l]
          /\ "implement" \in Phases /\ stage' = [stage EXCEPT ![<<j, "implement">>] = "running"]
      BY <1>1, <1>3, <1>5 DEF Phases
    <3> QED BY <1>1, <1>2, <1>3, <3>1, StageMoves
  <2>2. OrderedAt(j)'
    BY <1>2, <1>3, <2>1, LeaseAssumption DEF OrderedAt, Unsettled, Phases
  <2>3. Back(c) /\ Alone(c) /\ attempt'[j] = "running" /\ task'[t] = "RUNNING"
    BY <1>1, <1>3, <1>5, ReturnIsBack, ReturnLocals
  <2> QED BY <1>2, <1>3, <2>1, <2>2, <2>3, HandlerKeeps
<1>6. CASE attempt' = [attempt EXCEPT ![Job(c)] = "failed"] /\ Goto(c, "unstage") /\ UNCHANGED stage
  <2>1. /\ Onward(c, j) /\ Alone(c) /\ ctl'[c].pc = "unstage" /\ ctl'[c].phase = "implement"
        /\ Job(c)' = j /\ Here(c)' = <<j, "implement">>
    BY <1>2, <1>3, <1>6, GotoOn DEF HandlerSteps, Onward, Job, Here
  <2>2. /\ Mine(j, t) /\ owner'[j] = t /\ attempt'[j] = "failed"
    BY <1>1, <1>2, <1>3, <1>6 DEF Mine, RecordsOK
  <2>3. OrderedAt(j)'
    BY <1>2, <1>3, <1>6, <2>2, LeaseAssumption DEF OrderedAt, Unsettled
  <2>4. Knows(c)'
    <3>1. stage'[<<j, "implement">>] # "none" /\ (ctl'[c].origin = "recovery" => ~Active(<<j, "prepare">>)')
      BY <1>3, <1>6, <2>1 DEF Onward, Active
    <3> QED BY <2>1, <2>2, <3>1 DEF Knows, Before, Started, Granted
  <2>5. attempt'[j] # "running"
    BY <2>2
  <2> QED BY <1>2, <1>3, <2>1, <2>2, <2>3, <2>4, <2>5, HandlerKeeps
<1>7. CASE Spawn(c)
  BY <1>4, <1>7 DEF Spawn
<1>8. CASE Bind(c)
  BY <1>4, <1>5, <1>8 DEF Bind
<1>9. CASE UnlaunchAttempt(c)
  BY <1>6, <1>9 DEF UnlaunchAttempt
<1> QED BY <1>7, <1>8, <1>9

LEMMA UnlaunchStageKeeps ==
  ASSUME Safe, Exclusion', NEW c \in Controllers, UnlaunchStage(c)
  PROVE  Safe'
<1>1. ctl[c].pc = "unstage" /\ UNCHANGED <<owner, attempt>>
  BY DEF UnlaunchStage, Finish
<1>2. PICK j \in Launches, t \in Tasks : j = Job(c) /\ t = Subject(c) /\ owner[j] = t
  BY <1>1, AtWorker
<1>3. /\ ctl[c].pc \in HandlerSteps /\ LocalsOK /\ RecordsOK /\ OrderedAt(j) /\ Here(c) = <<j, "implement">>
      /\ ctl[c].phase = "implement" /\ attempt[j] # "running"
      /\ ~Unsettled(<<j, "prepare">>) /\ ~Unsettled(<<j, "preflight">>)
      /\ ctl[c].origin = "recovery" => ~Active(<<j, "prepare">>)
  BY <1>1, <1>2, AtWorker
<1>4. CASE finishStage(Here(c), "failed", "RUNNING") /\ Goto(c, "handle")
  <2>1. /\ stage' = [stage EXCEPT ![<<j, "implement">>] = "failed"] /\ SetTask(t, "RUNNING") /\ "implement" \in Phases
    BY <1>2, <1>3, <1>4 DEF finishStage, Phases
  <2>2. /\ \A u \in Tasks : u # t => task'[u] = task[u]
        /\ \A l \in Launches : l # j => attempt'[l] = attempt[l]
    BY <1>1, <1>3, <2>1 DEF SetTask, RecordsOK
  <2>3. /\ Mine(j, t) /\ owner'[j] = t /\ stage'[<<j, "implement">>] = "failed"
        /\ \A g \in Phases : g # "implement" => stage'[<<j, g>>] = stage[<<j, g>>]
    <3>1. RecordsOK /\ owner' = owner /\ owner[j] = t
      BY <1>1, <1>2, <1>3
    <3> QED BY <2>1, <2>2, <3>1, StageMoves
  <2>4. \A g \in Phases : ~Unsettled(<<j, g>>)'
    BY <1>3, <2>3 DEF Unsettled, Phases
  <2>5. OrderedAt(j)' /\ attempt'[j] # "running"
    BY <1>1, <1>2, <1>3, <2>3, <2>4, LeaseAssumption DEF OrderedAt, Phases
  <2>6. /\ Onward(c, j) /\ Alone(c) /\ ctl'[c].pc = "handle" /\ ctl'[c].phase = "implement"
        /\ Job(c)' = j /\ Here(c)' = <<j, "implement">>
    BY <1>2, <1>3, <1>4, GotoOn DEF HandlerSteps, Onward, Job, Here
  <2>7. Knows(c)'
    <3>1. ctl'[c].origin = "recovery" => ~Active(<<j, "prepare">>)'
      BY <1>3, <2>3, <2>6 DEF Onward, Active, Phases
    <3> QED BY <2>4, <2>5, <2>6, <3>1 DEF Knows, Before, Started, Granted
  <2> QED BY <1>2, <1>3, <2>3, <2>5, <2>6, <2>7, HandlerKeeps
<1>5. CASE Throw(c)
  BY <1>1, <1>2, <1>3, <1>5, ThrowKeeps
<1> QED BY <1>4, <1>5 DEF UnlaunchStage, Finish

\* A retry is a fresh launch of the same task, taken over by the handler.
LEMMA HandleFailureKeeps ==
  ASSUME Safe, Exclusion', NEW c \in Controllers, handleFailure(c)
  PROVE  Safe'
<1>1. ctl[c].pc = "handle" /\ ctl[c].pc \in HandlerSteps /\ UNCHANGED <<stage, attempt>>
  BY DEF handleFailure, HandlerSteps
<1>2. PICK t \in Tasks : t = Subject(c)
  BY <1>1, AtStep
<1>3. LocalsOK /\ RecordsOK /\ Knows(c)
  BY <1>1, AtStep
<1>4. /\ attempt[Job(c)] # "running" /\ ctl[c].phase = "implement" /\ \A f \in Phases : ~Unsettled(<<Job(c), f>>)
      /\ ~Under(Job(c))
  BY <1>1, <1>3 DEF Knows, Under
<1>5. ASSUME SetTask(Subject(c), "RUNNING"), NEW l \in Launches, Use(l, Subject(c)),
             ctl' = [ctl EXCEPT ![c].pc = "admit", ![c].job = l]
      PROVE  Safe'
  <2>1. \A u \in Tasks : u # t => task'[u] = task[u]
    BY <1>2, <1>3, <1>5 DEF SetTask, RecordsOK
  <2>2. /\ owner[l] = None /\ owner'[l] = t /\ Mine(l, t) /\ OrderedAt(l)' /\ attempt'[l] = "none"
        /\ \A f \in Phases : stage'[<<l, f>>] = "none" /\ ~Unsettled(<<l, f>>)'
    BY <1>1, <1>2, <1>5, <2>1, FreshLaunch
  <2>3. /\ Onward(c, l) /\ Alone(c) /\ ctl'[c].pc = "admit" /\ ctl'[c].phase = "implement" /\ Job(c)' = l
    BY <1>1, <1>3, <1>4, <1>5 DEF Onward, Alone, Job, LocalsOK, Locals, HandlerSteps
  <2>4. Knows(c)'
    <3>1. stage'[<<l, "implement">>] = "none" /\ ~Active(<<l, "prepare">>)'
      BY <2>2 DEF Active, Phases, ACTIVE_STAGE_STATES
    <3> QED BY <2>2, <2>3, <3>1 DEF Knows, Before, Started, Granted
  <2>5. attempt'[l] # "running"
    BY <2>2
  <2> QED BY <1>1, <1>2, <1>4, <2>2, <2>3, <2>4, <2>5, HandlerKeeps
<1>6. ASSUME Return(c), UNCHANGED owner, \A u \in Tasks : u # Subject(c) => task'[u] = task[u]
      PROVE  Safe'
  BY <1>1, <1>4, <1>6, IdleReturn
<1>7. ASSUME NEW to, SetTask(Subject(c), to), Return(c), UNCHANGED owner
      PROVE  Safe'
  BY <1>3, <1>6, <1>7 DEF SetTask, RecordsOK
<1>8. CASE blockTask(Subject(c)) /\ Return(c) /\ UNCHANGED owner
  BY <1>3, <1>6, <1>8 DEF RecordsOK, blockTask, SetTask, taskVars
<1>9. CASE Throw(c) /\ UNCHANGED owner
  BY <1>1, <1>4, <1>9, ThrowKeeps
<1> QED BY <1>5, <1>7, <1>8, <1>9 DEF handleFailure
-----------------------------------------------------------------------------
(* Every step keeps one launch of a task at a time.                        *)

LEMMA TickKeeps ==
  ASSUME Safe, Exclusion', NEW c \in Controllers, Tick(c) \/ Pipeline(c), ~BeginTick(c)
  PROVE  Safe'
<1>1. CASE Tick(c)
  BY <1>1, TickIsInside, EndPassKeeps, ReconcileKeeps, OrphanImplementKeeps, OrphanHandlerKeeps, ClaimsKeep,
     DispatchKeeps DEF Tick
<1>2. CASE Pipeline(c)
  BY <1>2, ReserveStageKeeps, BeginStageKeeps, CloseKeeps, AdmitKeeps, AdmissionKeeps, StartAttemptKeeps,
     WorkerKeeps, UnlaunchStageKeeps, HandleFailureKeeps DEF Pipeline
<1> QED BY <1>1, <1>2

\* A step that leaves the rows and every controller but c alone, c outside a handler.
LEMMA RowsStill ==
  ASSUME Safe, Exclusion', NEW c \in Controllers, Alone(c), UNCHANGED <<owner, stage, attempt, task>>,
         ctl'[c].pc \notin HandlerSteps, InTick(c)' => Listing(c)'
  PROVE  Safe'
<1>1. Ordered' /\ Exclusive' /\ AtWork'
  BY DEF Safe, Sole, Ordered, OrderedAt, Exclusive, AtWork, Under, Unsettled
<1>2. ASSUME NEW d \in Controllers, d # c
      PROVE  Handled(d)' /\ Listing(d)'
  <2>1. ctl'[d] = ctl[d] /\ Handled(d) /\ Listing(d)
    BY <1>2 DEF Alone, Safe, Sole
  <2>2. Handled(d)'
    BY <2>1 DEF Handled, Owned, Others, Knows, Subject, Job, Here, Under, Unsettled, Active
  <2>3. Listing(d)'
    BY <2>1 DEF Listing, InTick, Subject, Job, Unsettled
  <2> QED BY <2>2, <2>3
<1>3. Handled(c)' /\ Listing(c)'
  BY DEF Handled, Listing
<1> QED BY <1>1, <1>2, <1>3 DEF Safe, Sole

LEMMA ProcessKeeps ==
  ASSUME Safe, Exclusion', NEW c \in Controllers, Start(c) \/ BeginTick(c) \/ Stop(c) \/ Crash(c)
  PROVE  Safe'
<1>1. /\ LocalsOK /\ Alone(c) /\ UNCHANGED <<owner, stage, attempt, task>>
      /\ ctl'[c].pc \in {"off", "idle", "dead", "pass"}
  BY ProcessStep DEF Safe, Exclusion, Start, BeginTick, Stop, Crash, taskVars, rowVars
<1>2. CASE ctl'[c].pc # "pass"
  <2>1. ~InTick(c)' /\ ctl'[c].pc \notin HandlerSteps
    BY <1>1, <1>2 DEF InTick, HandlerSteps
  <2> QED BY <1>1, <2>1, RowsStill
<1>3. CASE ctl'[c].pc = "pass"
  <2>1. ctl' = [ctl EXCEPT ![c] = [AtRest("pass") EXCEPT !.todo = Snapshot("attempts")]]
    <3>1. AtRest("off").pc # "pass" /\ AtRest("dead").pc # "pass" /\ ctl \in [Controllers -> Locals]
      BY <1>1 DEF AtRest, LocalsOK
    <3>2. ~Start(c)
      BY <1>3, <3>1 DEF Start, Goto, Locals
    <3>3. ~Stop(c) /\ ~Crash(c)
      BY <1>3, <3>1 DEF Stop, Crash
    <3> QED BY <1>3, <3>1, <3>2, <3>3 DEF BeginTick
  <2>2. /\ ctl'[c].pass = "attempts" /\ ctl'[c].origin = "other"
        /\ ctl'[c].todo = {l \in Launches : attempt[l] = "running"}
    BY <1>1, <2>1 DEF AtRest, Snapshot, LocalsOK
  <2>3. Listing(c)' /\ ctl'[c].pc \notin HandlerSteps
    BY <1>1, <1>3, <2>2 DEF Listing, HandlerSteps
  <2> QED BY <1>1, <2>3, RowsStill
<1> QED BY <1>2, <1>3

\* The clock runs, or the operator retries a task without a running attempt.
LEMMA OtherKeeps ==
  ASSUME Safe, Exclusion', Expire \/ \E t \in Tasks : Age(t) \/ retryTask(t)
  PROVE  Safe'
<1>1. UNCHANGED <<owner, stage, attempt, ctl>>
  BY DEF Expire, Age, retryTask, rowVars
<1>2. PICK t \in Tasks \union {None} :
        /\ \A u \in Tasks : u # t => task'[u] = task[u]
        /\ t \in Tasks => task[t] # "RUNNING" /\ Running(t) = {}
  <2>1. CASE \E u \in Tasks : retryTask(u)
    BY <2>1 DEF retryTask, SetTask, Safe, Exclusion, RecordsOK
  <2>2. CASE UNCHANGED task
    BY <2>2, LeaseAssumption
  <2> QED BY <2>1, <2>2 DEF Expire, Age, taskVars
<1>3. Ordered' /\ Exclusive'
  BY <1>1 DEF Safe, Sole, Ordered, OrderedAt, Exclusive, Under, Unsettled
<1>4. AtWork'
  <2>1. ASSUME NEW l \in Launches, attempt[l] = "running"
        PROVE  owner[l] \in Tasks /\ owner[l] # t /\ task[owner[l]] = "RUNNING"
    <3>1. OrderedAt(l) /\ owner[l] \in Tasks \union {None} /\ task[owner[l]] = "RUNNING"
      BY <2>1 DEF Safe, Sole, Ordered, AtWork, Exclusion, RecordsOK
    <3> QED BY <1>2, <2>1, <3>1 DEF OrderedAt, Phases
  <2> QED BY <1>1, <1>2, <2>1 DEF AtWork
<1>5. ASSUME NEW c \in Controllers
      PROVE  Handled(c)' /\ Listing(c)'
  <2>1. Handled(c) /\ Listing(c)
    BY DEF Safe, Sole
  <2>2. Listing(c)'
    BY <1>1, <2>1 DEF Listing, InTick, Subject, Job, Unsettled
  <2>3. ASSUME ctl[c].pc \in HandlerSteps
        PROVE  Owned(c)' /\ Knows(c)'
    <3>1. Owned(c) /\ Knows(c)
      BY <2>1, <2>3 DEF Handled
    <3>2. Owned(c)'
      BY <1>1, <3>1 DEF Owned, Others, Subject, Job, Under, Unsettled
    <3>3. task[Subject(c)] = "RUNNING" => task'[Subject(c)] = "RUNNING"
      BY <1>2, <3>1 DEF Owned
    <3>4. Knows(c)'
      BY <1>1, <3>1, <3>3 DEF Knows, Subject, Job, Here, Unsettled, Active
    <3> QED BY <3>2, <3>4
  <2> QED BY <1>1, <2>2, <2>3 DEF Handled
<1> QED BY <1>3, <1>4, <1>5 DEF Safe, Sole

LEMMA SafeInductive ==
  ASSUME Delay = "none", Safe, [Next]_vars
  PROVE  Safe'
<1>1. Exclusion'
  BY ExclusionInductive DEF Safe
<1>2. ASSUME UNCHANGED vars
      PROVE  Safe'
  <2>1. UNCHANGED <<owner, stage, attempt, task, ctl>>
    BY <1>2 DEF vars, taskVars, rowVars
  <2>2. Sole'
    BY <2>1 DEF Safe, Sole, Ordered, OrderedAt, Exclusive, AtWork, Handled, Owned, Others, Knows, Listing,
       InTick, Subject, Job, Here, Under, Unsettled, Active
  <2> QED BY <1>1, <2>2 DEF Safe
<1> QED BY <1>1, <1>2, NextSteps, TickKeeps, ProcessKeeps, OtherKeeps

\* If no tick outlasts the lease, a task never has two running attempts, whichever
\* controllers dispatched it, recovered its stages after a crash, retried it or
\* took the lease over: the next holder settles or adopts all it finds first.
THEOREM SingleAttempt == ASSUME Delay = "none" PROVE Spec => []OneAttempt
<1>1. Init => Safe
  <2> SUFFICES ASSUME Init PROVE Safe
    OBVIOUS
  <2>1. LeaseOK /\ RecordsOK
    BY DEF Init, LeaseOK, RecordsOK, States
  <2>2. \A c \in Controllers : ctl[c] \in Locals /\ ctl[c].pc = "off"
    BY RestLocals DEF Init
  <2>3. LocalsOK
    BY <2>2, RestLocals DEF Init, LocalsOK, HandlerSteps
  <2>4. \A c \in Controllers : Handled(c) /\ Listing(c)
    BY <2>2 DEF Handled, Listing, InTick, HandlerSteps
  <2>5. \A l \in Launches : attempt[l] = "none" /\ \A f \in Phases : stage[<<l, f>>] = "none"
    BY DEF Init, StageIds
  <2>6. Ordered /\ Exclusive /\ AtWork
    BY <2>5 DEF Ordered, OrderedAt, Exclusive, AtWork, Under, Unsettled, Phases
  <2> QED BY <2>1, <2>2, <2>3, <2>4, <2>6 DEF Safe, Sole, Exclusion, InTick
<1>2. Safe /\ [Next]_vars => Safe'
  BY SafeInductive
<1>3. Safe => OneAttempt
  BY DEF Safe, Sole, Exclusive, Under, OneAttempt
<1> QED BY <1>1, <1>2, <1>3, PTL DEF Spec
=============================================================================
