-------------------------- MODULE LaunchProtocolProofs --------------------------
(***************************************************************************)
(* Theorems about LaunchProtocol, for any tasks, launches, limits, hosts   *)
(* and numbers of crashes, with the operator cancelling and retrying.      *)
(***************************************************************************)
EXTENDS LaunchProtocol, TLAPS

\* The steps of a handler that works for the launch in cur.
LaunchSteps == { "verify", "adopt", "collect", "failStage", "yieldStage", "staleStage",
                 "reviewStage", "revise", "keepStage", "keepFinal", "brokenFinal",
                 "brokenStage", "grant", "activate", "context", "start", "spec",
                 "spawn", "setpid", "bind", "unlaunch", "unlaunchStage" }

\* A handler has a task, and where it needs one a launch of that task.
Subjects ==
  /\ pc \notin {"down", "idle", "pass"} => tgt \in Tasks
  /\ pc \in LaunchSteps => cur \in Launches /\ owner[cur] = tgt

\* Outside a tick nothing is listed; the first two passes list launches, and
\* stages of launches, that have an owner.
Lists ==
  /\ pc \in {"down", "idle"} => pass = "attempts" /\ todo = {}
  /\ pass = "attempts" => \A x \in todo : x \in Launches /\ owner[x] \in Tasks
  /\ pass = "orphans" => \A l \in Launches : W(l) \in todo \/ F(l) \in todo => owner[l] \in Tasks

\* A launch id that no stage has been reserved for has no rows and no process.
Blank ==
  \A l \in Launches : owner[l] = None =>
    /\ stage[W(l)] = "none" /\ stage[F(l)] = "none" /\ lease[l] = "none"
    /\ attempt[l] = "none" /\ proc[l] = "none" /\ result[l] = "none"

\* A cancellation stops an attempt of a task, then finishes listed stages.
Targets == /\ opc \in {"kill", "finish"} => oatt \in Launches /\ owner[oatt] \in Tasks
           /\ opc = "stage" => ostage \in StageIds

\* What every step keeps: the rows and processes, and the controller.
Data    == RowsTyped /\ WorkersTyped /\ OperatorTyped /\ Targets /\ Blank
Control == ControllerTyped /\ Subjects /\ Lists
Sound   == Data /\ Control
-----------------------------------------------------------------------------
(* The record operations.                                                  *)

\* The stages of a launch and the check of a task are stage ids, all distinct.
LEMMA StageIdsOf ==
  /\ \A l \in Launches : W(l) \in StageIds /\ F(l) \in StageIds
  /\ \A t \in Tasks : C(t) \in StageIds
BY DEF W, F, C, StageIds

LEMMA SetTaskTyped ==
  ASSUME RowsTyped, NEW t, NEW to, t \in Tasks => to \in TASK_STATES, SetTask(t, to)
  PROVE  /\ task' \in [Tasks -> TASK_STATES]
         /\ parked' \in [Tasks -> {"none", "recovery"} \union WORKER_STAGES]
BY DEF RowsTyped, SetTask

LEMMA StateForStage ==
  ASSUME NEW st
  PROVE  taskStateForStage(st) \in TASK_STATES
BY DEF taskStateForStage, TASK_STATES

LEMMA ReleaseTyped ==
  ASSUME RowsTyped, NEW s, releaseStageAdmission(s)
  PROVE  /\ lease' \in [Launches -> {"none", "reserved", "active", "released"}]
         /\ \A l \in Launches : lease[l] = "none" => lease'[l] = "none"
BY DEF RowsTyped, releaseStageAdmission

LEMMA SameData ==
  ASSUME Data, UNCHANGED <<taskVars, rowVars, procVars, opVars, hostVars>>
  PROVE  Data'
BY DEF Data, RowsTyped, WorkersTyped, OperatorTyped, Targets, Blank, taskVars, rowVars, procVars,
       opVars, hostVars

\* A step that changes nothing but the state of tasks.
LEMMA TaskData ==
  ASSUME Data, UNCHANGED <<rowVars, procVars, opVars, hostVars>>,
         task' \in [Tasks -> TASK_STATES],
         parked' \in [Tasks -> {"none", "recovery"} \union WORKER_STAGES]
  PROVE  Data'
BY DEF Data, RowsTyped, WorkersTyped, OperatorTyped, Targets, Blank, rowVars, procVars, opVars, hostVars

LEMMA AttemptData ==
  ASSUME Data, NEW l \in Launches, owner[l] \in Tasks,
         NEW outcome \in {"running", "succeeded", "failed", "cancelled"},
         attempt' = [attempt EXCEPT ![l] = outcome],
         UNCHANGED <<taskVars, owner, kind, stage, lease, pid, procVars, opVars, hostVars>>
  PROVE  Data'
BY LaunchAssumption
DEF Data, RowsTyped, WorkersTyped, OperatorTyped, Targets, Blank, taskVars, procVars, opVars, hostVars

\* A stage of a launch with an owner, or a check, changes its state.
LEMMA StageData ==
  ASSUME Data, NEW s \in StageIds, TaskOf(s) \in Tasks, NEW st \in STAGE_STATES,
         stage' = [stage EXCEPT ![s] = st],
         task' \in [Tasks -> TASK_STATES],
         parked' \in [Tasks -> {"none", "recovery"} \union WORKER_STAGES],
         lease' \in [Launches -> {"none", "reserved", "active", "released"}],
         \A l \in Launches : owner[l] = None => lease'[l] = lease[l],
         UNCHANGED <<owner, kind, attempt, pid, procVars, opVars, hostVars>>
  PROVE  Data'
<1>1. stage' \in [StageIds -> {"none"} \union STAGE_STATES]
  BY DEF Data, RowsTyped
<1>2. \A l \in Launches : owner[l] = None => stage'[W(l)] = stage[W(l)] /\ stage'[F(l)] = stage[F(l)]
  BY LaunchAssumption, StageIdsOf DEF Data, RowsTyped, TaskOf, W, F
<1> QED BY <1>1, <1>2
     DEF Data, RowsTyped, WorkersTyped, OperatorTyped, Targets, Blank, procVars, opVars, hostVars

LEMMA ActiveOwned ==
  ASSUME Data, NEW s \in StageIds, Active(s)
  PROVE  TaskOf(s) \in Tasks
<1>1. stage[s] # "none"
  BY DEF Active, ACTIVE_STAGE_STATES
<1>2. CASE s[2] = "check"
  BY <1>2 DEF StageIds, TaskOf
<1>3. ASSUME NEW l \in Launches, s = W(l) \/ s = F(l)
      PROVE  owner[l] \in Tasks
  BY <1>1, <1>3 DEF Data, Blank, RowsTyped
<1> QED BY <1>2, <1>3 DEF StageIds, TaskOf, W, F

LEMMA FinishStageData ==
  ASSUME Data, NEW s \in StageIds, NEW outcome \in STAGE_STATES, NEW to \in TASK_STATES,
         finishStage(s, outcome, to),
         UNCHANGED <<owner, kind, attempt, pid, procVars, opVars, hostVars>>
  PROVE  Data'
<1>1. TaskOf(s) \in Tasks
  BY ActiveOwned DEF finishStage, MayFinish
<1>2. /\ task' \in [Tasks -> TASK_STATES]
      /\ parked' \in [Tasks -> {"none", "recovery"} \union WORKER_STAGES]
  BY SetTaskTyped DEF finishStage, Data
<1>3. /\ lease' \in [Launches -> {"none", "reserved", "active", "released"}]
      /\ \A l \in Launches : owner[l] = None => lease'[l] = lease[l]
  BY ReleaseTyped DEF finishStage, Data, Blank
<1> QED BY <1>1, <1>2, <1>3, StageData DEF finishStage
-----------------------------------------------------------------------------
(* The moves of the controller.                                            *)

LEMMA RestControl ==
  ASSUME Rest("idle") \/ Rest("down"), Forget
  PROVE  Control'
BY DEF Rest, Forget, Control, ControllerTyped, Subjects, Lists, Steps, Passes, LaunchSteps,
       WORKER_STAGES, TASK_STATES

LEMMA GotoControl ==
  ASSUME Control, NEW p \in Steps \ {"down", "idle"}, Goto(p), UNCHANGED owner,
         pc \notin {"down", "idle", "pass"},
         p \in LaunchSteps => pc \in LaunchSteps
  PROVE  Control'
<1>1. CASE p = "pass"
  BY <1>1 DEF Goto, Forget, loop, Control, ControllerTyped, Subjects, Lists, LaunchSteps,
              WORKER_STAGES, TASK_STATES
<1>2. CASE p # "pass"
  BY <1>2 DEF Goto, loop, locals, Control, ControllerTyped, Subjects, Lists
<1> QED BY <1>1, <1>2

LEMMA TakeControl ==
  ASSUME Control, NEW x, NEW p \in Steps \ {"down", "idle", "pass"},
         NEW l \in Launches \union {None}, NEW t \in Tasks, NEW k \in WORKER_STAGES,
         task[t] \in TASK_STATES, p \in LaunchSteps => l \in Launches /\ owner[l] = t,
         Take(x, p, l, t, k), UNCHANGED owner
  PROVE  Control'
BY DEF Take, Control, ControllerTyped, Subjects, Lists

LEMMA DropControl ==
  ASSUME Control, NEW x, Drop(x), UNCHANGED owner
  PROVE  Control'
BY DEF Drop, Take, locals, Control, ControllerTyped, Subjects, Lists, LaunchSteps, Steps

LEMMA UnwindTyped ==
  ASSUME RowsTyped, Control, Unwind, UNCHANGED owner
  PROVE  /\ task' \in [Tasks -> TASK_STATES]
         /\ parked' \in [Tasks -> {"none", "recovery"} \union WORKER_STAGES]
         /\ Control' /\ UNCHANGED <<procVars, opVars, hostVars>>
<1>1. CASE /\ pc' = "pass" /\ UNCHANGED loop /\ Forget
           /\ IF task[tgt] \in {"READY", "RUNNING"}
              THEN SetTask(tgt, "BLOCKED") ELSE UNCHANGED taskVars
  <2>1. Control'
    BY <1>1 DEF Forget, loop, Control, ControllerTyped, Subjects, Lists, LaunchSteps, Steps,
                WORKER_STAGES, TASK_STATES
  <2>2. CASE SetTask(tgt, "BLOCKED")
    BY <2>1, <2>2, SetTaskTyped DEF Unwind, TASK_STATES
  <2>3. CASE UNCHANGED taskVars
    BY <2>1, <2>3 DEF Unwind, RowsTyped, taskVars
  <2> QED BY <1>1, <2>2, <2>3
<1>2. CASE Rest("idle") /\ UNCHANGED taskVars
  BY <1>2, RestControl DEF Unwind, RowsTyped, taskVars
<1> QED BY <1>1, <1>2 DEF Unwind

LEMMA ThrowKeeps ==
  ASSUME Sound, Throw
  PROVE  Sound'
<1>1. UNCHANGED rowVars /\ UNCHANGED owner /\ Unwind
  BY DEF Throw, rowVars
<1> QED BY <1>1, UnwindTyped, TaskData DEF Sound, Data

LEMMA ThrowReleasingKeeps ==
  ASSUME Sound, NEW s, ThrowReleasing(s)
  PROVE  Sound'
<1> USE DEF Sound
<1>1. /\ task' \in [Tasks -> TASK_STATES]
      /\ parked' \in [Tasks -> {"none", "recovery"} \union WORKER_STAGES]
      /\ Control' /\ UNCHANGED <<procVars, opVars, hostVars>>
      /\ UNCHANGED <<owner, kind, stage, attempt, pid>>
  BY UnwindTyped DEF ThrowReleasing, Data
<1>2. /\ lease' \in [Launches -> {"none", "reserved", "active", "released"}]
      /\ \A l \in Launches : lease[l] = "none" => lease'[l] = "none"
  BY ReleaseTyped DEF ThrowReleasing, Data
<1> QED BY <1>1, <1>2
     DEF Data, RowsTyped, WorkersTyped, OperatorTyped, Targets, Blank, procVars, opVars, hostVars
-----------------------------------------------------------------------------
(* The steps of the tick and of reconciliation.                            *)

\* A handler for a launch has that launch and its task.
LEMMA Subject ==
  ASSUME Sound
  PROVE  /\ pc \in LaunchSteps => cur \in Launches /\ owner[cur] = tgt /\ tgt \in Tasks
         /\ pc \notin {"down", "idle", "pass"} => tgt \in Tasks
         /\ \A st \in {"down", "idle", "pass"} : st \notin LaunchSteps
BY DEF Sound, Control, Subjects, LaunchSteps

LEMMA SnapshotLists ==
  ASSUME Data, NEW p \in Passes
  PROVE  /\ Snapshot(p) \subseteq Launches \union Tasks \union StageIds
         /\ p = "attempts" => \A x \in Snapshot(p) : x \in Launches /\ owner[x] \in Tasks
         /\ p = "orphans" => \A l \in Launches :
              W(l) \in Snapshot(p) \/ F(l) \in Snapshot(p) => owner[l] \in Tasks
<1>1. Snapshot(p) \subseteq Launches \union Tasks \union StageIds
  BY DEF Snapshot, Passes, RunningAttempts
<1>2. \A x \in RunningAttempts : x \in Launches /\ owner[x] \in Tasks
  BY DEF RunningAttempts, Data, RowsTyped, Blank
<1>3. ASSUME p = "orphans", NEW l \in Launches, W(l) \in Snapshot(p) \/ F(l) \in Snapshot(p)
      PROVE  owner[l] \in Tasks
  BY <1>3 DEF Snapshot, Unsettled, Data, RowsTyped, Blank
<1> QED BY <1>1, <1>2, <1>3 DEF Snapshot

LEMMA BeginTickKeeps ==
  ASSUME Sound, BeginTick
  PROVE  Sound'
<1>1. Data'
  BY SameData DEF Sound, BeginTick
<1>2. \A x \in RunningAttempts : x \in Launches /\ owner[x] \in Tasks
  BY DEF RunningAttempts, Sound, Data, RowsTyped, Blank
<1> QED BY <1>1, <1>2 DEF Sound, BeginTick, Control, ControllerTyped, Subjects, Lists, locals,
                          rowVars, Steps, LaunchSteps

LEMMA EndPassKeeps ==
  ASSUME Sound, EndPass
  PROVE  Sound'
<1>1. Data' /\ UNCHANGED owner
  BY SameData DEF Sound, EndPass, rowVars
<1>2. CASE pass = "late"
  BY <1>1, <1>2 DEF Sound, EndPass, Rest, Control, ControllerTyped, Subjects, Lists, locals,
                    Steps, LaunchSteps, Passes
<1>3. CASE pass # "late"
  <2>1. pass \in Passes /\ pc = "pass"
    BY DEF Sound, Control, ControllerTyped, EndPass
  <2>2. nextPass[pass] \in Passes
    BY <1>3, <2>1 DEF nextPass, Passes
  <2>3. pass' = nextPass[pass] /\ todo' = Snapshot(pass') /\ UNCHANGED <<pc, locals>>
    BY <1>3 DEF EndPass
  <2> QED BY <1>1, <2>1, <2>2, <2>3, SnapshotLists
       DEF Sound, Control, ControllerTyped, Subjects, Lists, locals, LaunchSteps
<1> QED BY <1>2, <1>3

LEMMA BlockTaskKeeps ==
  ASSUME Sound, BlockTask
  PROVE  Sound'
<1>1. CASE Goto("pass") /\ UNCHANGED <<rowVars, procVars, opVars, hostVars>>
           /\ (SetTask(tgt, "BLOCKED") \/ UNCHANGED taskVars)
  <2>1. Control'
    BY <1>1, GotoControl DEF Sound, BlockTask, Steps, LaunchSteps, rowVars
  <2>2. /\ task' \in [Tasks -> TASK_STATES]
        /\ parked' \in [Tasks -> {"none", "recovery"} \union WORKER_STAGES]
    BY <1>1, SetTaskTyped DEF Sound, Data, RowsTyped, taskVars, TASK_STATES
  <2> QED BY <1>1, <2>1, <2>2, TaskData DEF Sound
<1> QED BY <1>1, ThrowKeeps DEF BlockTask

LEMMA ProbeKeeps ==
  ASSUME Sound, NEW l \in Launches, Probe(l)
  PROVE  Sound'
<1>1. l \in todo /\ owner[l] \in Tasks /\ UNCHANGED owner
  BY DEF Probe, Take, Sound, Control, Lists, rowVars
<1>2. Control'
  BY <1>1, TakeControl DEF Probe, Sound, Data, RowsTyped, Steps, LaunchSteps
<1> QED BY <1>2, SameData DEF Sound, Probe

LEMMA VerifyAliveKeeps ==
  ASSUME Sound, VerifyAlive
  PROVE  Sound'
<1>1. Control'
  BY GotoControl DEF Sound, VerifyAlive, Steps, LaunchSteps
<1> QED BY <1>1 DEF Sound, VerifyAlive, Data, RowsTyped, WorkersTyped, OperatorTyped, Targets, Blank,
                    taskVars, procVars, opVars, hostVars

\* Binding the stage of the launch in cur, in AdoptLaunchedAttempt and in
\* RecordLaunchStarted.
LEMMA BindData ==
  ASSUME Sound, pc \in LaunchSteps,
         \/ stage' = [stage EXCEPT ![W(cur)] = "running"]
         \/ UNCHANGED stage,
         UNCHANGED <<taskVars, owner, kind, lease, attempt, pid, procVars, opVars, hostVars>>
  PROVE  Data'
<1>1. W(cur) \in StageIds /\ TaskOf(W(cur)) \in Tasks
  BY Subject, StageIdsOf DEF TaskOf, W
<1>2. CASE UNCHANGED stage
  BY <1>2, SameData DEF Sound, rowVars
<1>3. CASE stage' = [stage EXCEPT ![W(cur)] = "running"]
  BY <1>1, <1>3, StageData DEF Sound, Data, RowsTyped, taskVars, STAGE_STATES, ACTIVE_STAGE_STATES
<1> QED BY <1>2, <1>3

LEMMA AdoptKeeps ==
  ASSUME Sound, AdoptLaunchedAttempt
  PROVE  Sound'
<1>1. Control'
  BY GotoControl DEF Sound, AdoptLaunchedAttempt, Steps, LaunchSteps
<1> QED BY <1>1, BindData DEF Sound, AdoptLaunchedAttempt, LaunchSteps

LEMMA VerifyKeeps ==
  ASSUME Sound, VerifyLaunching \/ VerifyAmbiguous
  PROVE  Sound'
<1>1. Control'
  BY GotoControl DEF Sound, VerifyLaunching, VerifyAmbiguous, Steps, LaunchSteps, rowVars
<1> QED BY <1>1, SameData DEF Sound, VerifyLaunching, VerifyAmbiguous

\* A handler settles the attempt of its launch and goes on.
LEMMA AttemptKeeps ==
  ASSUME Sound, pc \in LaunchSteps,
         NEW outcome \in {"running", "succeeded", "failed", "cancelled"},
         attempt' = [attempt EXCEPT ![cur] = outcome],
         NEW p \in Steps \ {"down", "idle"}, Goto(p),
         UNCHANGED <<taskVars, owner, kind, stage, lease, pid, procVars, opVars, hostVars>>
  PROVE  Sound'
<1>1. Control'
  BY GotoControl, Subject DEF Sound
<1> QED BY <1>1, AttemptData, Subject DEF Sound

LEMMA VerifyLostKeeps ==
  ASSUME Sound, VerifyLost
  PROVE  Sound'
BY AttemptKeeps DEF VerifyLost, finishAttempt, Steps, LaunchSteps

LEMMA FinishOfPass ==
  ASSUME Sound, NEW s \in StageIds, NEW outcome \in STAGE_STATES, NEW to \in TASK_STATES,
         finishStage(s, outcome, to), Control',
         UNCHANGED <<owner, kind, attempt, pid, procVars, opVars, hostVars>>
  PROVE  Sound'
BY FinishStageData DEF Sound

LEMMA OrphanWorkerStageKeeps ==
  ASSUME Sound, NEW l \in Launches, OrphanWorkerStage(l)
  PROVE  Sound'
<1>1. owner[l] \in Tasks /\ task[owner[l]] \in TASK_STATES
  BY DEF OrphanWorkerStage, Drop, Take, Sound, Control, Lists, Data, RowsTyped
<1>2. Control' /\ W(l) \in StageIds
  BY DropControl, StageIdsOf DEF Sound, OrphanWorkerStage
<1>3. CASE UNCHANGED <<taskVars, stage, lease>>
  BY <1>2, <1>3, SameData DEF Sound, OrphanWorkerStage, rowVars
<1>4. CASE finishStage(W(l), "unknown", "BLOCKED")
  BY <1>2, <1>4, FinishOfPass DEF OrphanWorkerStage, STAGE_STATES, ACTIVE_STAGE_STATES, TASK_STATES
<1>5. CASE finishStage(W(l), AttemptOutcome(l), task[owner[l]])
  <2>1. AttemptOutcome(l) \in STAGE_STATES
    BY DEF AttemptOutcome, STAGE_STATES
  <2> QED BY <1>1, <1>2, <1>5, <2>1, FinishOfPass DEF OrphanWorkerStage
<1> QED BY <1>3, <1>4, <1>5 DEF OrphanWorkerStage

LEMMA OrphanFinalizeStageKeeps ==
  ASSUME Sound, NEW l \in Launches, OrphanFinalizeStage(l)
  PROVE  Sound'
<1>1. CASE Drop(F(l)) /\ UNCHANGED <<taskVars, rowVars, procVars, opVars, hostVars>>
  BY <1>1, DropControl, SameData DEF Sound, rowVars
<1>2. CASE /\ Take(F(l), "schedule", l, owner[l], kind[l])
           /\ finishStage(F(l), "succeeded", "CHECKING")
           /\ UNCHANGED <<owner, kind, attempt, pid, procVars, opVars, hostVars>>
  <2>1. owner[l] \in Tasks /\ task[owner[l]] \in TASK_STATES /\ kind[l] \in WORKER_STAGES
    BY <1>2 DEF OrphanFinalizeStage, Take, Sound, Control, Lists, Data, RowsTyped
  <2>2. Control'
    BY <1>2, <2>1, TakeControl DEF Sound, Steps, LaunchSteps
  <2> QED BY <1>2, <2>2, FinishOfPass, StageIdsOf DEF STAGE_STATES, TASK_STATES
<1> QED BY <1>1, <1>2, ThrowKeeps DEF OrphanFinalizeStage

LEMMA StrandedTaskKeeps ==
  ASSUME Sound, NEW t \in Tasks, StrandedTask(t)
  PROVE  Sound'
<1>1. CASE Drop(t) /\ UNCHANGED <<taskVars, rowVars, procVars, opVars, hostVars>>
  BY <1>1, DropControl, SameData DEF Sound, rowVars
<1>2. CASE SetTask(t, "BLOCKED") /\ Drop(t) /\ UNCHANGED <<rowVars, procVars, opVars, hostVars>>
  BY <1>2, DropControl, TaskData, SetTaskTyped DEF Sound, Data, rowVars, TASK_STATES
<1> QED BY <1>1, <1>2, ThrowKeeps DEF StrandedTask
-----------------------------------------------------------------------------
(* The steps of collection and of the handlers that follow.                *)

\* A handler goes on and changes no row.
LEMMA GotoKeeps ==
  ASSUME Sound, pc \notin {"down", "idle", "pass"}, NEW p \in Steps \ {"down", "idle"},
         p \in LaunchSteps => pc \in LaunchSteps, Goto(p),
         UNCHANGED <<taskVars, rowVars, procVars, opVars, hostVars>>
  PROVE  Sound'
BY GotoControl, SameData DEF Sound, rowVars

LEMMA SettleStageKeeps ==
  ASSUME Sound, NEW at \in LaunchSteps, NEW outcome \in STAGE_STATES, NEW to \in TASK_STATES,
         NEW next \in Steps \ {"down", "idle"}, SettleStage(at, outcome, to, next)
  PROVE  Sound'
<1>1. CASE Goto(next) /\ UNCHANGED <<taskVars, rowVars, procVars, opVars, hostVars>>
  BY <1>1, GotoKeeps, Subject DEF SettleStage
<1>2. CASE /\ finishStage(W(cur), outcome, to) /\ Goto(next)
           /\ UNCHANGED <<owner, kind, attempt, pid, procVars, opVars, hostVars>>
  <2>1. Control' /\ W(cur) \in StageIds
    BY <1>2, GotoControl, Subject, StageIdsOf DEF Sound, SettleStage
  <2> QED BY <1>2, <2>1, FinishOfPass
<1> QED BY <1>1, <1>2, ThrowReleasingKeeps DEF SettleStage

LEMMA SettleKeeps ==
  ASSUME Sound, NEW at \in LaunchSteps, NEW s \in {W(cur), F(cur)}, NEW outcome \in STAGE_STATES,
         NEW to \in TASK_STATES, NEW next \in Steps \ {"down", "idle"},
         Settle(at, s, outcome, to, next)
  PROVE  Sound'
<1>1. CASE /\ finishStage(s, outcome, to) /\ Goto(next)
           /\ UNCHANGED <<owner, kind, attempt, pid, procVars, opVars, hostVars>>
  <2>1. Control' /\ s \in StageIds
    BY <1>1, GotoControl, Subject, StageIdsOf DEF Sound, Settle
  <2> QED BY <1>1, <2>1, FinishOfPass
<1> QED BY <1>1, ThrowReleasingKeeps DEF Settle

LEMMA CollectAttemptKeeps ==
  ASSUME Sound, CollectFailed \/ CollectYield \/ Revise
  PROVE  Sound'
<1>1. CASE CollectFailed
  BY <1>1, AttemptKeeps DEF CollectFailed, finishAttempt, Steps, LaunchSteps
<1>2. CASE CollectYield
  BY <1>2, AttemptKeeps DEF CollectYield, finishAttempt, Steps, LaunchSteps
<1>3. CASE Revise
  BY <1>3, AttemptKeeps DEF Revise, finishAttempt, Steps, LaunchSteps
<1> QED BY <1>1, <1>2, <1>3

LEMMA CollectStageKeeps ==
  ASSUME Sound, FailStage \/ YieldStage \/ StaleStage \/ ReviewStage
  PROVE  Sound'
<1>1. seen \in TASK_STATES
  BY DEF Sound, Control, ControllerTyped
<1>2. {"succeeded", "failed", "waiting"} \subseteq STAGE_STATES
  BY DEF STAGE_STATES, ACTIVE_STAGE_STATES
<1>3. CASE FailStage
  BY <1>1, <1>2, <1>3, SettleStageKeeps DEF FailStage, LaunchSteps, Steps
<1>4. CASE YieldStage
  BY <1>2, <1>4, SettleStageKeeps DEF YieldStage, LaunchSteps, Steps, TASK_STATES
<1>5. CASE StaleStage
  BY <1>2, <1>5, SettleStageKeeps DEF StaleStage, LaunchSteps, Steps, TASK_STATES
<1>6. CASE ReviewStage
  BY <1>2, <1>6, SettleStageKeeps DEF ReviewStage, LaunchSteps, Steps, TASK_STATES
<1> QED BY <1>3, <1>4, <1>5, <1>6

LEMMA CollectWorkKeeps ==
  ASSUME Sound, CollectWork
  PROVE  Sound'
<1>1. /\ F(cur) \in StageIds /\ TaskOf(F(cur)) \in Tasks /\ tgt \in Tasks
      /\ "running" \in STAGE_STATES
  BY Subject, StageIdsOf DEF CollectWork, LaunchSteps, TaskOf, F, STAGE_STATES, ACTIVE_STAGE_STATES
<1>2. ASSUME held' = Unsettled(W(cur)), pc' = "revise",
             UNCHANGED <<owner, loop, cur, tgt, want, seen>>
      PROVE  Control'
  BY <1>2 DEF Sound, CollectWork, Control, ControllerTyped, Subjects, Lists, loop, Steps,
              LaunchSteps, Unsettled
<1>3. ASSUME stage' = [stage EXCEPT ![F(cur)] = "running"], SetTask(tgt, "CHECKING") \/ UNCHANGED taskVars,
             UNCHANGED <<owner, kind, lease, attempt, pid, procVars, opVars, hostVars>>
      PROVE  Data'
  <2>1. /\ task' \in [Tasks -> TASK_STATES]
        /\ parked' \in [Tasks -> {"none", "recovery"} \union WORKER_STAGES]
    BY <1>3, SetTaskTyped DEF Sound, Data, RowsTyped, taskVars, TASK_STATES
  <2> QED BY <1>1, <1>3, <2>1, StageData DEF Sound, Data, RowsTyped
<1>4. CASE Throw
  BY <1>4, ThrowKeeps
<1>5. CASE UNCHANGED stage /\ UNCHANGED <<taskVars, owner, kind, lease, attempt, pid, procVars,
                                          opVars, hostVars, loop, cur, tgt, want, seen>>
           /\ held' = Unsettled(W(cur)) /\ pc' = "revise"
  BY <1>2, <1>5, SameData DEF Sound, rowVars
<1> QED BY <1>2, <1>3, <1>4, <1>5 DEF CollectWork, Sound

LEMMA KeepKeeps ==
  ASSUME Sound, KeepStage \/ KeepFinal \/ BrokenFinal \/ BrokenStage
  PROVE  Sound'
<1>1. {"succeeded", "failed"} \subseteq STAGE_STATES /\ {"RUNNING", "CHECKING", "BLOCKED"} \subseteq TASK_STATES
  BY DEF STAGE_STATES, TASK_STATES
<1>2. CASE Skip("keepStage", "keepFinal") \/ Skip("brokenStage", "block")
  BY <1>2, GotoKeeps DEF Skip, LaunchSteps, Steps
<1>3. CASE Settle("keepStage", W(cur), "succeeded", "RUNNING", "keepFinal")
  BY <1>1, <1>3, SettleKeeps DEF LaunchSteps, Steps
<1>4. CASE KeepFinal
  BY <1>1, <1>4, SettleKeeps DEF KeepFinal, LaunchSteps, Steps
<1>5. CASE BrokenFinal
  BY <1>1, <1>5, SettleKeeps DEF BrokenFinal, LaunchSteps, Steps
<1>6. CASE Settle("brokenStage", W(cur), "failed", "BLOCKED", "block")
  BY <1>1, <1>6, SettleKeeps DEF LaunchSteps, Steps
<1> QED BY <1>2, <1>3, <1>4, <1>5, <1>6 DEF KeepStage, BrokenStage

LEMMA ScheduleNextCheckKeeps ==
  ASSUME Sound, ScheduleNextCheck
  PROVE  Sound'
<1>1. tgt \in Tasks /\ C(tgt) \in StageIds /\ TaskOf(C(tgt)) = tgt
  BY Subject, StageIdsOf DEF ScheduleNextCheck, TaskOf, C
<1>2. CASE Goto("pass") /\ UNCHANGED <<taskVars, rowVars, procVars, opVars, hostVars>>
  BY <1>2, GotoKeeps DEF ScheduleNextCheck, Steps, LaunchSteps
<1>3. CASE /\ stage' = [stage EXCEPT ![C(tgt)] = "running"]
           /\ SetTask(tgt, "CHECKING") /\ Goto("pass")
           /\ UNCHANGED <<owner, kind, lease, attempt, pid, procVars, opVars, hostVars>>
  <2>1. Control'
    BY <1>3, GotoControl DEF Sound, ScheduleNextCheck, Steps, LaunchSteps
  <2>2. /\ task' \in [Tasks -> TASK_STATES]
        /\ parked' \in [Tasks -> {"none", "recovery"} \union WORKER_STAGES]
    BY <1>3, SetTaskTyped DEF Sound, Data, TASK_STATES
  <2>3. Data'
    BY <1>1, <1>3, <2>2, StageData DEF Sound, Data, RowsTyped, STAGE_STATES, ACTIVE_STAGE_STATES
  <2> QED BY <2>1, <2>3 DEF Sound
<1> QED BY <1>2, <1>3, ThrowKeeps DEF ScheduleNextCheck

LEMMA CollectCheckKeeps ==
  ASSUME Sound, NEW t \in Tasks, CollectCheck(t)
  PROVE  Sound'
<1>1. CASE /\ Take(t, "decide", None, t, "implement")
           /\ finishStage(C(t), "succeeded", "CHECKING")
           /\ UNCHANGED <<owner, kind, attempt, pid, procVars, opVars, hostVars>>
  <2>1. Control'
    BY <1>1, TakeControl DEF Sound, Data, RowsTyped, Steps, LaunchSteps, WORKER_STAGES
  <2> QED BY <1>1, <2>1, FinishOfPass, StageIdsOf DEF STAGE_STATES, TASK_STATES
<1> QED BY <1>1, ThrowKeeps DEF CollectCheck

LEMMA CheckPendingKeeps ==
  ASSUME Sound, NEW t \in Tasks, CheckPending(t)
  PROVE  Sound'
<1>1. CASE UNCHANGED <<taskVars, rowVars>>
  BY <1>1, DropControl, SameData DEF Sound, CheckPending, rowVars
<1>2. ASSUME NEW outcome \in {"waiting", "unknown"}, finishStage(C(t), outcome, "BLOCKED"),
             UNCHANGED <<owner, kind, attempt, pid>>
      PROVE  Sound'
  <2>1. Control'
    BY <1>2, DropControl DEF Sound, CheckPending
  <2> QED BY <1>2, <2>1, FinishOfPass, StageIdsOf
       DEF CheckPending, STAGE_STATES, ACTIVE_STAGE_STATES, TASK_STATES
<1> QED BY <1>1, <1>2 DEF CheckPending

\* A handler sets the state of its task and goes on at step p.
LEMMA TaskKeeps ==
  ASSUME Sound, pc \notin {"down", "idle", "pass"}, NEW p \in Steps \ {"down", "idle"},
         p \in LaunchSteps => pc \in LaunchSteps, Goto(p),
         task' \in [Tasks -> TASK_STATES],
         parked' \in [Tasks -> {"none", "recovery"} \union WORKER_STAGES],
         UNCHANGED <<rowVars, procVars, opVars, hostVars>>
  PROVE  Sound'
BY GotoControl, TaskData DEF Sound, rowVars

LEMMA EnterKeeps ==
  ASSUME Sound, pc \notin {"down", "idle", "pass"}, NEW k \in WORKER_STAGES,
         NEW to \in TASK_STATES, Enter(k, to)
  PROVE  Sound'
<1>1. CASE /\ SetTask(tgt, to) /\ want' = k /\ pc' = "admit"
           /\ UNCHANGED <<loop, cur, tgt, seen, held>>
           /\ UNCHANGED <<rowVars, procVars, opVars, hostVars>>
  <2>1. Control'
    BY <1>1 DEF Sound, Control, ControllerTyped, Subjects, Lists, loop, rowVars, Steps, LaunchSteps
  <2> QED BY <1>1, <2>1, TaskData, SetTaskTyped DEF Sound, Data
<1> QED BY <1>1, ThrowKeeps DEF Enter

LEMMA LeaveKeeps ==
  ASSUME Sound, pc \notin {"down", "idle", "pass"}, NEW to \in TASK_STATES, Leave(to)
  PROVE  Sound'
<1>1. CASE SetTask(tgt, to) /\ Goto("pass") /\ UNCHANGED <<rowVars, procVars, opVars, hostVars>>
  BY <1>1, TaskKeeps, SetTaskTyped DEF Sound, Data, Steps, LaunchSteps
<1> QED BY <1>1, ThrowKeeps DEF Leave

LEMMA AcceptKeeps ==
  ASSUME Sound, pc \notin {"down", "idle", "pass"}, Accept
  PROVE  Sound'
<1>1. CASE SetTask(tgt, "DONE") /\ Goto("pass") /\ UNCHANGED <<rowVars, procVars, opVars, hostVars>>
  BY <1>1, TaskKeeps, SetTaskTyped DEF Sound, Data, Steps, LaunchSteps, TASK_STATES
<1> QED BY <1>1, ThrowKeeps DEF Accept

LEMMA BlockKeeps ==
  ASSUME Sound, pc \notin {"down", "idle", "pass"}, Block
  PROVE  Sound'
BY GotoKeeps DEF Block, Steps, LaunchSteps

LEMMA DeferKeeps ==
  ASSUME Sound, pc \notin {"down", "idle", "pass"},
         NEW k \in {"recovery"} \union WORKER_STAGES, Defer(k)
  PROVE  Sound'
<1>1. /\ task' \in [Tasks -> TASK_STATES]
      /\ parked' \in [Tasks -> {"none", "recovery"} \union WORKER_STAGES]
  BY DEF Defer, Sound, Data, RowsTyped, taskVars, TASK_STATES
<1> QED BY <1>1, TaskKeeps DEF Defer, Steps, LaunchSteps

LEMMA HandlerKeeps ==
  ASSUME Sound, CompleteChecks \/ ReviewVerdict \/ Rereview \/ HandleFailure
  PROVE  Sound'
<1>1. pc \notin {"down", "idle", "pass"} /\ want \in WORKER_STAGES
  BY DEF CompleteChecks, ReviewVerdict, Rereview, HandleFailure, Sound, Control, ControllerTyped
<1>2. {"implement", "repair", "review"} \subseteq WORKER_STAGES
  BY DEF WORKER_STAGES
<1>3. {"READY", "FAILED", "RUNNING", "REVIEWING"} \subseteq TASK_STATES
  BY DEF TASK_STATES
<1>4. CASE CompleteChecks
  BY <1>1, <1>2, <1>3, <1>4, AcceptKeeps, BlockKeeps, LeaveKeeps, EnterKeeps, DeferKeeps DEF CompleteChecks
<1>5. CASE ReviewVerdict
  BY <1>1, <1>2, <1>3, <1>5, AcceptKeeps, BlockKeeps, LeaveKeeps, EnterKeeps DEF ReviewVerdict
<1>6. CASE Rereview
  BY <1>1, <1>2, <1>3, <1>6, BlockKeeps, EnterKeeps, DeferKeeps, ThrowKeeps DEF Rereview
<1>7. CASE HandleFailure
  BY <1>1, <1>2, <1>3, <1>7, BlockKeeps, LeaveKeeps, EnterKeeps, DeferKeeps, ThrowKeeps DEF HandleFailure
<1> QED BY <1>4, <1>5, <1>6, <1>7
-----------------------------------------------------------------------------
(* The steps of a launch.                                                  *)

LEMMA AdmitKeeps ==
  ASSUME Sound, Admit
  PROVE  Sound'
<1>1. pc \notin {"down", "idle", "pass"} /\ want \in WORKER_STAGES
  BY DEF Admit, Sound, Control, ControllerTyped
<1>2. CASE Goto("reserve") /\ UNCHANGED <<taskVars, rowVars, procVars, opVars, hostVars>>
  BY <1>1, <1>2, GotoKeeps DEF Steps, LaunchSteps
<1> QED BY <1>1, <1>2, BlockKeeps, DeferKeeps, ThrowKeeps DEF Admit

LEMMA ReserveStageKeeps ==
  ASSUME Sound, NEW l \in Launches, ReserveStage(l)
  PROVE  Sound'
<1>1. CASE /\ owner' = [owner EXCEPT ![l] = tgt] /\ kind' = [kind EXCEPT ![l] = want]
           /\ stage' = [stage EXCEPT ![W(l)] = "reserved"]
           /\ SetTask(tgt, taskStateForStage(want))
           /\ cur' = l /\ pc' = "grant" /\ UNCHANGED <<loop, tgt, want, seen, held>>
           /\ UNCHANGED <<lease, attempt, pid, procVars, opVars, hostVars>>
  <2>1. owner[l] = None /\ tgt \in Tasks /\ None \notin Tasks /\ pc = "reserve"
    BY LaunchAssumption, Subject DEF ReserveStage, Fresh
  <2>2. Control'
    BY <1>1, <2>1 DEF Sound, Control, ControllerTyped, Subjects, Lists, loop, Steps, LaunchSteps,
                      Data, RowsTyped
  <2>3. /\ task' \in [Tasks -> TASK_STATES]
        /\ parked' \in [Tasks -> {"none", "recovery"} \union WORKER_STAGES]
    BY <1>1, SetTaskTyped, StateForStage DEF Sound, Data
  <2>4. \A m \in Launches : m # l => stage'[W(m)] = stage[W(m)] /\ stage'[F(m)] = stage[F(m)]
    BY <1>1, StageIdsOf DEF Sound, Data, RowsTyped, W, F
  <2>5. stage' \in [StageIds -> {"none"} \union STAGE_STATES]
    BY <1>1 DEF Sound, Data, RowsTyped, STAGE_STATES, ACTIVE_STAGE_STATES
  <2>6. /\ owner' \in [Launches -> Tasks \union {None}] /\ kind' \in [Launches -> WORKER_STAGES]
        /\ owner'[l] \in Tasks /\ \A m \in Launches : m # l => owner'[m] = owner[m]
    BY <1>1, <2>1 DEF Sound, Data, RowsTyped, Control, ControllerTyped
  <2>7. Data'
    BY <1>1, <2>1, <2>3, <2>4, <2>5, <2>6
    DEF Sound, Data, RowsTyped, WorkersTyped, OperatorTyped, Targets, Blank, procVars, opVars, hostVars
  <2> QED BY <2>2, <2>7 DEF Sound
<1> QED BY <1>1, ThrowKeeps DEF ReserveStage

LEMMA ReserveAdmissionKeeps ==
  ASSUME Sound, ReserveAdmission
  PROVE  Sound'
<1>1. CASE /\ lease' = [lease EXCEPT ![cur] = "reserved"] /\ Goto("activate")
           /\ UNCHANGED <<taskVars, owner, kind, stage, attempt, pid, procVars, opVars, hostVars>>
  <2>1. Control' /\ owner[cur] # None
    BY <1>1, GotoControl, Subject, LaunchAssumption DEF Sound, ReserveAdmission, Steps, LaunchSteps
  <2> QED BY <1>1, <2>1
       DEF Sound, Data, RowsTyped, WorkersTyped, OperatorTyped, Targets, Blank, taskVars, procVars, opVars, hostVars
<1> QED BY <1>1, ThrowKeeps DEF ReserveAdmission

LEMMA ActivateAdmissionKeeps ==
  ASSUME Sound, ActivateAdmission
  PROVE  Sound'
<1>1. CASE /\ lease' = [lease EXCEPT ![cur] = "active"]
           /\ stage' = [stage EXCEPT ![W(cur)] = "launching"] /\ Goto("context")
           /\ UNCHANGED <<taskVars, owner, kind, attempt, pid, procVars, opVars, hostVars>>
  <2>1. Control'
    BY <1>1, GotoControl DEF Sound, ActivateAdmission, Steps, LaunchSteps
  <2>2. cur \in Launches /\ W(cur) \in StageIds /\ TaskOf(W(cur)) \in Tasks /\ owner[cur] # None
    BY Subject, StageIdsOf, LaunchAssumption DEF ActivateAdmission, LaunchSteps, TaskOf, W
  <2>3. /\ lease' \in [Launches -> {"none", "reserved", "active", "released"}]
        /\ \A l \in Launches : owner[l] = None => lease'[l] = lease[l]
    BY <1>1, <2>2 DEF Sound, Data, RowsTyped
  <2>4. Data'
    BY <1>1, <2>2, <2>3, StageData
    DEF Sound, Data, RowsTyped, taskVars, STAGE_STATES, ACTIVE_STAGE_STATES
  <2> QED BY <2>1, <2>4 DEF Sound
<1> QED BY <1>1, ThrowKeeps DEF ActivateAdmission

LEMMA BuildContextKeeps ==
  ASSUME Sound, BuildContext
  PROVE  Sound'
<1>1. CASE pc = "context" /\ Goto("start") /\ UNCHANGED <<taskVars, rowVars, procVars, opVars, hostVars>>
  BY <1>1, GotoKeeps DEF Steps, LaunchSteps
<1>2. ASSUME NEW outcome \in {"failed", "waiting"}, Settle("context", W(cur), outcome, "BLOCKED", "block")
      PROVE  Sound'
  BY <1>2, SettleKeeps DEF Steps, LaunchSteps, STAGE_STATES, ACTIVE_STAGE_STATES, TASK_STATES
<1> QED BY <1>1, <1>2, ThrowKeeps DEF BuildContext

LEMMA StartAttemptKeeps ==
  ASSUME Sound, StartAttempt \/ UnlaunchAttempt
  PROVE  Sound'
<1>1. CASE StartAttempt
  BY <1>1, AttemptKeeps DEF StartAttempt, Steps, LaunchSteps
<1>2. CASE UnlaunchAttempt
  BY <1>2, AttemptKeeps DEF UnlaunchAttempt, finishAttempt, Steps, LaunchSteps
<1> QED BY <1>1, <1>2

LEMMA SpawnKeeps ==
  ASSUME Sound, WriteSpec \/ Spawn
  PROVE  Sound'
<1>1. Control'
  BY GotoControl DEF Sound, WriteSpec, Spawn, Steps, LaunchSteps, rowVars
<1>2. cur \in Launches /\ owner[cur] # None
  BY Subject, LaunchAssumption DEF WriteSpec, Spawn, LaunchSteps
<1> QED BY <1>1, <1>2
     DEF Sound, WriteSpec, Spawn, Data, RowsTyped, WorkersTyped, OperatorTyped, Targets, Blank,
         taskVars, rowVars, opVars, hostVars

LEMMA BindKeeps ==
  ASSUME Sound, SetAttemptProcess \/ RecordLaunchStarted \/ UnlaunchStage
  PROVE  Sound'
<1>1. CASE SetAttemptProcess
  <2>1. Control'
    BY <1>1, GotoControl DEF Sound, SetAttemptProcess, Steps, LaunchSteps
  <2> QED BY <1>1, <2>1
       DEF Sound, SetAttemptProcess, Data, RowsTyped, WorkersTyped, OperatorTyped, Targets, Blank,
           taskVars, procVars, opVars, hostVars
<1>2. CASE RecordLaunchStarted
  <2>1. Control'
    BY <1>2, GotoControl DEF Sound, RecordLaunchStarted, Steps, LaunchSteps
  <2> QED BY <1>2, <2>1, BindData DEF Sound, RecordLaunchStarted, LaunchSteps
<1>3. CASE UnlaunchStage
  BY <1>3, SettleKeeps, StateForStage DEF UnlaunchStage, Steps, LaunchSteps, STAGE_STATES
<1> QED BY <1>1, <1>2, <1>3

\* A task listed by a pass enters launchAttempt for stage k.
LEMMA ResumeKeeps ==
  ASSUME Sound, NEW t \in Tasks, NEW to \in TASK_STATES, NEW k \in WORKER_STAGES,
         SetTask(t, to), Take(t, "admit", None, t, k),
         UNCHANGED <<rowVars, procVars, opVars, hostVars>>
  PROVE  Sound'
<1>1. Control'
  BY TakeControl DEF Sound, Data, RowsTyped, rowVars, Steps, LaunchSteps
<1> QED BY <1>1, TaskData, SetTaskTyped DEF Sound, Data

\* A task is taken off the list, its state perhaps set, and nothing else done.
LEMMA PassOverKeeps ==
  ASSUME Sound, NEW t \in Tasks, NEW to \in TASK_STATES, Drop(t),
         SetTask(t, to) \/ UNCHANGED taskVars,
         UNCHANGED <<rowVars, procVars, opVars, hostVars>>
  PROVE  Sound'
<1>1. Control'
  BY DropControl DEF Sound, rowVars
<1>2. /\ task' \in [Tasks -> TASK_STATES]
      /\ parked' \in [Tasks -> {"none", "recovery"} \union WORKER_STAGES]
  BY SetTaskTyped DEF Sound, Data, RowsTyped, taskVars
<1> QED BY <1>1, <1>2, TaskData DEF Sound

LEMMA ResumeOperationalKeeps ==
  ASSUME Sound, NEW t \in Tasks, ResumeOperational(t)
  PROVE  Sound'
<1>1. "REVIEWING" \in TASK_STATES /\ "CHECKING" \in TASK_STATES /\ "review" \in WORKER_STAGES
  BY DEF TASK_STATES, WORKER_STAGES
<1>2. CASE SetTask(t, "REVIEWING") /\ Take(t, "admit", None, t, "review") /\ UNCHANGED stage
  BY <1>1, <1>2, ResumeKeeps DEF ResumeOperational, rowVars
<1>3. CASE SetTask(t, "CHECKING") /\ Drop(t) /\ stage' = [stage EXCEPT ![C(t)] = "running"]
  <2>1. Control' /\ C(t) \in StageIds /\ TaskOf(C(t)) \in Tasks
    BY <1>3, DropControl, StageIdsOf DEF Sound, ResumeOperational, TaskOf, C
  <2>2. /\ task' \in [Tasks -> TASK_STATES]
        /\ parked' \in [Tasks -> {"none", "recovery"} \union WORKER_STAGES]
    BY <1>1, <1>3, SetTaskTyped DEF Sound, Data
  <2> QED BY <1>3, <2>1, <2>2, StageData
       DEF Sound, ResumeOperational, Data, RowsTyped, STAGE_STATES, ACTIVE_STAGE_STATES
<1> QED BY <1>2, <1>3 DEF ResumeOperational

LEMMA DispatchKeeps ==
  ASSUME Sound, NEW t \in Tasks, Dispatch(t) \/ ResumeParked(t) \/ ResumeReview(t)
  PROVE  Sound'
<1>1. /\ {"RUNNING", "REVIEWING", "BLOCKED"} \subseteq TASK_STATES
      /\ {"implement", "repair", "review"} \subseteq WORKER_STAGES
  BY DEF TASK_STATES, WORKER_STAGES
<1>2. CASE Dispatch(t)
  BY <1>1, <1>2, ResumeKeeps, PassOverKeeps DEF Dispatch
<1>3. CASE ResumeParked(t)
  BY <1>1, <1>3, ResumeKeeps, PassOverKeeps DEF ResumeParked
<1>4. CASE ResumeReview(t)
  BY <1>1, <1>4, ResumeKeeps, PassOverKeeps, ThrowKeeps DEF ResumeReview
<1> QED BY <1>2, <1>3, <1>4
-----------------------------------------------------------------------------
(* The workers, the operator and the crashes.                              *)

\* A step of another process leaves the controller where it is.
LEMMA SameControl ==
  ASSUME Control, UNCHANGED <<ctlVars, owner>>
  PROVE  Control'
BY DEF Control, ControllerTyped, Subjects, Lists, ctlVars

\* The image of a process after its death has a type, and no process stays none.
LEMMA CorpseTyped ==
  ASSUME WorkersTyped, NEW l \in Launches
  PROVE  /\ Corpse(l) \in {"none", "spec", "starting", "working", "vanished", "exited"}
         /\ proc[l] = "none" => Corpse(l) = "none"
BY DEF WorkersTyped, Corpse

LEMMA CrashTyped ==
  ASSUME WorkersTyped, Crash
  PROVE  crashes' \in 0..MaxCrashes /\ procTable' \in BOOLEAN
BY LaunchAssumption DEF WorkersTyped, Crash

LEMMA WorkerKeeps ==
  ASSUME Sound, NEW l \in Launches, WorkerMark(l) \/ WorkerComplete(l) \/ WorkerDie(l)
  PROVE  Sound'
<1>1. Control'
  BY SameControl DEF Sound, WorkerMark, WorkerComplete, WorkerDie, rowVars
<1>2. CASE WorkerMark(l) \/ WorkerComplete(l)
  BY <1>1, <1>2
  DEF Sound, WorkerMark, WorkerComplete, Data, RowsTyped, WorkersTyped, OperatorTyped, Targets,
      Blank, taskVars, rowVars, opVars, hostVars
<1>3. CASE WorkerDie(l)
  <2>1. /\ crashes' \in 0..MaxCrashes /\ procTable' \in BOOLEAN
        /\ proc' \in [Launches -> {"none", "spec", "starting", "working", "vanished", "exited"}]
        /\ \A m \in Launches : proc[m] = "none" => proc'[m] = "none"
    BY <1>3, CrashTyped, CorpseTyped DEF WorkerDie, Sound, Data, WorkersTyped
  <2> QED BY <1>1, <1>3, <2>1
       DEF Sound, WorkerDie, Data, RowsTyped, WorkersTyped, OperatorTyped, Targets, Blank,
           taskVars, rowVars, opVars
<1> QED BY <1>2, <1>3

\* A cancelled or retried task, or a step of the cancelling process that
\* changes nothing but its own locals.
LEMMA OperatorKeeps ==
  ASSUME Sound, OperatorTyped', Targets',
         task' \in [Tasks -> TASK_STATES],
         parked' \in [Tasks -> {"none", "recovery"} \union WORKER_STAGES],
         UNCHANGED <<rowVars, procVars, ctlVars, hostVars>>
  PROVE  Sound'
<1>1. Control'
  BY SameControl DEF Sound, rowVars
<1> QED BY <1>1 DEF Sound, Data, RowsTyped, WorkersTyped, Blank, rowVars, procVars, hostVars

LEMMA OpDoneTyped ==
  ASSUME OpDone
  PROVE  OperatorTyped' /\ Targets'
BY DEF OpDone, OperatorTyped, Targets

LEMMA CancelReadKeeps ==
  ASSUME Sound, NEW t \in Tasks, CancelRead(t)
  PROVE  Sound'
<1>1. UNCHANGED owner /\ UNCHANGED taskVars /\ \A l \in Running(t) : l \in Launches /\ owner[l] = t
  BY DEF CancelRead, rowVars, Running
<1>2. OperatorTyped' /\ Targets'
  BY <1>1 DEF CancelRead, Sound, Data, OperatorTyped, Targets
<1> QED BY <1>1, <1>2, OperatorKeeps DEF CancelRead, Sound, Data, RowsTyped, taskVars

LEMMA CancelKillKeeps ==
  ASSUME Sound, CancelKill
  PROVE  Sound'
<1>1. Control' /\ UNCHANGED owner
  BY SameControl DEF Sound, CancelKill, rowVars
<1>2. oatt \in Launches /\ owner[oatt] \in Tasks
  BY DEF CancelKill, Sound, Data, Targets
<1>3. /\ proc' \in [Launches -> {"none", "spec", "starting", "working", "vanished", "exited"}]
      /\ \A m \in Launches : proc[m] = "none" => proc'[m] = "none"
  BY <1>2, CorpseTyped DEF CancelKill, Sound, Data, WorkersTyped
<1>4. OperatorTyped' /\ Targets'
  BY <1>1, <1>2, OpDoneTyped DEF CancelKill, Sound, Data, OperatorTyped, Targets
<1> QED BY <1>1, <1>3, <1>4
     DEF Sound, CancelKill, Data, RowsTyped, WorkersTyped, Blank, taskVars, rowVars, hostVars

LEMMA CancelAttemptKeeps ==
  ASSUME Sound, CancelAttempt
  PROVE  Sound'
<1>1. Control'
  BY SameControl DEF Sound, CancelAttempt
<1>2. oatt \in Launches /\ owner[oatt] # None
  BY LaunchAssumption DEF CancelAttempt, Sound, Data, Targets
<1> QED BY <1>1, <1>2
     DEF Sound, CancelAttempt, finishAttempt, Data, RowsTyped, WorkersTyped, OperatorTyped, Targets,
         Blank, taskVars, procVars, hostVars

LEMMA CancelListKeeps ==
  ASSUME Sound, CancelList \/ (\E t \in Tasks : retryTask(t)) \/ CancelTask \/ OpCrash
  PROVE  Sound'
<1>1. CASE CancelList
  <2>1. OperatorTyped' /\ Targets'
    BY <1>1 DEF CancelList, Sound, Data, OperatorTyped, Targets
  <2> QED BY <1>1, <2>1, OperatorKeeps DEF CancelList, Sound, Data, RowsTyped, taskVars
<1>2. ASSUME NEW t \in Tasks, retryTask(t)
      PROVE  Sound'
  BY <1>2, TaskData, SameControl, SetTaskTyped
  DEF retryTask, Sound, Data, rowVars, TASK_STATES
<1>3. CASE CancelTask
  <2>1. /\ task' \in [Tasks -> TASK_STATES]
        /\ parked' \in [Tasks -> {"none", "recovery"} \union WORKER_STAGES]
    BY <1>3, SetTaskTyped DEF CancelTask, Sound, Data, RowsTyped, taskVars, TASK_STATES
  <2> QED BY <1>3, <2>1, OperatorKeeps, OpDoneTyped DEF CancelTask
<1>4. CASE OpCrash
  BY <1>4, OperatorKeeps, OpDoneTyped DEF OpCrash, Sound, Data, RowsTyped, taskVars
<1> QED BY <1>1, <1>2, <1>3, <1>4

LEMMA CancelLeaseKeeps ==
  ASSUME Sound, NEW s \in StageIds, CancelLease(s)
  PROVE  Sound'
<1>1. Control'
  BY SameControl DEF Sound, CancelLease
<1>2. /\ lease' \in [Launches -> {"none", "reserved", "active", "released"}]
      /\ \A l \in Launches : lease[l] = "none" => lease'[l] = "none"
  BY ReleaseTyped DEF CancelLease, Sound, Data
<1> QED BY <1>1, <1>2
     DEF Sound, CancelLease, Data, RowsTyped, WorkersTyped, OperatorTyped, Targets, Blank,
         taskVars, procVars, hostVars

LEMMA CancelStageKeeps ==
  ASSUME Sound, CancelStage
  PROVE  Sound'
<1>1. Control'
  BY SameControl DEF Sound, CancelStage
<1>2. CASE ~Active(ostage) /\ OpDone /\ UNCHANGED <<taskVars, stage>>
  BY <1>2, OperatorKeeps, OpDoneTyped DEF CancelStage, Sound, Data, RowsTyped, taskVars, rowVars
<1>3. CASE /\ Active(ostage) /\ stage' = [stage EXCEPT ![ostage] = "cancelled"]
           /\ SetTask(otask, task[otask])
           /\ opc' = "stages" /\ otodo' = otodo \ {ostage} /\ ostage' = NoStage
           /\ UNCHANGED <<otask, oatt>>
  <2>1. OperatorTyped' /\ Targets'
    BY <1>3 DEF Sound, Data, OperatorTyped, Targets
  <2>2. /\ task' \in [Tasks -> TASK_STATES]
        /\ parked' \in [Tasks -> {"none", "recovery"} \union WORKER_STAGES]
    BY <1>3, SetTaskTyped DEF Sound, Data, RowsTyped
  <2>3. stage' \in [StageIds -> {"none"} \union STAGE_STATES]
    BY <1>3 DEF Sound, Data, RowsTyped, STAGE_STATES
  <2>4. \A s \in StageIds : stage[s] = "none" => stage'[s] = "none"
    BY <1>3 DEF Sound, Data, RowsTyped, Active, ACTIVE_STAGE_STATES
  <2> QED BY <1>1, <2>1, <2>2, <2>3, <2>4, StageIdsOf
       DEF CancelStage, Sound, Data, RowsTyped, WorkersTyped, Blank, procVars, hostVars
<1> QED BY <1>2, <1>3 DEF CancelStage

LEMMA FaultKeeps ==
  ASSUME Sound, CtlCrash \/ CtlCrashFinishing \/ HostReboot \/ CtlRestart
  PROVE  Sound'
<1>1. CASE CtlCrash \/ CtlCrashFinishing
  <2>1. Control'
    BY <1>1, RestControl DEF CtlCrash, CtlCrashFinishing
  <2>2. crashes' \in 0..MaxCrashes /\ procTable' \in BOOLEAN
    BY <1>1, CrashTyped DEF CtlCrash, CtlCrashFinishing, Sound, Data
  <2>3. /\ lease' \in [Launches -> {"none", "reserved", "active", "released"}]
        /\ \A l \in Launches : lease[l] = "none" => lease'[l] = "none"
    BY <1>1, ReleaseTyped DEF CtlCrash, CtlCrashFinishing, Sound, Data, RowsTyped, rowVars
  <2> QED BY <1>1, <2>1, <2>2, <2>3
       DEF CtlCrash, CtlCrashFinishing, Sound, Data, RowsTyped, WorkersTyped, OperatorTyped,
           Targets, Blank, taskVars, rowVars, procVars, opVars
<1>2. CASE HostReboot
  <2>1. Control' /\ OperatorTyped' /\ Targets'
    BY <1>2, RestControl, OpDoneTyped DEF HostReboot
  <2>2. /\ crashes' \in 0..MaxCrashes /\ procTable' \in BOOLEAN
        /\ proc' \in [Launches -> {"none", "spec", "starting", "working", "vanished", "exited"}]
        /\ \A m \in Launches : proc[m] = "none" => proc'[m] = "none"
    BY <1>2, CrashTyped, CorpseTyped DEF HostReboot, Sound, Data
  <2> QED BY <1>2, <2>1, <2>2
       DEF HostReboot, Sound, Data, RowsTyped, WorkersTyped, Blank, taskVars, rowVars
<1>3. CASE CtlRestart
  <2>1. Control'
    BY <1>3 DEF CtlRestart, Sound, Control, ControllerTyped, Subjects, Lists, loop, locals,
                rowVars, Steps, LaunchSteps
  <2> QED BY <1>3, <2>1, SameData DEF CtlRestart, Sound
<1> QED BY <1>1, <1>2, <1>3

-----------------------------------------------------------------------------
(* Every reachable state is sound.                                         *)

LEMMA SoundInit ==
  ASSUME Init
  PROVE  Sound
<1>1. Data
  BY LaunchAssumption, StageIdsOf
  DEF Init, Data, RowsTyped, WorkersTyped, OperatorTyped, Targets, Blank, TASK_STATES, WORKER_STAGES
<1>2. Control
  BY DEF Init, Control, ControllerTyped, Subjects, Lists, Steps, Passes, LaunchSteps,
         WORKER_STAGES, TASK_STATES
<1> QED BY <1>1, <1>2 DEF Sound

LEMMA ReconcileKeeps ==
  ASSUME Sound, Reconcile
  PROVE  Sound'
BY ProbeKeeps, VerifyAliveKeeps, AdoptKeeps, VerifyKeeps, VerifyLostKeeps, OrphanWorkerStageKeeps,
   ThrowReleasingKeeps, OrphanFinalizeStageKeeps, StrandedTaskKeeps
DEF Reconcile, OrphanStageThrows

LEMMA CollectKeeps ==
  ASSUME Sound, Collect
  PROVE  Sound'
BY CollectAttemptKeeps, CollectStageKeeps, CollectWorkKeeps, KeepKeeps, ScheduleNextCheckKeeps,
   HandlerKeeps, CollectCheckKeeps, CheckPendingKeeps
DEF Collect

LEMMA LaunchKeeps ==
  ASSUME Sound, Launch
  PROVE  Sound'
BY AdmitKeeps, ReserveAdmissionKeeps, ActivateAdmissionKeeps, BuildContextKeeps, StartAttemptKeeps,
   SpawnKeeps, BindKeeps, ReserveStageKeeps, DispatchKeeps, ResumeOperationalKeeps
DEF Launch

LEMMA SoundStep ==
  ASSUME Sound, [Next]_vars
  PROVE  Sound'
<1>1. CASE Controller
  BY <1>1, BeginTickKeeps, EndPassKeeps, BlockTaskKeeps, ReconcileKeeps, CollectKeeps, LaunchKeeps
  DEF Controller
<1>2. CASE Worker \/ Fault
  BY <1>2, WorkerKeeps, FaultKeeps, CancelListKeeps DEF Worker, Fault
<1>3. CASE CtlRestart \/ \E t \in Tasks : retryTask(t)
  BY <1>3, FaultKeeps, CancelListKeeps
<1>4. CASE Cancel
  BY <1>4, CancelReadKeeps, CancelKillKeeps, CancelAttemptKeeps, CancelListKeeps, CancelLeaseKeeps,
     CancelStageKeeps DEF Cancel
<1>5. CASE UNCHANGED vars
  BY <1>5, SameData, SameControl DEF vars, Sound, rowVars
<1> QED BY <1>1, <1>2, <1>3, <1>4, <1>5 DEF Next, Uncancelled

\* Rows, processes, the controller's locals and the cancelling process's have
\* their types in every behaviour; under it, Sound: a handler works for a
\* launch of its own task, what a pass lists has an owner, and a launch id
\* nobody reserved has neither rows nor a process.
THEOREM TypeCorrect == Spec => []TypeOK
<1>1. Init => Sound
  BY SoundInit
<1>2. Sound /\ [Next]_vars => Sound'
  BY SoundStep
<1>3. Sound => TypeOK
  BY DEF Sound, Data, Control, TypeOK
<1> QED BY <1>1, <1>2, <1>3, PTL DEF Spec

-----------------------------------------------------------------------------
(* How a step may change the stages and the admission leases.              *)

\* A stage is settled together with its lease; a lease alone is released; the
\* finalize or check stage changes; or the worker stage of one launch moves on,
\* or is cancelled, which settles it without its lease.
Releases(s) == UNCHANGED stage /\ releaseStageAdmission(s)

Settles(s) ==
  /\ Active(s) /\ releaseStageAdmission(s)
  /\ \E st \in STAGE_STATES : stage' = [stage EXCEPT ![s] = st]

MovesOther(s) ==
  /\ s \notin {W(l) : l \in Launches} /\ UNCHANGED lease
  /\ \E st \in STAGE_STATES : stage' = [stage EXCEPT ![s] = st]

MovesWorker(l) ==
  /\ stage[W(l)] # "cancelled"
  /\ \E st \in {"reserved", "launching", "running", "cancelled"} :
       stage' = [stage EXCEPT ![W(l)] = st]
  /\ \A m \in Launches : m # l => lease'[m] = lease[m]

Grants(l) == UNCHANGED stage /\ Unsettled(W(l)) /\ lease' = [lease EXCEPT ![l] = "reserved"]

StageMove == \/ UNCHANGED <<stage, lease>>
             \/ \E s \in StageIds : Releases(s) \/ Settles(s) \/ MovesOther(s)
             \/ \E l \in Launches : MovesWorker(l) \/ Grants(l)

LEMMA ThrowMoves ==
  ASSUME NEW s \in StageIds, Throw \/ ThrowReleasing(s)
  PROVE  StageMove
BY DEF Throw, ThrowReleasing, rowVars, StageMove, Releases

LEMMA FinishMoves ==
  ASSUME NEW s \in StageIds, NEW outcome \in STAGE_STATES, NEW to, finishStage(s, outcome, to)
  PROVE  StageMove
BY DEF finishStage, MayFinish, StageMove, Settles

\* W, F and C name different stages.
LEMMA OtherStages ==
  /\ \A l \in Launches : F(l) \notin {W(m) : m \in Launches}
  /\ \A t \in Tasks : C(t) \notin {W(m) : m \in Launches}
BY DEF W, F, C

LEMMA QuietMoves ==
  ASSUME \/ BeginTick \/ EndPass \/ (\E l \in Launches : Probe(l)) \/ VerifyAlive
         \/ VerifyLaunching \/ VerifyAmbiguous \/ VerifyLost
         \/ CollectFailed \/ CollectYield \/ Revise \/ StartAttempt \/ WriteSpec \/ Spawn
         \/ SetAttemptProcess \/ UnlaunchAttempt
         \/ (\E t \in Tasks : Dispatch(t) \/ ResumeParked(t) \/ CancelRead(t) \/ retryTask(t))
         \/ (\E l \in Launches : WorkerMark(l) \/ WorkerComplete(l) \/ WorkerDie(l))
         \/ CancelKill \/ CancelAttempt \/ CancelList \/ CancelTask
         \/ CtlCrash \/ CtlRestart \/ OpCrash \/ HostReboot
  PROVE  UNCHANGED <<stage, lease>>
BY DEF BeginTick, EndPass, Probe, VerifyAlive, VerifyLaunching, VerifyAmbiguous, VerifyLost,
       CollectFailed, CollectYield, Revise, StartAttempt, WriteSpec, Spawn, SetAttemptProcess,
       UnlaunchAttempt, Dispatch, ResumeParked, CancelRead, retryTask, WorkerMark, WorkerComplete,
       WorkerDie, CancelKill, CancelAttempt, CancelList, CancelTask, CtlCrash, CtlRestart, OpCrash,
       HostReboot, rowVars

LEMMA HandlerMoves ==
  ASSUME \/ BlockTask \/ (\E t \in Tasks : StrandedTask(t) \/ ResumeReview(t))
         \/ CompleteChecks \/ ReviewVerdict \/ Rereview \/ HandleFailure \/ Admit
  PROVE  UNCHANGED rowVars
BY DEF BlockTask, StrandedTask, ResumeReview, CompleteChecks, ReviewVerdict, Rereview,
       HandleFailure, Admit, Accept, Block, Leave, Enter, Defer, Throw

LEMMA SettleMoves ==
  ASSUME Sound, \/ FailStage \/ YieldStage \/ StaleStage \/ ReviewStage
                \/ KeepStage \/ KeepFinal \/ BrokenFinal \/ BrokenStage \/ UnlaunchStage
                \/ BuildContext
  PROVE  StageMove
<1>1. W(cur) \in StageIds /\ F(cur) \in StageIds
  BY Subject, StageIdsOf
  DEF FailStage, YieldStage, StaleStage, ReviewStage, SettleStage, KeepStage, KeepFinal, Skip,
      BrokenFinal, BrokenStage, UnlaunchStage, BuildContext, Settle, LaunchSteps
<1>2. {"succeeded", "failed", "waiting"} \subseteq STAGE_STATES
  BY DEF STAGE_STATES, ACTIVE_STAGE_STATES
<1>3. ASSUME NEW at, NEW outcome \in {"succeeded", "failed", "waiting"}, NEW to, NEW next,
             SettleStage(at, outcome, to, next)
      PROVE  StageMove
  BY <1>1, <1>2, <1>3, FinishMoves, ThrowMoves DEF SettleStage, StageMove, rowVars
<1>4. ASSUME NEW at, NEW s \in {W(cur), F(cur)}, NEW outcome \in {"succeeded", "failed", "waiting"},
             NEW to, NEW next, Settle(at, s, outcome, to, next)
      PROVE  StageMove
  BY <1>1, <1>2, <1>4, FinishMoves, ThrowMoves DEF Settle
<1>5. ASSUME NEW at, NEW next, Skip(at, next)
      PROVE  StageMove
  BY <1>5 DEF Skip, StageMove, rowVars
<1>6. CASE FailStage \/ YieldStage \/ StaleStage \/ ReviewStage
  BY <1>3, <1>6 DEF FailStage, YieldStage, StaleStage, ReviewStage
<1>7. CASE KeepStage \/ KeepFinal \/ BrokenFinal \/ BrokenStage \/ UnlaunchStage
  BY <1>4, <1>5, <1>7 DEF KeepStage, KeepFinal, BrokenFinal, BrokenStage, UnlaunchStage
<1>8. CASE BuildContext
  <2>1. CASE UNCHANGED rowVars
    BY <2>1 DEF StageMove, rowVars
  <2>2. CASE Throw
    BY <1>1, <2>2, ThrowMoves
  <2> QED BY <1>4, <1>8, <2>1, <2>2 DEF BuildContext
<1> QED BY <1>6, <1>7, <1>8

LEMMA PassMoves ==
  ASSUME Sound,
         \/ \E l \in Launches : OrphanWorkerStage(l) \/ OrphanStageThrows(l) \/ OrphanFinalizeStage(l)
         \/ \E t \in Tasks : CollectCheck(t) \/ CheckPending(t) \/ ResumeOperational(t)
  PROVE  StageMove
<1>1. {"succeeded", "failed", "cancelled", "unknown", "waiting", "running"} \subseteq STAGE_STATES
  BY DEF STAGE_STATES, ACTIVE_STAGE_STATES
<1>2. ASSUME NEW l \in Launches, OrphanWorkerStage(l)
      PROVE  StageMove
  BY <1>1, <1>2, StageIdsOf, FinishMoves DEF OrphanWorkerStage, AttemptOutcome, StageMove
<1>3. ASSUME NEW l \in Launches, OrphanStageThrows(l)
      PROVE  StageMove
  BY <1>3, StageIdsOf, ThrowMoves DEF OrphanStageThrows
<1>4. ASSUME NEW l \in Launches, OrphanFinalizeStage(l)
      PROVE  StageMove
  <2>1. CASE UNCHANGED rowVars
    BY <2>1 DEF StageMove, rowVars
  <2> QED BY <1>1, <1>4, <2>1, StageIdsOf, FinishMoves, ThrowMoves DEF OrphanFinalizeStage
<1>5. ASSUME NEW t \in Tasks, CollectCheck(t) \/ CheckPending(t)
      PROVE  StageMove
  <2>1. CASE UNCHANGED rowVars
    BY <2>1 DEF StageMove, rowVars
  <2> QED BY <1>1, <1>5, <2>1, StageIdsOf, FinishMoves, ThrowMoves DEF CollectCheck, CheckPending
<1>6. ASSUME NEW t \in Tasks, ResumeOperational(t)
      PROVE  StageMove
  BY <1>1, <1>6, StageIdsOf, OtherStages DEF ResumeOperational, StageMove, MovesOther
<1> QED BY <1>2, <1>3, <1>4, <1>5, <1>6

LEMMA LaunchMoves ==
  ASSUME Sound,
         \/ AdoptLaunchedAttempt \/ RecordLaunchStarted \/ ReserveAdmission \/ ActivateAdmission
         \/ CollectWork \/ ScheduleNextCheck \/ \E l \in Launches : ReserveStage(l)
  PROVE  StageMove
<1>1. "running" \in STAGE_STATES
  BY DEF STAGE_STATES, ACTIVE_STAGE_STATES
<1>2. CASE AdoptLaunchedAttempt \/ RecordLaunchStarted
  <2>1. cur \in Launches
    BY <1>2, Subject DEF AdoptLaunchedAttempt, RecordLaunchStarted, LaunchSteps
  <2> QED BY <1>2, <2>1 DEF AdoptLaunchedAttempt, RecordLaunchStarted, StageMove, MovesWorker
<1>3. CASE ReserveAdmission \/ ActivateAdmission
  <2>1. cur \in Launches /\ W(cur) \in StageIds
    BY <1>3, Subject, StageIdsOf DEF ReserveAdmission, ActivateAdmission, LaunchSteps
  <2>2. CASE Throw
    BY <2>1, <2>2, ThrowMoves
  <2>3. CASE ReserveAdmission /\ ~Throw
    BY <2>1, <2>3 DEF ReserveAdmission, StageMove, Grants, Unsettled
  <2>4. CASE ActivateAdmission /\ ~Throw
    BY <2>1, <2>4 DEF ActivateAdmission, StageMove, MovesWorker, Sound, Data, RowsTyped
  <2> QED BY <1>3, <2>2, <2>3, <2>4
<1>4. CASE CollectWork
  <2>1. cur \in Launches /\ F(cur) \in StageIds
    BY <1>4, Subject, StageIdsOf DEF CollectWork, LaunchSteps
  <2>2. CASE Throw
    BY <2>1, <2>2, ThrowMoves
  <2> QED BY <1>1, <1>4, <2>1, <2>2, OtherStages DEF CollectWork, StageMove, MovesOther
<1>5. CASE ScheduleNextCheck
  <2>1. tgt \in Tasks /\ C(tgt) \in StageIds
    BY <1>5, Subject, StageIdsOf DEF ScheduleNextCheck
  <2>2. CASE Throw
    BY <2>1, <2>2, ThrowMoves
  <2>3. CASE UNCHANGED rowVars
    BY <2>3 DEF StageMove, rowVars
  <2> QED BY <1>1, <1>5, <2>1, <2>2, <2>3, OtherStages DEF ScheduleNextCheck, StageMove, MovesOther
<1>6. ASSUME NEW l \in Launches, ReserveStage(l)
      PROVE  StageMove
  <2>1. CASE Throw
    BY <2>1, ThrowMoves, StageIdsOf
  <2>2. stage[W(l)] = "none"
    BY <1>6 DEF ReserveStage, Fresh, Sound, Data, Blank
  <2> QED BY <1>6, <2>1, <2>2 DEF ReserveStage, StageMove, MovesWorker
<1> QED BY <1>2, <1>3, <1>4, <1>5, <1>6

LEMMA CancelMoves ==
  ASSUME Sound, CancelStage \/ CtlCrashFinishing \/ \E s \in StageIds : CancelLease(s)
  PROVE  StageMove
<1>1. CASE CtlCrashFinishing
  BY <1>1, Subject, StageIdsOf DEF CtlCrashFinishing, LaunchSteps, StageMove, Releases
<1>2. CASE \E s \in StageIds : CancelLease(s)
  BY <1>2 DEF CancelLease, StageMove, Releases
<1>3. CASE CancelStage
  <2>1. CASE UNCHANGED stage
    BY <1>3, <2>1 DEF CancelStage, StageMove
  <2>2. CASE stage' = [stage EXCEPT ![ostage] = "cancelled"] /\ Active(ostage)
    <3>1. ostage \in StageIds
      BY <1>3 DEF CancelStage, Sound, Data, Targets
    <3>2. CASE \E l \in Launches : ostage = W(l)
      BY <1>3, <2>2, <3>2 DEF CancelStage, StageMove, MovesWorker, Active, ACTIVE_STAGE_STATES
    <3>3. CASE ~\E l \in Launches : ostage = W(l)
      BY <1>3, <2>2, <3>1, <3>3 DEF CancelStage, StageMove, MovesOther, STAGE_STATES
    <3> QED BY <3>2, <3>3
  <2> QED BY <1>3, <2>1, <2>2 DEF CancelStage
<1> QED BY <1>1, <1>2, <1>3

LEMMA StageMoves ==
  ASSUME Sound, [Next]_vars
  PROVE  StageMove
<1>1. UNCHANGED <<stage, lease>> \/ UNCHANGED rowVars => StageMove
  BY DEF StageMove, rowVars
<1>2. CASE Reconcile
  BY <1>1, <1>2, QuietMoves, HandlerMoves, PassMoves, LaunchMoves DEF Reconcile
<1>3. CASE Collect
  BY <1>1, <1>3, QuietMoves, HandlerMoves, SettleMoves, PassMoves, LaunchMoves DEF Collect
<1>4. CASE Launch
  BY <1>1, <1>4, QuietMoves, HandlerMoves, SettleMoves, PassMoves, LaunchMoves DEF Launch
<1>5. CASE BeginTick \/ EndPass \/ BlockTask
  BY <1>1, <1>5, QuietMoves, HandlerMoves
<1>6. CASE Worker \/ Fault \/ CtlRestart
  BY <1>1, <1>6, QuietMoves, CancelMoves DEF Worker, Fault
<1>7. CASE Cancel \/ \E t \in Tasks : retryTask(t)
  BY <1>1, <1>7, QuietMoves, CancelMoves DEF Cancel
<1>8. CASE UNCHANGED vars
  BY <1>1, <1>8 DEF vars
<1> QED BY <1>2, <1>3, <1>4, <1>5, <1>6, <1>7, <1>8 DEF Next, Uncancelled, Controller

\* Only the worker stage of the launch itself moves; a cancelled one never does.
LEMMA CancelledStays ==
  ASSUME Sound, StageMove, NEW l \in Launches
  PROVE  stage[W(l)] = "cancelled" => stage'[W(l)] = "cancelled"
<1>1. W(l) \in StageIds /\ \A m \in Launches : m # l => W(m) # W(l)
  BY StageIdsOf DEF W
<1> QED BY <1>1
     DEF StageMove, Releases, Settles, MovesOther, MovesWorker, Grants, Sound, Data, RowsTyped,
         Active, ACTIVE_STAGE_STATES

LEMMA LeaseReturnedStep ==
  ASSUME Sound, LeaseReturned, StageMove
  PROVE  LeaseReturned'
<1> SUFFICES ASSUME NEW l \in Launches, lease'[l] \in {"reserved", "active"}
             PROVE  stage'[W(l)] \in {"reserved", "launching", "running", "cancelled"}
  BY DEF LeaseReturned, Unsettled
<1>1. W(l) \in StageIds /\ \A m \in Launches : m # l => W(m) # W(l)
  BY StageIdsOf DEF W
<1>2. lease \in [Launches -> {"none", "reserved", "active", "released"}] /\ stage \in [StageIds -> {"none"} \union STAGE_STATES]
  BY DEF Sound, Data, RowsTyped
<1>3. lease[l] \in {"reserved", "active"} => stage[W(l)] \in {"reserved", "launching", "running", "cancelled"}
  BY DEF LeaseReturned, Unsettled
<1>4. ASSUME NEW s, releaseStageAdmission(s)
      PROVE  lease'[l] = lease[l] /\ s # W(l)
  BY <1>4 DEF releaseStageAdmission
<1>5. ASSUME NEW s \in StageIds, Releases(s) \/ Settles(s) \/ MovesOther(s)
      PROVE  stage'[W(l)] \in {"reserved", "launching", "running", "cancelled"}
  <2>1. stage'[W(l)] = stage[W(l)] /\ lease'[l] = lease[l]
    BY <1>1, <1>2, <1>4, <1>5 DEF Releases, Settles, MovesOther
  <2> QED BY <1>3, <2>1
<1>6. ASSUME NEW m \in Launches, MovesWorker(m)
      PROVE  stage'[W(l)] \in {"reserved", "launching", "running", "cancelled"}
  <2>1. CASE m = l
    BY <1>1, <1>2, <1>6, <2>1 DEF MovesWorker
  <2>2. CASE m # l
    BY <1>1, <1>2, <1>3, <1>6, <2>2 DEF MovesWorker
  <2> QED BY <2>1, <2>2
<1>7. ASSUME NEW m \in Launches, Grants(m)
      PROVE  stage'[W(l)] \in {"reserved", "launching", "running", "cancelled"}
  BY <1>2, <1>3, <1>7 DEF Grants, Unsettled
<1>8. CASE UNCHANGED <<stage, lease>>
  BY <1>3, <1>8
<1> QED BY <1>5, <1>6, <1>7, <1>8 DEF StageMove

\* An admission lease is held by an unsettled stage or by a cancelled one, with
\* any interleaving of the controller, its crashes and the cancellations: every
\* other way to settle a worker stage has released its lease by then.
THEOREM LeasesReturn == Spec => []LeaseReturned
<1>1. Init => Sound /\ LeaseReturned
  BY SoundInit DEF Init, LeaseReturned
<1>2. Sound /\ LeaseReturned /\ [Next]_vars => Sound' /\ LeaseReturned'
  BY SoundStep, StageMoves, LeaseReturnedStep
<1> QED BY <1>1, <1>2, PTL DEF Spec

-----------------------------------------------------------------------------
(* No worker is lost.                                                      *)

\* The steps at which the controller relies on the worker of the launch in cur.
WorkerSteps == { "collect", "revise", "grant", "activate", "context", "start", "spec",
                 "spawn", "setpid", "bind", "unlaunch" }

\* The completion envelope is the worker's last act, and what is collected has one.
ResultLeft == /\ \A l \in Launches : result[l] # "none" => proc[l] = "exited"
              /\ pc \in {"collect", "revise"} => result[cur] # "none"

\* From its admission to its binding a launch has exactly the process that its
\* steps made, and only a cancellation takes its stage or its attempt away; it
\* is undone when no process runs or the stage was cancelled.
Launching ==
  /\ pc \in {"grant", "activate", "context", "start", "spec"} => proc[cur] = "none"
  /\ pc = "spawn" => proc[cur] = "spec"
  /\ pc \in {"context", "start", "spec", "spawn", "setpid", "bind"} =>
       stage[W(cur)] \in {"launching", "cancelled"}
  /\ pc \in {"spec", "spawn", "setpid", "bind"} => attempt[cur] \in {"running", "cancelled"}
  /\ pc = "unlaunch" => ~Alive(cur) \/ stage[W(cur)] = "cancelled"

Watched == NoWorkerLost /\ ResultLeft /\ Launching

\* A step of the controller that leaves the workers alone and does not come to
\* rely on one.
LEMMA AwayKeeps ==
  ASSUME Sound, Watched, StageMove, pc' \notin WorkerSteps, UNCHANGED <<procVars, attempt>>
  PROVE  Watched'
<1>1. \A l \in Launches : stage[W(l)] = "cancelled" => stage'[W(l)] = "cancelled"
  BY CancelledStays
<1>2. NoWorkerLost'
  BY <1>1 DEF Watched, NoWorkerLost, Alive, procVars
<1> QED BY <1>2 DEF Watched, ResultLeft, Launching, WorkerSteps, procVars

\* A step of another process: the stage of the launch in cur may be cancelled.
LEMMA BesideKeeps ==
  ASSUME Sound, Watched, StageMove, UNCHANGED ctlVars, UNCHANGED <<procVars, attempt>>,
         \A l \in Launches : stage'[W(l)] \in {stage[W(l)], "cancelled"}
  PROVE  Watched'
<1>1. pc \in WorkerSteps => cur \in Launches
  BY Subject DEF WorkerSteps, LaunchSteps
<1>2. \A l \in Launches : stage[W(l)] = "cancelled" => stage'[W(l)] = "cancelled"
  BY CancelledStays
<1>3. NoWorkerLost'
  BY <1>2 DEF Watched, NoWorkerLost, Alive, procVars
<1>4. ResultLeft'
  BY DEF Watched, ResultLeft, procVars, ctlVars
<1>5. Launching'
  BY <1>1, <1>2 DEF Watched, Launching, Alive, procVars, ctlVars, WorkerSteps
<1> QED BY <1>3, <1>4, <1>5 DEF Watched

LEMMA PassesAway ==
  ASSUME Sound,
         \/ BeginTick \/ EndPass \/ BlockTask
         \/ VerifyAlive \/ AdoptLaunchedAttempt \/ VerifyLaunching \/ VerifyAmbiguous
         \/ \E l \in Launches : OrphanWorkerStage(l) \/ OrphanStageThrows(l) \/ OrphanFinalizeStage(l)
         \/ \E t \in Tasks : \/ StrandedTask(t) \/ CollectCheck(t) \/ CheckPending(t)
                             \/ Dispatch(t) \/ ResumeOperational(t) \/ ResumeParked(t) \/ ResumeReview(t)
  PROVE  pc' \notin WorkerSteps /\ UNCHANGED <<procVars, attempt>>
<1>1. ASSUME NEW p, NEW x, NEW l, NEW t, NEW k, Take(x, p, l, t, k)
      PROVE  pc' = p
  BY <1>1 DEF Take
<1>2. ASSUME NEW p, Goto(p)
      PROVE  pc' = p
  BY <1>2 DEF Goto
<1>3. ASSUME NEW s, Throw \/ ThrowReleasing(s)
      PROVE  pc' \in {"pass", "idle"} /\ UNCHANGED <<procVars, attempt>>
  BY <1>3 DEF Throw, ThrowReleasing, Unwind, Rest, rowVars
<1>4. CASE BeginTick \/ EndPass \/ BlockTask
  BY <1>2, <1>3, <1>4 DEF BeginTick, EndPass, BlockTask, Rest, rowVars, WorkerSteps
<1>5. CASE VerifyAlive \/ AdoptLaunchedAttempt \/ VerifyLaunching \/ VerifyAmbiguous
  BY <1>2, <1>5
  DEF VerifyAlive, AdoptLaunchedAttempt, VerifyLaunching, VerifyAmbiguous, rowVars, WorkerSteps
<1>6. ASSUME NEW l \in Launches, OrphanWorkerStage(l) \/ OrphanStageThrows(l) \/ OrphanFinalizeStage(l)
      PROVE  pc' \notin WorkerSteps /\ UNCHANGED <<procVars, attempt>>
  BY <1>1, <1>3, <1>6
  DEF OrphanWorkerStage, OrphanStageThrows, OrphanFinalizeStage, Drop, rowVars, WorkerSteps
<1>7. ASSUME NEW t \in Tasks, StrandedTask(t) \/ CollectCheck(t) \/ CheckPending(t)
      PROVE  pc' \notin WorkerSteps /\ UNCHANGED <<procVars, attempt>>
  BY <1>1, <1>3, <1>7 DEF StrandedTask, CollectCheck, CheckPending, Drop, rowVars, WorkerSteps
<1>8. ASSUME NEW t \in Tasks, Dispatch(t) \/ ResumeOperational(t) \/ ResumeParked(t) \/ ResumeReview(t)
      PROVE  pc' \notin WorkerSteps /\ UNCHANGED <<procVars, attempt>>
  BY <1>1, <1>3, <1>8
  DEF Dispatch, ResumeOperational, ResumeParked, ResumeReview, Drop, rowVars, WorkerSteps
<1> QED BY <1>4, <1>5, <1>6, <1>7, <1>8

LEMMA HandlersAway ==
  ASSUME Sound,
         \/ FailStage \/ YieldStage \/ StaleStage \/ ReviewStage
         \/ KeepStage \/ KeepFinal \/ BrokenFinal \/ BrokenStage \/ ScheduleNextCheck
         \/ CompleteChecks \/ ReviewVerdict \/ Rereview \/ HandleFailure \/ Admit \/ UnlaunchStage
  PROVE  pc' \notin WorkerSteps /\ UNCHANGED <<procVars, attempt>>
<1>1. ASSUME NEW p, Goto(p)
      PROVE  pc' = p
  BY <1>1 DEF Goto
<1>2. ASSUME NEW s, Throw \/ ThrowReleasing(s)
      PROVE  pc' \in {"pass", "idle"} /\ UNCHANGED <<procVars, attempt>>
  BY <1>2 DEF Throw, ThrowReleasing, Unwind, Rest, rowVars
<1>3. ASSUME NEW at, NEW outcome, NEW to, NEW next, NEW s,
             SettleStage(at, outcome, to, next) \/ Settle(at, s, outcome, to, next) \/ Skip(at, next)
      PROVE  pc' \in {next, "pass", "idle"} /\ UNCHANGED <<procVars, attempt>>
  BY <1>1, <1>2, <1>3 DEF SettleStage, Settle, Skip, rowVars
<1>4. CASE FailStage \/ YieldStage \/ StaleStage \/ ReviewStage
  BY <1>3, <1>4 DEF FailStage, YieldStage, StaleStage, ReviewStage, WorkerSteps
<1>5. CASE KeepStage \/ KeepFinal \/ BrokenFinal \/ BrokenStage \/ UnlaunchStage
  BY <1>3, <1>5 DEF KeepStage, KeepFinal, BrokenFinal, BrokenStage, UnlaunchStage, WorkerSteps
<1>6. CASE ScheduleNextCheck
  BY <1>1, <1>2, <1>6 DEF ScheduleNextCheck, rowVars, WorkerSteps
<1>7. CASE CompleteChecks \/ ReviewVerdict \/ Rereview \/ HandleFailure \/ Admit
  BY <1>1, <1>2, <1>7
  DEF CompleteChecks, ReviewVerdict, Rereview, HandleFailure, Admit, Accept, Block, Leave, Enter,
      Defer, rowVars, WorkerSteps
<1> QED BY <1>4, <1>5, <1>6, <1>7

\* The attempt of the launch in cur ends while its worker is not alive, or its
\* stage was cancelled, and the controller moves on.
LEMMA EndsKeeps ==
  ASSUME Sound, Watched, pc \in LaunchSteps, ~Alive(cur) \/ stage[W(cur)] = "cancelled",
         NEW outcome, attempt' = [attempt EXCEPT ![cur] = outcome],
         pc' \notin WorkerSteps, UNCHANGED <<stage, procVars>>
  PROVE  Watched'
<1>1. cur \in Launches
  BY Subject
<1>2. NoWorkerLost'
  BY <1>1 DEF Watched, NoWorkerLost, Alive, procVars, Sound, Data, RowsTyped
<1> QED BY <1>2 DEF Watched, ResultLeft, Launching, WorkerSteps, procVars

LEMMA CollectedKeeps ==
  ASSUME Sound, Watched, StageMove,
         \/ \E l \in Launches : Probe(l)
         \/ VerifyLost \/ CollectFailed \/ CollectYield \/ CollectWork \/ Revise \/ UnlaunchAttempt
  PROVE  Watched'
<1>1. ASSUME NEW l \in Launches, Probe(l)
      PROVE  Watched'
  <2>1. /\ cur' = l /\ UNCHANGED <<procVars, rowVars>>
        /\ pc' \in {"collect", "verify"} /\ (pc' = "collect" => result[l] # "none")
    BY <1>1 DEF Probe, Take
  <2> QED BY <2>1 DEF Watched, NoWorkerLost, ResultLeft, Launching, Alive, procVars, rowVars
<1>2. CASE VerifyLost
  <2>1. ~Alive(cur)
    BY <1>2 DEF VerifyLost, Verdict, Located, Marked, Alive
  <2>2. pc' \notin WorkerSteps /\ pc \in LaunchSteps
    BY <1>2 DEF VerifyLost, Goto, WorkerSteps, LaunchSteps
  <2> QED BY <1>2, <2>1, <2>2, EndsKeeps DEF VerifyLost, finishAttempt
<1>3. CASE CollectFailed \/ CollectYield \/ Revise
  <2>1. pc' \notin WorkerSteps /\ pc \in {"collect", "revise"} /\ pc \in LaunchSteps
    BY <1>3 DEF CollectFailed, CollectYield, Revise, Goto, WorkerSteps, LaunchSteps
  <2>2. ~Alive(cur)
    BY <2>1, Subject DEF Watched, ResultLeft, Alive
  <2> QED BY <1>3, <2>1, <2>2, EndsKeeps DEF CollectFailed, CollectYield, Revise, finishAttempt
<1>4. CASE UnlaunchAttempt
  <2>1. pc = "unlaunch" /\ pc' \notin WorkerSteps /\ pc \in LaunchSteps
    BY <1>4 DEF UnlaunchAttempt, Goto, WorkerSteps, LaunchSteps
  <2> QED BY <1>4, <2>1, EndsKeeps DEF UnlaunchAttempt, finishAttempt, Watched, Launching
<1>5. CASE CollectWork
  <2>1. CASE Throw
    BY <2>1, AwayKeeps DEF Throw, Unwind, Rest, rowVars, WorkerSteps
  <2>2. CASE ~Throw
    <3>1. /\ pc' = "revise" /\ cur' = cur /\ UNCHANGED <<procVars, attempt>>
          /\ result[cur] # "none"
      BY <1>5, <2>2 DEF CollectWork
    <3>2. \A l \in Launches : stage[W(l)] = "cancelled" => stage'[W(l)] = "cancelled"
      BY CancelledStays
    <3>3. NoWorkerLost'
      BY <3>1, <3>2 DEF Watched, NoWorkerLost, Alive, procVars
    <3> QED BY <3>1, <3>3 DEF Watched, ResultLeft, Launching, procVars
  <2> QED BY <2>1, <2>2
<1> QED BY <1>1, <1>2, <1>3, <1>4, <1>5

\* The steps of a launch before it has an attempt.
LEMMA AdmittedKeeps ==
  ASSUME Sound, Watched, StageMove,
         \/ ReserveAdmission \/ ActivateAdmission \/ BuildContext
         \/ \E l \in Launches : ReserveStage(l)
  PROVE  Watched'
<1>1. CASE pc' \notin WorkerSteps /\ UNCHANGED <<procVars, attempt>>
  BY <1>1, AwayKeeps
<1>2. ASSUME NEW s, Throw \/ ThrowReleasing(s)
      PROVE  pc' \notin WorkerSteps /\ UNCHANGED <<procVars, attempt>>
  BY <1>2 DEF Throw, ThrowReleasing, Unwind, Rest, rowVars, WorkerSteps
<1>3. \A l \in Launches : stage[W(l)] = "cancelled" => stage'[W(l)] = "cancelled"
  BY CancelledStays
<1>4. CASE ReserveAdmission /\ ~Throw
  <2>1. pc = "grant" /\ pc' = "activate" /\ cur' = cur /\ UNCHANGED <<procVars, attempt, stage>>
    BY <1>4 DEF ReserveAdmission, Goto, locals
  <2> QED BY <2>1 DEF Watched, NoWorkerLost, ResultLeft, Launching, Alive, procVars
<1>5. CASE ActivateAdmission /\ ~Throw
  <2>1. /\ pc = "activate" /\ pc' = "context" /\ cur' = cur /\ UNCHANGED <<procVars, attempt>>
        /\ stage' = [stage EXCEPT ![W(cur)] = "launching"]
    BY <1>5 DEF ActivateAdmission, Goto, locals
  <2>2. stage'[W(cur)] = "launching"
    BY <2>1, Subject, StageIdsOf DEF LaunchSteps, Sound, Data, RowsTyped
  <2>3. NoWorkerLost'
    BY <1>3, <2>1 DEF Watched, NoWorkerLost, Alive, procVars
  <2> QED BY <2>1, <2>2, <2>3 DEF Watched, ResultLeft, Launching, procVars
<1>6. CASE BuildContext
  <2>1. CASE pc = "context" /\ Goto("start") /\ UNCHANGED <<taskVars, rowVars, procVars, opVars, hostVars>>
    <3>1. pc' = "start" /\ cur' = cur
      BY <2>1 DEF Goto, locals
    <3> QED BY <2>1, <3>1
         DEF Watched, NoWorkerLost, ResultLeft, Launching, Alive, procVars, rowVars
  <2>2. ASSUME NEW outcome, Settle("context", W(cur), outcome, "BLOCKED", "block")
        PROVE  pc' \notin WorkerSteps /\ UNCHANGED <<procVars, attempt>>
    BY <1>2, <2>2 DEF Settle, Goto, WorkerSteps
  <2> QED BY <1>1, <1>2, <1>6, <2>1, <2>2 DEF BuildContext
<1>7. ASSUME NEW l \in Launches, ReserveStage(l), ~Throw
      PROVE  Watched'
  <2>1. proc[l] = "none"
    BY <1>7 DEF ReserveStage, Fresh, Sound, Data, Blank
  <2>2. pc' = "grant" /\ cur' = l /\ UNCHANGED <<procVars, attempt>>
    BY <1>7 DEF ReserveStage
  <2>3. NoWorkerLost'
    BY <1>3, <2>2 DEF Watched, NoWorkerLost, Alive, procVars
  <2> QED BY <2>1, <2>2, <2>3 DEF Watched, ResultLeft, Launching, procVars
<1> QED BY <1>1, <1>2, <1>4, <1>5, <1>6, <1>7

\* The steps that give a launch its attempt, its process and its binding.
LEMMA LaunchedKeeps ==
  ASSUME Sound, Watched, StageMove,
         StartAttempt \/ WriteSpec \/ Spawn \/ SetAttemptProcess \/ RecordLaunchStarted
  PROVE  Watched'
<1>1. cur \in Launches
  BY Subject
  DEF StartAttempt, WriteSpec, Spawn, SetAttemptProcess, RecordLaunchStarted, LaunchSteps
<1>2. /\ proc \in [Launches -> {"none", "spec", "starting", "working", "vanished", "exited"}]
      /\ attempt \in [Launches -> {"none", "running", "succeeded", "failed", "cancelled"}]
  BY DEF Sound, Data, RowsTyped, WorkersTyped
<1>3. ASSUME NEW p, p # "pass", Goto(p)
      PROVE  pc' = p /\ cur' = cur
  BY <1>3 DEF Goto, locals
<1>4. CASE StartAttempt
  <2>1. pc = "start" /\ pc' = "spec" /\ cur' = cur
    BY <1>3, <1>4 DEF StartAttempt
  <2> QED BY <1>1, <1>2, <1>4, <2>1
       DEF StartAttempt, Watched, NoWorkerLost, ResultLeft, Launching, Alive, procVars
<1>5. CASE WriteSpec
  <2>1. /\ pc = "spec" /\ cur' = cur /\ UNCHANGED <<stage, attempt, result>>
        /\ \/ pc' = "spawn" /\ proc' = [proc EXCEPT ![cur] = "spec"]
           \/ pc' = "unlaunch" /\ proc' = proc
    BY <1>3, <1>5 DEF WriteSpec, rowVars
  <2> QED BY <1>1, <1>2, <2>1 DEF Watched, NoWorkerLost, ResultLeft, Launching, Alive
<1>6. CASE Spawn
  <2>1. /\ pc = "spawn" /\ cur' = cur /\ UNCHANGED <<stage, attempt, result>>
        /\ \/ pc' = "setpid" /\ proc' = [proc EXCEPT ![cur] = "starting"]
           \/ pc' = "unlaunch" /\ proc' = proc
    BY <1>3, <1>6 DEF Spawn, rowVars
  <2> QED BY <1>1, <1>2, <2>1 DEF Watched, NoWorkerLost, ResultLeft, Launching, Alive
<1>7. CASE SetAttemptProcess
  <2>1. pc = "setpid" /\ pc' = "bind" /\ cur' = cur /\ UNCHANGED <<stage, attempt, procVars>>
    BY <1>3, <1>7 DEF SetAttemptProcess
  <2> QED BY <2>1 DEF Watched, NoWorkerLost, ResultLeft, Launching, Alive, procVars
<1>8. CASE RecordLaunchStarted
  <2>1. CASE Goto("pass")
    BY <1>8, <2>1, AwayKeeps DEF RecordLaunchStarted, Goto, WorkerSteps
  <2>2. CASE Goto("unlaunch") /\ stage[W(cur)] \notin {"reserved", "launching"} /\ UNCHANGED stage
    <3>1. pc' = "unlaunch" /\ cur' = cur /\ stage[W(cur)] = "cancelled" /\ UNCHANGED <<attempt, procVars>>
      BY <1>3, <1>8, <2>2 DEF RecordLaunchStarted, Watched, Launching
    <3> QED BY <2>2, <3>1 DEF Watched, NoWorkerLost, ResultLeft, Launching, Alive, procVars
  <2> QED BY <1>8, <2>1, <2>2 DEF RecordLaunchStarted
<1> QED BY <1>4, <1>5, <1>6, <1>7, <1>8

\* Processes end, and the rows stay: the death of one worker, of the host, or
\* at the operator's hand.
LEMMA DeathKeeps ==
  ASSUME Sound, Watched, UNCHANGED <<attempt, stage, result>>,
         \A l \in Launches : proc'[l] \in {proc[l], Corpse(l)},
         UNCHANGED ctlVars \/ pc' \notin WorkerSteps
  PROVE  Watched'
<1>1. \A l \in Launches : /\ Alive(l)' => Alive(l)
                          /\ proc[l] \in {"none", "spec", "exited"} => proc'[l] = proc[l]
  BY DEF Corpse, Alive
<1>2. pc \in WorkerSteps => cur \in Launches
  BY Subject DEF WorkerSteps, LaunchSteps
<1>3. NoWorkerLost'
  BY <1>1 DEF Watched, NoWorkerLost
<1>4. ResultLeft' /\ Launching'
  BY <1>1, <1>2 DEF Watched, ResultLeft, Launching, ctlVars, WorkerSteps
<1> QED BY <1>3, <1>4 DEF Watched

LEMMA WorkerWatched ==
  ASSUME Sound, Watched, NEW l \in Launches, WorkerMark(l) \/ WorkerComplete(l)
  PROVE  Watched'
<1>1. /\ proc \in [Launches -> {"none", "spec", "starting", "working", "vanished", "exited"}]
      /\ result \in [Launches -> {"none", "succeeded", "blocked", "failed"}]
  BY DEF Sound, Data, WorkersTyped
<1>2. pc \in WorkerSteps => cur \in Launches
  BY Subject DEF WorkerSteps, LaunchSteps
<1>3. UNCHANGED <<stage, attempt, pc, cur>>
  BY DEF WorkerMark, WorkerComplete, rowVars, ctlVars
<1>4. CASE WorkerMark(l)
  <2>1. proc[l] = "starting" /\ proc' = [proc EXCEPT ![l] = "working"] /\ UNCHANGED result
    BY <1>4 DEF WorkerMark
  <2> QED BY <1>1, <1>2, <1>3, <2>1
       DEF Watched, NoWorkerLost, ResultLeft, Launching, Alive, WorkerSteps
<1>5. CASE WorkerComplete(l)
  <2>1. PICK r \in {"succeeded", "blocked", "failed"} :
          /\ proc[l] = "working" /\ proc' = [proc EXCEPT ![l] = "exited"]
          /\ result' = [result EXCEPT ![l] = r]
    BY <1>5 DEF WorkerComplete
  <2>2. NoWorkerLost'
    BY <1>1, <1>3, <2>1 DEF Watched, NoWorkerLost, Alive
  <2>3. ResultLeft'
    BY <1>1, <1>2, <1>3, <2>1 DEF Watched, ResultLeft, WorkerSteps
  <2>4. Launching'
    BY <1>1, <1>2, <1>3, <2>1 DEF Watched, Launching, Alive, WorkerSteps
  <2> QED BY <2>2, <2>3, <2>4 DEF Watched
<1> QED BY <1>4, <1>5

LEMMA CancelWatched ==
  ASSUME Sound, Watched, StageMove, Cancel \/ OpCrash \/ \E t \in Tasks : retryTask(t)
  PROVE  Watched'
<1>1. CASE \/ \E t \in Tasks : CancelRead(t) \/ retryTask(t)
           \/ CancelList \/ CancelTask \/ OpCrash \/ \E s \in StageIds : CancelLease(s)
  <2>1. UNCHANGED <<procVars, attempt, stage>> /\ UNCHANGED ctlVars
    BY <1>1 DEF CancelRead, retryTask, CancelList, CancelTask, OpCrash, CancelLease, rowVars
  <2> QED BY <2>1, BesideKeeps
<1>2. CASE CancelStage
  <2>1. UNCHANGED <<procVars, attempt>> /\ UNCHANGED ctlVars
    BY <1>2 DEF CancelStage
  <2>2. stage' = [stage EXCEPT ![ostage] = "cancelled"] \/ UNCHANGED stage
    BY <1>2 DEF CancelStage
  <2>3. \A l \in Launches : stage'[W(l)] \in {stage[W(l)], "cancelled"}
    BY <2>2, StageIdsOf DEF Sound, Data, RowsTyped
  <2> QED BY <2>1, <2>3, BesideKeeps
<1>3. CASE CancelKill
  <2>1. /\ UNCHANGED <<attempt, stage, result>> /\ UNCHANGED ctlVars
        /\ proc' = [proc EXCEPT ![oatt] = Corpse(oatt)] \/ proc' = proc
    BY <1>3 DEF CancelKill, rowVars
  <2>2. \A l \in Launches : proc'[l] \in {proc[l], Corpse(l)}
    BY <2>1 DEF Sound, Data, WorkersTyped
  <2> QED BY <2>1, <2>2, DeathKeeps
<1>4. CASE CancelAttempt
  <2>1. /\ attempt' = [attempt EXCEPT ![oatt] = "cancelled"] /\ oatt \in Launches
        /\ UNCHANGED <<stage, procVars>> /\ UNCHANGED ctlVars
    BY <1>4 DEF CancelAttempt, finishAttempt, Sound, Data, Targets
  <2>2. attempt'[oatt] = "cancelled" /\ \A l \in Launches : l # oatt => attempt'[l] = attempt[l]
    BY <2>1 DEF Sound, Data, RowsTyped
  <2>3. pc \in WorkerSteps => cur \in Launches
    BY Subject DEF WorkerSteps, LaunchSteps
  <2> QED BY <2>1, <2>2, <2>3
       DEF Watched, NoWorkerLost, ResultLeft, Launching, Alive, procVars, ctlVars, WorkerSteps
<1> QED BY <1>1, <1>2, <1>3, <1>4 DEF Cancel

LEMMA FaultWatched ==
  ASSUME Sound, Watched, StageMove,
         \/ CtlCrash \/ CtlCrashFinishing \/ CtlRestart \/ HostReboot
         \/ \E l \in Launches : WorkerDie(l)
  PROVE  Watched'
<1>1. CASE CtlCrash \/ CtlCrashFinishing \/ CtlRestart
  BY <1>1, AwayKeeps DEF CtlCrash, CtlCrashFinishing, CtlRestart, Rest, rowVars, WorkerSteps
<1>2. CASE HostReboot
  BY <1>2, DeathKeeps DEF HostReboot, Rest, rowVars, WorkerSteps
<1>3. ASSUME NEW l \in Launches, WorkerDie(l)
      PROVE  Watched'
  <2>1. \A m \in Launches : proc'[m] \in {proc[m], Corpse(m)}
    BY <1>3 DEF WorkerDie, Sound, Data, WorkersTyped
  <2> QED BY <1>3, <2>1, DeathKeeps DEF WorkerDie, rowVars
<1> QED BY <1>1, <1>2, <1>3

LEMMA WatchedStep ==
  ASSUME Sound, Watched, [Next]_vars
  PROVE  Watched'
<1>1. StageMove
  BY StageMoves
<1>2. CASE BeginTick \/ EndPass \/ BlockTask \/ Reconcile
  BY <1>1, <1>2, PassesAway, AwayKeeps, CollectedKeeps DEF Reconcile
<1>3. CASE Collect
  BY <1>1, <1>3, HandlersAway, PassesAway, AwayKeeps, CollectedKeeps DEF Collect
<1>4. CASE Launch
  BY <1>1, <1>4, HandlersAway, PassesAway, AwayKeeps, CollectedKeeps, AdmittedKeeps, LaunchedKeeps
  DEF Launch
<1>5. CASE Worker \/ Fault \/ CtlRestart
  BY <1>1, <1>5, WorkerWatched, FaultWatched, CancelWatched DEF Worker, Fault
<1>6. CASE Cancel \/ \E t \in Tasks : retryTask(t)
  BY <1>1, <1>6, CancelWatched
<1>7. CASE UNCHANGED vars
  BY <1>1, <1>7, BesideKeeps DEF vars, rowVars
<1> QED BY <1>2, <1>3, <1>4, <1>5, <1>6, <1>7 DEF Next, Uncancelled, Controller

\* A live worker process has a running attempt unless it was cancelled under
\* its launch: no collection, loss detection, recovery, failed launch, crash or
\* reboot settles an attempt whose worker may still run.
THEOREM NoneLost == Spec => []NoWorkerLost
<1>1. Init => Sound /\ Watched
  <2>1. Init => Watched
    BY DEF Init, Watched, NoWorkerLost, ResultLeft, Launching, Alive
  <2> QED BY <2>1, SoundInit
<1>2. Sound /\ Watched /\ [Next]_vars => Sound' /\ Watched'
  BY SoundStep, WatchedStep
<1>3. Watched => NoWorkerLost
  BY DEF Watched
<1> QED BY <1>1, <1>2, <1>3, PTL DEF Spec
=============================================================================
