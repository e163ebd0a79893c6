------------------------------ MODULE CheckJobs ------------------------------
(***************************************************************************)
(* The check jobs of one task: scheduleNextCheck, reconcileGateStages,     *)
(* completeChecks, acceptTask, resumeOperationalTask and                   *)
(* retryOperationalCheck of src/controller/controller.ts over              *)
(* src/gates/runner.ts and src/gates/job-process.ts.                       *)
(*                                                                         *)
(* A check runs in a detached job that shares only files with the          *)
(* controller: the launch spec, the job's marker and its completion. The   *)
(* controller may die between any two of its writes, a job at any time,    *)
(* and the operator may change a registered check or retry the task.       *)
(* Every check is required and none is waived; the task needs no review    *)
(* (ReviewRounds has them). The recovery budget is that of one episode.    *)
(***************************************************************************)
EXTENDS Integers, Sequences, FiniteSets, TLC

CONSTANTS NChecks, RepairLimit, RecoveryLimit,
          MaxRevs,  \* bound: finalized revisions
          MaxLost,            \* bound: jobs that die without a completion
          MaxEdits            \* bound: changes of a registered check

ASSUME CheckJobsAssumption ==
  {NChecks, RepairLimit, RecoveryLimit, MaxRevs, MaxLost, MaxEdits} \subseteq Nat

VARIABLES
  ck,     \* the task: state, result_revision, repairs_used; its episode's budgets
  spec,   \* project.checkCommands: which form each check has now
  stages, \* stage_runs of stage "check", oldest first, with the job's files
  accept, \* the accept stage: state and revision
  obls,   \* open blocking obligations
  at,     \* the controller's handler: where it is, and on which stage
  lost, edits

ckVars == <<ck, spec, stages, accept, obls, at, lost, edits>>

Checks   == 1..NChecks
Verdicts == {"PASS", "code", "ops", "unknown"} \* PASS, or a failure's diagnosis
OpenStage == {"reserved", "launching", "running", "waiting", "unknown"}
CkIdle   == [step |-> "idle", s |-> 0]
NoStage  == [state |-> "none", rev |-> 0]

CkTypeOK ==
  /\ ck \in [state : {"READY", "RUNNING", "CHECKING", "REVIEWING", "BLOCKED", "FAILED", "DONE"}, rev : 0..MaxRevs,
             used : 0..RepairLimit, repairs : 0..RepairLimit, recoveries : 0..RecoveryLimit,
             working : BOOLEAN, parked : BOOLEAN]
  /\ spec \in [Checks -> 0..MaxEdits]
  /\ accept.state \in {"none", "reserved", "running", "succeeded", "waiting"}
  /\ at.step \in {"idle", "schedule", "launch", "write", "spawn", "bind", "repair", "accept", "complete"}

CkInit ==
  /\ ck = [state |-> "READY", rev |-> 0, used |-> 0, repairs |-> 0, recoveries |-> 0,
           working |-> FALSE, parked |-> FALSE]
  /\ spec = [c \in Checks |-> 0] /\ stages = <<>> /\ accept = NoStage /\ obls = {}
  /\ at = CkIdle /\ lost = 0 /\ edits = 0

Go(step, s) == at' = [step |-> step, s |-> s]
Block       == ck' = [ck EXCEPT !.state = "BLOCKED"]

\* checkFingerprint
Fingerprint(c)  == [check |-> c, rev |-> ck.rev, form |-> spec[c]]
StageFp(s)      == [check |-> stages[s].check, rev |-> stages[s].rev, form |-> stages[s].form]
Latest(S)       == CHOOSE s \in S : \A t \in S : t <= s
Collected(fp)   == {s \in DOMAIN stages : stages[s].verdict # "none" /\ StageFp(s) = fp}
Verdict(fp)     == stages[Latest(Collected(fp))].verdict
CheckStages(st) == {s \in DOMAIN stages : stages[s].state \in st}

\* gatesForRevision, the latest of each fingerprint
RevisionFps == {StageFp(s) : s \in {t \in DOMAIN stages : stages[t].verdict # "none" /\ stages[t].rev = ck.rev}}
-----------------------------------------------------------------------------
(* The job.                                                                *)

\* Mutant: a marker without a completion is a job that died.
MarkedIsLost(s) ==
  CASE stages[s].job = "done" -> "completed"
    [] stages[s].marked       -> "lost"
    [] OTHER                  -> "unknown"

\* gateJobStatus
GateJobStatus(s) ==
  IF stages[s].job = "done" THEN "completed"
  ELSE IF stages[s].job = "live" THEN "running"
  ELSE IF \/ stages[s].job \in {"none", "gone"} /\ ~stages[s].spec
          \/ stages[s].job = "gone" /\ stages[s].marked
       THEN "lost" ELSE "unknown"

Job(s, row) == /\ stages' = [stages EXCEPT ![s] = row]
               /\ UNCHANGED <<ck, spec, accept, obls, at, edits>>

\* The job writes its marker, runs the command, and writes its completion.
MarkJob(s)     == stages[s].job = "born" /\ Job(s, [stages[s] EXCEPT !.job = "live", !.marked = TRUE]) /\ UNCHANGED lost
CompleteJob(s) == /\ stages[s].job = "live"
                  /\ \E v \in Verdicts : Job(s, [stages[s] EXCEPT !.job = "done", !.result = v])
                  /\ UNCHANGED lost
KillJob(s)     == /\ stages[s].job \in {"born", "live"} /\ lost < MaxLost /\ lost' = lost + 1
                  /\ Job(s, [stages[s] EXCEPT !.job = "gone"])
-----------------------------------------------------------------------------
(* Scheduling and launching a check.                                       *)

NewStage(c, n) == [check |-> c, rev |-> ck.rev, form |-> spec[c], n |-> n, state |-> "reserved",
                   spec |-> FALSE, job |-> "none", marked |-> FALSE, result |-> "none",
                   verdict |-> "none"]

\* Mutant: a result of another revision counts.
UncheckedEver == {c \in Checks : \A s \in DOMAIN stages : stages[s].check = c => stages[s].verdict = "none"}

\* The checks without a result for this revision and this form.
Unchecked == {c \in Checks : Collected(Fingerprint(c)) = {}}

\* The launch key of a first run names the check and the revision, not the form of
\* the command: a second reservation returns the finished stage, whose admission is
\* refused, and the tick fails.
Reserved(c) == \E s \in DOMAIN stages : stages[s].check = c /\ stages[s].rev = ck.rev /\ stages[s].n = 0

ScheduleNextCheck ==
  /\ at.step = "schedule"
  /\ \/ CheckStages(OpenStage) # {} /\ at' = CkIdle /\ UNCHANGED <<ck, stages>>
     \/ CheckStages(OpenStage) = {} /\ Unchecked = {} /\ Go("complete", 0) /\ UNCHANGED <<ck, stages>>
     \/ /\ CheckStages(OpenStage) = {}
        /\ \E c \in Unchecked :
             /\ \A d \in Unchecked : c <= d
             /\ IF Reserved(c)
                THEN at' = CkIdle /\ UNCHANGED stages
                ELSE stages' = Append(stages, NewStage(c, 0)) /\ Go("launch", Len(stages) + 1)
        /\ UNCHANGED ck
  /\ UNCHANGED <<spec, accept, obls, lost, edits>>

\* admit, reserveAdmission and activateAdmission; over the cap the stage waits.
AdmitCheck(s) ==
  /\ at = [step |-> "launch", s |-> s]
  /\ stages' = [stages EXCEPT ![s].state = "launching"] /\ Go("write", s)
  /\ UNCHANGED <<ck, spec, accept, obls, lost, edits>>
DenyCheck == /\ at.step = "launch" /\ at' = CkIdle
             /\ UNCHANGED <<ck, spec, stages, accept, obls, lost, edits>>

\* launchGateJob starts a job only where no file of one exists.
FreshJob(s) == ~stages[s].spec

\* launchGateJob writes the spec, then spawns the job.
WriteSpec(s) ==
  /\ at = [step |-> "write", s |-> s]
  /\ IF FreshJob(s) THEN Go("spawn", s) ELSE Go("bind", s)
  /\ stages' = [stages EXCEPT ![s].spec = TRUE]
  /\ UNCHANGED <<ck, spec, accept, obls, lost, edits>>
SpawnJob(s) ==
  /\ at = [step |-> "spawn", s |-> s] /\ Go("bind", s)
  /\ stages' = [stages EXCEPT ![s].job = "born"]
  /\ UNCHANGED <<ck, spec, accept, obls, lost, edits>>

\* recordLaunchStarted
BindJob(s) ==
  /\ at = [step |-> "bind", s |-> s] /\ at' = CkIdle
  /\ stages' = [stages EXCEPT ![s].state = "running"]
  /\ UNCHANGED <<ck, spec, accept, obls, lost, edits>>
-----------------------------------------------------------------------------
(* reconcileGateStages, for a stage that is neither waiting nor unknown.   *)

Registered(s) == StageFp(s) = Fingerprint(stages[s].check)
Passable(s)   == at = CkIdle /\ ck.rev > 0 /\ stages[s].state \in {"reserved", "launching", "running"}
Oblige(s, gate, kind) == obls' = obls \union {[s |-> s, gate |-> gate, kind |-> kind]}

ChangedCheck(s) ==
  /\ Passable(s) /\ ~Registered(s)
  /\ stages' = [stages EXCEPT ![s].state = "unknown"] /\ Block
  /\ UNCHANGED <<spec, accept, obls, at, lost, edits>>

RelaunchCheck(s) ==
  /\ Passable(s) /\ Registered(s) /\ stages[s].state = "reserved" /\ Go("launch", s)
  /\ UNCHANGED <<ck, spec, stages, accept, obls, lost, edits>>

\* After the marker's grace; a job that was spawned is taken to mark itself in time.
UnknownCheck(s) ==
  /\ Passable(s) /\ Registered(s) /\ stages[s].state # "reserved"
  /\ GateJobStatus(s) = "unknown" /\ stages[s].job # "born"
  /\ Oblige(s, FALSE, "gate_failure") /\ Block
  /\ stages' = [stages EXCEPT ![s].state = "unknown"]
  /\ UNCHANGED <<spec, accept, at, lost, edits>>

\* consumeRecovery's refusal is swallowed.
LostCheck(s) ==
  /\ Passable(s) /\ Registered(s) /\ stages[s].state # "reserved" /\ GateJobStatus(s) = "lost"
  /\ ck' = [ck EXCEPT !.state = "BLOCKED",
                      !.recoveries = IF @ < RecoveryLimit THEN @ + 1 ELSE @]
  /\ Oblige(s, FALSE, "gate_failure")
  /\ stages' = [stages EXCEPT ![s].state = "waiting"]
  /\ UNCHANGED <<spec, accept, at, lost, edits>>

\* collectGateJob, and finishStage unless the controller dies in between; recordGate
\* returns what an earlier collection of the stage recorded.
CollectCheck(s) ==
  /\ Passable(s) /\ Registered(s) /\ stages[s].state # "reserved" /\ GateJobStatus(s) = "completed"
  /\ \/ /\ stages' = [stages EXCEPT ![s].verdict = stages[s].result, ![s].state = "succeeded"]
        /\ Go("schedule", 0)
     \/ stages' = [stages EXCEPT ![s].verdict = stages[s].result] /\ UNCHANGED at
  /\ UNCHANGED <<ck, spec, accept, obls, lost, edits>>
-----------------------------------------------------------------------------
(* completeChecks and acceptTask.                                          *)

FailedRequired == {fp \in RevisionFps : Verdict(fp) # "PASS"}
EarliestFailure == CHOOSE fp \in FailedRequired :
  LET First(f) == CHOOSE s \in Collected(f) : \A t \in Collected(f) : s <= t
      Ops(f)   == Verdict(f) # "code"
  IN \A f \in FailedRequired : Ops(f) => Ops(fp) /\ First(fp) <= First(f)

\* resolveValidatedGateObligations: the same input, or the same command, passed.
Validated(o) == /\ o.gate
                /\ \E fp \in RevisionFps : /\ Verdict(fp) = "PASS"
                                           /\ fp.check = stages[o.s].check /\ fp.form = stages[o.s].form

ChecksPassed ==
  /\ at.step = "complete" /\ FailedRequired = {}
  /\ obls' = {o \in obls : ~Validated(o)}
  /\ IF obls' # {}
     THEN Block /\ at' = CkIdle /\ UNCHANGED accept
     ELSE /\ accept' = IF accept.rev = ck.rev THEN accept ELSE [state |-> "reserved", rev |-> ck.rev]
          /\ Go("accept", 0) /\ ck' = [ck EXCEPT !.state = "REVIEWING"]
  /\ UNCHANGED <<spec, stages, lost, edits>>

\* Mutant: the task's repair counter is left alone.
RepairUncounted == [ck EXCEPT !.state = "RUNNING"]

RepairCharged == [ck EXCEPT !.state = "RUNNING", !.used = @ + 1]

ChecksFailed ==
  /\ at.step = "complete" /\ FailedRequired # {}
  /\ obls' = obls \union {[s |-> Latest(Collected(fp)), gate |-> TRUE,
                           kind |-> IF Verdict(fp) = "code" THEN "code_defect" ELSE "gate_failure"] :
                          fp \in FailedRequired}
  /\ LET code == \E fp \in FailedRequired : Verdict(fp) = "code"
     IN \/ code /\ ck.used < RepairLimit /\ ck' = RepairCharged /\ Go("repair", 0)
        \/ /\ ~(code /\ ck.used < RepairLimit) /\ at' = CkIdle
           /\ ck' = [ck EXCEPT !.state = IF code \/ Verdict(EarliestFailure) = "unknown"
                                         THEN "FAILED" ELSE "BLOCKED"]
  /\ UNCHANGED <<spec, stages, accept, lost, edits>>

\* launchAttempt: the repair is charged to the episode, or refused and the tick fails;
\* without capacity it is parked, to be launched by resumeAdmissionPending.
LaunchRepair ==
  /\ at.step = "repair" /\ at' = CkIdle
  /\ \/ ck.repairs < RepairLimit /\ ck' = [ck EXCEPT !.repairs = @ + 1, !.working = TRUE]
     \/ ck.repairs >= RepairLimit /\ UNCHANGED ck
     \/ ck' = [ck EXCEPT !.state = "BLOCKED", !.parked = TRUE]
  /\ UNCHANGED <<spec, stages, accept, obls, lost, edits>>
ResumeRepair ==
  /\ at = CkIdle /\ ck.state = "BLOCKED" /\ ck.parked
  /\ ck' = [ck EXCEPT !.state = "RUNNING", !.parked = FALSE] /\ Go("repair", 0)
  /\ UNCHANGED <<spec, stages, accept, obls, lost, edits>>

LaunchAccept == /\ at.step = "accept" /\ accept.state = "reserved"
                /\ accept' = [accept EXCEPT !.state = "running"]
                /\ UNCHANGED <<ck, spec, stages, obls, at, lost, edits>>
\* finishStage of the accept stage, here or in reconcileOrphanStages after a crash.
FinishAccept == /\ \/ at.step = "accept" /\ accept.state = "running"
                   \/ at = CkIdle /\ accept.state \in {"reserved", "running"}
                /\ at' = CkIdle
                /\ IF obls = {} /\ accept.rev = ck.rev
                   THEN accept' = [accept EXCEPT !.state = "succeeded"] /\ ck' = [ck EXCEPT !.state = "DONE"]
                   ELSE accept' = [accept EXCEPT !.state = "waiting"] /\ Block
                /\ UNCHANGED <<spec, stages, obls, lost, edits>>
-----------------------------------------------------------------------------
(* Workers, recovery and the operator.                                     *)

\* A worker ends: its revision is finalized, or it left none.
WorkerEnds ==
  /\ at = CkIdle /\ ck.working
  /\ \/ /\ \E r \in {ck.rev, ck.rev + 1} \ {0} :
             r <= MaxRevs /\ ck' = [ck EXCEPT !.state = "CHECKING", !.rev = r, !.working = FALSE]
        /\ Go("schedule", 0)
     \/ ck' = [ck EXCEPT !.state = "BLOCKED", !.working = FALSE] /\ UNCHANGED at
  /\ UNCHANGED <<spec, stages, accept, obls, lost, edits>>

\* Mutant: only tasks that are RUNNING are looked at.
RecoveredRunning == ck.state = "RUNNING"

\* reconcileAttempts: a working state without an attempt and without an open stage.
RecoveredState == ck.state \in {"RUNNING", "CHECKING", "REVIEWING"}

BlockRecovered ==
  /\ at = CkIdle /\ RecoveredState /\ ~ck.working
  /\ CheckStages(OpenStage) = {} /\ accept.state \notin OpenStage /\ Block
  /\ UNCHANGED <<spec, stages, accept, obls, at, lost, edits>>

ExhaustedEpisode == ck.repairs >= RepairLimit /\ \E o \in obls : o.kind = "code_defect"
GateObligations  == {o \in obls : o.gate /\ o.kind = "gate_failure"}
OldestGate       == stages[(CHOOSE o \in GateObligations : \A p \in GateObligations : o.s <= p.s).s]
OutOfRecoveries  == GateObligations # {} /\ ck.recoveries >= RecoveryLimit

\* dispatchReadyTasks and resumeOperationalTask: no budget left.
RefuseDispatch ==
  /\ at = CkIdle /\ ck.state = "READY" /\ (ExhaustedEpisode \/ OutOfRecoveries) /\ Block
  /\ UNCHANGED <<spec, stages, accept, obls, at, lost, edits>>

\* retryOperationalCheck, when a slot is free: the failed gate must be of this revision.
RetryCheck ==
  /\ at = CkIdle /\ ck.state = "READY" /\ ~ExhaustedEpisode /\ ~OutOfRecoveries
  /\ GateObligations # {} /\ OldestGate.rev = ck.rev
  /\ LET c == OldestGate.check
         n == Cardinality({s \in DOMAIN stages : StageFp(s) = Fingerprint(c)})
     IN stages' = Append(stages, [NewStage(c, n) EXCEPT !.state = "launching"])
  /\ ck' = [ck EXCEPT !.state = "CHECKING", !.recoveries = @ + 1]
  /\ Go("write", Len(stages) + 1)
  /\ UNCHANGED <<spec, accept, obls, lost, edits>>

\* dispatchInitial
DispatchWorker ==
  /\ at = CkIdle /\ ck.state = "READY" /\ ~ExhaustedEpisode /\ ~OutOfRecoveries
  /\ GateObligations # {} => OldestGate.rev # ck.rev
  /\ ck' = [ck EXCEPT !.state = "RUNNING", !.working = TRUE]
  /\ UNCHANGED <<spec, stages, accept, obls, at, lost, edits>>

CkRetry == /\ ck.state \in {"BLOCKED", "FAILED"} /\ ck' = [ck EXCEPT !.state = "READY", !.parked = FALSE]
           /\ UNCHANGED <<spec, stages, accept, obls, at, lost, edits>>
EditCheck(c) == /\ edits < MaxEdits /\ edits' = edits + 1 /\ spec' = [spec EXCEPT ![c] = @ + 1]
                /\ UNCHANGED <<ck, stages, accept, obls, at, lost>>
CkCrash == /\ at # CkIdle /\ at' = CkIdle
           /\ UNCHANGED <<ck, spec, stages, accept, obls, lost, edits>>

CkTick ==
  \/ ScheduleNextCheck \/ ChecksPassed \/ ChecksFailed \/ LaunchRepair \/ ResumeRepair
  \/ LaunchAccept \/ FinishAccept \/ BlockRecovered \/ RefuseDispatch \/ RetryCheck \/ DispatchWorker
  \/ WorkerEnds
  \/ \E s \in DOMAIN stages :
       \/ WriteSpec(s) \/ SpawnJob(s) \/ BindJob(s) \/ ChangedCheck(s) \/ RelaunchCheck(s)
       \/ UnknownCheck(s) \/ LostCheck(s) \/ CollectCheck(s)

CkNext ==
  \/ CkTick \/ DenyCheck \/ CkRetry \/ CkCrash \/ \E c \in Checks : EditCheck(c)
  \/ \E s \in DOMAIN stages : AdmitCheck(s) \/ MarkJob(s) \/ CompleteJob(s) \/ KillJob(s)

\* The controller ticks, a job ends, and capacity for a check comes again and again.
CkFairness ==
  /\ WF_ckVars(CkTick)
  /\ WF_ckVars(\E s \in DOMAIN stages : MarkJob(s) \/ CompleteJob(s))
  /\ SF_ckVars(\E s \in DOMAIN stages : AdmitCheck(s))

CkSpec == CkInit /\ [][CkNext]_ckVars /\ CkFairness
-----------------------------------------------------------------------------
\* "Never create a second process to make it look recovered" (reconcileGateStages): a
\* check's job shares the worktree with no worker and no other job, unless its stage
\* was given up as unknown while it ran.
Followed  == {s \in DOMAIN stages : stages[s].job \in {"born", "live"} /\ stages[s].state # "unknown"}
JobsApart == /\ \A s, t \in Followed : s = t
             /\ ck.working => Followed = {}

\* A task is DONE only on a passing latest result of every check for the very
\* revision it is accepted at, and with every failure it met since validated.
DoneOnEvidence ==
  ck.state = "DONE" =>
    /\ obls = {} /\ accept.rev = ck.rev
    /\ \A c \in Checks : \E s \in DOMAIN stages :
         /\ stages[s].check = c /\ stages[s].rev = ck.rev /\ stages[s].verdict = "PASS"
         /\ s = Latest(Collected(StageFp(s)))

\* Every repair the episode paid for was counted on the task: crashes, parking and
\* retries lose charges, they never launch an uncharged repair.
RepairsCharged == ck.repairs <= ck.used

\* A check round ends, or it has a stage no pass of the tick looks at any more.
Abandoned == CheckStages({"waiting", "unknown"}) # {}
CheckRoundEnds == ck.state = "CHECKING" ~> ck.state # "CHECKING" \/ Abandoned

\* The registered checks of a finalized revision are run to their end ("Checks run as
\* detached stages"): a round is never left where it is.
CheckRoundSettles == ck.state = "CHECKING" ~> ck.state # "CHECKING"
=============================================================================
