--------------------------- MODULE LaunchProtocol ---------------------------
(***************************************************************************)
(* The launch of a worker attempt, from admission to collection, at the    *)
(* granularity of the database transactions and file-system steps of       *)
(* src/controller/controller.ts: launchAttempt, reconcileAttempts,         *)
(* reconcileOrphanStages, collectAttempt and the failure handlers, with    *)
(* the detached worker process (src/adapters) and the operator's           *)
(* `task cancel` and `task retry`, which run in processes of their own and *)
(* interleave with the controller between any two transactions.            *)
(*                                                                         *)
(* One controller runs one tick at a time; a crash may cut it anywhere.    *)
(* Workspace preparation, preflight, check jobs and acceptance are each a  *)
(* single step here: their own stages are not the subject of this module.  *)
(***************************************************************************)
EXTENDS TaskStates, FiniteSets, Integers

CONSTANTS Tasks,        \* task ids
          Launches,     \* launch ids, each used once (ids.launch() is fresh)
          None,         \* no task, no launch
          WorkerLimit,  \* schedulingLimits().modelWorkers
          ProcTables,   \* PROC_AVAILABLE: can the host have /proc, or lack it?
          MaxCrashes    \* bound on crashes of the controller, a worker or the host

ASSUME LaunchAssumption ==
  /\ None \notin Tasks /\ None \notin Launches
  /\ Tasks \cap Launches = {}
  /\ WorkerLimit \in Nat /\ MaxCrashes \in Nat /\ ProcTables \subseteq BOOLEAN

VARIABLES
  task,     \* tasks.state
  parked,   \* work named by an in-flight blocked_reason prefix, or "none"; the
            \* worker stages for the two prefixes a pass resumes, "recovery" for
            \* "Review recovery pending:"
  owner,    \* stage_runs.task_id of each launch
  kind,     \* stage_runs.stage of each launch: implement, repair or review
  stage,    \* stage_runs.state of every stage, "none" before it is reserved
  lease,    \* admission_leases.status of each launch
  attempt,  \* attempts.state of each launch
  pid,      \* attempts.pid has been written
  proc,     \* the wrapper process and the files that precede it
  result,   \* completion.json, "none" until the wrapper renames it into place
  pc, pass, todo,          \* the controller: step, pass of the tick, items left
  cur, tgt, want, seen, held,  \* its locals: launch, task, stage, task.state, attemptStage
  opc, otask, oatt, ostage, otodo, \* the cancelling process and its locals
  procTable, crashes       \* the host has /proc; crashes so far

taskVars == <<task, parked>>
rowVars  == <<owner, kind, stage, lease, attempt, pid>>
procVars == <<proc, result>>
ctlVars  == <<pc, pass, todo, cur, tgt, want, seen, held>>
opVars   == <<opc, otask, oatt, ostage, otodo>>
hostVars == <<procTable, crashes>>
vars     == <<taskVars, rowVars, procVars, ctlVars, opVars, hostVars>>

locals   == <<cur, tgt, want, seen, held>>
loop     == <<pass, todo>>
-----------------------------------------------------------------------------
\* A worker stage and the finalize stage belong to a launch, a check to a task.
W(l) == <<l, "worker">>
F(l) == <<l, "finalize">>
C(t) == <<t, "check">>
NoStage == <<None, "none">>
StageIds == (Launches \X {"worker", "finalize"}) \union (Tasks \X {"check"})

TaskOf(s)   == IF s[2] = "check" THEN s[1] ELSE owner[s[1]]
Active(s)   == stage[s] \in ACTIVE_STAGE_STATES
Unsettled(s) == stage[s] \in {"reserved", "launching", "running"}
Fresh       == {l \in Launches : owner[l] = None}
Finalized(t) == \E l \in Launches : owner[l] = t /\ stage[F(l)] = "succeeded"
Running(t)  == {l \in Launches : owner[l] = t /\ attempt[l] = "running"}

\* Mutant: the list of attempts to reconcile also holds succeeded ones.
UnfailedAttempts == {l \in Launches : attempt[l] \in {"running", "succeeded"}}

RunningAttempts == {l \in Launches : attempt[l] = "running"}

Passes == {"attempts", "orphans", "stranded", "checks", "pending", "reviews",
           "ready", "late"}
nextPass == [ attempts |-> "orphans",  orphans |-> "stranded",
              stranded |-> "checks",   checks  |-> "pending",
              pending  |-> "reviews",  reviews |-> "ready",  ready |-> "late" ]

\* What each pass of the tick lists when it begins.
Snapshot(p) ==
  CASE p = "attempts" -> RunningAttempts
    [] p = "orphans"  -> {s \in StageIds : s[2] # "check" /\ Unsettled(s)}
    [] p = "stranded" -> {t \in Tasks : task[t] \in SLOT_HOLDING_STATES}
    [] p \in {"checks", "late"} -> {t \in Tasks : Unsettled(C(t))}
    [] p = "pending"  -> {t \in Tasks : task[t] = "BLOCKED" /\ parked[t] \in {"implement", "repair"}}
    [] p = "reviews"  -> {t \in Tasks : task[t] = "BLOCKED" /\ parked[t] = "review"}
    [] p = "ready"    -> {t \in Tasks : task[t] = "READY"}

Init ==
  /\ task    = [t \in Tasks |-> "READY"]
  /\ parked  = [t \in Tasks |-> "none"]
  /\ owner   = [l \in Launches |-> None]
  /\ kind    = [l \in Launches |-> "implement"]
  /\ stage   = [s \in StageIds |-> "none"]
  /\ lease   = [l \in Launches |-> "none"]
  /\ attempt = [l \in Launches |-> "none"]
  /\ pid     = [l \in Launches |-> FALSE]
  /\ proc    = [l \in Launches |-> "none"]
  /\ result  = [l \in Launches |-> "none"]
  /\ pc = "idle" /\ pass = "attempts" /\ todo = {}
  /\ cur = None /\ tgt = None /\ want = "implement" /\ seen = "READY" /\ held = FALSE
  /\ opc = "idle" /\ otask = None /\ oatt = None /\ ostage = NoStage /\ otodo = {}
  /\ procTable \in ProcTables /\ crashes = 0
-----------------------------------------------------------------------------
(* Record operations shared by the actions (src/store/records.ts).         *)

\* transition, and the task update inside reserveStage and finishStage.
SetTask(t, to) == /\ task'   = [task EXCEPT ![t] = to]
                  /\ parked' = [parked EXCEPT ![t] = "none"]

May(t, to) == Reachable(task[t], to)

\* reserveStage refuses a finished task and an impossible transition; the
\* record_version comparison makes its read and its write one step.
MayReserve(t, st) == /\ task[t] \notin {"DONE", "CANCELLED"}
                     /\ May(t, taskStateForStage(st))

MayFinish(s, to) == Active(s) /\ May(TaskOf(s), to)

\* Mutant: only an active lease is released.
releaseActiveAdmission(s) ==
  lease' = [l \in Launches |->
              IF s = W(l) /\ lease[l] = "active" THEN "released" ELSE lease[l]]

\* releaseStageAdmission: a transaction of its own, before the stage is touched.
releaseStageAdmission(s) ==
  lease' = [l \in Launches |->
              IF s = W(l) /\ lease[l] \in {"reserved", "active"}
              THEN "released" ELSE lease[l]]

\* Controller.finishStage: release the admission lease, then finish the stage.
finishStage(s, outcome, to) ==
  /\ MayFinish(s, to)
  /\ stage' = [stage EXCEPT ![s] = outcome]
  /\ releaseStageAdmission(s)
  /\ SetTask(TaskOf(s), to)

\* finishAttempt compares nothing with the state it overwrites.
finishAttempt(l, outcome) == attempt' = [attempt EXCEPT ![l] = outcome]

\* The controller's locals live no longer than the handler they belong to.
Forget == /\ cur' = None /\ tgt' = None /\ want' = "implement"
          /\ seen' = "READY" /\ held' = FALSE

\* Between ticks, or not running at all.
Rest(p) == pc' = p /\ pass' = "attempts" /\ todo' = {}

\* An exception: dispatchInitial catches it and blocks the task, every other
\* caller, recovery of a retried task included, lets it end the tick.
Unwind ==
  /\ \/ /\ pass = "ready" /\ want # "review" /\ pc' = "pass" /\ UNCHANGED loop
        /\ IF task[tgt] \in {"READY", "RUNNING"}
           THEN SetTask(tgt, "BLOCKED") ELSE UNCHANGED taskVars
     \/ Rest("idle") /\ UNCHANGED taskVars
  /\ Forget /\ UNCHANGED <<procVars, opVars, hostVars>>

Throw == Unwind /\ UNCHANGED rowVars

\* A finishStage whose second half is refused has released the lease.
ThrowReleasing(s) ==
  Unwind /\ releaseStageAdmission(s) /\ UNCHANGED <<owner, kind, stage, attempt, pid>>

\* The handler goes on at step p, or back to the list when it is done.
Goto(p) == /\ pc' = p /\ UNCHANGED loop
           /\ IF p = "pass" THEN Forget ELSE UNCHANGED locals

\* Take item x off the list and handle it from step p on, for launch l of task
\* t and worker stage k.
Take(x, p, l, t, k) ==
  /\ pc = "pass" /\ x \in todo /\ todo' = todo \ {x} /\ pc' = p /\ UNCHANGED pass
  /\ IF p = "pass" THEN UNCHANGED locals
     ELSE cur' = l /\ tgt' = t /\ want' = k /\ seen' = task[t] /\ held' = FALSE
Drop(x) == Take(x, "pass", None, None, None)

\* collectActiveWork of the other tasks: a running attempt counts only while
\* its task holds a slot or waits under an in-flight prefix.
HoldsSlot(t) == \/ task[t] \in SLOT_HOLDING_STATES
                \/ task[t] = "BLOCKED" /\ parked[t] \in WORKER_STAGES
ModelWork(t) == {l \in RunningAttempts : owner[l] # t /\ HoldsSlot(owner[l])}

\* Mutant: the limit is off by one.
AdmittedAtLimit(t) == Cardinality(ModelWork(t)) <= WorkerLimit

Admitted(t)  == Cardinality(ModelWork(t)) < WorkerLimit
-----------------------------------------------------------------------------
(* The tick: its passes run in order, each over the list it began with.    *)

BeginTick ==
  /\ pc = "idle" /\ pc' = "pass" /\ todo' = RunningAttempts /\ UNCHANGED pass
  /\ UNCHANGED <<taskVars, rowVars, procVars, opVars, hostVars, locals>>

EndPass ==
  /\ pc = "pass" /\ todo = {}
  /\ IF pass = "late"
     THEN Rest("idle")
     ELSE pass' = nextPass[pass] /\ todo' = Snapshot(nextPass[pass]) /\ UNCHANGED pc
  /\ UNCHANGED <<taskVars, rowVars, procVars, opVars, hostVars, locals>>

\* blockTask: nothing for a task that is already BLOCKED.
BlockTask ==
  /\ pc = "block"
  /\ \/ /\ task[tgt] = "BLOCKED" /\ Goto("pass")
        /\ UNCHANGED <<taskVars, rowVars, procVars, opVars, hostVars>>
     \/ /\ task[tgt] # "BLOCKED" /\ May(tgt, "BLOCKED") /\ SetTask(tgt, "BLOCKED")
        /\ Goto("pass") /\ UNCHANGED <<rowVars, procVars, opVars, hostVars>>
     \/ ~May(tgt, "BLOCKED") /\ Throw
-----------------------------------------------------------------------------
(* reconcileAttempts: adapter.status of each running attempt.              *)

Alive(l)   == proc[l] \in {"starting", "working"}
Marked(l)  == proc[l] \in {"working", "exited"}    \* start-marker.json exists

\* Mutant: an unrecorded process is not looked up by its launch argument.
LocatedByRow(l) == Marked(l) \/ pid[l]

Located(l) == Marked(l) \/ pid[l] \/ (procTable /\ Alive(l))

Verdict(l) == IF ~Located(l) \/ ~Alive(l) THEN "gone"
              ELSE IF procTable THEN "alive" ELSE "unverifiable"

\* First half of status: is there a completion envelope?
Probe(l) ==
  /\ pass = "attempts"
  /\ Take(l, IF result[l] # "none" THEN "collect" ELSE "verify", l, owner[l], kind[l])
  /\ UNCHANGED <<taskVars, rowVars, procVars, opVars, hostVars>>

\* Second half: the process. A live worker the row cannot name is adopted.
VerifyAlive ==
  /\ pc = "verify" /\ Verdict(cur) = "alive"
  /\ pid' = [pid EXCEPT ![cur] = TRUE]
  /\ Goto(IF pid[cur] THEN "pass" ELSE "adopt")
  /\ UNCHANGED <<taskVars, owner, kind, stage, lease, attempt, procVars, opVars, hostVars>>

AdoptLaunchedAttempt ==
  /\ pc = "adopt"
  /\ stage' = IF stage[W(cur)] \in {"reserved", "launching"}
              THEN [stage EXCEPT ![W(cur)] = "running"] ELSE stage
  /\ Goto("pass")
  /\ UNCHANGED <<taskVars, owner, kind, lease, attempt, pid, procVars, opVars, hostVars>>

\* Only the specification exists and its grace window is open.
VerifyLaunching ==
  /\ pc = "verify" /\ ~Located(cur) /\ proc[cur] # "none"
  /\ Goto("pass")
  /\ UNCHANGED <<taskVars, rowVars, procVars, opVars, hostVars>>

VerifyAmbiguous ==
  /\ pc = "verify" /\ ~procTable
  /\ \/ Verdict(cur) = "unverifiable"
     \/ ~Located(cur) /\ proc[cur] # "none"
  /\ Goto("block")
  /\ UNCHANGED <<taskVars, rowVars, procVars, opVars, hostVars>>

\* Mutant: without a process table, what cannot be found is taken for lost.
VerifyLostUnseen ==
  /\ pc = "verify" /\ Verdict(cur) = "gone"
  /\ finishAttempt(cur, "failed") /\ Goto("block")
  /\ UNCHANGED <<taskVars, owner, kind, stage, lease, pid, procVars, opVars, hostVars>>

\* Mutant: an attempt whose worker never marked its start is waited for.
VerifyLostMarked ==
  /\ pc = "verify" /\ Verdict(cur) = "gone" /\ Marked(cur)
  /\ finishAttempt(cur, "failed") /\ Goto("block")
  /\ UNCHANGED <<taskVars, owner, kind, stage, lease, pid, procVars, opVars, hostVars>>

VerifyLost ==
  /\ pc = "verify" /\ Verdict(cur) = "gone"
  /\ procTable \/ Located(cur) \/ proc[cur] = "none"
  /\ finishAttempt(cur, "failed") /\ Goto("block")
  /\ UNCHANGED <<taskVars, owner, kind, stage, lease, pid, procVars, opVars, hostVars>>
-----------------------------------------------------------------------------
(* reconcileOrphanStages and the stranded tasks of reconcileAttempts.      *)

\* Mutant: an outcome that is no stage state.
AttemptOutcomeLost(l) == IF attempt[l] \in {"succeeded", "cancelled"} THEN attempt[l] ELSE "lost"

AttemptOutcome(l) == CASE attempt[l] = "succeeded" -> "succeeded"
                       [] attempt[l] = "cancelled" -> "cancelled"
                       [] OTHER                    -> "failed"

\* A worker stage whose attempt has finished takes the attempt's outcome; one
\* without an attempt is ambiguous, and fencing forbids a relaunch.
OrphanWorkerStage(l) ==
  /\ pass = "orphans" /\ Drop(W(l))
  /\ IF attempt[l] = "running" THEN UNCHANGED <<taskVars, stage, lease>>
     ELSE IF attempt[l] = "none" THEN finishStage(W(l), "unknown", "BLOCKED")
     ELSE finishStage(W(l), AttemptOutcome(l), task[owner[l]])
  /\ UNCHANGED <<owner, kind, attempt, pid, procVars, opVars, hostVars>>

\* A stage the operator finished after it was listed, or a task that cannot
\* take the state, ends the tick.
OrphanStageThrows(l) ==
  /\ pass = "orphans" /\ pc = "pass" /\ W(l) \in todo /\ attempt[l] # "running"
  /\ ~MayFinish(W(l), IF attempt[l] = "none" THEN "BLOCKED" ELSE task[owner[l]])
  /\ ThrowReleasing(W(l))

SourceAttempt(t) == \E l \in Launches : owner[l] = t /\ attempt[l] = "succeeded" /\ kind[l] # "review"

OrphanFinalizeStage(l) ==
  /\ pass = "orphans"
  /\ \/ /\ ~SourceAttempt(owner[l]) /\ Drop(F(l))
        /\ UNCHANGED <<taskVars, rowVars, procVars, opVars, hostVars>>
     \/ /\ SourceAttempt(owner[l]) /\ Take(F(l), "schedule", l, owner[l], kind[l])
        /\ finishStage(F(l), "succeeded", "CHECKING")
        /\ UNCHANGED <<owner, kind, attempt, pid, procVars, opVars, hostVars>>
     \/ /\ pc = "pass" /\ F(l) \in todo /\ SourceAttempt(owner[l])
        /\ ~MayFinish(F(l), "CHECKING") /\ Throw

\* A task listed as slot-holding, without a running attempt or an active stage,
\* fails closed.
StrandedTask(t) ==
  /\ pass = "stranded"
  /\ LET idle == Running(t) = {} /\ ~\E s \in StageIds : TaskOf(s) = t /\ Active(s)
     IN \/ /\ (~idle \/ task[t] = "BLOCKED") /\ Drop(t)
           /\ UNCHANGED <<taskVars, rowVars, procVars, opVars, hostVars>>
        \/ /\ idle /\ task[t] # "BLOCKED" /\ May(t, "BLOCKED")
           /\ SetTask(t, "BLOCKED") /\ Drop(t)
           /\ UNCHANGED <<rowVars, procVars, opVars, hostVars>>
        \/ pc = "pass" /\ t \in todo /\ idle /\ ~May(t, "BLOCKED") /\ Throw
-----------------------------------------------------------------------------
(* collectAttempt: the completion envelope decides the path.               *)

\* Mutant: the failure is handled while the attempt still counts as running.
CollectFailedLate ==
  /\ pc = "collect" /\ result[cur] = "failed" /\ Goto("failStage")
  /\ UNCHANGED <<taskVars, rowVars, procVars, opVars, hostVars>>

\* A failed worker, and a review whose evidence is stale or whose workspace
\* changed, fails its attempt first.
CollectFailed ==
  /\ pc = "collect"
  /\ \/ result[cur] = "failed" /\ Goto("failStage")
     \/ want = "review" /\ result[cur] # "failed" /\ Goto("block")
     \/ want = "review" /\ result[cur] # "failed" /\ Goto("staleStage")
  /\ finishAttempt(cur, "failed")
  /\ UNCHANGED <<taskVars, owner, kind, stage, lease, pid, procVars, opVars, hostVars>>

\* A blocked implementation and a read review succeed as attempts.
CollectYield ==
  /\ pc = "collect"
  /\ \/ result[cur] = "blocked" /\ want # "review" /\ Goto("yieldStage")
     \/ result[cur] # "failed" /\ want = "review" /\ Goto("reviewStage")
  /\ finishAttempt(cur, "succeeded")
  /\ UNCHANGED <<taskVars, owner, kind, stage, lease, pid, procVars, opVars, hostVars>>

\* The stage of the attempt, re-read, is finished while it is unsettled; then
\* the handler goes on at step next.
SettleStage(at, outcome, to, next) ==
  /\ pc = at
  /\ \/ /\ ~Unsettled(W(cur)) /\ Goto(next)
        /\ UNCHANGED <<taskVars, rowVars, procVars, opVars, hostVars>>
     \/ /\ Unsettled(W(cur)) /\ finishStage(W(cur), outcome, to) /\ Goto(next)
        /\ UNCHANGED <<owner, kind, attempt, pid, procVars, opVars, hostVars>>
     \/ Unsettled(W(cur)) /\ ~MayFinish(W(cur), to) /\ ThrowReleasing(W(cur))

FailStage   == SettleStage("failStage", "failed", seen, "handle")
YieldStage  == SettleStage("yieldStage", "waiting", "BLOCKED", "block")
StaleStage  == SettleStage("staleStage", "failed", "REVIEWING", "rereview")

\* Mutant: the review's stage is left for a later tick to settle.
ReviewStageLater ==
  /\ pc = "reviewStage" /\ Goto("verdict")
  /\ UNCHANGED <<taskVars, rowVars, procVars, opVars, hostVars>>

ReviewStage ==
  \/ /\ pc = "reviewStage" /\ result[cur] = "blocked"
     /\ SettleStage("reviewStage", "waiting", "BLOCKED", "pass")
  \/ /\ pc = "reviewStage" /\ result[cur] # "blocked"
     /\ SettleStage("reviewStage", "succeeded", "REVIEWING", "verdict")

\* A completed implementation: its stage is read, then finalize is reserved
\* under the launch's own key, so that a second collection finds it again.
CollectWork ==
  /\ pc = "collect" /\ result[cur] = "succeeded" /\ want # "review"
  /\ \/ /\ stage[F(cur)] = "none" /\ MayReserve(tgt, "finalize")
        /\ stage' = [stage EXCEPT ![F(cur)] = "running"]
        /\ SetTask(tgt, "CHECKING")
        /\ held' = Unsettled(W(cur)) /\ pc' = "revise"
        /\ UNCHANGED <<owner, kind, lease, attempt, pid, procVars, opVars, hostVars,
                       loop, cur, tgt, want, seen>>
     \/ /\ stage[F(cur)] # "none"
        /\ stage' = IF stage[F(cur)] = "reserved"
                    THEN [stage EXCEPT ![F(cur)] = "running"] ELSE stage
        /\ held' = Unsettled(W(cur)) /\ pc' = "revise"
        /\ UNCHANGED <<taskVars, owner, kind, lease, attempt, pid, procVars, opVars,
                       hostVars, loop, cur, tgt, want, seen>>
     \/ stage[F(cur)] = "none" /\ ~MayReserve(tgt, "finalize") /\ Throw

\* await finalizeWorkspace: the commit is made or refused.
Revise ==
  /\ pc = "revise"
  /\ \/ finishAttempt(cur, "succeeded") /\ Goto("keepStage")
     \/ finishAttempt(cur, "failed") /\ Goto("brokenFinal")
  /\ UNCHANGED <<taskVars, owner, kind, stage, lease, pid, procVars, opVars, hostVars>>

\* finishStage of stage s as the handler remembers it; refused when another
\* process finished it meanwhile.
Settle(at, s, outcome, to, next) ==
  /\ pc = at
  /\ \/ /\ finishStage(s, outcome, to) /\ Goto(next)
        /\ UNCHANGED <<owner, kind, attempt, pid, procVars, opVars, hostVars>>
     \/ ~MayFinish(s, to) /\ ThrowReleasing(s)

Skip(at, next) ==
  /\ pc = at /\ ~held /\ Goto(next)
  /\ UNCHANGED <<taskVars, rowVars, procVars, opVars, hostVars>>

KeepStage  == \/ Skip("keepStage", "keepFinal")
              \/ held /\ Settle("keepStage", W(cur), "succeeded", "RUNNING", "keepFinal")
KeepFinal  == Settle("keepFinal", F(cur), "succeeded", "CHECKING", "schedule")
BrokenFinal == Settle("brokenFinal", F(cur), "failed", "BLOCKED", "brokenStage")
BrokenStage == \/ Skip("brokenStage", "block")
               \/ held /\ Settle("brokenStage", W(cur), "failed", "BLOCKED", "block")

\* scheduleNextCheck: nothing while the task has an active check stage.
ScheduleNextCheck ==
  /\ pc = "schedule"
  /\ \/ /\ Active(C(tgt)) /\ Goto("pass")
        /\ UNCHANGED <<taskVars, rowVars, procVars, opVars, hostVars>>
     \/ /\ ~Active(C(tgt)) /\ MayReserve(tgt, "check")
        /\ stage' = [stage EXCEPT ![C(tgt)] = "running"]
        /\ SetTask(tgt, "CHECKING") /\ Goto("pass")
        /\ UNCHANGED <<owner, kind, lease, attempt, pid, procVars, opVars, hostVars>>
     \/ ~Active(C(tgt)) /\ ~MayReserve(tgt, "check") /\ Throw

\* reconcileGateStages: the check job has completed, still runs, or is lost or
\* unidentifiable, which ends the task's checks until an operator acts.
CollectCheck(t) ==
  /\ pass \in {"checks", "late"}
  /\ \/ /\ Take(t, "decide", None, t, "implement")
        /\ finishStage(C(t), "succeeded", "CHECKING")
        /\ UNCHANGED <<owner, kind, attempt, pid, procVars, opVars, hostVars>>
     \/ /\ pc = "pass" /\ t \in todo /\ ~MayFinish(C(t), "CHECKING") /\ Throw

CheckPending(t) ==
  /\ pass \in {"checks", "late"} /\ Drop(t)
  /\ \/ UNCHANGED <<taskVars, rowVars>>
     \/ /\ \E outcome \in {"waiting", "unknown"} : finishStage(C(t), outcome, "BLOCKED")
        /\ UNCHANGED <<owner, kind, attempt, pid>>
  /\ UNCHANGED <<procVars, opVars, hostVars>>
-----------------------------------------------------------------------------
(* What follows a check, a review or a failure.                            *)

\* The handler moves the task to the state of the next launch and enters
\* launchAttempt for stage k.
Enter(k, to) ==
  /\ Fresh # {}
  /\ \/ /\ May(tgt, to) /\ SetTask(tgt, to)
        /\ want' = k /\ pc' = "admit" /\ UNCHANGED <<loop, cur, tgt, seen, held>>
        /\ UNCHANGED <<rowVars, procVars, opVars, hostVars>>
     \/ ~May(tgt, to) /\ Throw

\* The handler leaves the task in a state of its own choosing.
Leave(to) ==
  \/ /\ May(tgt, to) /\ SetTask(tgt, to) /\ Goto("pass")
     /\ UNCHANGED <<rowVars, procVars, opVars, hostVars>>
  \/ ~May(tgt, to) /\ Throw

\* acceptTask: an accept stage is reserved, then the task is DONE.
Accept == \/ MayReserve(tgt, "accept") /\ SetTask(tgt, "DONE") /\ Goto("pass")
             /\ UNCHANGED <<rowVars, procVars, opVars, hostVars>>
          \/ ~MayReserve(tgt, "accept") /\ Throw

Block == Goto("block") /\ UNCHANGED <<taskVars, rowVars, procVars, opVars, hostVars>>

\* deferForAdmission and deferReview: BLOCKED under a prefix a later tick resumes.
Defer(k) ==
  /\ May(tgt, "BLOCKED") /\ Goto("pass")
  /\ IF task[tgt] = "BLOCKED" THEN UNCHANGED taskVars
     ELSE /\ task' = [task EXCEPT ![tgt] = "BLOCKED"]
          /\ parked' = [parked EXCEPT ![tgt] = k]
  /\ UNCHANGED <<rowVars, procVars, opVars, hostVars>>

\* completeChecks after the last check, collectReview after its verdict.
CompleteChecks == /\ pc = "decide"
                  /\ \/ Accept \/ Block \/ Leave("FAILED")
                     \/ Enter("repair", "RUNNING") \/ Enter("review", "REVIEWING")
                     \/ May(tgt, "REVIEWING") /\ Defer("review")

ReviewVerdict == /\ pc = "verdict"
                 /\ Accept \/ Block \/ Leave("FAILED") \/ Enter("repair", "RUNNING")

\* Stale review evidence is reviewed again, or the review is deferred.
Rereview == /\ pc = "rereview"
            /\ \/ Enter("review", "REVIEWING")
               \/ Block \/ Defer("review")
               \/ ~May(tgt, "BLOCKED") /\ Throw

\* handleFailure and handleReviewFailure: a review that no provider can run is
\* blocked as "Review recovery pending:", a prefix no pass of the tick resumes.
HandleFailure ==
  /\ pc = "handle"
  /\ \/ want = "review" /\ (Enter("review", "REVIEWING") \/ Defer("recovery"))
     \/ want # "review" /\ \E k \in {want, "repair"} : Enter(k, "RUNNING")
     \/ want # "review" /\ \E to \in {"READY", "FAILED"} : Leave(to)
     \/ want # "review" /\ Block
     \/ want = "review" /\ ~May(tgt, "BLOCKED") /\ Throw
-----------------------------------------------------------------------------
(* launchAttempt, one action per transaction.                              *)

\* Admission, or deferForAdmission. A repeated failure and a refused trial
\* block the task, a missing route throws.
Admit ==
  /\ pc = "admit"
  /\ \/ Admitted(tgt) /\ Goto("reserve")
        /\ UNCHANGED <<taskVars, rowVars, procVars, opVars, hostVars>>
     \/ Block \/ Defer(want) \/ Throw

\* The reservation also throws when the repair budget of the episode is spent
\* or another process changed the task's version.
ReserveStage(l) ==
  /\ pc = "reserve" /\ l \in Fresh
  /\ \/ /\ MayReserve(tgt, want)
        /\ owner' = [owner EXCEPT ![l] = tgt] /\ kind' = [kind EXCEPT ![l] = want]
        /\ stage' = [stage EXCEPT ![W(l)] = "reserved"]
        /\ SetTask(tgt, taskStateForStage(want))
        /\ cur' = l /\ pc' = "grant" /\ UNCHANGED <<loop, tgt, want, seen, held>>
        /\ UNCHANGED <<lease, attempt, pid, procVars, opVars, hostVars>>
     \/ Throw

ReserveAdmission ==
  /\ pc = "grant"
  /\ \/ /\ stage[W(cur)] = "reserved" /\ lease' = [lease EXCEPT ![cur] = "reserved"]
        /\ Goto("activate")
        /\ UNCHANGED <<taskVars, owner, kind, stage, attempt, pid, procVars, opVars, hostVars>>
     \/ stage[W(cur)] # "reserved" /\ Throw

ActivateAdmission ==
  /\ pc = "activate"
  /\ \/ /\ lease[cur] = "reserved" /\ stage[W(cur)] = "reserved"
        /\ lease' = [lease EXCEPT ![cur] = "active"]
        /\ stage' = [stage EXCEPT ![W(cur)] = "launching"]
        /\ Goto("context")
        /\ UNCHANGED <<taskVars, owner, kind, attempt, pid, procVars, opVars, hostVars>>
     \/ (lease[cur] # "reserved" \/ stage[W(cur)] # "reserved") /\ Throw

\* The diffs and the context packet: built, unbuildable, over budget, or an
\* exception that nothing here catches.
BuildContext ==
  \/ /\ pc = "context" /\ Goto("start")
     /\ UNCHANGED <<taskVars, rowVars, procVars, opVars, hostVars>>
  \/ \E outcome \in {"failed", "waiting"} :
        Settle("context", W(cur), outcome, "BLOCKED", "block")
  \/ pc = "context" /\ Throw

StartAttempt ==
  /\ pc = "start" /\ attempt' = [attempt EXCEPT ![cur] = "running"] /\ Goto("spec")
  /\ UNCHANGED <<taskVars, owner, kind, stage, lease, pid, procVars, opVars, hostVars>>

\* adapter.start: the launch specification, then the process; either may fail.
WriteSpec ==
  /\ pc = "spec"
  /\ \/ proc' = [proc EXCEPT ![cur] = "spec"] /\ Goto("spawn")
     \/ UNCHANGED proc /\ Goto("unlaunch")
  /\ UNCHANGED <<taskVars, rowVars, result, opVars, hostVars>>

Spawn ==
  /\ pc = "spawn"
  /\ \/ proc' = [proc EXCEPT ![cur] = "starting"] /\ Goto("setpid")
     \/ UNCHANGED proc /\ Goto("unlaunch")
  /\ UNCHANGED <<taskVars, rowVars, result, opVars, hostVars>>

SetAttemptProcess ==
  /\ pc = "setpid" /\ pid' = [pid EXCEPT ![cur] = TRUE] /\ Goto("bind")
  /\ UNCHANGED <<taskVars, owner, kind, stage, lease, attempt, procVars, opVars, hostVars>>

RecordLaunchStarted ==
  /\ pc = "bind"
  /\ IF stage[W(cur)] \in {"reserved", "launching"}
     THEN stage' = [stage EXCEPT ![W(cur)] = "running"] /\ Goto("pass")
     ELSE UNCHANGED stage /\ Goto("unlaunch")
  /\ UNCHANGED <<taskVars, owner, kind, lease, attempt, pid, procVars, opVars, hostVars>>

\* Mutant: the catch block forgets the attempt.
UnlaunchForgets ==
  /\ pc = "unlaunch" /\ Goto("unlaunchStage")
  /\ UNCHANGED <<taskVars, rowVars, procVars, opVars, hostVars>>

\* The catch block of the launch.
UnlaunchAttempt ==
  /\ pc = "unlaunch" /\ finishAttempt(cur, "failed") /\ Goto("unlaunchStage")
  /\ UNCHANGED <<taskVars, owner, kind, stage, lease, pid, procVars, opVars, hostVars>>

UnlaunchStage ==
  Settle("unlaunchStage", W(cur), "failed", taskStateForStage(want), "handle")

\* dispatchReadyTasks: claim, workspace and preflight end in RUNNING or a block.
Dispatch(t) ==
  /\ pass = "ready"
  /\ \/ /\ task[t] = "READY" /\ Admitted(t) /\ Fresh # {}
        /\ SetTask(t, "RUNNING") /\ Take(t, "admit", None, t, "implement")
     \/ task[t] = "READY" /\ SetTask(t, "BLOCKED") /\ Drop(t)
     \/ (task[t] # "READY" \/ ~Admitted(t) \/ Fresh = {}) /\ Drop(t) /\ UNCHANGED taskVars
  /\ UNCHANGED <<rowVars, procVars, opVars, hostVars>>

\* resumeOperationalTask: a retried task whose revision is finalized goes back
\* to its outstanding review or to the check that failed operationally.
ResumeOperational(t) ==
  /\ pass = "ready" /\ task[t] = "READY" /\ Finalized(t)
  /\ \/ /\ Admitted(t) /\ Fresh # {} /\ SetTask(t, "REVIEWING")
        /\ Take(t, "admit", None, t, "review") /\ UNCHANGED stage
     \/ /\ ~Active(C(t)) /\ SetTask(t, "CHECKING") /\ Drop(t)
        /\ stage' = [stage EXCEPT ![C(t)] = "running"]
  /\ UNCHANGED <<owner, kind, lease, attempt, pid, procVars, opVars, hostVars>>

\* resumeAdmissionPending re-reads each task of its list.
ResumeParked(t) ==
  /\ pass = "pending"
  /\ IF task[t] = "BLOCKED" /\ parked[t] \in {"implement", "repair"} /\ Admitted(t) /\ Fresh # {}
     THEN SetTask(t, "RUNNING") /\ Take(t, "admit", None, t, parked[t])
     ELSE Drop(t) /\ UNCHANGED taskVars
  /\ UNCHANGED <<rowVars, procVars, opVars, hostVars>>

\* resumePendingReviews acts on the tasks as it listed them.
ResumeReview(t) ==
  /\ pass = "reviews"
  /\ \/ /\ Admitted(t) /\ Fresh # {} /\ May(t, "REVIEWING")
        /\ SetTask(t, "REVIEWING") /\ Take(t, "admit", None, t, "review")
        /\ UNCHANGED <<rowVars, procVars, opVars, hostVars>>
     \/ /\ (~Admitted(t) \/ Fresh = {}) /\ Drop(t)
        /\ UNCHANGED <<taskVars, rowVars, procVars, opVars, hostVars>>
     \/ pc = "pass" /\ t \in todo /\ Admitted(t) /\ ~May(t, "REVIEWING") /\ Throw
-----------------------------------------------------------------------------
(* The detached wrapper process (src/adapters/worker-process.ts).          *)

WorkerMark(l) ==
  /\ proc[l] = "starting" /\ proc' = [proc EXCEPT ![l] = "working"]
  /\ UNCHANGED <<taskVars, rowVars, result, ctlVars, opVars, hostVars>>

\* The rename of completion.json is the wrapper's last act.
WorkerComplete(l) ==
  /\ proc[l] = "working" /\ proc' = [proc EXCEPT ![l] = "exited"]
  /\ \E r \in {"succeeded", "blocked", "failed"} : result' = [result EXCEPT ![l] = r]
  /\ UNCHANGED <<taskVars, rowVars, ctlVars, opVars, hostVars>>

Crash == crashes < MaxCrashes /\ crashes' = crashes + 1 /\ UNCHANGED procTable

\* The process image after the wrapper dies: its files remain.
Corpse(l) == IF proc[l] = "starting" THEN "vanished"
             ELSE IF proc[l] = "working" THEN "exited" ELSE proc[l]

WorkerDie(l) ==
  /\ Alive(l) /\ Crash
  /\ proc' = [proc EXCEPT ![l] = Corpse(l)]
  /\ UNCHANGED <<taskVars, rowVars, result, ctlVars, opVars>>
-----------------------------------------------------------------------------
(* The operator: `mabs task cancel` and `mabs task retry`.                 *)

OpDone == opc' = "idle" /\ otask' = None /\ oatt' = None /\ ostage' = NoStage /\ otodo' = {}

CancelRead(t) ==
  /\ opc = "idle" /\ task[t] \notin {"DONE", "CANCELLED"}
  /\ otask' = t /\ UNCHANGED <<ostage, otodo>>
  /\ \/ Running(t) = {} /\ oatt' = None /\ opc' = "list"
     \/ \E l \in Running(t) : oatt' = l /\ opc' = "kill"
  /\ UNCHANGED <<taskVars, rowVars, procVars, ctlVars, hostVars>>

\* await adapter.cancel: SIGTERM, up to five seconds, SIGKILL. A process that
\* cannot be verified is refused with an exception.
CancelKill ==
  /\ opc = "kill"
  /\ \/ /\ Verdict(oatt) = "unverifiable" /\ OpDone /\ UNCHANGED proc
     \/ /\ Verdict(oatt) # "unverifiable"
        /\ proc' = IF Verdict(oatt) = "alive" THEN [proc EXCEPT ![oatt] = Corpse(oatt)] ELSE proc
        /\ opc' = "finish" /\ UNCHANGED <<otask, oatt, ostage, otodo>>
  /\ UNCHANGED <<taskVars, rowVars, result, ctlVars, hostVars>>

CancelAttempt ==
  /\ opc = "finish" /\ finishAttempt(oatt, "cancelled") /\ opc' = "list" /\ oatt' = None
  /\ UNCHANGED <<taskVars, owner, kind, stage, lease, pid, procVars, ctlVars,
                 otask, ostage, otodo, hostVars>>

CancelList ==
  /\ opc = "list" /\ opc' = "stages"
  /\ otodo' = {s \in StageIds : TaskOf(s) = otask /\ Active(s)}
  /\ UNCHANGED <<taskVars, rowVars, procVars, ctlVars, otask, oatt, ostage, hostVars>>

\* finishStage of one listed stage, as the two transactions it is.
CancelLease(s) ==
  /\ opc = "stages" /\ s \in otodo /\ releaseStageAdmission(s)
  /\ opc' = "stage" /\ ostage' = s /\ UNCHANGED <<otask, oatt, otodo>>
  /\ UNCHANGED <<taskVars, owner, kind, stage, attempt, pid, procVars, ctlVars, hostVars>>

CancelStage ==
  /\ opc = "stage"
  /\ \/ /\ Active(ostage) /\ stage' = [stage EXCEPT ![ostage] = "cancelled"]
        /\ SetTask(otask, task[otask])
        /\ opc' = "stages" /\ otodo' = otodo \ {ostage} /\ ostage' = NoStage
        /\ UNCHANGED <<otask, oatt>>
     \/ ~Active(ostage) /\ OpDone /\ UNCHANGED <<taskVars, stage>>
  /\ UNCHANGED <<owner, kind, lease, attempt, pid, procVars, ctlVars, hostVars>>

CancelTask ==
  /\ opc = "stages" /\ otodo = {} /\ OpDone
  /\ IF May(otask, "CANCELLED") THEN SetTask(otask, "CANCELLED") ELSE UNCHANGED taskVars
  /\ UNCHANGED <<rowVars, procVars, ctlVars, hostVars>>

retryTask(t) ==
  /\ task[t] \in {"BLOCKED", "FAILED"} /\ Running(t) = {} /\ SetTask(t, "READY")
  /\ UNCHANGED <<rowVars, procVars, ctlVars, opVars, hostVars>>
-----------------------------------------------------------------------------
(* Crashes. Workers are detached and survive the controller.               *)

CtlCrash == /\ pc # "down" /\ Crash /\ Rest("down") /\ Forget
            /\ UNCHANGED <<taskVars, rowVars, procVars, opVars>>

\* The controller dies inside finishStage: the lease is released, the stage not.
CtlCrashFinishing ==
  /\ pc \in {"failStage", "yieldStage", "staleStage", "reviewStage", "keepStage",
            "brokenStage", "context", "unlaunchStage"}
  /\ Active(W(cur)) /\ releaseStageAdmission(W(cur))
  /\ Crash /\ Rest("down") /\ Forget
  /\ UNCHANGED <<taskVars, owner, kind, stage, attempt, pid, procVars, opVars>>

CtlRestart == /\ pc = "down" /\ pc' = "idle"
              /\ UNCHANGED <<taskVars, rowVars, procVars, opVars, hostVars, loop, locals>>

\* The operator's process may be interrupted at any step.
OpCrash == /\ opc # "idle" /\ OpDone
           /\ UNCHANGED <<taskVars, rowVars, procVars, ctlVars, hostVars>>

HostReboot == /\ Crash /\ proc' = [l \in Launches |-> Corpse(l)]
              /\ Rest("down") /\ Forget /\ OpDone
              /\ UNCHANGED <<taskVars, rowVars, result>>
-----------------------------------------------------------------------------
Reconcile == \/ \E l \in Launches : Probe(l)
             \/ VerifyAlive \/ AdoptLaunchedAttempt \/ VerifyLaunching
             \/ VerifyAmbiguous \/ VerifyLost
             \/ \E l \in Launches : OrphanWorkerStage(l)
             \/ \E l \in Launches : OrphanStageThrows(l)
             \/ \E l \in Launches : OrphanFinalizeStage(l)
             \/ \E t \in Tasks : StrandedTask(t)

Collect == \/ CollectFailed \/ CollectYield \/ CollectWork \/ Revise
           \/ FailStage \/ YieldStage \/ StaleStage \/ ReviewStage
           \/ KeepStage \/ KeepFinal \/ BrokenFinal \/ BrokenStage
           \/ ScheduleNextCheck \/ CompleteChecks \/ ReviewVerdict \/ Rereview
           \/ HandleFailure
           \/ \E t \in Tasks : CollectCheck(t) \/ CheckPending(t)

Launch == \/ Admit \/ ReserveAdmission \/ ActivateAdmission \/ BuildContext
          \/ StartAttempt \/ WriteSpec \/ Spawn \/ SetAttemptProcess
          \/ RecordLaunchStarted \/ UnlaunchAttempt \/ UnlaunchStage
          \/ \E l \in Launches : ReserveStage(l)
          \/ \E t \in Tasks : Dispatch(t) \/ ResumeOperational(t) \/ ResumeParked(t) \/ ResumeReview(t)

Controller == BeginTick \/ EndPass \/ BlockTask \/ Reconcile \/ Collect \/ Launch

Worker == \E l \in Launches : WorkerMark(l) \/ WorkerComplete(l)

Cancel == \/ \E t \in Tasks : CancelRead(t)
          \/ CancelKill \/ CancelAttempt \/ CancelList \/ CancelTask
          \/ CancelStage \/ \E s \in StageIds : CancelLease(s)

Fault == CtlCrash \/ CtlCrashFinishing \/ OpCrash \/ HostReboot \/ \E l \in Launches : WorkerDie(l)

\* Everything but the operator's cancellation.
Uncancelled == \/ Controller \/ Worker \/ CtlRestart \/ Fault
               \/ \E t \in Tasks : retryTask(t)

Next == Uncancelled \/ Cancel

Spec == Init /\ [][Next]_vars

\* The poll timer runs the controller and a supervisor restarts it; a wrapper
\* bounds its worker by timeoutMs; the launch grace and a check job's own
\* timeout pass on the wall clock. Nothing makes an operator act.
Fairness ==
  /\ WF_vars(Controller) /\ WF_vars(CtlRestart)
  /\ \A l \in Launches : WF_vars(WorkerMark(l) \/ WorkerComplete(l))
  /\ SF_vars(VerifyLost)
  /\ \A t \in Tasks : SF_vars(CollectCheck(t))

FairSpec        == Spec /\ Fairness
UncancelledSpec == Init /\ [][Uncancelled]_vars /\ Fairness
-----------------------------------------------------------------------------
(* Properties.                                                             *)

Steps == { "down", "idle", "pass", "block", "verify", "adopt", "collect",
           "failStage", "yieldStage", "staleStage", "reviewStage", "revise",
           "keepStage", "keepFinal", "brokenFinal", "brokenStage", "schedule",
           "decide", "verdict", "rereview", "handle", "admit", "reserve",
           "grant", "activate", "context", "start", "spec", "spawn", "setpid",
           "bind", "unlaunch", "unlaunchStage" }

RowsTyped ==
  /\ task \in [Tasks -> TASK_STATES]
  /\ parked \in [Tasks -> {"none", "recovery"} \union WORKER_STAGES]
  /\ owner \in [Launches -> Tasks \union {None}]
  /\ kind \in [Launches -> WORKER_STAGES]
  /\ stage \in [StageIds -> {"none"} \union STAGE_STATES]
  /\ lease \in [Launches -> {"none", "reserved", "active", "released"}]
  /\ attempt \in [Launches -> {"none", "running", "succeeded", "failed", "cancelled"}]
  /\ pid \in [Launches -> BOOLEAN]

WorkersTyped ==
  /\ proc \in [Launches -> {"none", "spec", "starting", "working", "vanished", "exited"}]
  /\ result \in [Launches -> {"none", "succeeded", "blocked", "failed"}]
  /\ procTable \in BOOLEAN /\ crashes \in 0..MaxCrashes

ControllerTyped ==
  /\ pc \in Steps /\ pass \in Passes
  /\ todo \subseteq (Launches \union Tasks \union StageIds)
  /\ cur \in Launches \union {None} /\ tgt \in Tasks \union {None}
  /\ want \in WORKER_STAGES /\ seen \in TASK_STATES /\ held \in BOOLEAN

OperatorTyped ==
  /\ opc \in {"idle", "kill", "finish", "list", "stages", "stage"}
  /\ otask \in Tasks \union {None} /\ oatt \in Launches \union {None}
  /\ ostage \in StageIds \union {NoStage} /\ otodo \subseteq StageIds

\* The type of every variable: rows, processes, and the locals of the
\* controller and of the cancelling process.
TypeOK == RowsTyped /\ WorkersTyped /\ ControllerTyped /\ OperatorTyped

\* A task never has two running attempts: every path that can start a worker
\* (dispatch, repair, reroute, review, resumed work, recovery after a crash)
\* waits until the attempt before it is finished.
OneRunningAttempt ==
  \A l, m \in Launches :
    attempt[l] = "running" /\ attempt[m] = "running" /\ owner[l] = owner[m] => l = m

\* A worker process that runs without a running attempt was cancelled under
\* its launch: crashes, restarts, adoption and loss detection never lose one.
NoWorkerLost ==
  \A l \in Launches :
    Alive(l) /\ attempt[l] # "running" => attempt[l] = "cancelled" \/ stage[W(l)] = "cancelled"

\* Every way a stage can settle (collection, recovery, a failed launch, a crash
\* between the two halves of finishStage) gives its admission lease back; only
\* a cancellation that looked for the lease too early can leave one behind.
LeaseReturned ==
  \A l \in Launches :
    lease[l] \in {"reserved", "active"} => Unsettled(W(l)) \/ stage[W(l)] = "cancelled"

\* A DONE task has no running attempt and no unsettled stage: acceptance never
\* overtakes a worker, a check or a finalization.
DoneIsQuiet ==
  \A t \in Tasks : task[t] = "DONE" =>
    /\ Running(t) = {}
    /\ \A s \in StageIds : TaskOf(s) = t => ~Unsettled(s)

\* An attempt is settled once: a verdict that was recorded is never replaced
\* and no launch starts a second attempt.
AttemptSettlesOnce ==
  [][\A l \in Launches : attempt[l] # attempt'[l] =>
       \/ attempt[l] = "none" /\ attempt'[l] = "running"
       \/ attempt[l] = "running" /\ attempt'[l] \notin {"none", "running"}]_vars

\* The launch protocol implements one-at-a-time ownership of each worktree.
writerOf(t) == IF Running(t) = {} THEN None ELSE CHOOSE l \in Running(t) : TRUE

Lock == INSTANCE WorktreeLock
          WITH writer <- [t \in Tasks |-> writerOf(t)],
               spent  <- {l \in Launches : attempt[l] # "none"}

OwnsWorktree == Lock!Spec

\* At most one worker process edits the worktree of a task.
OneLiveWorker ==
  \A l, m \in Launches : Alive(l) /\ Alive(m) /\ owner[l] = owner[m] => l = m

\* The model-worker limit holds for worker processes, whatever the states of
\* the tasks they belong to, where /proc can identify one after a restart.
WorkerCap == procTable => Cardinality({l \in Launches : Alive(l)}) <= WorkerLimit

\* Cancelling a task stops its worker process.
CancelStopsWorker ==
  \A l \in Launches : Alive(l) => task[owner[l]] # "CANCELLED"

\* Cancellation leaves no stage unresolved and no admission lease held.
CancelLeavesNoCapacity ==
  \A t \in Tasks : task[t] = "CANCELLED" =>
    \A l \in Launches : owner[l] = t =>
      lease[l] \notin {"reserved", "active"} /\ ~Unsettled(W(l))

\* An attempt is declared lost only if its worker left no completion envelope.
LostHasNoResult ==
  [][VerifyLost => result[cur] = "none"]_vars

\* Every running attempt comes to an end, whatever crashes: it is collected,
\* declared lost or failed, and its slot is free again.
AttemptsEnd ==
  \A l \in Launches : attempt[l] = "running" ~> attempt[l] # "running"

\* Work blocked as "Review recovery pending:" resumes by itself.
RecoveryResumes ==
  \A t \in Tasks :
    task[t] = "BLOCKED" /\ parked[t] = "recovery" ~> task[t] # "BLOCKED"

\* The envelope of a completed worker is collected.
ResultsAreCollected ==
  \A l \in Launches :
    attempt[l] = "running" /\ result[l] # "none" ~> attempt[l] # "running"
=============================================================================
