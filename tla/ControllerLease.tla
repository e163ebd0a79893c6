--------------------------- MODULE ControllerLease ---------------------------
(***************************************************************************)
(* Several controller processes over one database: the controller lease of *)
(* tick and stop (src/controller/controller.ts, src/store/records.ts), and *)
(* the part of a tick in which two of them could meet, from the claim of a *)
(* READY task through its prepare_workspace, preflight and implement       *)
(* stages to the worker, with the recovery of those stages by the next     *)
(* holder of the lease.                                                    *)
(*                                                                         *)
(* A controller id is one process. Stopped or stood down it leaves nothing *)
(* behind, and may stand for the next process; crashed it never returns.   *)
(* The lease is renewed only when a tick begins, so Delay says where a     *)
(* tick may outlast the lease: nowhere, at an await, or anywhere (the      *)
(* process is suspended).                                                  *)
(* A started worker works on: LaunchProtocol takes over from there.        *)
(***************************************************************************)
EXTENDS TaskStates, FiniteSets, Integers

CONSTANTS Controllers, Tasks, Launches, None,
          Delay   \* "none", "await" or "suspended"

ASSUME LeaseAssumption ==
  /\ None \notin Controllers \union Tasks \union Launches
  /\ Delay \in {"none", "await", "suspended"}

VARIABLES
  holder, stale,       \* controller_lease: its row, heartbeat past leaseTimeoutMs
  task, parked, owed,  \* tasks.state, an "Admission pending:" block, an open
                       \* preflight obligation
  claim, aged,         \* tasks.claimed_by, claimed_at past leaseTimeoutMs
  owner, stage, grant, \* stage_runs and admission_leases of each launch
  attempt, worker,     \* attempts.state; a worker process: none, started, or
                       \* recorded, with its pid in the attempt
  ctl                  \* each controller: its step and the locals of its handler

leaseVars == <<holder, stale>>
taskVars  == <<task, parked>>
claimVars == <<claim, aged>>
rowVars   == <<owner, stage, grant, attempt, worker>>
vars      == <<leaseVars, taskVars, owed, claimVars, rowVars, ctl>>
-----------------------------------------------------------------------------
HandlerSteps == {"reserve", "begin", "close", "admit", "grant", "activate", "start",
                 "spawn", "bind", "unlaunch", "unstage", "handle"}
Phases   == {"prepare", "preflight", "implement"}
StageIds == Launches \X Phases
Origins  == {"dispatch", "recovery", "other"}
Passes   == {"attempts", "orphans", "claims", "stranded", "pending", "ready"}
nextPass == [ attempts |-> "orphans",  orphans |-> "claims", claims |-> "stranded",
              stranded |-> "pending",  pending |-> "ready" ]

Unsettled(s) == stage[s] \in {"reserved", "launching", "running"}
Active(s)    == stage[s] \in ACTIVE_STAGE_STATES
Fresh        == {l \in Launches : owner[l] = None}
Running(t)   == {l \in Launches : owner[l] = t /\ attempt[l] = "running"}
May(t, to)   == Reachable(task[t], to)

Snapshot(p) ==
  CASE p = "attempts" -> {l \in Launches : attempt[l] = "running"}
    [] p = "orphans"  -> {<<s, stage[s]>> : s \in {i \in StageIds : Unsettled(i)}}
    [] p = "claims"   -> {t \in Tasks : task[t] = "READY" /\ aged[t]}
    [] p = "stranded" -> {t \in Tasks : task[t] = "RUNNING"}
    [] p = "pending"  -> {t \in Tasks : task[t] = "BLOCKED" /\ parked[t]}
    [] p = "ready"    -> {t \in Tasks : task[t] = "READY"}

\* A controller outside a tick.
AtRest(p) == [ pc |-> p, pass |-> "attempts", todo |-> {}, job |-> None,
               phase |-> "prepare", origin |-> "other", got |-> "none" ]

InTick(c) == ctl[c].pc \notin {"off", "idle", "dead"}
Job(c)    == ctl[c].job
Here(c)   == <<ctl[c].job, ctl[c].phase>>
Subject(c) == owner[ctl[c].job]

Init ==
  /\ holder = None /\ stale = FALSE
  /\ task = [t \in Tasks |-> "READY"] /\ parked = [t \in Tasks |-> FALSE]
  /\ owed = [t \in Tasks |-> FALSE]
  /\ claim = [t \in Tasks |-> None] /\ aged = [t \in Tasks |-> FALSE]
  /\ owner = [l \in Launches |-> None] /\ stage = [s \in StageIds |-> "none"]
  /\ grant = [l \in Launches |-> "none"] /\ attempt = [l \in Launches |-> "none"]
  /\ worker = [l \in Launches |-> "none"]
  /\ ctl = [c \in Controllers |-> AtRest("off")]
-----------------------------------------------------------------------------
(* Steps of a handler and of the records.                                  *)

Goto(c, p)  == ctl' = [ctl EXCEPT ![c].pc = p]

\* The handler returns to the list of its pass; an exception ends the tick.
Return(c)   == ctl' = [ctl EXCEPT ![c] = [AtRest("pass") EXCEPT
                 !.pass = ctl[c].pass, !.todo = ctl[c].todo]]
EndTick(c)  == ctl' = [ctl EXCEPT ![c] = AtRest("idle")]

\* A handler at step p, for job l at phase f; st is the stage as it was read.
Handler(p, l, f, from, st) ==
  [AtRest(p) EXCEPT !.job = l, !.phase = f, !.origin = from, !.got = st]

\* Item x, listed by pass p, is handed to handler h, or needs none.
Listed(c, p, x) == ctl[c].pc = "pass" /\ ctl[c].pass = p /\ x \in ctl[c].todo
Take(c, x, h) ==
  ctl' = [ctl EXCEPT ![c] = [h EXCEPT !.pass = ctl[c].pass, !.todo = ctl[c].todo \ {x}]]
Drop(c, x) == Take(c, x, AtRest("pass"))

SetTask(t, to) == /\ task' = [task EXCEPT ![t] = to]
                  /\ parked' = [parked EXCEPT ![t] = FALSE]

\* A task that is blocked loses its claim.
Unclaim(t) == claim' = [claim EXCEPT ![t] = None] /\ aged' = [aged EXCEPT ![t] = FALSE]

finishable(s, to) == Active(s) /\ May(owner[s[1]], to)

\* Mutant: a lease status the schema does not know.
expire(s) == grant' = [l \in Launches |->
                         IF s = <<l, "implement">> /\ grant[l] \in {"reserved", "active"}
                         THEN "expired" ELSE grant[l]]

\* finishStage: the admission lease is released, then the stage is finished.
release(s) == grant' = [l \in Launches |->
                          IF s = <<l, "implement">> /\ grant[l] \in {"reserved", "active"}
                          THEN "released" ELSE grant[l]]

finishStage(s, outcome, to) ==
  /\ finishable(s, to) /\ stage' = [stage EXCEPT ![s] = outcome] /\ release(s)
  /\ SetTask(owner[s[1]], to)
  /\ IF to = "BLOCKED" THEN Unclaim(owner[s[1]]) ELSE UNCHANGED claimVars

\* blockTask: nothing for a task that is already BLOCKED.
blockTask(t) == IF task[t] = "BLOCKED" THEN UNCHANGED <<taskVars, claimVars>>
                ELSE May(t, "BLOCKED") /\ SetTask(t, "BLOCKED") /\ Unclaim(t)

\* An exception: dispatchInitial blocks the task, the recovery of a prepared
\* workspace finishes its stage as unknown, any other ends the tick.
Throw(c) ==
  \/ /\ ctl[c].origin = "dispatch" /\ Return(c) /\ UNCHANGED stage
     /\ IF task[Subject(c)] \in {"READY", "RUNNING"}
        THEN SetTask(Subject(c), "BLOCKED") /\ Unclaim(Subject(c))
        ELSE UNCHANGED <<taskVars, claimVars>>
  \/ /\ ctl[c].origin = "recovery" /\ finishable(<<Job(c), "prepare">>, "BLOCKED")
     /\ stage' = [stage EXCEPT ![<<Job(c), "prepare">>] = "unknown"]
     /\ SetTask(Subject(c), "BLOCKED") /\ Unclaim(Subject(c)) /\ Return(c)
  \/ /\ ctl[c].origin # "dispatch"
     /\ ctl[c].origin = "recovery" => ~finishable(<<Job(c), "prepare">>, "BLOCKED")
     /\ EndTick(c) /\ UNCHANGED <<taskVars, claimVars, stage>>

Finish(c, s, outcome, to, next) ==
  \/ /\ finishStage(s, outcome, to) /\ next
     /\ UNCHANGED <<leaseVars, owner, attempt, worker>>
  \/ /\ ~finishable(s, to) /\ release(s) /\ Throw(c)
     /\ UNCHANGED <<leaseVars, owner, attempt, worker>>

Fail(c) == Throw(c) /\ UNCHANGED <<leaseVars, owner, grant, attempt, worker>>
-----------------------------------------------------------------------------
(* The lease: acquireControllerLease, releaseControllerLease, start, stop. *)

\* controllerLiveness refuses a start beside a healthy controller, --force
\* overrides it.
Start(c) ==
  /\ ctl[c].pc = "off" /\ Goto(c, "idle")
  /\ UNCHANGED <<leaseVars, taskVars, owed, claimVars, rowVars>>

\* Mutant: any controller takes the lease over.
TakeableByAll(c) == TRUE

Takeable(c) == holder \in {None, c} \/ stale

\* The tick begins: the lease is taken, renewed or stolen, or this controller
\* stands down and its process exits.
BeginTick(c) ==
  /\ ctl[c].pc = "idle"
  /\ \/ /\ Takeable(c) /\ holder' = c /\ stale' = FALSE
        /\ ctl' = [ctl EXCEPT ![c] = [AtRest("pass") EXCEPT !.todo = Snapshot("attempts")]]
     \/ ~Takeable(c) /\ UNCHANGED leaseVars /\ ctl' = [ctl EXCEPT ![c] = AtRest("off")]
  /\ UNCHANGED <<taskVars, owed, claimVars, rowVars>>

EndPass(c) ==
  /\ ctl[c].pc = "pass" /\ ctl[c].todo = {}
  /\ IF ctl[c].pass = "ready" THEN EndTick(c)
     ELSE LET p == nextPass[ctl[c].pass]
          IN  ctl' = [ctl EXCEPT ![c].pass = p, ![c].todo = Snapshot(p)]
  /\ UNCHANGED <<leaseVars, taskVars, owed, claimVars, rowVars>>

\* stop waits for the tick and deletes only its own row.
Stop(c) ==
  /\ ctl[c].pc = "idle"
  /\ IF holder = c THEN holder' = None /\ stale' = FALSE ELSE UNCHANGED leaseVars
  /\ ctl' = [ctl EXCEPT ![c] = AtRest("off")]
  /\ UNCHANGED <<taskVars, owed, claimVars, rowVars>>

\* A crash leaves the lease as it is. Another controller is left to go on.
Crash(c) ==
  /\ ctl[c].pc # "dead" /\ \E d \in Controllers \ {c} : ctl[d].pc # "dead"
  /\ ctl' = [ctl EXCEPT ![c] = AtRest("dead")]
  /\ UNCHANGED <<leaseVars, taskVars, owed, claimVars, rowVars>>

\* The steps that await something long: the workspace, the worker's start.
Awaits == {"close", "spawn"}

\* Can controller c be past the lease timeout without having got further?
MayLag(c) == CASE Delay = "none"      -> ~InTick(c)
               [] Delay = "await"     -> ~InTick(c) \/ ctl[c].pc \in Awaits
               [] Delay = "suspended" -> TRUE

Expire ==
  /\ holder # None /\ ~stale /\ MayLag(holder) /\ stale' = TRUE
  /\ UNCHANGED <<holder, taskVars, owed, claimVars, rowVars, ctl>>

Age(t) ==
  /\ claim[t] # None /\ ~aged[t] /\ aged' = [aged EXCEPT ![t] = TRUE]
  /\ \A c \in Controllers : Job(c) = claim[t] => MayLag(c)
  /\ UNCHANGED <<leaseVars, taskVars, owed, claim, rowVars, ctl>>
-----------------------------------------------------------------------------
(* reconcileAttempts and reconcileOrphanStages after a takeover.           *)

\* A running worker that the row does not name is adopted; an attempt without
\* a process is lost once its launch grace is over.
Reconcile(c, l) ==
  /\ Listed(c, "attempts", l)
  /\ \/ /\ worker[l] # "none" /\ Drop(c, l)
        /\ worker' = [worker EXCEPT ![l] = "recorded"]
        /\ stage' = IF worker[l] = "started" /\ stage[<<l, "implement">>] \in {"reserved", "launching"}
                    THEN [stage EXCEPT ![<<l, "implement">>] = "running"] ELSE stage
        /\ UNCHANGED <<leaseVars, taskVars, owed, claimVars, owner, grant, attempt>>
     \/ /\ worker[l] = "none" /\ Drop(c, l)
        /\ UNCHANGED <<leaseVars, taskVars, owed, claimVars, rowVars>>
     \/ /\ worker[l] = "none" /\ attempt' = [attempt EXCEPT ![l] = "failed"]
        /\ \/ blockTask(owner[l]) /\ Drop(c, l)
           \/ /\ ~May(owner[l], "BLOCKED") /\ EndTick(c) /\ UNCHANGED <<taskVars, claimVars>>
        /\ UNCHANGED <<leaseVars, owed, owner, stage, grant, worker>>

\* Mutant: an admitted launch without an attempt is taken up where it was left.
OrphanRelaunches(c, l, st) ==
  LET s == <<l, "implement">>  x == <<s, st>> IN
  /\ Listed(c, "orphans", x) /\ UNCHANGED owed
  /\ \/ /\ IF attempt[l] = "none" /\ grant[l] = "active"
           THEN Take(c, x, Handler("start", l, "implement", "other", "none"))
           ELSE attempt[l] # "failed" /\ Drop(c, x)
        /\ UNCHANGED <<leaseVars, taskVars, claimVars, rowVars>>
     \/ attempt[l] = "failed" /\ Finish(c, s, "failed", task[owner[l]], Drop(c, x))

\* An implement stage without an attempt is ambiguous and is never relaunched.
OrphanImplement(c, l, st) ==
  LET s == <<l, "implement">>  x == <<s, st>> IN
  /\ Listed(c, "orphans", x) /\ UNCHANGED owed
  /\ \/ /\ attempt[l] = "running" /\ Drop(c, x)
        /\ UNCHANGED <<leaseVars, taskVars, claimVars, rowVars>>
     \/ attempt[l] = "none" /\ Finish(c, s, "unknown", "BLOCKED", Drop(c, x))
     \/ attempt[l] = "failed" /\ Finish(c, s, "failed", task[owner[l]], Drop(c, x))

\* An unfinished workspace or preflight is done again, under its launch id.
OrphanPrepare(c, l, st) ==
  /\ Listed(c, "orphans", <<<<l, "prepare">>, st>>)
  /\ Take(c, <<<<l, "prepare">>, st>>, Handler("begin", l, "prepare", "recovery", st))
  /\ UNCHANGED <<leaseVars, taskVars, owed, claimVars, rowVars>>

OrphanPreflight(c, l, st) ==
  /\ Listed(c, "orphans", <<<<l, "preflight">>, st>>)
  /\ Take(c, <<<<l, "preflight">>, st>>, Handler("reserve", l, "preflight", "other", "none"))
  /\ UNCHANGED <<leaseVars, taskVars, owed, claimVars, rowVars>>

\* Mutant: an old claim is never given back.
KeepClaim(c, t) ==
  /\ Listed(c, "claims", t) /\ Drop(c, t)
  /\ UNCHANGED <<leaseVars, taskVars, owed, claimVars, rowVars>>

\* An old claim without an attempt was left by a crash.
ReleaseClaim(c, t) ==
  /\ Listed(c, "claims", t) /\ Drop(c, t)
  /\ IF Running(t) = {} THEN Unclaim(t) ELSE UNCHANGED claimVars
  /\ UNCHANGED <<leaseVars, taskVars, owed, rowVars>>

\* A listed RUNNING task without a running attempt or an active stage is blocked.
StrandedTask(c, t) ==
  /\ Listed(c, "stranded", t)
  /\ \/ /\ Running(t) # {} \/ \E s \in StageIds : owner[s[1]] = t /\ Active(s)
        /\ Drop(c, t) /\ UNCHANGED <<taskVars, claimVars>>
     \/ /\ Running(t) = {} /\ ~\E s \in StageIds : owner[s[1]] = t /\ Active(s)
        /\ \/ blockTask(t) /\ Drop(c, t)
           \/ /\ ~May(t, "BLOCKED") /\ EndTick(c) /\ UNCHANGED <<taskVars, claimVars>>
  /\ UNCHANGED <<leaseVars, owed, rowVars>>
-----------------------------------------------------------------------------
(* Dispatch: resumeAdmissionPending and dispatchReadyTasks.                *)

Use(l, t) == l \in Fresh /\ owner' = [owner EXCEPT ![l] = t]

ResumeParked(c, t) ==
  /\ Listed(c, "pending", t) /\ UNCHANGED <<leaseVars, owed, stage, grant, attempt, worker>>
  /\ \/ /\ task[t] = "BLOCKED" /\ parked[t] /\ SetTask(t, "RUNNING") /\ Unclaim(t)
        /\ \E l \in Launches :
             Use(l, t) /\ Take(c, t, Handler("admit", l, "implement", "other", "none"))
     \/ /\ ~(task[t] = "BLOCKED" /\ parked[t]) \/ Fresh = {}
        /\ Drop(c, t) /\ UNCHANGED <<taskVars, claimVars, owner>>

\* claimTask and dispatchInitial. A claimed, refused or changed task is left.
Dispatch(c, t) ==
  /\ Listed(c, "ready", t) /\ UNCHANGED <<leaseVars, owed, stage, grant, attempt, worker>>
  /\ \/ /\ task[t] = "READY" /\ ~owed[t] /\ claim[t] = None
        /\ \E l \in Launches :
             /\ Use(l, t) /\ Take(c, t, Handler("reserve", l, "prepare", "dispatch", "none"))
             /\ claim' = [claim EXCEPT ![t] = l] /\ aged' = [aged EXCEPT ![t] = FALSE]
        /\ UNCHANGED taskVars
     \/ task[t] = "READY" /\ blockTask(t) /\ Drop(c, t) /\ UNCHANGED owner
     \/ Drop(c, t) /\ UNCHANGED <<taskVars, claimVars, owner>>

\* resumeOperationalTask: an open preflight obligation is retried, unclaimed.
RetryPreflight(c, t) ==
  /\ Listed(c, "ready", t) /\ task[t] = "READY" /\ owed[t] /\ SetTask(t, "RUNNING")
  /\ \E l \in Launches :
       Use(l, t) /\ Take(c, t, Handler("reserve", l, "preflight", "other", "none"))
  /\ UNCHANGED <<leaseVars, owed, claimVars, stage, grant, attempt, worker>>

\* The operator: mabs task retry.
retryTask(t) ==
  /\ task[t] \in {"BLOCKED", "FAILED"} /\ Running(t) = {}
  /\ SetTask(t, "READY") /\ Unclaim(t)
  /\ UNCHANGED <<leaseVars, owed, rowVars, ctl>>
-----------------------------------------------------------------------------
(* The pipeline of a launch: each phase is a stage under the launch's key. *)

\* reserveStage finds the stage of its launch key or inserts it; runPreflight
\* first closes what an earlier preflight of the task left open. The task may
\* have changed since its version was read.
superseded(c) ==
  [s \in StageIds |->
     IF /\ ctl[c].phase = "preflight" /\ s[2] = "preflight" /\ s # Here(c)
        /\ owner[s[1]] = Subject(c) /\ stage[s] \in {"waiting", "unknown"}
     THEN "failed" ELSE stage[s]]

opened(c) == IF ctl[c].phase = "implement" THEN "grant" ELSE "begin"

reserveStage(c) ==
  /\ ctl[c].pc = "reserve" /\ UNCHANGED owed
  /\ \/ /\ stage[Here(c)] # "none" /\ stage' = superseded(c)
        /\ ctl' = [ctl EXCEPT ![c].pc = opened(c), ![c].got = stage[Here(c)]]
        /\ UNCHANGED <<leaseVars, taskVars, claimVars, owner, grant, attempt, worker>>
     \/ /\ stage[Here(c)] = "none" /\ May(Subject(c), "RUNNING")
        /\ stage' = [superseded(c) EXCEPT ![Here(c)] = "reserved"]
        /\ task' = [task EXCEPT ![Subject(c)] = "RUNNING"]
        /\ ctl' = [ctl EXCEPT ![c].pc = opened(c), ![c].got = "reserved"]
        /\ UNCHANGED <<leaseVars, parked, claimVars, owner, grant, attempt, worker>>
     \/ stage[Here(c)] = "none" /\ Fail(c)

\* recordLaunchStarted of a workspace or preflight stage read as not started.
BeginStage(c) ==
  /\ ctl[c].pc = "begin" /\ UNCHANGED owed
  /\ \/ /\ ctl[c].got \in {"reserved", "launching"}
        /\ stage[Here(c)] \in {"reserved", "launching"}
        /\ stage' = [stage EXCEPT ![Here(c)] = "running"] /\ Goto(c, "close")
        /\ UNCHANGED <<leaseVars, taskVars, claimVars, owner, grant, attempt, worker>>
     \/ /\ ctl[c].got \notin {"reserved", "launching"} /\ Goto(c, "close")
        /\ UNCHANGED <<leaseVars, taskVars, claimVars, rowVars>>
     \/ /\ ctl[c].got \in {"reserved", "launching"}
        /\ stage[Here(c)] \notin {"reserved", "launching"} /\ Fail(c)

Advance(c, p, f) == ctl' = [ctl EXCEPT ![c].pc = p, ![c].phase = f]

\* prepareTaskWorkspace, awaited, succeeds or throws.
ClosePrepare(c) ==
  /\ ctl[c].pc = "close" /\ ctl[c].phase = "prepare" /\ UNCHANGED owed
  /\ \/ Finish(c, Here(c), "succeeded", "RUNNING", Advance(c, "reserve", "preflight"))
     \/ Fail(c)

\* preflightWorktree: ready, unknown, or not ready with an obligation.
ClosePreflight(c) ==
  /\ ctl[c].pc = "close" /\ ctl[c].phase = "preflight"
  /\ \/ /\ owed' \in {owed, [owed EXCEPT ![Subject(c)] = FALSE]}
        /\ Finish(c, Here(c), "succeeded", "RUNNING", Advance(c, "admit", "implement"))
     \/ /\ owed' = [owed EXCEPT ![Subject(c)] = TRUE]
        /\ Finish(c, Here(c), "waiting", "BLOCKED", Return(c))

\* launchAttempt up to its admission: granted, parked, refused, or no route.
Admit(c) ==
  /\ ctl[c].pc = "admit" /\ UNCHANGED <<owed, leaseVars, owner, grant, attempt, worker>>
  /\ \/ Goto(c, "reserve") /\ UNCHANGED <<taskVars, claimVars, stage>>
     \/ /\ task[Subject(c)] # "BLOCKED" /\ May(Subject(c), "BLOCKED")
        /\ task' = [task EXCEPT ![Subject(c)] = "BLOCKED"]
        /\ parked' = [parked EXCEPT ![Subject(c)] = TRUE]
        /\ Unclaim(Subject(c)) /\ Return(c) /\ UNCHANGED stage
     \/ blockTask(Subject(c)) /\ Return(c) /\ UNCHANGED stage
     \/ ctl[c].origin # "dispatch" /\ Return(c) /\ UNCHANGED <<taskVars, claimVars, stage>>
     \/ Throw(c)

\* A stage has one admission lease, and it is reserved only before the launch.
reserveAdmission(c) ==
  /\ ctl[c].pc = "grant" /\ UNCHANGED owed
  /\ \/ /\ stage[Here(c)] = "reserved" /\ grant[Job(c)] = "none"
        /\ grant' = [grant EXCEPT ![Job(c)] = "reserved"] /\ Goto(c, "activate")
        /\ UNCHANGED <<leaseVars, taskVars, claimVars, owner, stage, attempt, worker>>
     \/ (stage[Here(c)] # "reserved" \/ grant[Job(c)] # "none") /\ Fail(c)

activateAdmission(c) ==
  /\ ctl[c].pc = "activate" /\ UNCHANGED owed
  /\ \/ /\ grant[Job(c)] = "reserved" /\ stage[Here(c)] = "reserved"
        /\ grant' = [grant EXCEPT ![Job(c)] = "active"]
        /\ stage' = [stage EXCEPT ![Here(c)] = "launching"] /\ Goto(c, "start")
        /\ UNCHANGED <<leaseVars, taskVars, claimVars, owner, attempt, worker>>
     \/ (grant[Job(c)] # "reserved" \/ stage[Here(c)] # "reserved") /\ Fail(c)

\* startAttempt, or no context packet could be built. The launch id is unique.
startAttempt(c) ==
  /\ ctl[c].pc = "start" /\ UNCHANGED owed
  /\ \/ /\ attempt[Job(c)] = "none" /\ attempt' = [attempt EXCEPT ![Job(c)] = "running"]
        /\ claim' = [claim EXCEPT ![Subject(c)] = Job(c)]
        /\ aged' = [aged EXCEPT ![Subject(c)] = FALSE] /\ Goto(c, "spawn")
        /\ UNCHANGED <<leaseVars, taskVars, owner, stage, grant, worker>>
     \/ attempt[Job(c)] # "none" /\ Fail(c)
     \/ \E outcome \in {"failed", "waiting"} :
          Finish(c, Here(c), outcome, "BLOCKED", Return(c))

\* adapter.start, awaited, starts the detached worker or throws.
Spawn(c) ==
  /\ ctl[c].pc = "spawn"
  /\ \/ worker' = [worker EXCEPT ![Job(c)] = "started"] /\ Goto(c, "bind")
     \/ Goto(c, "unlaunch") /\ UNCHANGED worker
  /\ UNCHANGED <<leaseVars, taskVars, owed, claimVars, owner, stage, grant, attempt>>

\* setAttemptProcess and recordLaunchStarted.
Bind(c) ==
  /\ ctl[c].pc = "bind" /\ worker' = [worker EXCEPT ![Job(c)] = "recorded"]
  /\ IF stage[Here(c)] \in {"reserved", "launching"}
     THEN stage' = [stage EXCEPT ![Here(c)] = "running"] /\ Return(c)
     ELSE UNCHANGED stage /\ Goto(c, "unlaunch")
  /\ UNCHANGED <<leaseVars, taskVars, owed, claimVars, owner, grant, attempt>>

\* Mutant: the catch block forgets the attempt.
UnlaunchForgets(c) ==
  /\ ctl[c].pc = "unlaunch" /\ Goto(c, "unstage")
  /\ UNCHANGED <<leaseVars, taskVars, owed, claimVars, rowVars>>

\* The catch block of the launch, then handleFailure.
UnlaunchAttempt(c) ==
  /\ ctl[c].pc = "unlaunch" /\ attempt' = [attempt EXCEPT ![Job(c)] = "failed"]
  /\ Goto(c, "unstage")
  /\ UNCHANGED <<leaseVars, taskVars, owed, claimVars, owner, stage, grant, worker>>

UnlaunchStage(c) ==
  /\ ctl[c].pc = "unstage" /\ UNCHANGED owed
  /\ Finish(c, Here(c), "failed", "RUNNING", Goto(c, "handle"))

handleFailure(c) ==
  /\ ctl[c].pc = "handle" /\ UNCHANGED <<owed, leaseVars, stage, grant, attempt, worker>>
  /\ \/ /\ May(Subject(c), "RUNNING") /\ SetTask(Subject(c), "RUNNING")
        /\ \E l \in Launches : /\ Use(l, Subject(c))
                               /\ ctl' = [ctl EXCEPT ![c].pc = "admit", ![c].job = l]
        /\ UNCHANGED claimVars
     \/ \E to \in {"READY", "FAILED"} :
          /\ May(Subject(c), to) /\ SetTask(Subject(c), to) /\ Unclaim(Subject(c))
          /\ Return(c) /\ UNCHANGED owner
     \/ blockTask(Subject(c)) /\ Return(c) /\ UNCHANGED owner
     \/ ~May(Subject(c), "RUNNING") /\ Throw(c) /\ UNCHANGED owner
-----------------------------------------------------------------------------
Tick(c) ==
  \/ BeginTick(c) \/ EndPass(c)
  \/ \E l \in Launches : Reconcile(c, l)
  \/ \E l \in Launches, st \in STAGE_STATES :
       OrphanImplement(c, l, st) \/ OrphanPrepare(c, l, st) \/ OrphanPreflight(c, l, st)
  \/ \E t \in Tasks : ReleaseClaim(c, t) \/ StrandedTask(c, t) \/ ResumeParked(c, t)
                       \/ Dispatch(c, t) \/ RetryPreflight(c, t)

Pipeline(c) ==
  \/ reserveStage(c) \/ BeginStage(c) \/ ClosePrepare(c) \/ ClosePreflight(c)
  \/ Admit(c) \/ reserveAdmission(c) \/ activateAdmission(c) \/ startAttempt(c)
  \/ Spawn(c) \/ Bind(c) \/ UnlaunchAttempt(c) \/ UnlaunchStage(c) \/ handleFailure(c)

\* Everything but the operator's retry.
Unretried == \/ \E c \in Controllers : \/ Start(c) \/ Stop(c) \/ Crash(c)
                                        \/ Tick(c) \/ Pipeline(c)
             \/ Expire \/ \E t \in Tasks : Age(t)

Next == Unretried \/ \E t \in Tasks : retryTask(t)

Spec          == Init /\ [][Next]_vars
UnretriedSpec == Init /\ [][Unretried]_vars

\* The poll timer ticks, a supervisor starts a stopped controller, which ticks at
\* once and which stop lets finish its tick, and the clock runs.
Fairness ==
  /\ \A c \in Controllers : WF_vars(Start(c)) /\ SF_vars(Tick(c) \/ Pipeline(c))
  /\ WF_vars(Expire) /\ \A t \in Tasks : WF_vars(Age(t))

FairSpec == Spec /\ Fairness
-----------------------------------------------------------------------------
(* Properties.                                                             *)

Locals == [ pc     : {"off", "idle", "dead", "pass"} \union HandlerSteps,
            pass   : Passes,
            todo   : SUBSET (Launches \union Tasks \union (StageIds \X STAGE_STATES)),
            job    : Launches \union {None},
            phase  : Phases,
            origin : Origins,
            got    : {"none"} \union STAGE_STATES ]

\* The type of every variable; a controller in a handler has a launch.
TypeOK ==
  /\ holder \in Controllers \union {None} /\ stale \in BOOLEAN
  /\ task \in [Tasks -> {"READY", "RUNNING", "BLOCKED", "FAILED"}]
  /\ parked \in [Tasks -> BOOLEAN] /\ owed \in [Tasks -> BOOLEAN]
  /\ claim \in [Tasks -> Launches \union {None}] /\ aged \in [Tasks -> BOOLEAN]
  /\ owner \in [Launches -> Tasks \union {None}]
  /\ stage \in [StageIds -> {"none"} \union STAGE_STATES]
  /\ grant \in [Launches -> {"none", "reserved", "active", "released"}]
  /\ attempt \in [Launches -> {"none", "running", "failed"}]
  /\ worker \in [Launches -> {"none", "started", "recorded"}]
  /\ ctl \in [Controllers -> Locals]
  /\ \A c \in Controllers : ctl[c].pc \in HandlerSteps => Job(c) \in Launches

\* Only one controller generation owns dispatch: no two are inside a tick.
OneDispatcher ==
  \A c, d \in Controllers : InTick(c) /\ InTick(d) => c = d

\* Two controllers never own the same task, each with a claim of its own.
OneOwner ==
  \A c, d \in Controllers :
    c # d /\ ctl[c].origin = "dispatch" /\ ctl[d].origin = "dispatch"
    => Subject(c) # Subject(d)

\* However many controllers recover a launch under its launch key at once, one
\* of them at most is past its admission and starts the worker.
FencedLaunch ==
  \A c, d \in Controllers :
    c # d /\ {ctl[c].pc, ctl[d].pc} \subseteq {"activate", "start", "spawn", "bind"}
    => Job(c) # Job(d)

\* A task never has two running attempts, whichever controllers dispatched it,
\* recovered its stages after a crash or took the lease over.
OneAttempt == \A l, m \in Launches :
  attempt[l] = "running" /\ attempt[m] = "running" /\ owner[l] = owner[m] => l = m

\* A claim that no launch follows (its controller crashed, stood down or was
\* delayed) does not keep a READY task from being dispatched for ever.
ClaimsReleased ==
  \A t \in Tasks : task[t] = "READY" /\ claim[t] # None
                    ~> task[t] # "READY" \/ claim[t] = None
=============================================================================
