# Formal models of MABS

MABS (the multi-agent build system of `src/`) runs coding agents as detached
worker processes under a controller that keeps everything it knows in one SQLite
database. The controller, the workers, the check jobs and the operator's commands
are separate operating-system processes. They meet in that database and in a few
files, they may die at any point, and nothing but the durable rows tells the next
controller what the last one was doing.

This directory holds TLA+ models of that system, the TLC configurations that
check them on small instances, and proofs, checked by TLAPS, of what holds for
every instance. Every definition that stands for code is mapped to its lines in
`PROJECT.json` ("map").

## 1. Inventory

Paths are below `src/src/`.

| component | state it keeps | what makes it hard | what makes it correct | modules |
|---|---|---|---|---|
| task lifecycle `domain/states.ts`, `domain/execution.ts` | `tasks.state` | every other part goes through it | the table's closure | TaskStates |
| controller `controller/controller.ts` | `attempts`, `stage_runs`, `admission_leases`, `tasks` | each transaction is a crash point; awaits between read and use; an operator in another process | one attempt per worktree; no worker lost; capacity returned; nothing stuck | LaunchProtocol and most others |
| controller lease | `controller_lease`, `tasks.claimed_by` | heartbeat age, ticks longer than the lease | one dispatcher; one worker per launch id | ControllerLease |
| worker adapter `adapters/*`, `core/process-identity.ts` | launch files, the process | files and processes are not transactional with the rows | a live worker is found again or ruled out | LaunchProtocol |
| admission `scheduling/admission.ts` | none (computed from rows) | counts rows, limits processes; parked work | limits hold; repositories are not shared; nobody starves | Scheduling, LaunchProtocol, Routing |
| operator commands `cli.ts` | none | interleave with everything | cancel stops the worker; retry starts no second one | LaunchProtocol, others |
| checks and acceptance `gates/*` | check stages, gate results | jobs vanish, rounds are superseded, budgets | accepted on complete evidence of one revision | CheckJobs |
| dependencies between tasks | `blocked_reason`, obligations | chains settle over several ticks while tasks are retried | prerequisites first; no dependent stuck | Dependencies |
| workspace `workspace/git.ts`, `maintenance/retention.ts` | a git worktree and its branch | crash between two git commands; pruning beside a retry | each dependency's commits once; work is not lost | Workspaces |
| review `review/policy.ts` | findings, obligations, verdicts | evidence goes stale; deferral; who reviews whom | an approval is about the accepted revision; findings are not dropped | ReviewRounds, ReviewPolicy |
| governance `governance/standing.ts`, `domain/project-policy.ts` | decisions, policies, preferences | commands that read before their transaction | work is reviewed as a person decided | Governance |
| approvals `store/records.ts` | `approvals` | the configuration moves between request, decision and use | an approval in force is for what is in force | Approvals |
| operations `operations/service.ts` | configurations, runs | await between approval and its use; crash in a run | one execution per approval | Operations |
| curator `curator/*` | proposals, configuration versions | configuration and proposal change between evaluation and activation, and between a check and its write | only what stands as evaluated is activated, on its base | Curator |
| maintenance `maintenance/lock.ts`, `migrate.ts`, `store/db.ts` | lock file, schema version | races of reclaim, controllers starting meanwhile | no controller on a database in upgrade | Maintenance, ExclusiveUse |
| intake and bootstrap `intake/*`, `bootstrap/service.ts` | briefs, proposals, requests, steps | interruption between checkpoints; revisions and second commands between a check and its write | work is started once, for the accepted plan | Intake |
| questions and answers `intake/*`, `store/records.ts` | clarifications, requests, feedback | a request repeated late; two processes answering | a retry changes nothing | Questions |
| routing `routing/*` | `provider_capacity`, routes | failures close providers while work is parked | work goes on elsewhere; pins are kept | Routing |
| plans `domain/plan.ts` | plans, their tasks | a graph of dependencies, scopes and resources | a valid plan applies whole and can finish | ExecutionPlans |
| incidents `core/failure.ts`, `incidents/*` | incidents, occurrences | imports late and out of order | a guess is never told as a fact | Incidents |
| experiments `optimization/experiments.ts` | authorizations, trials, measurements | environment, clock, operator and a second command between a check and its write | only executed trials are evidence | Experiments |
| environment, context, telemetry, usage, diagnostics, console | inputs, append-only or derived | - | - | not modelled (section 6) |

The interactions are: the controller calls the adapters, which spawn wrappers; a
wrapper answers only through files, and so does a check's job; the operator's
commands, the workbench and the editor extension run `Records` transactions of their
own process on the same database; a second controller may be started at any time and
is held back by the lease alone; migration is held back by the lease and holds back
the tick by its lock file. Intake ends in tasks, tasks go through dispatch, checks,
review and acceptance, and what may be merged or deployed needs an approval that
configuration and governance changes take back.

The hazards of the code, each at its line with the properties that would catch it,
are the "hazards" of `PROJECT.json`.

## 2. Plan

Done: the protocol of launches and leases (`TaskStates`, `LaunchProtocol`,
`ControllerLease`) with its abstract specification `WorktreeLock` and the proofs of
section 5; the other passes of a controller (`CheckJobs`, `Scheduling`,
`Dependencies`, `Workspaces`, `Governance` over `ReviewPolicy`); what surrounds them
(`ReviewRounds`, `Approvals` with `Operations` and `Curator`, `Maintenance` with its
abstract specification `ExclusiveUse`, `Intake`, `Questions`, `Routing`,
`ExecutionPlans`, `Incidents`, `Experiments`).

Every safety property and type invariant that a passing run checks is proved for every
value of the constants, from the assumptions that section 5 names, of the parts and of
the two compositions.

What is left is liveness, which stays with TLC, and the parts of section 6.

## 3. Modules

The modules share one grain: a step is one transaction, one effect in files or git,
or one synchronous stretch of a process. Where the code awaits, or where it judges
something that others may change and writes in a later transaction that does not ask
again, there are two steps, and whatever another process can do may come between. The
reads that one command makes before its transaction are one step. A crash is an action that drops the locals of a process.

### TaskStates

Constants only: the states, `TRANSITIONS`, the slot-holding states, the task state
a stage implies, the stage states. `Reachable(from, to)` is the check that
`Records.transition`, `reserveStage` and `finishStage` share: writing the state a
task already has is never refused.

### LaunchProtocol

One controller, the workers, and the operator. The variables are the rows
(`task`, `owner`, `kind`, `stage`, `lease`, `attempt`, `pid`), the world outside
the database (`proc`, `result`, `procTable`), the position and locals of the
controller (`pc`, `pass`, `todo`, `cur`, `tgt`, `want`, `seen`, `held`) and of the
cancelling process (`opc` ...).

*Grain.* `status` is `Probe` (completion
envelope) and the `Verify...` actions (process); a launch is `Admit`,
`ReserveStage`, `ReserveAdmission`, `ActivateAdmission`, `BuildContext`,
`StartAttempt`, `WriteSpec`, `Spawn`, `SetAttemptProcess`, `RecordLaunchStarted`;
`cancelTask` is seven steps of its own process. The controller's `finishStage` is
one step that can be cut in half by `CtlCrashFinishing`; the operator's is two.

*Passes.* `pass` and `todo` are the loops of `tick`: each pass runs over the list
it read when it began, in any order, and the handlers re-read exactly what the code
re-reads. `seen` is the `task.state` that `collectAttempt` reads before its awaits
and uses after them.

*Exceptions.* `Throw` is an exception that reaches `dispatchInitial` (the task is
blocked) or the tick (the tick ends). Every refused transition takes it.

*Processes.* `proc[l]` goes from `none` over `spec` (launch specification written),
`starting` (spawned), `working` (start marker written) to `exited`; a wrapper that
died before its marker is `vanished`. `Located` and `Verdict` are `locate` and
`verify`; without `/proc` (`procTable = FALSE`) a live process is unverifiable.

*Crashes.* The controller, a worker, the operator's command and the host. The
operator's process may stop at any step and is not counted; the others share the
budget `MaxCrashes`.

*Single steps.* Workspace preparation and preflight are in `Dispatch`, a check
round is one stage with an outcome, acceptance is one step: `Workspaces` and
`CheckJobs` take them apart. Whether a repair, a reroute or a review happens is a
choice: its budgets and routes are those of `CheckJobs`, `Routing`, `ReviewRounds`.

### WorktreeLock

The abstract promise: a worktree has one writer at a time and a launch id is used
once. `LaunchProtocol!OwnsWorktree` instantiates it with the running attempt of a
task as `writer` and the launch ids with an attempt as `spent`.

### ControllerLease

Several controllers. `holder` and `stale` are the lease row and whether its
heartbeat is older than `leaseTimeoutMs`; `ctl[c]` is the position and the locals
of controller `c`. A tick has the passes in which two controllers can meet:
attempts, orphan stages, stale claims, stranded tasks, parked work, ready tasks;
a ready task goes through `claimTask`, `prepare_workspace`, `preflight` and
`implement` as in `dispatchInitial`, `runPreflight` and `launchAttempt`, and an
interrupted stage is taken up again under its launch key as in
`reconcileOrphanStages`.

`Delay` says where a tick may outlast its lease: `"none"` (every tick is shorter
than `leaseTimeoutMs`), `"await"` (while it awaits git, preflight probes or an
adapter), `"suspended"` (anywhere: the process may be stopped and continued).

### The parts of a controller's passes (composed in MCController)

- **CheckJobs**: the check stages of one task (`stages`, with what their launch
  specification, marker and completion file say), the task's own row (`ck`), its
  obligations and its `accept` stage. `scheduleNextCheck`, the detached job,
  `reconcileGateStages`, `completeChecks`, repair, park, resume, `acceptTask` in its
  three transactions, and the operator's retry of a task or of one check. Every
  check is required; its definition may change between two rounds.
- **Scheduling**: `collectActiveWork`, `evaluateAdmission`, `fairOrder` and
  `AdaptiveConcurrency` over recurring tasks of several projects; a tick offers the
  ready tasks in fair order, and deferred ones first; while the machine is overloaded, for
  which `dispatchReadyTasks` asks again, the deferred ones only. `fairOrder` is the set of the
  orders its sort may give, with ties any way. Served time and age are bounded by
  `MaxLead` and `MaxAge`.
- **Dependencies**: `promoteTasks` task by task, the obligations a task waits on, and
  retry, failure and cancellation of any task of the graph.
- **Workspaces**: the worktree, its index and its branch as git sees them; the base
  recorded in the row; preparation, one cherry-pick per missing commit, finalization;
  retention, which lists first and removes later.
- **ReviewPolicy** (no state): policies, presets, migration, normalisation,
  validation, `weakensReview`, evaluation, and readiness.
- **Governance**: one project, one brief with a plan, one task. Decisions, the
  review policy with its check before the transaction (`BeginPolicy`, `EndPolicy`),
  configurations, the standing preference, acceptance and submission, the completion
  of checks that reads the project before it waits for git (`ReadChange`,
  `DecideReview`), and merge approvals. A row of an earlier version may hold any
  policy of `Stored`, which is valid once it is normalised (`GovernanceAssumption`: the
  code validates what it writes).

### What surrounds them (composed in MCPlatform)

- **ReviewRounds**: the rounds of one task: which revision the row, the checks, the
  review and the findings are about, who implemented it, who may review it, what is
  owed to it, and every path back to a reviewer. `rvAt.cfg` is the configuration that
  `collectReview` compared the report's with; the project's may change before the writes
  that follow.
- **Approvals**: requests, decisions, waivers, consumption and invalidation;
  `executeDeployment` and the merges look up, wait, then consume. **Operations** and
  **Curator** extend it with their own rows and use its approvals; their commands are
  processes that have read something and not yet written (`edits`, `calls`,
  `evals`, `applies`). An evaluation is recorded in two steps: `LookAgain` reads the
  proposal's status, `RecordEvaluation` writes over whatever it has become.
- **Maintenance**: the lock file with its torn state, the reclaim of a dead holder,
  the drain check, backup, rehearsal and the upgrade one version at a time, against
  controllers that start, tick, stop, and were perhaps built for the older schema.
  It implements **ExclusiveUse** (users or one owner), with the ticking controllers
  as users and the rewriting migrators as owners (`MaintenanceIsExclusive`).
- **Intake**: briefs and their versions, proposals, acceptances, the start request
  with its checkpoints, the bootstrap run with its steps, submission. A start is a
  process that may die between any two of them (`call`). `acceptPlan` is `CheckAccept`
  and `RecordAccept`, `submitAcceptedPlan` is `LookUpPlan` and `WritePlan`, or within a
  start or bootstrap `CallLooksUp` and `CallWrites`; `setBriefState`, which has no
  transaction around its test there, is `BootReads` and `BootBegins`, or `StepFails` and
  `Undo`. What a command saw is its `Look`; a row it writes is `late` when the look no
  longer is true.
- **Questions**: clarifications, the idempotent `resolve` request of a caller that
  may send it again, the planning commands that synchronise outside a transaction,
  and feedback questions with their response task. The review is asked for only when the
  type of the project is known (`AskedOf`).
- **Routing**: `evaluateCapability` and `selectRoute` over pinned, preferred and
  policy modes, capacity rows with cooldown and login failures, reroute, deferral,
  parked launches, operator overrides and trial routes. The candidates are a set; where
  the code takes the first of a list, `FirstOf` takes the member that comes first in the
  order of the policy or of the preference. The tasks are a finite set.
- **ExecutionPlans**: plans as graphs of tasks with scopes, resources, owners and
  modes; validation, whose depth-first visit is a step per call with the calls in
  `search`, application, submission, and how the applied tasks can run.
- **Incidents**: `diagnoseFailure`, the repair budget it decides on, the import of
  failures and the incident commands.
- **Experiments**: authorization of one manifest, trials bound to slots, the refusal
  that guards every launch, recording, comparison, completion. Each command is a check
  and a write (`CheckAuthorize`, `WriteAuthorize`, ...) on a terminal of its own (`cmd`);
  a launch asks for its refusal (`LaunchTrial`) and starts its attempt after its awaits
  (`StartAttempt`).

The parts of MCController, and those of MCPlatform, share no variables except the
approvals that Operations and Curator build on. One behaviour is a behaviour of one
part (`part`), the others keep their initial state; so one run checks them side by
side without multiplying their states, and a violation is one of its part.

## 4. Checks

| run | instance | result |
|---|---|---|
| `launch_cancel` | 1 task, 2 launches, an operator, no crashes | `TypeOK`, `OneRunningAttempt`, `DoneIsQuiet`, `OwnsWorktree` hold |
| `launch_recovery` | 1 task, 2 launches, 2 crashes, no cancellation | `OneLiveWorker`, `LeaseReturned`, `AttemptSettlesOnce`, `AttemptsEnd` hold |
| `launch_capacity` | 2 tasks, 2 launches, limit 1, 1 crash, with and without `/proc` | `WorkerCap`, `NoWorkerLost` hold |
| `lease_timely` | 2 controllers, 1 task, 2 launches, no overlong tick | `OneDispatcher`, `OneAttempt`, `ClaimsReleased` hold |
| `lease_overlap` | the same, ticks may outlast the lease at an await | `TypeOK`, `FencedLaunch` hold |
| `controller_passes` | five parts, below | all hold |
| `platform` | twelve parts, below | all hold |
| `cancel_orphan` | 1 task, 1 launch, an operator | `CancelStopsWorker` is violated |
| `review_recovery` | 1 task, 2 launches, fair controller | `RecoveryResumes` is violated |
| `lease_two_dispatchers` | 2 controllers, ticks may outlast the lease | `OneDispatcher` is violated |
| `review_independence` | 1 task, 2 providers | `ReviewerIndependent` is violated |
| `start_reports` | 1 brief, 2 proposals | `StartSubmitsPlan` is violated |

**What the passing runs say.** An operator who cancels and retries at the worst
moments can leave a worker behind (below) but never makes two attempts *run* for one
task, never gets a task DONE over an open stage, and never lets two attempts own the
worktree. Without cancellation, whatever two crashes do, two worker processes never
share a worktree, a lease never outlives its stage, a settled attempt stays settled,
and every attempt ends. The worker limit, which is computed from rows, holds for
processes; the one place where it does not is a host without `/proc`, where a
recorded worker can only be left blocked as ambiguous. If a tick is shorter than the
lease, at most one controller is in a tick; if not, two may dispatch, yet at most one
is past the admission of any launch id.

`controller_passes`:

| property | part | says |
|---|---|---|
| `TypesOK` | all | the rows of every part keep their types |
| `DoneOnEvidence` | checks | DONE has a passing latest result of every check for the accepted revision, and no open obligation |
| `RepairsCharged` | checks | no repair of the episode is launched that was not counted on the task |
| `ResourcesApart` | checks, schedule | a check's job shares its worktree with no worker or other job unless given up as unknown (`JobsApart`); two tasks that must not share a repository never both hold it (`RepoApart`) |
| `DependenciesKept` | dependencies, workspace | a task is worked on after its dependencies (`DependenciesFirst`), over each of their commits once, in order (`DependenciesOnce`) |
| `ChecksEnd` | checks | a round ends, or has a stage nothing looks at any more |
| `SchedulingServes` | schedule | unless the machine is overloaded from some tick on, the first task of each project is dispatched, however much work the others submit, while the scan limit does not leave it out |
| `StuckPropagates` | dependencies | a stuck prerequisite blocks its dependents, and they start when it is done after all |
| `WorkSurvives` | workspace | changes leave a worktree only by being committed |
| `GovernanceHolds` | governance | a ready project is reviewed as decided; a live merge approval is of a reviewed change; a submitted plan stands under the governance it was accepted with; a decision settles |

`platform`:

| property | part | says |
|---|---|---|
| `TypesOK` | all | the rows of the part that runs keep their types |
| `ReviewedBeforeDone` | review | DONE has every finding settled and, where due, an approval of that very revision |
| `FindingsKept` | review | a finding is resolved by a review that does not state it again, launched under the configuration in force when its report was collected (`FindingsValidated`), a question by a person, and none is stranded by a policy that would skip the revision |
| `ReviewsResume` | review | a review deferred for capacity is taken up |
| `ApprovedIsCurrent` | approvals | what stands approved is for the configuration in force |
| `ActsAsApproved` | operations | an adapter acts only under an approval standing at that moment, for the configuration in force; no two starts share one |
| `ActivationsHold` | curator | a proposal is activated only while it stands as evaluated, on the base it was made for |
| `MaintenanceIsExclusive` | maintenance | implements `ExclusiveUse` |
| `IntakeHolds` | intake | an acceptance that nothing overtook is of the brief as it stands and the only such (`AcceptanceCurrent`); what waits to be started is of an accepted plan unless its submission was overtaken (`RevisionStops`); one project, and one submission of a plan but for those that overtake each other (`StartedOnce`) |
| `ConversationHolds` | questions, feedback | a repeated request changes nothing; a revision leaves the questions those of its governance; an answered question is not worked on |
| `RoutesHold` | routing | a reroute goes elsewhere and resumes its stage; pins and trials are kept; provider limits hold |
| `PlansHold` | plan | a valid plan becomes all its tasks unless a resource or owner is refused; the applied tasks can always go on and never meet in what they write |
| `RepairsEarned` | incidents | a repair is spent only on a failure a tool found in the code |
| `LessonsHold` | incidents | a lesson is told as verified only while no later failure was imported |
| `ExperimentsHold` | experiment | a completed experiment that supports a proposal measured every slot by its own authorized trial (`SupportIsEarned`); once the commands that looked before its completion have ended it never changes (`CompletedStays`) |

**What the violated ones say.**

- `cancel_orphan`: cancel looks for a running attempt, finds none because the launch
  has its stage but not yet its attempt, and cancels stages and task; the launch
  spawns its worker, `recordLaunchStarted` is refused, the catch block marks the
  attempt failed, and nobody stops the process. The documents say that cancellation
  stops the worker's process group.
- `review_recovery`: `Review recovery pending:` is listed as a prefix of work that
  resumes by itself, but `resumePendingReviews` asks for `Review pending:` only.
- `lease_two_dispatchers`: the lease is looked at once per tick.
- `review_independence`: the paths that resume, repeat or reroute a review take the
  last attempt that is no review, failed or not, for the implementer's, and may choose
  the provider that made the revision.
- `start_reports`: a start of a plan accepted after the brief's bootstrap completed
  finds that bootstrap, and reports completion without any of its tasks.

**Further configurations** kept beside the runs. Each finds the property named
violated:

| configuration | root module | shows |
|---|---|---|
| `launch_gaps.cfg` | MCLaunchProtocol | `CancelLeavesNoCapacity`: stage or lease reserved after the list. `OneLiveWorker`: retry beside a cancelled, living worker. `LostHasNoResult`: completion between the two reads of `status`. `ResultsAreCollected`: every tick throws on a cancelled task's attempt |
| `lease_two_owners.cfg` | MCControllerLease | `OneOwner`, as soon as a tick may outlast its lease after its claim |
| `check_round.cfg` | CheckJobs | `CheckRoundSettles`: a vanished job leaves its stage waiting, where no pass looks |
| `dependency_retry.cfg` | MCController | `ReadyAfterDependencies`: a task retried while blocked by a dependency keeps its obligation and waits on it for ever |
| `passes_gaps.cfg` | MCController | the properties of the passes below |
| `evidence_unsettled.cfg` | ReviewRounds | `EvidenceSettles`: a requirement no review verified stays open |
| `lock_reclaim.cfg` | Maintenance | `OneMaintainer`, and `SchemaForward`: a reclaiming process suspended between its judgement and its removal |
| `platform_gaps.cfg` | MCPlatform | the properties of the platform below |
| `trial_tools.cfg` | MCExperiments | `SameTool`: a recorded trial that is retried runs another tool version |

The three `..._gaps.cfg` check one property at a time; their first lines name the others.

| `passes_gaps` | part | what violates it |
|---|---|---|
| `DecidedIsReady` | governance | a decision overwritten by a policy checked before it (`records.ts:1099`) |
| `WeakeningAcknowledged` | governance | `weakensReview` compares triggers, not rules |
| `ClientReviewed` | governance | a decision between the reading of the project and the decision on its change |
| `OneMeaning` (`Changes <- OneDiff`) | governance | `prepareApproval` evaluates the policy without the diff |
| `InFlightKeepsWorktree` | workspace | retention lists, then removes the clean worktree of a task retried meanwhile (`WorkSurvives` is what remains) |
| `BaseIsAncestor` (`Deps = 0`) | workspace | the recorded base may be newer than the branch |

| `platform_gaps` | part | what violates it |
|---|---|---|
| `DoneIsAnswered` | feedback | a crash after the acceptance of a response task leaves its question pending |
| `AnswerStands` | feedback | the response task's result overwrites a person's answer |
| `OpenIsWanted` | questions | a planning command asks again for governance decided since it read |
| `RetryResumesReview` | review | a retry may implement again what only lacked a reviewer |
| `ResolvedOnPresent` | review | the configuration changes between the comparison of the packet and the transaction that resolves |
| `WritesCheckedVersion` | operations | the version is read before the transaction that writes over it |
| `AppliedAtCheckpoint` | curator | work may begin between the test of the checkpoint and the activation |
| `EndedProposalsStay` | curator | an evaluation that had looked at a proposal before its rejection makes it evaluated again (`records.ts:3099`) |
| `BuildFitsSchema` | maintenance | a controller of the older build, started before the upgrade, ticks after it |
| `MaintenanceOwnsDatabase` | maintenance | `stop` writes health and lease during an upgrade |
| `BootstrapLeaves` | intake | a crash between the linkage and its record leaves the brief BOOTSTRAPPING |
| `AcceptedIsCurrent` | intake | a revision, or a second acceptance, between `acceptPlan`'s checks and its transaction (`intake/service.ts:496`) |
| `SubmittedOnce` | intake | two submissions that both look before either writes (`intake/service.ts:537`) |
| `ReportsItsPlan` | plan | a submission reports the oldest plan of its brief |
| `ValidPlanApplies` | plan | `createTask` refuses a resource that validation accepts |
| `LoginHolds` | routing | a late quota failure turns a login failure into a cooldown that expires |
| `OneFailureOnce` | incidents | a failed launch counts as attempt and as stage |
| `IncidentAgrees` | incidents | an attempt is diagnosed again without its contract verdict and timeout |
| `TimeoutsUncharged` | incidents | a check that prints failures and then times out |
| `RecordedAtRest` | experiment | a trial that waits for admission counts as at rest |
| `LaunchedInOrder` | experiment | trials are created in manifest order and launched in any |
| `CompletedImmutable` | experiment | a measurement checked before the completion is written after it, and sets the experiment running (`experiments.ts:287`) |
| `BoundKeepsManifest` | experiment | an authorization that found no trial is written after the first was bound (`experiments.ts:616`) |
| `StartsAuthorized` | experiment | manifest, deadline or status change between the refusal that is asked for and the attempt's start |

`controller_passes.cfg` with `ScanLimit = 1` and the property `ServedBeyondScan` finds it
violated: a task that cannot be admitted hides those behind the limit. `ProjectsServed`,
which asks only while the task is within the scan (`InScan`), holds there too.

**Bounds.** *Launches.* `Launches` is the number of launch ids: two are a launch and the one
after it (repair, review, retry), which is what the two-worker and two-attempt
properties need; dispatch with no fresh id left (`Fresh = {}`) drops the item, as
when capacity is refused, so the bound stops nothing else. `MaxCrashes = 2` is a
crash and a crash during the recovery from it. `WorkerLimit = 1` with two tasks is
the smallest limit that can be exceeded. Two controllers are a holder and its
successor; a controller id that has stopped may stand for a later process. Tasks and
launches are symmetric; the runs with temporal properties other than action
properties use no symmetry.

*Passes.* `MaxRevs = 2`, `RepairLimit = RecoveryLimit = 1`: a revision, its repair, and
the exhaustion of each budget; `MaxLost = 1` lost job, `MaxEdits = 1` changed check.
Scheduling has three tasks, two of one project, one exclusive, two workers,
one gate slot and a scan of two, so that work is deferred, a repository is contended, the
limit is lowered and a third ready task is left out of a tick. The dependencies are a chain of three with a shortcut. `Deps = 2`
commits, so that a crash falls between two; `MaxHead = 1` move of the base branch.
Governance: a personal and a client project, one policy of the first version, one
configuration that weakens a client's route, one change with one sign, two decisions,
two revisions, one setting of the policy.

*Platform.* `MaxRevs`, `MaxConfigs`, `MaxApprovals`, `MaxChanges` of 1 to 3: a value,
its replacement and, for the curator, a reversion (the parts use smaller bounds where
`Within` says so). Two migrators and two controllers, one of the older build;
`LastSchema = 2` is two upgrades. Two brief versions and two proposals, with two commands
under way at once (`AtOnce`), at most one of them a start or bootstrap; the first plan is
started in a new directory (`InWithin`). `start_reports` needs one command at a time. Two tasks over
three providers in two quota domains and four ways to set routing up (`SetupsUsed`).
Plans are the small graphs of `MCPlans`. Two failures with one import between them.
One case with a baseline and a candidate trial, two manifests,
two terminals of which one completes and the other starts and measures (`ExWithin`: between
a command's check and its write come the other terminal's steps, and the change of the
manifest before the first trial is bound; the theorem has no such bound). One caller with one
request, three clarifications, two versions.

**Fairness.** `LaunchProtocol`: the controller and its restart are weakly fair (the
poll timer, a supervisor); each worker is weakly fair (the wrapper enforces
`timeoutMs`); `VerifyLost` and the collection of a check are strongly fair, because
the launch grace window and a check job's own timeout pass on the wall clock while
the passes repeat. Nothing makes an operator cancel or retry, and nothing makes a
crash happen. `ControllerLease`: a controller
that is off is started (weak fairness: a supervisor), and its tick makes progress
(strong fairness, since every `stop` waits for the tick it interrupts and a start
ticks at once, so a controller that is restarted for ever still ticks); a heartbeat
and a claim age, because that is the clock. Nothing makes a controller crash.
`Fairness` in each module is the exact statement. In `MCController`: the controller's
tick and a check's job (it has its own timeout) are weakly fair; the admission of a
check is strongly fair, since capacity comes and goes and every pass asks again; in
Scheduling ticks and offers are weakly fair and work that runs ends, strongly, because
a task may leave and re-enter the states in which it can; promotion of each task is
weakly fair. In `MCPlatform` the reviews' tick and the reviewer's report are weakly
fair, and the resumption of a pending review strongly: reviewers become available
again and again. All other properties are about safety.

## 5. Proofs

Eight modules, each with a lemma per action or per group of actions with one effect; the
steps of the invariants use only those lemmas. What a theorem assumes of the constants is
the `ASSUME` of the module it is about, and what stands before its `PROVE` or its `=>`.

| theorem | module | property | invariant behind it |
|---|---|---|---|
| `TypeCorrect`, `LaunchFencing`, `SingleDispatcher`, `SingleAttempt` | ControllerLeaseProofs | `TypeOK`, `FencedLaunch`, `OneDispatcher`, `OneAttempt` | `FenceInv`; `Exclusion`; `Safe` |
| `TypeCorrect`, `LeasesReturn`, `NoneLost` | LaunchProtocolProofs | `TypeOK`, `LeaseReturned`, `NoWorkerLost` | `Sound`; `Watched` |
| `OneAttemptRuns`, `WorktreeOwned`, `QuietWhenDone` | WorktreeProofs | `OneRunningAttempt`, `OwnsWorktree`, `DoneIsQuiet` | `Held` |
| `OneWorkerLives`, `AttemptsSettle`, `WorkersCapped` | WorktreeProofs | `OneLiveWorker`, `AttemptSettlesOnce`, `WorkerCap` | `Kept` |
| `ExclusiveMaintenance`, `OneMaintains`, `StampForward` | PlatformProofs | `MaintenanceIsExclusive`, `OneMaintainer`, `SchemaForward` | `ExclusionInv`; `ReadCurrent` |
| `ApprovalsAreCurrent`, `DeploymentsApproved`, `ActivationsEvaluated` | ApprovalsProofs | `ApprovedIsCurrent`, `ActsAsApproved`, `ActivationsHold` | `DeployInv`, `CurateInv` |
| `AcceptedOnce`, `ConversationsHold`, `RoutesAreKept`, `PlansAreKept` | IntakeProofs | `IntakeHolds`, `ConversationHolds`, `RoutesHold`, `PlansHold` | `IntakeInv`; `QInv`; `RtInv`; `EpInv` |
| `DoneStandsOnEvidence`, `RepairsAreCharged`, `JobsStayApart` | PassesProofs | `DoneOnEvidence`, `RepairsCharged`, `JobsApart` | `CkInv` |
| `RepositoriesApart`, `PrerequisitesFirst`, `CommitsOnce`, `WorkIsKept`, `GovernanceStands` | PassesProofs | `RepoApart`, `DependenciesFirst`, `DependenciesOnce`, `WorkSurvives`, `GovernanceHolds` | `StInv`; `DepInv`; `WsInv`; `GovInv` |
| `ResourcesStayApart`, `DependenciesStayKept`, `EvidenceAndCharges`, `GovernanceBeside` | PassesProofs | the same of `MCController`, all parts side by side | the five together |
| `PartsTyped` | PassesProofs | `TypesOK` of `MCController` | those, with `WsBounds`, `GovCounts`, `SchedTypeOK` |
| `DoneIsReviewed`, `FindingsAreKept`, `ReviewsTyped` | ReviewRoundsProofs | `ReviewedBeforeDone`, `FindingsKept`, `RvTypeOK` | `RvInv` |
| `RepairsAreEarned`, `LessonsAreVerified`, `ExperimentsStand` | ReviewRoundsProofs | `RepairsEarned`, `LessonsHold`, `ExperimentsHold` | `IcInv`; `ExInv` |
| `PlatformTyped` | PlatformProofs | `TypesOK` of `MCPlatform` | `Governed`, `Counted` |
| `PlatformHolds`, `PlatformSteps`, `PlatformExclusive` | PlatformProofs | every other safety property of the `platform` run, of `MCPlatform` | the same |

**ControllerLeaseProofs**: any controllers, tasks and launches. `TypeOK` is inductive once
it says that a controller inside a handler has a launch (its last conjunct).
`LaunchFencing` holds for any `Delay`: `FenceInv` adds that a controller past the admission
of its launch has an admission row, which `reserveAdmission` inserts under the launch's
unique stage and refuses if it is there. The other two assume `Delay = "none"`. `Exclusion`
says that a controller inside a tick is the holder and its heartbeat is not stale.
`SingleAttempt` needs what one controller leaves to the next when it dies inside a handler
(`Safe` is `Exclusion` and `Sole`): the stages of a launch come in the order of its handler
(`Ordered`), one launch of a task is under way (`Exclusive`) and only while the task's row
says so (`AtWork`), a handler knows where it is and has its task to itself (`Handled`),
and what a tick has yet to look at is as it was listed (`Listing`). The last is what
`OneAttempt` rests on: the pass over ready tasks may reserve a launch because the passes
before it have settled every unsettled stage but those that run.

**LaunchProtocolProofs**: any tasks, launches, worker limit, kind of host and number of
crashes, with the operator cancelling and retrying (`Spec`, no fairness).

- The types are not inductive: an action indexes rows by the launch in `cur`, by its
  `owner` or by an item of `todo`. `Sound` adds that a handler has a task and a launch of
  that task (`Subjects`), that what a pass lists has an owner (`Lists`), that a
  cancellation stops an attempt of a task (`Targets`), and that a launch id nobody
  reserved has no rows and no process (`Blank`).
- `LeaseReturned` is inductive given `Sound`. `StageMoves` classifies every step by what
  it does to the stages and leases (`StageMove`): a settled stage goes with its lease, a
  lease alone is released, a worker stage moves on or is cancelled.
- `Watched`, for `NoneLost`: what is collected has a completion envelope, and an envelope
  is its worker's last act (`ResultLeft`); from admission to binding a launch has exactly
  the process its own steps made, and only a cancellation takes its stage or attempt away
  (`Launching`). It fails without the guard by which `VerifyLost` waits where no process
  table can be read, and without the identity of the launch in `/proc`.

**WorktreeProofs** extends it to what is under way in a worktree. A launch is under way
(`Under`) while its attempt runs, its finalization is open, or its worker stage is left
without a running attempt (`Loose`). `Sole` says that nothing but the launch in hand is
under way in its task (`Exclusive`, `Handled`), what the state of a task allows (`States`),
and for each pass what it has still to come to and what an earlier one has settled
(`Attending`, `Recovering`, `Recovered`, `Awaiting`), which is how recovery and dispatch
stay apart across a crash between any two writes. `Sole` is inductive only together with
`Sound` and `Watched` (`Held`). TLC checked it first, on 11.6 million states.

- `WorktreeOwned` is the refinement: the initial states of `LaunchProtocol` map to those
  of `WorktreeLock`, and every step maps to an acquisition, a release or a stutter.
- `QuietWhenDone` assumes `procTable`. Without a process table the model has a behaviour
  in which the theorem's invariant fails: a task is BLOCKED as ambiguous, its cancellation
  dies between the attempt and the stage, and the retried task goes on to its review and
  DONE beside that stage.
- `Kept` is for behaviours in which nobody cancels (`UncancelledSpec`, the specification
  `launch_recovery` and `launch_capacity` check): no attempt or stage is cancelled
  (`Uncut`), what is reconciled and collected is a running attempt (`Current`), and running
  attempts are within the limit and below it while one more is being admitted (`Capped`). With
  cancellation the three properties are false: a launch that finds itself cancelled settles
  its attempt again and leaves its worker behind (`cancel_orphan`), and a retry starts the
  next one beside it (`launch_gaps.cfg`).

**ApprovalsProofs**: any bounds and operations configurations. `Moved` classifies what a
step does to the approvals: what was asked for is never rewritten, and what stands approved
afterwards stood so or was decided now, for this configuration. Between an approval and its
use the code awaits: `CallsHold` says that if the approval of a call in flight still
stands, the operations it read are still in force, `AppliesHold` that if the approval of an
activation in flight still stands, its proposal is still evaluated, for the configuration
in force: a rejection takes the approval away, and an evaluation that is recorded late over
a rejected proposal gives none back.

**IntakeProofs**. `IntakeInv` says what the commands under way have seen (`Accepting`: a
proposal presented for the version that was read, with no acceptance active; `Writing`:
the accepted one, not submitted before), that no active acceptance is overlooked
(`LastKnown`), and of what nothing overtook that it is current and single. A row is in time
when its command's look is still true as it writes, so the checks made then hold now. `QInv` adds to the rows of the questions
that a response task waits only for a pending question unless it was retried, and that the
controller answers only for a task that is done (`Waiting`); `SyncedAsks` says what
`syncGovernanceClarifications` leaves open, whatever it found. `RtInv`, for any providers,
quota domains, limits, trials and any finite set of tasks, says what a job's failure class
and parked purpose mean (`Answers`): a job is parked for a reroute only while its last
attempt is the one that a provider interrupted, and any class of a provider's failure it
carries has happened. Then every launch answers the last attempt (`Launches`), and what
`selectRoute` chooses fits the pin, the trial and the closed providers (`Selected`).

**PassesProofs**: the parts of a controller's passes.

- `CkInv`, for any checks and limits: the rows; what acceptance and completion have read
  between their transactions still holds when they write (`CkHandled`, `CkAccepting`); a
  job that is followed is alone (`CkAlone`); the charges (`CkCharged`), where a repair in
  preparation is charged on the task before it is on the episode. The oldest and latest
  stage of a check exist by well-foundedness of the order on its numbers. TLC checked it
  first, on 729,651 states.
- `StInv` is `RepoApart` with types: admission looks at all work that holds its repository,
  the parked included, in the step that grants it.
- `DepInv` adds `Held`: a task that has left QUEUED has its prerequisites done or an
  obligation that keeps it from being dispatched. A retry makes a task READY without a look
  at its prerequisites.
- `WsInv` says what the branch's log is at each step of preparation (`LogInv`): a prefix of
  the dependencies' commits, all of them once anything follows; a cherry-pick that was cut
  short is not in it.
- `GovInv`, on any policies that a database may hold: a project has a whole and valid
  policy once it is known, and so has everything the curator may go back to (`PoliciesWhole`);
  nobody decides for a client against a required review (`ClientsKept`); a live merge
  approval, and the request that is about to record one, is of a reviewed change
  (`MergesReviewed`); a submitted plan was accepted under a decision that exists
  (`PlansKept`). TLC checked it first, on 414,715 states.
- `PartsInit` and `PartsStep` lift the invariants to `MCController`: its steps are those of
  one part and leave the rows of the others.

**ReviewRoundsProofs**. `RvInv`: an attempt runs only under the state that stands for it
(`Working`), what a handler knows between two of its writes (`Handling`), the verdict on
record is that of the report, however often it is collected (`Recorded`), and past the
record of a clean report the approval is of the task's revision (`ApprovedNow`). `IcInv`: a
failure is taken for a fault of the code only where a tool judged it, and charges do not
exceed those that were (`FailuresKnown`, which counts them); what an import has read is a
recorded failure (`ImportsKnown`); an incident counts as fixed only over occurrences from
before its fix (`LessonsKnown`). `ExInv`: what is bound is bound under an authorization, a
trial's launches were not refused, what is measured was bound, and something was measured
in a completed experiment. Of the commands under way it says what each has checked
(`CmdOK`), and that those a completed experiment still meets looked before its completion,
or authorize what no trial supports (`StaleOK`): when the former are gone, nothing it
supports can change.

**PlatformProofs**, on maintenance: any migrators, controllers of either build and schema versions.
`Suspend = {}` implies that `Maintenance` implements `ExclusiveUse`. `ExclusionInv`: a lock
file is its writer's until it releases it (`LockOwned`), a reclaim in progress removes a
dead holder's file and is alone (`ReclaimSound`), a tick runs under its lease
(`TickHasLease`), and none runs once a migrator has found the lease dead (`NoCompany`).
`Suspend = {}` says that no process stops between the judgement of a lock file and its
removal or between the maintenance check and the lease, and that no tick outlasts its
lease. It is needed: `lock_reclaim.cfg` finds two maintainers without its first part.
`ReadCurrent`: the version an upgrade goes on from, read once before its migrations, is
still the stamp. With a process suspended within a reclaim TLC finds the stamp put back.

On the parts side by side: `PartsInit` and `PartsStep` say that a step of `MCPlatform` is
one of one part and a stutter of the others, which carries every theorem about a part over.
`Counted` is the conjunction of the invariants of the parts that share nothing, each with
the bounds its type speaks of (`InCounts`, `QCounts`, `RtCounts`, `IcCounts`, `ExCounts`).
The three parts that use the approvals differ in what an approval may be for: `Governed`
holds `ApInv`, `OpInv` or `CuInv` by the part that runs (`GovernedStep`). Most of what the
types bound is a limit of the model; the rest relates rows to each other: that an import is
of a recorded failure, that a call names an approval that exists, that a proposal's base is
a configuration there was.

**PlansAreKept**, in IntakeProofs: any plans, with any scopes, modes and dependencies, cyclic
ones included. `EpInv` is the invariant of validation's depth-first `visit`, whose calls are
a sequence in the state. While no cycle is noted (`Acyclic`), every task in the order found
comes after its dependencies (`AfterDeps`), each dependency that a call has looked at is in
the order or is visited by the call above it (`CallsBelow`), and so are the tasks the loop
has begun with (`RootsBegun`). When the visit is over the order holds every task. So an
application meets its dependencies created, and the first task in the order that is still
queued can start when nothing runs. `Sound` keeps what else validation leaves, `Applied`
that the rows are the plan's tasks and that those running were admitted beside each other.

**Types of the passes** (`PartsTyped`): `WsBounds` says that a recorded revision is one the
base branch and the worktree can have made, `GovCounts` that decisions are counted within
the revisions they are made at. Of Scheduling, the order of a tick is a sequence of the
tasks that were scanned.

Out of the prover's reach, and left to TLC, is liveness, whose fairness needs ENABLED:
`ClaimsReleased`, `AttemptsEnd`, `ChecksEnd`, `SchedulingServes`, `StuckPropagates`,
`ReviewsResume`. Every safety property of a passing run is proved. No module declares a
RECURSIVE operator: what the code does by recursion or by a sort is a search with its stack
in the state (`visit`), the set of orders the sort may give (`fairOrder`), or a function.
## 6. Not modelled

- Mechanical tasks (they never have a worker), the adapter that has disappeared from
  the configuration, notifications, usage caps, the pausing of projects.
- Interleavings inside one transaction, and between a read and a write that follows
  it at once and compares `record_version` (`reserveStage`): SQLite's transactions
  and the version check make them one step.
- `ControllerLease` has no admission limits and no cancellation; `LaunchProtocol` has
  one controller. The parts of MCController and MCPlatform have one controller.
- Reuse of a pid within one boot by a process with the same argument: excluded by
  the start time that `verifyProcess` compares.
- Rows of older versions of the program beyond policies and the schema stamp:
  governance of briefs linked before decisions existed
  (`reuseLinkedProjectGovernance`), legacy experiments.
- Code without a caller: the measurements' source `policy_replay`, `diagnoseFailure`'s readiness, decision
  and envelope branches, the usage stream's events.
- `prepareApproval`'s check that mandatory requirements of a client's plan are covered.
- The difference between a task of a plan that names an empty list of requirements and one
  that names none: `ExecutionPlans` knows the second only.
- Environment and preflight probes, context and retrieval, telemetry, usage,
  diagnostics, the console's views, the extension and the benchmarks: functions of the
  file system or of the rows with no state another step reads, or presentation. Their
  correctness is about data, one call at a time, where tests serve better than a
  model checker.

Behaviours of the code met while modelling, which no document promises otherwise and
no property states: a deployment interrupted while `running` cannot be recovered, and
a recovery in progress is recorded as `unknown`, so a second may start; draft
proposals stay after a crash; a clarification asked on an accepted brief blocks its
start until the brief is revised; BLOCKED tasks of an invalidated plan are not
cancelled; an approval requested for the old revision between an invalidation and the
row's new revision stays approved for the old one; the failure class of a dispatched
reroute stays while it runs; after an operator's retry the purpose of a parked repair
is lost; `authorizeRun` accepts a completed experiment; a trial cancelled before its
dispatch has no stage and cannot be recorded.

## Running

    tlc -workers 2 -config launch_recovery.cfg MCLaunchProtocol
    tlc -workers 2 -config lease_timely.cfg MCControllerLease
    tlc -workers 2 -config controller_passes.cfg MCController
    tlc -workers 2 -config platform.cfg MCPlatform
    tlapm ControllerLeaseProofs.tla
    tlapm LaunchProtocolProofs.tla
    tlapm PlatformProofs.tla
    tlapm ApprovalsProofs.tla
    tlapm IntakeProofs.tla
    tlapm WorktreeProofs.tla
    tlapm PassesProofs.tla
    tlapm ReviewRoundsProofs.tla

`controller_passes` takes about one and a half minutes on two cores, `platform`, with
2,075,405 states, about three.
