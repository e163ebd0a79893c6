---------------------------- MODULE Dependencies ----------------------------
(***************************************************************************)
(* Tasks that depend on tasks: promoteTasks and the obligations it records,*)
(* and what dispatchReadyTasks and resumeOperationalTask make of them      *)
(* (src/controller/controller.ts), with task retry and cancel.             *)
(*                                                                         *)
(* What a running task goes through is one step here (LaunchProtocol,      *)
(* CheckJobs, ReviewRounds). Projects are active.                          *)
(***************************************************************************)
EXTENDS Integers, FiniteSets

CONSTANTS DTasks, DependsOn   \* DependsOn[t]: dependenciesOf(t), without a cycle

ASSUME DependencyAssumption == DependsOn \in [DTasks -> SUBSET DTasks]

VARIABLES
  dt,    \* each task: its state, with what a BLOCKED one is blocked on
  waits  \* each task's open "dependency:" obligations, by prerequisite

depVars == <<dt, waits>>

\* BLOCKED with a reason that starts "Dependency ", with one of an in-flight wait, or
\* with any other.
Blocked == {"dependency", "in flight", "blocked"}
DepTypeOK ==
  /\ dt \in [DTasks -> Blocked \union {"QUEUED", "READY", "RUNNING", "DONE", "FAILED", "CANCELLED"}]
  /\ waits \in [DTasks -> SUBSET DTasks]

\* createTask
DepInit == dt = [t \in DTasks |-> "QUEUED"] /\ waits = [t \in DTasks |-> {}]

Become(t, s) == dt' = [dt EXCEPT ![t] = s]
-----------------------------------------------------------------------------
(* promoteTasks, for one candidate.                                        *)

\* Mutant: a prerequisite that is blocked may still succeed by itself.
FailedOnly(t) == {d \in DependsOn[t] : dt[d] \in {"FAILED", "CANCELLED"}}

\* Prerequisites that can make no progress by themselves.
Failed(t) == {d \in DependsOn[t] : dt[d] \in {"FAILED", "CANCELLED", "dependency", "blocked"}}

AllDone(t)   == \A d \in DependsOn[t] : dt[d] = "DONE"

\* Mutant: tasks that wait in QUEUED are looked at.
QueuedOnly(t) == dt[t] = "QUEUED"

Candidate(t) == dt[t] \in {"QUEUED", "dependency"}

BlockOnDependency(t) ==
  /\ Candidate(t)
  /\ \E d \in Failed(t) : waits' = [waits EXCEPT ![t] = @ \union {d}]
  /\ Become(t, "dependency")

RequeueTask(t) ==
  /\ dt[t] = "dependency" /\ Failed(t) = {} /\ ~AllDone(t)
  /\ Become(t, "QUEUED") /\ UNCHANGED waits

\* Obligations of prerequisites are resolved; with others left open, the task stays.
ReadyTask(t) ==
  /\ Candidate(t) /\ AllDone(t)
  /\ waits' = [waits EXCEPT ![t] = {d \in @ : dt[d] # "DONE"}]
  /\ IF waits'[t] = {} THEN Become(t, "READY") ELSE UNCHANGED dt
-----------------------------------------------------------------------------
\* Mutant: obligations are not asked for at dispatch.
NothingWaits(t) == {}

\* resumeOperationalTask: the open obligation it finds.
StillWaiting(t) == waits[t]

\* blockTask: "The task is still waiting on obligation ..."
RefuseWaiting(t)  == /\ dt[t] = "READY" /\ StillWaiting(t) # {}
                     /\ Become(t, "blocked") /\ UNCHANGED waits
DispatchTask(t)   == /\ dt[t] = "READY" /\ StillWaiting(t) = {}
                     /\ Become(t, "RUNNING") /\ UNCHANGED waits
\* launchAttempt parks work, resumeAdmissionPending resumes it.
ParkTask(t)       == dt[t] = "RUNNING" /\ Become(t, "in flight") /\ UNCHANGED waits
ResumeParked(t)   == dt[t] = "in flight" /\ Become(t, "RUNNING") /\ UNCHANGED waits
TaskEnds(t)       == /\ dt[t] = "RUNNING" /\ UNCHANGED waits
                     /\ \E s \in {"DONE", "FAILED", "blocked"} : Become(t, s)

\* retryTask and cancelTask
DepRetry(t)  == /\ dt[t] \in Blocked \union {"FAILED"} /\ Become(t, "READY") /\ UNCHANGED waits
DepCancel(t) == /\ dt[t] \notin {"DONE", "FAILED", "CANCELLED"}
                /\ Become(t, "CANCELLED") /\ UNCHANGED waits

PromoteTask(t) == BlockOnDependency(t) \/ RequeueTask(t) \/ ReadyTask(t)
DepTick(t)     == PromoteTask(t) \/ RefuseWaiting(t) \/ DispatchTask(t)

DepNext == \E t \in DTasks : DepTick(t) \/ ParkTask(t) \/ ResumeParked(t) \/ TaskEnds(t)
                             \/ DepRetry(t) \/ DepCancel(t)

\* Every tick promotes and dispatches; work ends.
DepFairness == \A t \in DTasks : /\ WF_depVars(PromoteTask(t))
                                 /\ SF_depVars(RefuseWaiting(t) \/ DispatchTask(t))
                                 /\ SF_depVars(TaskEnds(t)) /\ SF_depVars(ResumeParked(t))

DepSpec == DepInit /\ [][DepNext]_depVars /\ DepFairness
-----------------------------------------------------------------------------
\* "Dependencies must be DONE": no task is worked on before, whatever was retried.
DependenciesFirst == \A t \in DTasks : dt[t] \in {"RUNNING", "in flight", "DONE"} => AllDone(t)

\* A stuck prerequisite blocks its dependents "instead of leaving them silently QUEUED",
\* down the chain, and a task blocked so starts when all its prerequisites are DONE.
Overdue(t) == \/ /\ dt[t] = "QUEUED"
                 /\ \E d \in DependsOn[t] : dt[d] \in {"FAILED", "CANCELLED", "blocked", "dependency"}
              \/ dt[t] = "dependency" /\ \A d \in DependsOn[t] : dt[d] = "DONE"
DependentsSettle == \A t \in {u \in DTasks : DependsOn[u] # {}} : Overdue(t) ~> ~Overdue(t)

Finished == {"DONE", "FAILED", "CANCELLED"}

\* "An active project's task becomes ready after its dependencies finish"
\* (docs/architecture/task-execution.md:19): it does not wait on them for ever, however
\* often it is retried.
ReadyAfterDependencies ==
  \A t \in DTasks : (AllDone(t) /\ waits[t] # {} /\ dt[t] \notin Finished)
                      ~> (waits[t] = {} \/ dt[t] \in Finished)
=============================================================================
