---------------------------- MODULE ExecutionPlans ----------------------------
(***************************************************************************)
(* A plan from its validation to its tasks: validateExecutionPlan,         *)
(* requirementOwnershipErrors and applyExecutionPlan of src/domain/plan.ts,*)
(* createTask and recordExecutionPlan of src/store/records.ts, the plan    *)
(* commands of src/cli.ts and submitAcceptedPlan of src/intake/service.ts; *)
(* then its tasks run, as far as evaluateAdmission's repository rule and   *)
(* their dependencies go. Dependents of a failure: Dependencies.           *)
(*                                                                         *)
(* A plan is validated whole and its errors are only counted: titles,      *)
(* objectives and the other texts are well formed.                         *)
(***************************************************************************)
EXTENDS Integers, Sequences, FiniteSets, SequencesExt

CONSTANTS
  Plans,        \* plans to consider: [tasks, mode], the tasks in order, each with its key,
                \* dependencies, scope, mode, resource and requirements ({}: none declared)
  Requirements, \* the mandatory requirements of the brief
  Earlier       \* bound: plans the project already has

\* What a plan file is parsed to; a scope is a path, and how it was spelled.
Scopes       == [path : Seq(STRING), spelled : {"prefix", "glob", "outside"}]
PlannedTasks == [key : STRING, dependsOn : Seq(STRING), scope : SUBSET Scopes, resource : {"plain", "odd"},
                 mode : {"single", "sequential", "parallel", "mixed"}, owns : SUBSET STRING]

ASSUME PlansAssumption ==
  /\ \A p \in Plans : p.tasks \in Seq(PlannedTasks)
  /\ Earlier \in Nat

VARIABLES
  plan,   \* the plan that is submitted
  source, \* "cli" or "intake"
  search, \* visit: the task it started from last, its calls in progress, the order it found
  step,   \* what became of it
  rows,   \* its tasks: the dependencies and state of each created one
  plans,  \* execution_plans of the project, newest first
  told    \* the plan id the submission reports

epVars == <<plan, source, search, step, rows, plans, told>>

Keys      == {plan.tasks[i].key : i \in DOMAIN plan.tasks}
\* byKey keeps the first of two tasks with one key.
TaskOf(k) == plan.tasks[CHOOSE i \in DOMAIN plan.tasks :
                          plan.tasks[i].key = k /\ \A j \in 1..(i - 1) : plan.tasks[j].key # k]
DepsOf(k) == ToSet(TaskOf(k).dependsOn) \intersect Keys

EpTypeOK ==
  /\ plan \in Plans /\ source \in {"cli", "intake"}
  /\ search \in [root : 1..Len(plan.tasks) + 1, calls : Seq([key : Keys, at : Nat \ {0}]), order : Seq(Keys),
                 cycle : BOOLEAN]
  /\ step \in {"written", "invalid", "validated", "refused", "applied"}
  /\ DOMAIN rows \subseteq Keys
  /\ \A k \in DOMAIN rows : rows[k].state \in {"QUEUED", "RUNNING", "DONE"} /\ rows[k].dependsOn \subseteq DOMAIN rows
  /\ plans \in Seq(0..Earlier + 1) /\ told \in {-1} \union 0..Earlier + 1

EpInit ==
  /\ plan \in Plans /\ source \in {"cli", "intake"}
  /\ search = [root |-> 1, calls |-> <<>>, order |-> <<>>, cycle |-> FALSE]
  /\ step = "written" /\ rows = <<>> /\ told = -1
  /\ \E n \in 0..Earlier : plans = [i \in 1..n |-> n - i]
-----------------------------------------------------------------------------
(* Scopes are path prefixes, as sequences of names; <<>> is everything.    *)

\* normalizeScope: "src/" and "src/**" are "src"; "." and "**" are everything. What is
\* still a glob then, and what leaves the repository, is refused.
normalizeScope(scope) == scope.path
ScopeRefused(scope)   == scope.spelled \in {"glob", "outside"}

scopesOverlap(S, T) ==
  \/ S = {} \/ T = {}
  \/ \E a \in S, b \in T : \/ IsPrefix(normalizeScope(a), normalizeScope(b))
                           \/ IsPrefix(normalizeScope(b), normalizeScope(a))
-----------------------------------------------------------------------------
(* Validation.                                                             *)

\* visit, call by call: dependencies first, depth first, noting a cycle. A call is the key
\* it visits and the dependency it looks at.
Calls    == search.calls
Visited  == ToSet(search.order)
Visiting == {Calls[i].key : i \in DOMAIN Calls}
DepAt(c) == TaskOf(c.key).dependsOn[c.at]
More(c)  == c.at <= Len(TaskOf(c.key).dependsOn)

\* Mutant: a key that is being visited is taken as done.
VisitOnce(s, k) ==
  IF k \in Visited \union Visiting THEN s ELSE [s EXCEPT !.calls = Append(@, [key |-> k, at |-> 1])]

Visit(s, k) ==
  IF k \in Visited THEN s
  ELSE IF k \in Visiting THEN [s EXCEPT !.cycle = TRUE]
  ELSE [s EXCEPT !.calls = Append(@, [key |-> k, at |-> 1])]

VisitRoot ==
  /\ Calls = <<>> /\ search.root <= Len(plan.tasks)
  /\ search' = Visit([search EXCEPT !.root = @ + 1], plan.tasks[search.root].key)
VisitDependency ==
  /\ Calls # <<>> /\ More(Last(Calls))
  /\ LET s == [search EXCEPT !.calls[Len(Calls)].at = @ + 1]
         d == DepAt(Last(Calls))
     IN search' = IF d \in Keys THEN Visit(s, d) ELSE s
VisitReturns ==
  /\ Calls # <<>> /\ ~More(Last(Calls))
  /\ search' = [search EXCEPT !.calls = Front(@), !.order = Append(@, Last(Calls).key)]

SearchGraph ==
  /\ step = "written" /\ (VisitRoot \/ VisitDependency \/ VisitReturns)
  /\ UNCHANGED <<plan, source, step, rows, plans, told>>
Searched == Calls = <<>> /\ search.root > Len(plan.tasks)

\* hasDependencyPath: in whatever holds a key and the dependencies of all it holds.
Closed(S) == \A k \in S : DepsOf(k) \subseteq S
hasDependencyPath(from, to) == \A S \in SUBSET Keys : from \in S /\ Closed(S) => to \in S

ParallelKeys == {k \in Keys : TaskOf(k).mode = "parallel" \/ plan.mode = "parallel"}
Ordered(k, l) == hasDependencyPath(k, l) \/ hasDependencyPath(l, k)

\* validateExecutionPlan
GraphErrors ==
  \/ Len(plan.tasks) = 0 \/ Cardinality(Keys) # Len(plan.tasks)
  \/ \E k \in Keys : k \in ToSet(TaskOf(k).dependsOn) \/ ~(ToSet(TaskOf(k).dependsOn) \subseteq Keys)
  \/ search.cycle
ScopeErrors ==
  \/ \E k \in Keys : \E scope \in TaskOf(k).scope : ScopeRefused(scope)
  \/ \E k, l \in ParallelKeys : k # l /\ ~Ordered(k, l) /\ scopesOverlap(TaskOf(k).scope, TaskOf(l).scope)
Valid == ~GraphErrors /\ ~ScopeErrors

\* requirementOwnershipErrors; proposals only.
Declaring == {k \in Keys : TaskOf(k).owns # {}}
Owned     == UNION {TaskOf(k).owns : k \in Keys}
OwnershipErrors == Declaring # {} /\ (~(Owned \subseteq Requirements) \/ ~(Requirements \subseteq Owned))

ValidatePlan ==
  /\ step = "written" /\ Searched
  /\ step' = IF Valid /\ ~(source = "intake" /\ OwnershipErrors) THEN "validated" ELSE "invalid"
  /\ UNCHANGED <<plan, source, search, rows, plans, told>>
-----------------------------------------------------------------------------
(* Application, in one transaction.                                        *)

\* createTask refuses what validation lets through: a resource whose value has other
\* characters than its own pattern allows, and from the command line an unknown requirement.
CreateRefuses(k) == TaskOf(k).resource = "odd" \/ (source = "cli" /\ ~(TaskOf(k).owns \subseteq Requirements))

\* created.get(dependency) of a task that is not created yet throws.
Unresolved(order) == \E i \in DOMAIN order : ~(ToSet(TaskOf(order[i]).dependsOn) \subseteq {order[j] : j \in 1..(i - 1)})

Created(order) == [k \in ToSet(order) |-> [dependsOn |-> ToSet(TaskOf(k).dependsOn), state |-> "QUEUED"]]

\* recordExecutionPlan; the plans are listed newest first.
RecordedPlans == <<Len(plans)>> \o plans

\* submitAcceptedPlan reports the last of the plans listed.
ReportedPlan == IF source = "intake" THEN Last(RecordedPlans) ELSE Len(plans)

\* applyExecutionPlan
ApplyPlan ==
  LET order == search.order
  IN /\ step = "validated" /\ UNCHANGED <<plan, source, search>>
     /\ IF Unresolved(order) \/ \E k \in ToSet(order) : CreateRefuses(k)
        THEN step' = "refused" /\ UNCHANGED <<rows, plans, told>>
        ELSE /\ step' = "applied" /\ rows' = Created(order)
             /\ plans' = RecordedPlans
             /\ told' = ReportedPlan
-----------------------------------------------------------------------------
(* The tasks.                                                              *)

InState(s)    == {k \in DOMAIN rows : rows[k].state = s}
ModeOf(k)     == TaskOf(k).mode
ExclusiveMode == {"single", "sequential"}

\* evaluateAdmission: what other work in the repository refuses.
RefusedBy(k, l) == \/ ModeOf(k) \in ExclusiveMode \/ ModeOf(l) \in ExclusiveMode
                   \/ scopesOverlap(TaskOf(k).scope, TaskOf(l).scope)

CanStart(k) == /\ rows[k].state = "QUEUED" /\ \A d \in rows[k].dependsOn : rows[d].state = "DONE"
               /\ \A l \in InState("RUNNING") : ~RefusedBy(k, l)

StartTask(k) ==
  /\ k \in DOMAIN rows /\ CanStart(k) /\ rows' = [rows EXCEPT ![k].state = "RUNNING"]
  /\ UNCHANGED <<plan, source, search, step, plans, told>>

FinishTask(k) ==
  /\ k \in InState("RUNNING") /\ rows' = [rows EXCEPT ![k].state = "DONE"]
  /\ UNCHANGED <<plan, source, search, step, plans, told>>

EpNext == SearchGraph \/ ValidatePlan \/ ApplyPlan \/ \E k \in DOMAIN rows : StartTask(k) \/ FinishTask(k)

EpSpec == EpInit /\ [][EpNext]_epVars
-----------------------------------------------------------------------------
\* What may be written under both of two scopes, told without scopesOverlap.
Meet(S, T) == S = {} \/ T = {} \/ \E a \in S, b \in T : \A i \in DOMAIN a.path \intersect DOMAIN b.path : a.path[i] = b.path[i]

\* Validation leaves nothing in the graph for the application to stumble over: a valid plan
\* becomes all its tasks, or none of them because a resource or an owner was refused.
PlanApplies ==
  /\ step = "refused" => \E k \in Keys : CreateRefuses(k)
  /\ step = "applied" => /\ DOMAIN rows = Keys
                         /\ \A k \in Keys : rows[k].dependsOn = ToSet(TaskOf(k).dependsOn)

\* The tasks of an applied plan never come to rest before all are done, two that run at
\* once have nothing to write in common, and those planned to run in parallel are not made
\* to wait for each other's scopes.
PlanRuns ==
  step = "applied" =>
    /\ InState("QUEUED") # {} => InState("RUNNING") # {} \/ \E k \in InState("QUEUED") : CanStart(k)
    /\ \A k, l \in InState("RUNNING") : k # l => ~Meet(TaskOf(k).scope, TaskOf(l).scope)
    /\ \A k, l \in Keys : (k # l /\ ~Ordered(k, l) /\ {ModeOf(k), ModeOf(l)} = {"parallel"}) => ~RefusedBy(k, l)

PlansHold == PlanApplies /\ PlanRuns

\* plan apply will "Create plan/task records from a valid file" (docs/commands.md:133):
\* violated by a resource that validation accepts and createTask does not.
ValidPlanApplies == step # "refused"

\* The plan a submission reports is the one it recorded: violated, the oldest is reported.
ReportsItsPlan == told # -1 => told = plans[1]
=============================================================================
