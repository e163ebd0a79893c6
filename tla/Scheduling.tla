------------------------------ MODULE Scheduling ------------------------------
(***************************************************************************)
(* Which work is admitted and in which order: evaluateAdmission, fairOrder,*)
(* AdaptiveConcurrency and collectActiveWork of                            *)
(* src/scheduling/admission.ts under observePressure, dispatchReadyTasks,  *)
(* resumeAdmissionPending and deferForAdmission of                         *)
(* src/controller/controller.ts.                                           *)
(*                                                                         *)
(* Tasks recur: one that is finished is submitted again, so a project can  *)
(* have work without end. Provider caps and named resources, which are     *)
(* compared like repositories, are left out. Ages are counted in agingMs.  *)
(***************************************************************************)
EXTENDS Integers, Sequences, FiniteSets

CONSTANTS STasks, Projects, ProjectOf, RepoOf, Priority,
          Exclusive,     \* tasks whose executionMode is single or sequential
          ModelWorkers, GateJobs, PerProject, ActiveProjects,
          RaiseAfter,    \* raiseAfterHealthyTicks
          ScanLimit,     \* READY_SCAN_LIMIT
          MaxAge, MaxLead \* bounds: ages, and how far one project's service leads

ASSUME SchedulingAssumption ==
  /\ IsFiniteSet(STasks)
  /\ ProjectOf \in [STasks -> Projects] /\ Exclusive \subseteq STasks
  /\ Priority \in [STasks -> Nat] /\ RepoOf \in [STasks -> Projects]
  /\ {ModelWorkers, GateJobs, PerProject, ActiveProjects, RaiseAfter, ScanLimit} \subseteq Nat \ {0}
  /\ MaxAge \in Nat /\ MaxLead \in Nat

VARIABLES
  st,       \* each task: READY, what it holds as active work, or not submitted
  age,      \* how long each READY task has waited
  service,  \* project_schedule.dispatch_count, above the least served project
  adaptive, \* AdaptiveConcurrency: target and healthy streak
  pass      \* the candidates the present tick has still to look at

schedVars == <<st, age, service, adaptive, pass>>

\* A held task has its workspace but runs no process, a parked one waits for admission.
Holding  == {"model", "gate", "held", "parked"}
floor    == 1

SchedTypeOK ==
  /\ st \in [STasks -> Holding \union {"ready", "out"}] /\ age \in [STasks -> 0..MaxAge]
  /\ service \in [Projects -> 0..MaxLead]
  /\ adaptive \in [target : floor..ModelWorkers, streak : 0..RaiseAfter]
  /\ pass \in Seq(STasks)

SchedInit ==
  /\ st = [t \in STasks |-> "ready"] /\ age = [t \in STasks |-> 0]
  /\ service = [p \in Projects |-> 0]
  /\ adaptive = [target |-> ModelWorkers, streak |-> 0] /\ pass = <<>>
-----------------------------------------------------------------------------
(* Order.                                                                  *)

\* Mutant: service received does not count.
AgeScore(p, S) == 0 - (CHOOSE a \in {age[t] : t \in S} : \A t \in S : age[t] <= a)

\* fairOrder: score
Score(p, S) == service[p] - (CHOOSE a \in {age[t] : t \in S} : \A t \in S : age[t] <= a)

\* Before another of its project: by priority and then age; ties by identity, here any.
Before(a, b) == Priority[a] < Priority[b] \/ (Priority[a] = Priority[b] /\ age[a] > age[b])

\* The round in which a project's list reaches its task at i.
Round(o, i) == Cardinality({j \in 1..(i - 1) : ProjectOf[o[j]] = ProjectOf[o[i]]})

\* Interleaved round-robin, projects by score.
Precedes(o, S, i, j) ==
  LET p == ProjectOf[o[i]]  q == ProjectOf[o[j]]
  IN IF p = q THEN o[i] # o[j] /\ ~Before(o[j], o[i])
     ELSE \/ Round(o, i) < Round(o, j)
          \/ /\ Round(o, i) = Round(o, j)
             /\ Score(p, {t \in S : ProjectOf[t] = p}) <= Score(q, {t \in S : ProjectOf[t] = q})

fairOrder(S) == {o \in [1..Cardinality(S) -> S] : \A j \in DOMAIN o : \A i \in 1..(j - 1) : Precedes(o, S, i, j)}

\* listTasks, by priority, and no further than the scan limit.
Waiting(s) == {t \in STasks : st[t] = s}
Scanned    == {S \in SUBSET Waiting("ready") :
                 /\ IF Cardinality(Waiting("ready")) <= ScanLimit THEN S = Waiting("ready") ELSE Cardinality(S) = ScanLimit
                 /\ \A t \in S, u \in Waiting("ready") \ S : Priority[t] <= Priority[u]}
-----------------------------------------------------------------------------
(* Admission.                                                              *)

\* Mutant: only processes hold anything.
Processes == {t \in STasks : st[t] \in {"model", "gate"}}

\* collectActiveWork
ActiveWork == {t \in STasks : st[t] \in Holding}

OnModel(S) == {u \in S : st[u] = "model"}
OnGate(S)  == {u \in S : st[u] = "gate"}
Conflict(t, u) == RepoOf[t] = RepoOf[u] /\ (t \in Exclusive \/ u \in Exclusive)

ModelSlot(n) == n < adaptive.target

\* evaluateAdmission. Scopes of two parallel tasks in one repository do not overlap.
Admitted(t, kind) ==
  LET others == ActiveWork \ {t}
      Ps     == {ProjectOf[u] : u \in others}
  IN /\ IF kind = "model" THEN ModelSlot(Cardinality(OnModel(others)))
        ELSE Cardinality(OnGate(others)) < GateJobs
     /\ t \notin ActiveWork =>
          /\ Cardinality({u \in others : ProjectOf[u] = ProjectOf[t]}) < PerProject
          /\ ProjectOf[t] \notin Ps => Cardinality(Ps) < ActiveProjects
     /\ \A u \in others : ~Conflict(t, u)

\* markProjectDispatched, above the least served project.
Dispatched(p) ==
  LET raised == [service EXCEPT ![p] = IF @ < MaxLead THEN @ + 1 ELSE @]
  IN IF \A q \in Projects : raised[q] > 0 THEN [q \in Projects |-> raised[q] - 1] ELSE raised
-----------------------------------------------------------------------------
(* A tick.                                                                 *)

\* Mutant: lowered below the floor.
LoweredAlways == adaptive.target - 1

Lowered == IF adaptive.target - 1 > floor THEN adaptive.target - 1 ELSE floor

\* AdaptiveConcurrency.observe
Observe(pressure) ==
  IF pressure THEN [target |-> Lowered, streak |-> 0]
  ELSE IF adaptive.streak + 1 >= RaiseAfter /\ adaptive.target < ModelWorkers
       THEN [target |-> adaptive.target + 1, streak |-> 0]
       ELSE [adaptive EXCEPT !.streak = IF @ < RaiseAfter THEN @ + 1 ELSE @]

Older == age' = [t \in STasks |-> IF st[t] = "ready" /\ age[t] < MaxAge THEN age[t] + 1 ELSE age[t]]

\* observePressure, then resumeAdmissionPending and dispatchReadyTasks, which asks again
\* whether the machine is overloaded and then takes nothing up. A provider in cooldown is
\* pressure to the first and nothing to the second.
BeginTick(pressure, overloaded) ==
  /\ pass = <<>>
  /\ adaptive' = Observe(pressure) /\ Older
  /\ \E S \in Scanned : \E o \in fairOrder(Waiting("parked")), next \in fairOrder(S) :
       pass' = IF overloaded THEN o ELSE o \o next
  /\ UNCHANGED <<st, service>>
Ticks         == \E pressure, overloaded \in BOOLEAN : BeginTick(pressure, overloaded)
DispatchTicks == \E pressure \in BOOLEAN : BeginTick(pressure, FALSE)

Offer ==
  /\ pass # <<>> /\ pass' = Tail(pass)
  /\ LET t == Head(pass)
     IN IF st[t] \in {"parked", "ready"} /\ Admitted(t, "model")
        THEN /\ st' = [st EXCEPT ![t] = "model"] /\ age' = [age EXCEPT ![t] = 0]
             /\ service' = IF st[t] = "ready" THEN Dispatched(ProjectOf[t]) ELSE service
        ELSE UNCHANGED <<st, age, service>>
  /\ UNCHANGED adaptive

\* Collection, between dispatches: a worker or a check ends, its task goes on to a
\* check, to a repair or review, or is over.
WorkEnds(t) ==
  /\ pass = <<>> /\ st[t] \in {"model", "gate"} /\ st' = [st EXCEPT ![t] = "held"]
  /\ UNCHANGED <<age, service, adaptive, pass>>
CheckNext(t) ==
  /\ pass = <<>> /\ st[t] = "held" /\ Admitted(t, "gate") /\ st' = [st EXCEPT ![t] = "gate"]
  /\ UNCHANGED <<age, service, adaptive, pass>>
\* launchAttempt, deferForAdmission
RepairNext(t) ==
  /\ pass = <<>> /\ st[t] = "held"
  /\ st' = [st EXCEPT ![t] = IF Admitted(t, "model") THEN "model" ELSE "parked"]
  /\ UNCHANGED <<age, service, adaptive, pass>>
TaskOver(t) ==
  /\ pass = <<>> /\ st[t] = "held" /\ st' = [st EXCEPT ![t] = "out"]
  /\ UNCHANGED <<age, service, adaptive, pass>>
Submit(t) ==
  /\ st[t] = "out" /\ st' = [st EXCEPT ![t] = "ready"] /\ age' = [age EXCEPT ![t] = 0]
  /\ UNCHANGED <<service, adaptive, pass>>

SchedNext ==
  \/ Ticks
  \/ Offer
  \/ \E t \in STasks : WorkEnds(t) \/ CheckNext(t) \/ RepairNext(t) \/ TaskOver(t) \/ Submit(t)

\* The controller ticks, work ends, and tasks are over in the end.
SchedFairness ==
  /\ WF_schedVars(Ticks) /\ WF_schedVars(Offer)
  /\ \A t \in STasks : SF_schedVars(WorkEnds(t)) /\ SF_schedVars(TaskOver(t))

SchedSpec == SchedInit /\ [][SchedNext]_schedVars /\ SchedFairness
-----------------------------------------------------------------------------
\* Tasks that must not share a repository never both hold it, through checks, repairs
\* and waits for admission, whichever project reached it ("cannot bypass its write lock").
RepoApart == \A t, u \in STasks :
  t # u /\ {st[t], st[u]} \subseteq Holding => ~Conflict(t, u)

\* The scan never leaves t out: no more tasks than it takes are ready at t's priority or
\* a better one.
First(t)  == \A u \in STasks \ {t} : ProjectOf[u] = ProjectOf[t] => Priority[t] < Priority[u]
InScan(t) == Cardinality({u \in Waiting("ready") : Priority[u] <= Priority[t]}) <= ScanLimit

\* "A project with long tasks cannot starve one with short tasks": unless the machine is
\* overloaded from some tick on, the first task of each project is dispatched, however
\* much work the others submit and though a provider cools for ever, while it stays
\* within the scan.
ProjectsServed ==
  []<><<DispatchTicks>>_schedVars =>
    \A t \in STasks : First(t) => (st[t] = "ready" /\ [](st[t] = "ready" => InScan(t)) ~> st[t] # "ready")

\* The same of a task the scan may leave out. Not so: as many tasks that cannot be
\* admitted as the scan takes, each before it in the list, hide it.
ServedBeyondScan ==
  []<><<DispatchTicks>>_schedVars => \A t \in STasks : First(t) => (st[t] = "ready" ~> st[t] # "ready")
=============================================================================
