------------------------------- MODULE Routing -------------------------------
(***************************************************************************)
(* Which provider a worker is started on, and what a provider's failure    *)
(* does: selectRoute and evaluateCapability of src/routing/, the           *)
(* provider_capacity rows of src/store/records.ts, selectTaskRoute,        *)
(* applyTrialRoute, handleFailure, noteProviderFailure, deferForAdmission, *)
(* resumeAdmissionPending and the route part of dispatchReadyTasks and     *)
(* launchAttempt in src/controller/controller.ts.                          *)
(*                                                                         *)
(* A provider has one candidate in the policy's list; its model and effort *)
(* are left out, and so are the tools a task requires. An attempt ends in  *)
(* the class it was diagnosed with; the stages around it are those of      *)
(* LaunchProtocol. Reviews have their own routes (ReviewRounds).           *)
(***************************************************************************)
EXTENDS Integers, Sequences, FiniteSets, SequencesExt

CONSTANTS RtTasks, Providers, NoProvider,
          DomainOf,     \* the quota domain of each provider's subscription
          Ranked,       \* the policy's candidates for the task class, in order
          ProviderLimit, RtRepairLimit,
          Setups        \* the controller's options to consider, each with its bound on attempts

ASSUME RoutingAssumption ==
  /\ IsFiniteSet(RtTasks) /\ NoProvider \notin Providers /\ DOMAIN DomainOf = Providers
  /\ Ranked \in Seq(Providers)
  /\ ProviderLimit \in [Providers -> Nat \ {0}]
  /\ RtRepairLimit \in Nat
  /\ Setups \subseteq [mode : {"policy", "preferred", "pinned"}, adapter : Providers \union {NoProvider},
                       capacity : {"allow", "wait"}, override : Providers \union {NoProvider},
                       trial : [RtTasks -> Providers \union {NoProvider}],
                       attempts : [RtTasks -> Nat], installed : SUBSET Providers,
                       unproven : SUBSET Providers]   \* no probe has verified their entitlement

VARIABLES
  job,       \* each task: state, failure_class, the kind of parked work, repairs, retried since
  att,       \* its attempts, oldest first
  capacity,  \* provider_capacity.state
  proven,    \* entitlements verified, as the registry in use says
  setup      \* the controller's options and the trials

rtVars == <<job, att, capacity, proven, setup>>

Unavailable == {"QUOTA", "AUTH"}                     \* isProviderUnavailable
Classes     == Unavailable \union {"CODE", "INFRA"}   \* INFRA: every class that blocks

RtTypeOK ==
  /\ job \in [RtTasks -> [state : {"ready", "running", "parked", "checking", "blocked", "failed", "done"},
                          failure : Classes \union {"none"}, parked : {"none", "repair", "reroute", "initial"},
                          repairs : 0..RtRepairLimit, retried : BOOLEAN]]
  /\ \A t \in RtTasks : \A i \in DOMAIN att[t] :
       att[t][i] \in [on : Providers, kind : {"initial", "repair", "reroute"}, stage : {"implement", "repair"},
                      end : Classes \union {"running", "ok"}]
  /\ capacity \in [Providers -> {"available", "cooldown", "unavailable"}]
  /\ proven \subseteq Providers /\ setup \in Setups

RtInit ==
  /\ job = [t \in RtTasks |-> [state |-> "ready", failure |-> "none", parked |-> "none", repairs |-> 0, retried |-> FALSE]]
  /\ att = [t \in RtTasks |-> <<>>]
  /\ capacity = [p \in Providers |-> "available"]
  /\ setup \in Setups /\ proven = setup.installed \ setup.unproven
-----------------------------------------------------------------------------
(* Selection, on the tasks, attempts and capacity that are current.        *)

RunsOn(A, p)  == {t \in RtTasks : \E i \in DOMAIN A[t] : A[t][i].on = p /\ A[t][i].end = "running"}

\* The attempts that failed for want of their provider; the last, if the task still carries
\* that failure.
Failures(A, t) == {i \in DOMAIN A[t] : A[t][i].end \in Unavailable}
LastFailed(A, t) == A[t][Max(Failures(A, t))]
FailedProvider(A, t, failure) ==
  IF failure \in Unavailable /\ Failures(A, t) # {} THEN {LastFailed(A, t)} ELSE {}

\* Providers that are out at this task boundary: those that failed, after QUOTA their domain.
Excluded(A, t, failure, also) ==
  LET failed == FailedProvider(A, t, failure)
  IN also \union {f.on : f \in failed}
          \union {p \in Providers : \E f \in failed : f.end = "QUOTA" /\ DomainOf[p] = DomainOf[f.on]}

\* A pin removes the other providers' candidates.
Candidates == {p \in ToSet(Ranked) : setup.mode = "pinned" => p = setup.adapter}

\* The first of some candidates in the policy's order; a preference puts its own before them.
FirstOf(S) == IF setup.mode = "preferred" /\ setup.adapter \in S THEN setup.adapter
              ELSE Ranked[Min({i \in DOMAIN Ranked : Ranked[i] \in S})]

\* selectRoute: candidates that could run now, those that are only busy, and the choice.
Select(A, cap, out) ==
  LET Busy(p)  == Cardinality(RunsOn(A, p)) >= ProviderLimit[p]
      fit      == {p \in Candidates \intersect proven : p \notin out /\ cap[p] = "available"}
      eligible == {p \in fit : ~Busy(p)}
      waits    == eligible = {} \/ (Busy(FirstOf(fit)) /\ setup.capacity = "wait")
  IN [chosen |-> IF waits THEN NoProvider ELSE FirstOf(eligible), eligible |-> eligible, deferred |-> fit \ eligible]

\* applyTrialRoute: exactly the variant's provider, waiting while it cools down.
TrialRoute(p, cap) ==
  LET able  == p \in proven /\ (setup.mode = "pinned" => p = setup.adapter)
      ready == able /\ cap[p] = "available"
  IN [chosen |-> IF ready THEN p ELSE NoProvider, eligible |-> IF ready THEN {p} ELSE {},
      deferred |-> IF able /\ ~ready THEN {p} ELSE {}]

\* selectTaskRoute: a trial decides alone; a project's override only among the eligible.
TaskRoute(A, cap, t, failure, also) ==
  LET sel == Select(A, cap, Excluded(A, t, failure, also))
  IN IF setup.trial[t] # NoProvider THEN TrialRoute(setup.trial[t], cap)
     ELSE IF setup.override \in sel.eligible THEN [sel EXCEPT !.chosen = setup.override] ELSE sel

\* evaluateAdmission, as far as providers go; room stands for the shared limits of Scheduling.
Admits(A, t, p, room) == room /\ Cardinality(RunsOn(A, p) \ {t}) < ProviderLimit[p]

\* repeatedFailure: the last two attempts failed alike on this route and nobody asked again.
Repeated(A, t, p) ==
  LET n == Len(A[t])
  IN /\ n >= 2 /\ ~job[t].retried
     /\ A[t][n].end \in Classes \ Unavailable /\ A[t][n - 1].end = A[t][n].end
     /\ A[t][n - 1].on = A[t][n].on /\ A[t][n].on = p
-----------------------------------------------------------------------------
(* What launching, parking and blocking do to the rows.                    *)

BlockedAs(j, class) == [j EXCEPT !.state = "blocked", !.failure = class, !.parked = "none"]

\* providerBlockClass: CONFIG, which blocks like INFRA, if a candidate has no entitlement.
BlockClass == IF ~(Candidates \subseteq proven) THEN "INFRA"
              ELSE IF \E p \in Providers : capacity[p] = "cooldown" THEN "QUOTA" ELSE "AUTH"

\* Mutant: parking keeps the task's failure as it is.
ParkedAsIs(A, j, t, kind) == [j EXCEPT !.state = "parked", !.parked = kind]

\* deferForAdmission: a reroute keeps the provider failure it answers.
ParkedAs(A, j, t, kind) ==
  [j EXCEPT !.state = "parked", !.parked = kind,
            !.failure = IF kind = "reroute" /\ A[t] # <<>> /\ Last(A[t]).end \in Classes THEN Last(A[t]).end ELSE j.failure]

\* A reroute goes on in the stage of the attempt it replaces.
StageOf(A, t, kind) ==
  IF kind = "repair" \/ (kind = "reroute" /\ A[t] # <<>> /\ Last(A[t]).stage = "repair") THEN "repair" ELSE "implement"

\* launchAttempt for task t whose row is j, over the attempts A of all tasks.
Launch(A, j, t, kind, sel) ==
  /\ UNCHANGED <<proven, setup>>
  /\ \E room \in BOOLEAN :
     IF sel.chosen = NoProvider THEN
       /\ att' = A
       /\ job' = [job EXCEPT ![t] = IF sel.deferred # {} THEN ParkedAs(A, j, t, kind)
                                    ELSE BlockedAs(j, "INFRA")]  \* thrown; its tick or the next blocks the task
     ELSE IF Repeated(A, t, sel.chosen) THEN
       att' = A /\ job' = [job EXCEPT ![t] = BlockedAs(j, Last(A[t]).end)]
     ELSE IF ~Admits(A, t, sel.chosen, room) THEN
       att' = A /\ job' = [job EXCEPT ![t] = ParkedAs(A, j, t, kind)]
     ELSE
       /\ Len(A[t]) < setup.attempts[t]
       /\ att' = [A EXCEPT ![t] = Append(@, [on |-> sel.chosen, kind |-> kind, stage |-> StageOf(A, t, kind), end |-> "running"])]
       /\ job' = [job EXCEPT ![t] = [j EXCEPT !.state = "running", !.parked = "none"]]

\* Mutant: a quota failure cools its own provider only.
CoolsOne(p, class) ==
  [capacity EXCEPT ![p] = IF class = "AUTH" THEN "unavailable" ELSE IF class = "QUOTA" THEN "cooldown" ELSE @]

\* noteProviderFailure: a login failure closes the provider, a quota failure cools its whole domain.
CapacityAfter(p, class) ==
  [q \in Providers |->
     IF class = "AUTH" /\ q = p THEN "unavailable"
     ELSE IF class = "QUOTA" /\ q \in setup.installed /\ DomainOf[q] = DomainOf[p] THEN "cooldown"
     ELSE capacity[q]]
-----------------------------------------------------------------------------
(* The passes of a tick.                                                   *)

\* dispatchReadyTasks: work whose provider failed comes back as a reroute.
Dispatch(t) ==
  LET sel  == TaskRoute(att, capacity, t, job[t].failure, {})
      kind == IF job[t].failure \in Unavailable THEN "reroute" ELSE "initial"
  IN /\ job[t].state = "ready" /\ UNCHANGED capacity
     /\ \/ /\ sel.chosen # NoProvider /\ Admits(att, t, sel.chosen, TRUE)
           /\ Launch(att, job[t], t, kind, sel)
        \/ /\ sel.chosen = NoProvider /\ sel.deferred = {}
           /\ job' = [job EXCEPT ![t] = BlockedAs(@, BlockClass)]
           /\ UNCHANGED <<att, proven, setup>>

\* resumeAdmissionPending
ResumeLaunch(t) ==
  LET sel == TaskRoute(att, capacity, t, job[t].failure, {})
  IN /\ job[t].state = "parked" /\ sel.chosen # NoProvider /\ Admits(att, t, sel.chosen, TRUE)
     /\ Launch(att, job[t], t, job[t].parked, sel) /\ UNCHANGED capacity

\* The attempts once the running one of task t has ended in this class.
EndedAs(t, class) == [att EXCEPT ![t][Len(att[t])].end = class]
Running(t)      == job[t].state = "running" /\ att[t] # <<>> /\ Last(att[t]).end = "running"
Fresh(j)        == [j EXCEPT !.retried = FALSE]

\* handleFailure for AUTH and QUOTA: reroute at once, wait in READY, or block.
ProviderFails(t, class) ==
  LET A   == EndedAs(t, class)
      cap == CapacityAfter(Last(att[t]).on, class)
      sel == TaskRoute(A, cap, t, job[t].failure, {Last(att[t]).on})
      j   == Fresh(job[t])
  IN /\ Running(t) /\ class \in Unavailable /\ capacity' = cap
     /\ \/ sel.chosen # NoProvider /\ Launch(A, j, t, "reroute", sel)
        \/ /\ sel.chosen = NoProvider /\ att' = A /\ UNCHANGED <<proven, setup>>
           /\ job' = [job EXCEPT ![t] = IF sel.deferred # {} THEN [j EXCEPT !.state = "ready", !.failure = class]
                                        ELSE BlockedAs(j, class)]

\* handleFailure for the rest: a code failure is repaired within the limit.
WorkerFails(t, class) ==
  LET A == EndedAs(t, class)
      j == Fresh(job[t])
  IN /\ Running(t) /\ class \in Classes \ Unavailable /\ UNCHANGED capacity
     /\ \/ /\ class = "CODE" /\ j.repairs < RtRepairLimit
           /\ LET k == [j EXCEPT !.repairs = @ + 1]
              IN Launch(A, k, t, "repair", TaskRoute(A, capacity, t, k.failure, {}))
        \/ /\ class # "CODE" \/ j.repairs = RtRepairLimit
           /\ att' = A /\ UNCHANGED <<proven, setup>>
           /\ job' = [job EXCEPT ![t] = IF class = "CODE" THEN [j EXCEPT !.state = "failed", !.failure = class]
                                        ELSE BlockedAs(j, class)]

\* The tail of collectAttempt: a finalized revision clears the failure and goes to its checks.
WorkerSucceeds(t) ==
  /\ Running(t) /\ att' = EndedAs(t, "ok")
  /\ job' = [job EXCEPT ![t] = [Fresh(@) EXCEPT !.state = "checking", !.failure = "none"]]
  /\ UNCHANGED <<capacity, proven, setup>>

\* completeChecks, as far as the route goes: accepted, repaired, or out of repairs.
ChecksFinish(t) ==
  /\ job[t].state = "checking" /\ UNCHANGED capacity
  /\ \/ job' = [job EXCEPT ![t].state = "done"] /\ UNCHANGED <<att, proven, setup>>
     \/ /\ job[t].repairs < RtRepairLimit
        /\ LET j == [job[t] EXCEPT !.repairs = @ + 1]
           IN Launch(att, j, t, "repair", TaskRoute(att, capacity, t, j.failure, {}))
     \/ /\ job[t].repairs = RtRepairLimit /\ UNCHANGED <<att, proven, setup>>
        /\ job' = [job EXCEPT ![t].state = "failed", ![t].failure = "CODE"]
-----------------------------------------------------------------------------
(* The clock and the operator.                                             *)

\* getProviderCapacity: whoever reads a row whose deadline has passed reopens it.
CooldownExpires(p) ==
  /\ capacity[p] = "cooldown" /\ capacity' = [capacity EXCEPT ![p] = "available"]
  /\ UNCHANGED <<job, att, proven, setup>>

ResetProvider(p) ==
  /\ capacity[p] # "available" /\ capacity' = [capacity EXCEPT ![p] = "available"]
  /\ UNCHANGED <<job, att, proven, setup>>

\* routing verify-entitlement; the controller reloads the registry at its next tick.
VerifyEntitlement(p) ==
  /\ p \in setup.installed \ proven /\ proven' = proven \union {p}
  /\ UNCHANGED <<job, att, capacity, setup>>

\* retryTask
RetryTask(t) ==
  /\ job[t].state \in {"blocked", "failed", "parked"}
  /\ ~job[t].retried /\ Len(att[t]) < setup.attempts[t]   \* bound: one retry between attempts
  /\ job' = [job EXCEPT ![t].state = "ready", ![t].failure = "none", ![t].parked = "none", ![t].retried = TRUE]
  /\ UNCHANGED <<att, capacity, proven, setup>>

RtNext ==
  \/ \E t \in RtTasks : \/ Dispatch(t) \/ ResumeLaunch(t) \/ WorkerSucceeds(t) \/ ChecksFinish(t) \/ RetryTask(t)
                        \/ \E class \in Classes : ProviderFails(t, class) \/ WorkerFails(t, class)
  \/ \E p \in Providers : CooldownExpires(p) \/ ResetProvider(p) \/ VerifyEntitlement(p)

RtSpec == RtInit /\ [][RtNext]_rtVars
-----------------------------------------------------------------------------
Started(t)  == Len(att'[t]) > Len(att[t])
Before(t)   == att'[t][Len(att'[t]) - 1]

\* An attempt that answers a provider's failure runs on another provider, after a quota
\* failure in another quota domain, and goes on in the stage that was interrupted: at
\* once, after waiting for capacity, or parked and resumed (handleFailure,
\* deferForAdmission, dispatchReadyTasks). Only a trial keeps to its provider.
RerouteElsewhere ==
  [][\A t \in RtTasks : Started(t) /\ Last(att'[t]).kind = "reroute" =>
       LET new    == Last(att'[t])
           failed == LastFailed(att', t)
       IN /\ new.stage = Before(t).stage
          /\ setup.trial[t] = NoProvider =>
               /\ new.on # failed.on
               /\ failed.end = "QUOTA" => DomainOf[new.on] # DomainOf[failed.on]]_rtVars

\* Nothing is substituted for a pinned provider or for a trial's: no reroute, override or
\* parked launch ends elsewhere, and none starts on a provider that is closed.
PinsHold ==
  [][\A t \in RtTasks : Started(t) =>
       LET new == Last(att'[t])
       IN /\ setup.mode = "pinned" => new.on = setup.adapter
          /\ setup.trial[t] # NoProvider => new.on = setup.trial[t]
          /\ capacity'[new.on] = "available"]_rtVars

\* A provider never runs more workers than its limit, whichever way they were admitted.
ProviderCap == \A p \in Providers : Cardinality(RunsOn(att, p)) <= ProviderLimit[p]

\* Routing: a provider's failure moves the work elsewhere, nothing is substituted for a
\* pin or a trial, and no provider runs more workers than its limit.
RoutesHold == RerouteElsewhere /\ PinsHold /\ []ProviderCap

\* recovery-and-failures.md says of a login failure that the provider stays closed until
\* an operator resets it. A quota failure reported by an attempt that was still running
\* there turns it into a cooldown, which expires.
LoginHolds ==
  [][\A p \in Providers : capacity[p] = "unavailable" /\ capacity'[p] # "unavailable" => ResetProvider(p)]_rtVars
=============================================================================
