----------------------------- MODULE ReviewRounds -----------------------------
(***************************************************************************)
(* The review rounds of one task: completeChecks, beginReview,             *)
(* deferReview, resumePendingReviews, collectReview and                    *)
(* handleReviewFailure of src/controller/controller.ts over the findings   *)
(* and verdicts of src/store/records.ts and src/review/policy.ts.          *)
(*                                                                         *)
(* The controller may die between any two of its writes; the operator      *)
(* retries the task and answers its question, and the configuration        *)
(* changes, at any time. A reviewer's report is the set of blocking items  *)
(* triageReviewOutput makes of it: a defect, a question only a person can  *)
(* answer, a requirement it did not verify. Advisory items bind nobody.    *)
(* What the checks find is a choice here (CheckJobs), the episode's repair *)
(* budget and parked repairs are left out (CheckJobs, LaunchProtocol).     *)
(***************************************************************************)
EXTENDS Integers, FiniteSets

CONSTANTS Items,        \* kinds of blocking items reviewers report
          Adapters, NoAdapter, RvRepairLimit, RvRecoveryLimit,
          RvMaxRevs,    \* bound: finalized revisions
          RvMaxConfigs  \* bound: changes of the project's configuration

ASSUME ReviewAssumption ==
  /\ NoAdapter \notin Adapters
  /\ {"defect", "question"} \subseteq Items /\ Items \subseteq {"defect", "question", "evidence"}
  /\ {RvRepairLimit, RvRecoveryLimit, RvMaxRevs, RvMaxConfigs} \subseteq Nat

VARIABLES
  policy, config, \* reviewPolicy.capacityAction; project.configVersion
  rv,       \* the task: state, result_revision, repairs_used, what it waits for, the
            \* episode's recoveries, whether its revision failed a check on the code
  run,      \* the unsettled attempt: its kind, provider, configuration and report
  finding,  \* the latest task_obligation of each item
  owed,     \* the open review-recovery, preflight and gate obligations
  verdict,  \* review_results of the unsettled review
  evid,     \* the last approval's revision; the decision of the last check round
  impl,     \* providers of the last succeeded and of the last implementer attempt
  rvAt      \* the controller's handler; collectReview's has the configuration it read

rvVars == <<policy, config, rv, run, finding, owed, verdict, evid, impl, rvAt>>

NoRun   == [kind |-> "none", by |-> NoAdapter, cfg |-> 0, out |-> "none", items |-> {}]
RvIdle  == [step |-> "idle", by |-> NoAdapter, cfg |-> 0]

RvTypeOK ==
  /\ policy \in {"pending", "blocked"} /\ config \in 0..RvMaxConfigs
  /\ rv \in [state : {"READY", "RUNNING", "CHECKING", "REVIEWING", "BLOCKED", "FAILED", "DONE"},
             rev : 0..RvMaxRevs, used : 0..RvRepairLimit, recoveries : 0..RvRecoveryLimit,
             why : {"none", "pending"}, broken : BOOLEAN]
  /\ run \in [kind : {"none", "implement", "repair", "review"}, by : Adapters \union {NoAdapter},
              cfg : 0..RvMaxConfigs, out : {"none", "complete", "blocked"}, items : SUBSET Items]
  /\ finding \in [Items -> {"none", "open", "addressed", "resolved"}]
  /\ owed \subseteq {"review", "preflight", "gate"} /\ verdict \in {"none", "approved", "changes", "blocked"}
  /\ rvAt.step \in {"idle", "launch", "recover", "repair", "restate", "resolve", "finish", "follow"}
  /\ rvAt.cfg \in 0..RvMaxConfigs

RvInit ==
  /\ policy \in {"pending", "blocked"} /\ config = 0
  /\ rv = [state |-> "READY", rev |-> 0, used |-> 0, recoveries |-> 0, why |-> "none",
           broken |-> FALSE]
  /\ run = NoRun /\ finding = [k \in Items |-> "none"] /\ owed = {} /\ verdict = "none"
  /\ evid = [rev |-> 0, need |-> FALSE]
  /\ impl = [ok |-> NoAdapter, last |-> NoAdapter] /\ rvAt = RvIdle

Live(k)    == finding[k] \in {"open", "addressed"}
LiveItems  == {k \in Items : Live(k)}
RvGo(s, a) == rvAt' = [RvIdle EXCEPT !.step = s, !.by = a]
RvState(s) == rv' = [rv EXCEPT !.state = s]
-----------------------------------------------------------------------------
(* Choosing a reviewer.                                                    *)

\* selectReviewRoute under independent_provider. Whether a provider is eligible
\* and has capacity at the moment is a choice.
selectReviewRoute(implementer, failed) == Adapters \ (failed \union {implementer})

\* deferReview
DeferReview ==
  /\ rv' = [rv EXCEPT !.state = "BLOCKED", !.why = IF policy = "pending" THEN "pending" ELSE "none"]
  /\ owed' = IF policy = "pending" THEN owed ELSE owed \union {"review"}
  /\ rvAt' = RvIdle

\* A review is launched by a provider that may review the work, or deferred.
ReviewOrDefer(implementer) ==
  \/ \E a \in selectReviewRoute(implementer, {}) :
       RvState("REVIEWING") /\ RvGo("launch", a) /\ UNCHANGED owed
  \/ DeferReview
-----------------------------------------------------------------------------
(* Dispatch.                                                               *)

\* dispatchInitial, which fails without a sound environment.
PreflightFails ==
  /\ rvAt = RvIdle /\ rv.state = "READY" /\ owed = {} /\ LiveItems \subseteq {"defect"}
  /\ owed' = {"preflight"} /\ RvState("BLOCKED")
  /\ UNCHANGED <<policy, config, run, finding, verdict, evid, impl, rvAt>>
ImplementTask ==
  /\ rvAt = RvIdle /\ rv.state = "READY" /\ owed = {} /\ LiveItems \subseteq {"defect"}
  /\ \E a \in Adapters : /\ run' = [NoRun EXCEPT !.kind = "implement", !.by = a]
                         /\ impl' = [impl EXCEPT !.last = a]
  /\ RvState("RUNNING")
  /\ UNCHANGED <<policy, config, finding, owed, verdict, evid, rvAt>>

\* resumeOperationalTask: an open question or requirement has no path of its own.
PolicyBlocked ==
  /\ rvAt = RvIdle /\ rv.state = "READY" /\ owed = {} /\ ~(LiveItems \subseteq {"defect"})
  /\ RvState("BLOCKED")
  /\ UNCHANGED <<policy, config, run, finding, owed, verdict, evid, impl, rvAt>>

\* resumeOperationalTask: only the outstanding review.
RecoverReview ==
  /\ rvAt = RvIdle /\ rv.state = "READY" /\ "review" \in owed /\ rv.rev > 0
  /\ \/ /\ rv.recoveries < RvRecoveryLimit
        /\ \E a \in selectReviewRoute(impl.last, {}) : RvState("REVIEWING") /\ RvGo("recover", a)
     \/ RvState("BLOCKED") /\ UNCHANGED rvAt
  /\ UNCHANGED <<policy, config, run, finding, owed, verdict, evid, impl>>

\* resumeOperationalTask: the preflight again, and then the checks of the revision
\* the task has; or retryOperationalCheck.
ResumeChecks ==
  /\ rvAt = RvIdle /\ rv.state = "READY" /\ "review" \notin owed /\ owed # {}
  /\ \/ /\ rv.recoveries < RvRecoveryLimit /\ rv.rev > 0
        /\ rv' = [rv EXCEPT !.state = "CHECKING", !.recoveries = @ + 1]
        /\ owed' = owed \ {"preflight"} /\ UNCHANGED <<run, impl>>
     \/ /\ rv.recoveries < RvRecoveryLimit /\ rv.rev = 0
        /\ rv' = [rv EXCEPT !.state = "RUNNING", !.recoveries = @ + 1]
        /\ owed' = owed \ {"preflight"}
        /\ \E a \in Adapters : /\ run' = [NoRun EXCEPT !.kind = "implement", !.by = a]
                               /\ impl' = [impl EXCEPT !.last = a]
     \/ RvState("BLOCKED") /\ UNCHANGED <<owed, run, impl>>
  /\ UNCHANGED <<policy, config, finding, verdict, evid, rvAt>>
-----------------------------------------------------------------------------
(* Work and checks.                                                        *)

\* collectAttempt: after a repair, the defects of reviews await validation.
CollectWork ==
  /\ rvAt = RvIdle /\ run.kind \in {"implement", "repair"}
  /\ \E r \in {rv.rev, rv.rev + 1} \ {0} :
       /\ r <= RvMaxRevs
       /\ rv' = [rv EXCEPT !.state = "CHECKING", !.rev = r, !.broken = @ /\ r = rv.rev]
  /\ finding' = IF run.kind = "repair" /\ finding["defect"] = "open"
                THEN [finding EXCEPT !["defect"] = "addressed"] ELSE finding
  /\ impl' = [impl EXCEPT !.ok = run.by] /\ run' = NoRun
  /\ UNCHANGED <<policy, config, owed, verdict, evid, rvAt>>

\* handleFailure: blocked, or the same purpose with another provider.
WorkFails ==
  /\ rvAt = RvIdle /\ run.kind \in {"implement", "repair"}
  /\ \/ RvState("BLOCKED") /\ run' = NoRun /\ UNCHANGED impl
     \/ \E a \in Adapters \ {run.by} :
          run' = [run EXCEPT !.by = a] /\ impl' = [impl EXCEPT !.last = a] /\ UNCHANGED rv
  /\ UNCHANGED <<policy, config, finding, owed, verdict, evid, rvAt>>

\* Mutant: the risk policy alone decides.
PolicyOnly(wanted) == wanted

\* completeChecks: findings of an earlier review force the next one.
ReviewNeeded(wanted) == wanted \/ LiveItems \ {"question"} # {}

\* Mutant: only defects keep a task from being accepted.
DefectsSettled(open) == "defect" \notin LiveItems

\* acceptTask: no blocking obligation is open.
Settled(open) == LiveItems = {} /\ open = {}

AcceptTask(open) == RvState(IF Settled(open) THEN "DONE" ELSE "BLOCKED") /\ rvAt' = RvIdle

ChecksPass ==
  /\ rvAt = RvIdle /\ rv.state = "CHECKING" /\ ~rv.broken /\ \E wanted \in BOOLEAN :
       /\ evid' = [evid EXCEPT !.need = ReviewNeeded(wanted)]
       /\ IF ReviewNeeded(wanted)
          THEN \/ /\ \E a \in selectReviewRoute(impl.ok, {}) : RvState("REVIEWING") /\ RvGo("launch", a)
                  /\ owed' = owed \ {"gate"}
               \/ /\ rv' = [rv EXCEPT !.state = "BLOCKED", !.why = IF policy = "pending" THEN "pending" ELSE "none"]
                  /\ owed' = (owed \ {"gate"}) \union (IF policy = "pending" THEN {} ELSE {"review"})
                  /\ UNCHANGED rvAt
          ELSE owed' = owed \ {"gate"} /\ AcceptTask(owed')
  /\ UNCHANGED <<policy, config, run, finding, verdict, impl>>

\* Mutant: a repair is charged without asking how many the task had.
ChargeAlways(broken) ==
  /\ rv' = [rv EXCEPT !.state = "RUNNING", !.used = @ + 1, !.broken = broken]
  /\ RvGo("repair", NoAdapter)

\* repairOrFail: within the limit, or the task fails.
ChargeRepair(broken) ==
  IF rv.used < RvRepairLimit
  THEN /\ rv' = [rv EXCEPT !.state = "RUNNING", !.used = @ + 1, !.broken = broken]
       /\ RvGo("repair", NoAdapter)
  ELSE rv' = [rv EXCEPT !.state = "FAILED", !.broken = broken] /\ rvAt' = RvIdle

ChecksFail ==
  /\ rvAt = RvIdle /\ rv.state = "CHECKING"
  /\ \/ ChargeRepair(TRUE) /\ owed' \in {owed, owed \union {"gate"}}
     \/ ~rv.broken /\ owed' = owed \union {"gate"} /\ RvState("BLOCKED") /\ UNCHANGED rvAt
  /\ UNCHANGED <<policy, config, run, finding, verdict, evid, impl>>

RvLaunchRepair ==
  /\ rvAt.step = "repair" /\ rvAt' = RvIdle
  /\ \E a \in Adapters : /\ run' = [NoRun EXCEPT !.kind = "repair", !.by = a]
                         /\ impl' = [impl EXCEPT !.last = a]
  /\ UNCHANGED <<policy, config, rv, finding, owed, verdict, evid>>
-----------------------------------------------------------------------------
(* The review.                                                             *)

\* launchAttempt: the packet binds the review to the configuration of its launch.
\* Over a limit it is parked as pending, whatever the policy (deferForAdmission).
LaunchReview ==
  /\ rvAt.step \in {"launch", "recover"} /\ rvAt' = RvIdle
  /\ \/ /\ run' = [NoRun EXCEPT !.kind = "review", !.by = rvAt.by, !.cfg = config]
        /\ verdict' = "none"
        /\ rv' = IF rvAt.step = "recover" THEN [rv EXCEPT !.recoveries = @ + 1] ELSE rv
     \/ /\ rv' = [rv EXCEPT !.state = "BLOCKED", !.why = "pending"] /\ UNCHANGED <<run, verdict>>
  /\ UNCHANGED <<policy, config, finding, owed, evid, impl>>

\* Mutant: only the reviews the policy lets wait are waited for.
DeferredByPolicy == rv.why = "pending" /\ rv.recoveries < RvRecoveryLimit /\ policy = "pending"

AwaitsReview == rv.why = "pending" /\ rv.recoveries < RvRecoveryLimit

\* resumePendingReviews
ResumePendingReview ==
  /\ rvAt = RvIdle /\ rv.state = "BLOCKED" /\ AwaitsReview
  /\ rv' = [rv EXCEPT !.state = "REVIEWING", !.why = "none"]
  /\ \E a \in selectReviewRoute(impl.last, {}) : RvGo("launch", a)
  /\ UNCHANGED <<policy, config, run, finding, owed, verdict, evid, impl>>

ReviewerReports ==
  /\ run.kind = "review" /\ run.out = "none"
  /\ \/ run' = [run EXCEPT !.out = "blocked"]
     \/ \E S \in SUBSET Items : run' = [run EXCEPT !.out = "complete", !.items = S]
  /\ UNCHANGED <<policy, config, rv, finding, owed, verdict, evid, impl, rvAt>>

\* handleReviewFailure: a provider that is unavailable is replaced, any other failure
\* leaves the review owed.
ReviewFails ==
  /\ rvAt = RvIdle /\ run.kind = "review" /\ run' = NoRun
  /\ \/ /\ \E a \in selectReviewRoute(impl.last, {run.by}) : RvGo("launch", a)
        /\ UNCHANGED <<rv, owed>>
     \/ RvState("BLOCKED") /\ owed' = owed \union {"review"} /\ UNCHANGED rvAt
  /\ UNCHANGED <<policy, config, finding, verdict, evid, impl>>

\* A reviewer that edited or moved the checked workspace.
ReviewerMeddled ==
  /\ rvAt = RvIdle /\ run.kind = "review" /\ run.out # "none"
  /\ run' = NoRun /\ RvState("BLOCKED")
  /\ UNCHANGED <<policy, config, finding, owed, verdict, evid, impl, rvAt>>

\* Mutant: a report counts whatever has changed since its launch.
AnyEvidence == FALSE

StaleEvidence == run.cfg # config

CollectStaleReview ==
  /\ rvAt = RvIdle /\ run.kind = "review" /\ run.out # "none" /\ StaleEvidence
  /\ run' = NoRun /\ ReviewOrDefer(impl.last)
  /\ UNCHANGED <<policy, config, finding, verdict, evid, impl>>

\* recordReview, once for an attempt however often it is collected; then what was
\* owed to the review is settled.
RecordReview ==
  /\ rvAt = RvIdle /\ run.kind = "review" /\ run.out # "none" /\ ~StaleEvidence
  /\ LET v == IF run.out = "blocked" THEN "blocked" ELSE IF run.items # {} THEN "changes" ELSE "approved"
     IN /\ verdict' = IF verdict = "none" THEN v ELSE verdict
        /\ evid' = IF verdict' = "approved" THEN [evid EXCEPT !.rev = rv.rev] ELSE evid
        /\ rvAt' = [RvIdle EXCEPT !.step = IF v = "blocked" THEN "finish" ELSE "restate", !.cfg = config]
  /\ owed' = owed \ {"review"}
  /\ UNCHANGED <<policy, config, rv, run, finding, impl>>

\* upsertReviewObligation: opened, reopened, or opened again as a recurrence.
RestateFindings ==
  /\ rvAt.step = "restate" /\ rvAt' = [rvAt EXCEPT !.step = "resolve"]
  /\ finding' = [k \in Items |-> IF k \in run.items THEN "open" ELSE finding[k]]
  /\ UNCHANGED <<policy, config, rv, run, owed, verdict, evid, impl>>

\* Only a person resolves a question.
NotRestated == LiveItems \ (run.items \union {"question"})

ResolveFindings ==
  /\ rvAt.step = "resolve" /\ rvAt' = [rvAt EXCEPT !.step = "finish"]
  /\ finding' = [k \in Items |-> IF k \in NotRestated THEN "resolved" ELSE finding[k]]
  /\ UNCHANGED <<policy, config, rv, run, owed, verdict, evid, impl>>

\* finishAttempt and finishStage
FinishReview ==
  /\ rvAt.step = "finish"
  /\ RvState(IF run.out = "blocked" THEN "BLOCKED" ELSE "REVIEWING")
  /\ IF run.out = "blocked" THEN rvAt' = RvIdle ELSE RvGo("follow", NoAdapter)
  /\ run' = [run EXCEPT !.kind = "none"]
  /\ UNCHANGED <<policy, config, finding, owed, verdict, evid, impl>>

DecisionBlockers == LiveItems \intersect {"question", "evidence"}

FollowVerdict ==
  /\ rvAt.step = "follow"
  /\ run' = NoRun
  /\ IF run.items = {} THEN AcceptTask(owed)
     ELSE IF (DecisionBlockers # {} /\ "defect" \notin run.items) \/ "question" \in DecisionBlockers
          THEN RvState("BLOCKED") /\ rvAt' = RvIdle
          ELSE ChargeRepair(FALSE)
  /\ UNCHANGED <<policy, config, finding, owed, verdict, evid, impl>>

\* reconcileAttempts: a working state nobody works in.
RvRecovered ==
  /\ rvAt = RvIdle /\ run.kind = "none" /\ rv.state \in {"RUNNING", "REVIEWING"}
  /\ RvState("BLOCKED") /\ run' = NoRun
  /\ UNCHANGED <<policy, config, finding, owed, verdict, evid, impl, rvAt>>
-----------------------------------------------------------------------------
(* The operator, and the controller's death.                               *)

\* retryTask
RvRetry ==
  /\ rv.state \in {"BLOCKED", "FAILED"} /\ run.kind = "none"
  /\ rv' = [rv EXCEPT !.state = "READY", !.why = "none"]
  /\ UNCHANGED <<policy, config, run, finding, owed, verdict, evid, impl, rvAt>>
\* decideObligation
DecideQuestion ==
  /\ Live("question") /\ finding' = [finding EXCEPT !["question"] = "resolved"]
  /\ UNCHANGED <<policy, config, rv, run, owed, verdict, evid, impl, rvAt>>
ConfigChanges ==
  /\ config < RvMaxConfigs /\ config' = config + 1
  /\ UNCHANGED <<policy, rv, run, finding, owed, verdict, evid, impl, rvAt>>
RvCrash ==
  /\ rvAt # RvIdle /\ rvAt' = RvIdle
  /\ UNCHANGED <<policy, config, rv, run, finding, owed, verdict, evid, impl>>

RvTick ==
  \/ PreflightFails \/ ImplementTask \/ PolicyBlocked \/ RecoverReview \/ ResumeChecks \/ CollectWork \/ WorkFails
  \/ ChecksPass \/ ChecksFail \/ RvLaunchRepair \/ LaunchReview \/ ReviewFails \/ ReviewerMeddled
  \/ CollectStaleReview \/ RecordReview \/ RestateFindings \/ ResolveFindings \/ FinishReview
  \/ FollowVerdict \/ RvRecovered

RvNext == \/ RvTick \/ ResumePendingReview \/ ReviewerReports \/ RvRetry \/ DecideQuestion
          \/ ConfigChanges \/ RvCrash

\* The controller ticks, reviewers report, and capacity for a review comes again
\* and again.
RvFairness == WF_rvVars(RvTick) /\ WF_rvVars(ReviewerReports) /\ SF_rvVars(ResumePendingReview)

RvSpec == RvInit /\ [][RvNext]_rvVars /\ RvFairness
-----------------------------------------------------------------------------
\* A task is DONE with every finding settled, and where its round called for a
\* review, with an approval of its very revision: "a risk policy that would skip
\* this revision must not strand them" and "approve nothing" on stale evidence.
ReviewedBeforeDone ==
  rv.state = "DONE" => LiveItems = {} /\ owed = {} /\ (evid.need => evid.rev = rv.rev)

\* "Independent_provider excludes the implementer's provider on every path": whoever
\* reviews a revision did not make it, through reroutes, failed repairs and retries.
ReviewerIndependent == run.kind = "review" => run.by # impl.ok

\* A question is answered by a person, never by the next report; a finding is resolved by a
\* review that does not state it again, made for the configuration that was in force when its
\* report was collected, however long the reviewer took.
FindingsValidated ==
  [][\A k \in Items : Live(k) /\ finding'[k] = "resolved" =>
       \/ k = "question" /\ rvAt' = rvAt
       \/ k # "question" /\ run.kind = "review" /\ run.cfg = rvAt.cfg /\ k \notin run.items]_rvVars

\* "A review of an older revision or under a different configuration is stale: record it,
\* approve nothing" (src/controller/controller.ts:1809): not so when the configuration changes
\* between the check and the writes that follow it.
ResolvedOnPresent ==
  [][\A k \in Items \ {"question"} : Live(k) /\ finding'[k] = "resolved" => run.cfg = config]_rvVars

\* A round that ends clean but with findings open goes to a review, or leaves one owed:
\* "a risk policy that would skip this revision must not strand them".
FindingsNotStranded ==
  [][/\ rv.state = "CHECKING" /\ rv'.state = "BLOCKED" /\ rv'.why # "pending"
     => LiveItems \ {"question"} = {} \/ owed' # {}]_rvVars

\* What reviews find is neither dropped nor answered without its validation, and never
\* left with nothing that brings it back to a reviewer.
FindingsKept == FindingsValidated /\ FindingsNotStranded

\* A review deferred for capacity leaves the queue: "it is never silently skipped".
PendingReviewed ==
  (rv.why = "pending" /\ rv.recoveries < RvRecoveryLimit) ~> rv.why # "pending"

\* "Each blocking finding is stored as a durable obligation, which repairs and
\* re-reviews resolve" (docs/architecture/task-execution.md:79): a requirement no
\* review verified is verified in the end, or the task is given up.
EvidenceSettles == Live("evidence") ~> ~Live("evidence")

\* "If review was blocked for lack of a reviewer, retrying the task resumes at review. It
\* does not re-implement the finished, checked revision."
RetryResumesReview ==
  [][rv.state = "READY" /\ evid.need /\ evid.rev # rv.rev /\ rv.rev > 0 => run'.kind # "implement"]_rvVars
=============================================================================
