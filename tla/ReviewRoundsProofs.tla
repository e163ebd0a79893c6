-------------------------- MODULE ReviewRoundsProofs --------------------------
(***************************************************************************)
(* What stands behind a task that is DONE, behind a repair or a lesson,    *)
(* and behind what an experiment supports: theorems about ReviewRounds,    *)
(* for any blocking items, providers, limits and numbers of revisions,     *)
(* about Incidents, for any observations and any number of failures, and   *)
(* about Experiments, for any cases, repetitions, manifests and limits.    *)
(***************************************************************************)
EXTENDS ReviewRounds, Incidents, Experiments, TLAPS, SequenceTheorems, FiniteSetTheorems
-----------------------------------------------------------------------------
(* The inductive invariant.                                                *)

Runs == [kind : {"none", "implement", "repair", "review"}, by : Adapters \union {NoAdapter},
         cfg : 0..RvMaxConfigs, out : {"none", "complete", "blocked"}, items : SUBSET Items]
Rows == [state : {"READY", "RUNNING", "CHECKING", "REVIEWING", "BLOCKED", "FAILED", "DONE"},
         rev : 0..RvMaxRevs, used : 0..RvRepairLimit, recoveries : 0..RvRecoveryLimit,
         why : {"none", "pending"}, broken : BOOLEAN]

EvidenceTypes == /\ evid \in [rev : 0..RvMaxRevs, need : BOOLEAN]
                 /\ rvAt \in [step : {"idle", "launch", "recover", "repair", "restate",
                                      "resolve", "finish", "follow"},
                              by : Adapters \union {NoAdapter}, cfg : 0..RvMaxConfigs]

\* An attempt runs only under the state that stands for it, and beside no other handler.
Working ==
  /\ run.kind = "review" => /\ rv.state = "REVIEWING"
                            /\ rvAt.step \in {"idle", "restate", "resolve", "finish"}
  /\ run.kind \in {"implement", "repair"} => rv.state = "RUNNING" /\ rvAt.step = "idle"

\* What a handler knows between two of its writes.
Handling ==
  /\ rvAt.step \in {"launch", "recover"} => rv.state = "REVIEWING" /\ run.kind = "none"
  /\ rvAt.step = "recover" => rv.recoveries < RvRecoveryLimit
  /\ rvAt.step = "repair" => rv.state = "RUNNING" /\ run.kind = "none"
  /\ rvAt.step \in {"restate", "resolve"} => /\ run.kind = "review" /\ run.out = "complete"
                                            /\ run.cfg = rvAt.cfg
  /\ rvAt.step = "finish" => run.kind = "review" /\ run.out # "none"
  /\ rvAt.step = "follow" => /\ rv.state = "REVIEWING" /\ run.kind = "none"
                             /\ run.out = "complete"

\* The verdict of a report, as RecordReview computes it.
VerdictOf(r) ==
  IF r.out = "blocked" THEN "blocked" ELSE IF r.items # {} THEN "changes" ELSE "approved"

\* The verdict on record is that of the report, however often it is collected: a review
\* that starts clears it, and a report never changes once it is made.
Recorded ==
  run.kind = "review" /\ verdict # "none" => run.out # "none" /\ verdict = VerdictOf(run)

\* Past the record of a clean report, the approval is of the task's revision.
ApprovedNow ==
  rvAt.step \in {"restate", "resolve", "finish", "follow"} /\ run.out = "complete" /\ run.items = {}
    => evid.rev = rv.rev

RvInv == RvTypeOK /\ EvidenceTypes /\ Working /\ Handling /\ Recorded /\ ApprovedNow
         /\ ReviewedBeforeDone
-----------------------------------------------------------------------------
(* What an action does to the rows.                                        *)

LEMMA Zero == 0 \in 0..RvMaxConfigs
BY ReviewAssumption

LEMMA NewRun ==
  ASSUME NEW k \in {"implement", "repair", "review"}, NEW a \in Adapters, NEW c \in 0..RvMaxConfigs,
         NEW r, r = [NoRun EXCEPT !.kind = k, !.by = a, !.cfg = c]
  PROVE  r \in Runs /\ r.kind = k /\ r.by = a /\ r.out = "none" /\ r.items = {}
BY DEF Runs, NoRun

LEMMA NewWork ==
  ASSUME NEW k \in {"implement", "repair"}, NEW a \in Adapters, RvTypeOK,
         run' = [NoRun EXCEPT !.kind = k, !.by = a]
  PROVE  run' \in Runs /\ run'.kind = k /\ run'.out = "none" /\ run'.items = {}
<1>1. 0 \in 0..RvMaxConfigs BY ReviewAssumption
<1> QED BY <1>1 DEF Runs, NoRun

LEMMA RvMoved ==
  ASSUME RvTypeOK, NEW s \in {"READY", "RUNNING", "CHECKING", "REVIEWING", "BLOCKED", "FAILED", "DONE"},
         RvState(s)
  PROVE  /\ rv' \in Rows /\ rv'.state = s /\ rv'.rev = rv.rev /\ rv'.used = rv.used
         /\ rv'.recoveries = rv.recoveries /\ rv'.why = rv.why /\ rv'.broken = rv.broken
BY DEF RvTypeOK, Rows, RvState

LEMMA Deferred ==
  ASSUME RvTypeOK, rv' = [rv EXCEPT !.state = "BLOCKED", !.why = IF policy = "pending" THEN "pending" ELSE "none"]
  PROVE  rv' \in Rows /\ rv'.state = "BLOCKED"
BY DEF RvTypeOK, Rows

LEMMA Charged ==
  ASSUME RvTypeOK, NEW b \in BOOLEAN, ChargeRepair(b)
  PROVE  /\ rv' \in Rows
         /\ \/ rv'.state = "RUNNING" /\ rvAt' = [step |-> "repair", by |-> NoAdapter, cfg |-> 0]
            \/ rv'.state = "FAILED" /\ rvAt' = RvIdle
<1>1. CASE rv.used < RvRepairLimit
  <2>1. rv.used + 1 \in 0..RvRepairLimit BY <1>1, ReviewAssumption DEF RvTypeOK
  <2>2. rv' = [rv EXCEPT !.state = "RUNNING", !.used = rv.used + 1, !.broken = b]
    BY <1>1 DEF ChargeRepair
  <2> QED BY <1>1, <2>1, <2>2 DEF ChargeRepair, RvTypeOK, Rows, RvGo, RvIdle
<1>2. CASE ~(rv.used < RvRepairLimit)
  <2>1. rv' = [rv EXCEPT !.state = "FAILED", !.broken = b] /\ rvAt' = RvIdle
    BY <1>2 DEF ChargeRepair
  <2> QED BY <2>1 DEF RvTypeOK, Rows
<1> QED BY <1>1, <1>2

LEMMA Begun ==
  ASSUME RvInv, ImplementTask
  PROVE  RvInv'
<1>1. PICK a \in Adapters : run' = [NoRun EXCEPT !.kind = "implement", !.by = a]
  BY DEF ImplementTask
<1>2. run' \in Runs /\ run'.kind = "implement" /\ run'.out = "none" /\ run'.items = {}
  BY <1>1, NewWork DEF RvInv
<1>3. rv' \in Rows /\ rv'.state = "RUNNING" BY RvMoved DEF ImplementTask, RvInv
<1> QED
  BY <1>2, <1>3 DEF ImplementTask, RvInv, RvTypeOK, Runs, Rows, EvidenceTypes, Working, Handling,
    Recorded, ApprovedNow, ReviewedBeforeDone, LiveItems, Live, RvIdle

LEMMA LaunchedRepair ==
  ASSUME RvInv, RvLaunchRepair
  PROVE  RvInv'
<1>1. PICK a \in Adapters : run' = [NoRun EXCEPT !.kind = "repair", !.by = a]
  BY DEF RvLaunchRepair
<1>2. run' \in Runs /\ run'.kind = "repair" /\ run'.out = "none" /\ run'.items = {}
  BY <1>1, NewWork DEF RvInv
<1> QED
  BY <1>2, Zero DEF RvLaunchRepair, RvInv, RvTypeOK, Runs, EvidenceTypes, Working, Handling,
    Recorded, ApprovedNow, ReviewedBeforeDone, LiveItems, Live, RvIdle

LEMMA ResumedChecks ==
  ASSUME RvInv, ResumeChecks
  PROVE  RvInv'
<1>1. rv.state = "READY" /\ rvAt = RvIdle /\ run.kind = "none"
  BY DEF ResumeChecks, RvInv, Working, RvTypeOK
<1>2. /\ rv' \in Rows /\ rv'.state \in {"CHECKING", "RUNNING", "BLOCKED"}
      /\ owed' \subseteq owed
      /\ rv'.state = "RUNNING" \/ run' = run
  <2>1. ASSUME rv.recoveries < RvRecoveryLimit,
               NEW s \in {"CHECKING", "RUNNING"}, rv' = [rv EXCEPT !.state = s, !.recoveries = @ + 1]
        PROVE  rv' \in Rows /\ rv'.state = s
    <3>1. rv.recoveries + 1 \in 0..RvRecoveryLimit
      BY <2>1, ReviewAssumption DEF RvInv, RvTypeOK
    <3>2. rv' = [rv EXCEPT !.state = s, !.recoveries = rv.recoveries + 1] BY <2>1
    <3> QED BY <3>1, <3>2 DEF RvInv, RvTypeOK, Rows
  <2>2. CASE RvState("BLOCKED") /\ UNCHANGED <<owed, run, impl>>
    BY <2>2, RvMoved DEF RvInv
  <2>3. CASE ~(RvState("BLOCKED") /\ UNCHANGED <<owed, run, impl>>)
    BY <2>1, <2>3 DEF ResumeChecks
  <2> QED BY <2>2, <2>3
<1>3. run' = run \/ (run' \in Runs /\ run'.kind = "implement" /\ run'.out = "none" /\ run'.items = {})
  <2>1. run' = run \/ \E a \in Adapters : run' = [NoRun EXCEPT !.kind = "implement", !.by = a]
    BY DEF ResumeChecks
  <2> QED BY <2>1, NewWork DEF RvInv
<1> QED
  BY <1>1, <1>2, <1>3 DEF ResumeChecks, RvInv, RvTypeOK, Runs, Rows, EvidenceTypes, Working, Handling,
    Recorded, ApprovedNow, ReviewedBeforeDone, LiveItems, Live, RvIdle

LEMMA CollectedWork ==
  ASSUME RvInv, CollectWork
  PROVE  RvInv'
<1>1. PICK r \in {rv.rev, rv.rev + 1} \ {0} :
        /\ r <= RvMaxRevs
        /\ rv' = [rv EXCEPT !.state = "CHECKING", !.rev = r, !.broken = @ /\ r = rv.rev]
  BY DEF CollectWork
<1>2. rv' \in Rows /\ rv'.state = "CHECKING"
  <2>1. r \in 0..RvMaxRevs BY <1>1, ReviewAssumption DEF RvInv, RvTypeOK
  <2>2. PICK b \in BOOLEAN : rv' = [rv EXCEPT !.state = "CHECKING", !.rev = r, !.broken = b]
    BY <1>1
  <2> QED BY <2>1, <2>2 DEF RvInv, RvTypeOK, Rows
<1>3. finding' \in [Items -> {"none", "open", "addressed", "resolved"}]
  BY ReviewAssumption DEF CollectWork, RvInv, RvTypeOK
<1>4. run' \in Runs /\ run'.kind = "none"
  BY ReviewAssumption DEF CollectWork, Runs, NoRun
<1> QED
  BY <1>2, <1>3, <1>4 DEF CollectWork, RvInv, RvTypeOK, Runs, Rows, EvidenceTypes, Working, Handling,
    Recorded, ApprovedNow, ReviewedBeforeDone, RvIdle

LEMMA PassedChecks ==
  ASSUME RvInv, ChecksPass
  PROVE  RvInv'
<1>1. rv.state = "CHECKING" /\ rvAt = RvIdle /\ run.kind = "none"
  BY DEF ChecksPass, RvInv, Working, RvTypeOK
<1>2. PICK wanted \in BOOLEAN :
       /\ evid' = [evid EXCEPT !.need = ReviewNeeded(wanted)]
       /\ IF ReviewNeeded(wanted)
          THEN \/ /\ \E a \in selectReviewRoute(impl.ok, {}) : RvState("REVIEWING") /\ RvGo("launch", a)
                  /\ owed' = owed \ {"gate"}
               \/ /\ rv' = [rv EXCEPT !.state = "BLOCKED", !.why = IF policy = "pending" THEN "pending" ELSE "none"]
                  /\ owed' = (owed \ {"gate"}) \union (IF policy = "pending" THEN {} ELSE {"review"})
                  /\ UNCHANGED rvAt
          ELSE owed' = owed \ {"gate"} /\ AcceptTask(owed')
  BY DEF ChecksPass
<1>3. evid' \in [rev : 0..RvMaxRevs, need : BOOLEAN] /\ evid'.need = ReviewNeeded(wanted)
  BY <1>2 DEF RvInv, EvidenceTypes, ReviewNeeded
<1>4. /\ rv' \in Rows
      /\ \/ rv'.state = "REVIEWING" /\ \E a \in Adapters : rvAt' = [step |-> "launch", by |-> a, cfg |-> 0]
         \/ rv'.state = "BLOCKED" /\ rvAt' = RvIdle
         \/ rv'.state = "DONE" /\ rvAt' = RvIdle /\ LiveItems = {} /\ owed' = {} /\ ~ReviewNeeded(wanted)
  <2>1. CASE \E a \in selectReviewRoute(impl.ok, {}) : RvState("REVIEWING") /\ RvGo("launch", a)
    BY <2>1, RvMoved DEF RvInv, RvGo, RvIdle, selectReviewRoute
  <2>2. CASE /\ rv' = [rv EXCEPT !.state = "BLOCKED", !.why = IF policy = "pending" THEN "pending" ELSE "none"]
             /\ UNCHANGED rvAt
    BY <1>1, <2>2, Deferred DEF RvInv
  <2>3. CASE ~ReviewNeeded(wanted) /\ AcceptTask(owed')
    <3>1. CASE Settled(owed')
      <4>1. RvState("DONE") BY <2>3, <3>1 DEF AcceptTask
      <4> QED BY <2>3, <3>1, <4>1, RvMoved DEF AcceptTask, Settled, RvInv
    <3>2. CASE ~Settled(owed')
      <4>1. RvState("BLOCKED") BY <2>3, <3>2 DEF AcceptTask
      <4> QED BY <2>3, <4>1, RvMoved DEF AcceptTask, RvInv
    <3> QED BY <3>1, <3>2
  <2> QED BY <1>2, <2>1, <2>2, <2>3
<1>5. owed' \subseteq {"review", "preflight", "gate"}
  BY <1>2 DEF RvInv, RvTypeOK
<1>6. /\ RvTypeOK'
      /\ EvidenceTypes'
  BY <1>3, <1>4, <1>5 DEF ChecksPass, RvInv, RvTypeOK, EvidenceTypes, Rows, RvIdle
<1>7. Working' /\ Handling' /\ Recorded' /\ ApprovedNow'
  BY <1>1, <1>4 DEF ChecksPass, RvInv, Working, Handling, Recorded, ApprovedNow, RvIdle
<1>8. ReviewedBeforeDone'
  BY <1>3, <1>4 DEF ChecksPass, ReviewedBeforeDone, LiveItems, Live
<1> QED BY <1>6, <1>7, <1>8 DEF RvInv

LEMMA FailedChecks ==
  ASSUME RvInv, ChecksFail
  PROVE  RvInv'
<1>1. rv.state = "CHECKING" /\ rvAt = RvIdle /\ run.kind = "none"
  BY DEF ChecksFail, RvInv, Working, RvTypeOK
<1>2. /\ rv' \in Rows
      /\ \/ rv'.state = "RUNNING" /\ rvAt' = [step |-> "repair", by |-> NoAdapter, cfg |-> 0]
         \/ rv'.state = "FAILED" /\ rvAt' = RvIdle
         \/ rv'.state = "BLOCKED" /\ rvAt' = RvIdle
  <2>1. CASE ChargeRepair(TRUE) BY <2>1, Charged DEF RvInv
  <2>2. CASE RvState("BLOCKED") /\ UNCHANGED rvAt BY <1>1, <2>2, RvMoved DEF RvInv
  <2> QED BY <2>1, <2>2 DEF ChecksFail
<1>3. owed' \subseteq {"review", "preflight", "gate"}
  BY DEF ChecksFail, RvInv, RvTypeOK
<1> QED
  BY <1>1, <1>2, <1>3 DEF ChecksFail, RvInv, RvTypeOK, Rows, EvidenceTypes, Working, Handling,
    Recorded, ApprovedNow, ReviewedBeforeDone, RvIdle

LEMMA LaunchedReview ==
  ASSUME RvInv, LaunchReview
  PROVE  RvInv'
<1>1. rv.state = "REVIEWING" /\ run.kind = "none" /\ rvAt' = RvIdle
  BY DEF LaunchReview, RvInv, Handling
<1>2. CASE rv' = [rv EXCEPT !.state = "BLOCKED", !.why = "pending"] /\ UNCHANGED <<run, verdict>>
  <2>1. rv' \in Rows /\ rv'.state = "BLOCKED" BY <1>2 DEF RvInv, RvTypeOK, Rows
  <2> QED
    BY Zero, <1>1, <1>2, <2>1 DEF LaunchReview, RvInv, RvTypeOK, Rows, EvidenceTypes, Working, Handling,
      Recorded, ApprovedNow, ReviewedBeforeDone, RvIdle
<1>3. CASE /\ run' = [NoRun EXCEPT !.kind = "review", !.by = rvAt.by, !.cfg = config]
           /\ verdict' = "none"
           /\ rv' = IF rvAt.step = "recover" THEN [rv EXCEPT !.recoveries = @ + 1] ELSE rv
  <2>1. run' \in Runs /\ run'.kind = "review" /\ run'.out = "none" /\ run'.items = {}
    BY <1>3 DEF RvInv, RvTypeOK, EvidenceTypes, Runs, NoRun
  <2>2. rv' \in Rows /\ rv'.state = "REVIEWING"
    <3>1. CASE rvAt.step = "recover"
      <4>1. rv.recoveries + 1 \in 0..RvRecoveryLimit
        BY <3>1, ReviewAssumption DEF RvInv, RvTypeOK, Handling
      <4>2. rv' = [rv EXCEPT !.recoveries = rv.recoveries + 1] BY <1>3, <3>1
      <4> QED BY <1>1, <4>1, <4>2 DEF RvInv, RvTypeOK, Rows
    <3>2. CASE rvAt.step # "recover" BY <1>1, <1>3, <3>2 DEF RvInv, RvTypeOK, Rows
    <3> QED BY <3>1, <3>2
  <2> QED
    BY Zero, <1>1, <1>3, <2>1, <2>2 DEF LaunchReview, RvInv, RvTypeOK, Runs, Rows, EvidenceTypes, Working,
      Handling, Recorded, ApprovedNow, ReviewedBeforeDone, RvIdle
<1> QED BY <1>2, <1>3 DEF LaunchReview

LEMMA ResumedReview ==
  ASSUME RvInv, ResumePendingReview
  PROVE  RvInv'
<1>1. rv' \in Rows /\ rv'.state = "REVIEWING"
  BY DEF ResumePendingReview, RvInv, RvTypeOK, Rows
<1>2. run.kind = "none" BY DEF ResumePendingReview, RvInv, RvTypeOK, Working
<1>3. PICK a \in Adapters : rvAt' = [step |-> "launch", by |-> a, cfg |-> 0]
  BY DEF ResumePendingReview, RvGo, RvIdle, selectReviewRoute
<1> QED
  BY Zero, <1>1, <1>2, <1>3 DEF ResumePendingReview, RvInv, RvTypeOK, Rows, EvidenceTypes, Working,
    Handling, Recorded, ApprovedNow, ReviewedBeforeDone

LEMMA StaleReview ==
  ASSUME RvInv, CollectStaleReview
  PROVE  RvInv'
<1>1. /\ rv' \in Rows
      /\ \/ rv'.state = "REVIEWING" /\ \E a \in Adapters : rvAt' = [step |-> "launch", by |-> a, cfg |-> 0]
         \/ rv'.state = "BLOCKED" /\ rvAt' = RvIdle
  <2>1. CASE \E a \in selectReviewRoute(impl.last, {}) : RvState("REVIEWING") /\ RvGo("launch", a)
    BY <2>1, RvMoved DEF RvInv, RvGo, RvIdle, selectReviewRoute
  <2>2. CASE DeferReview BY <2>2, Deferred DEF RvInv, DeferReview
  <2> QED BY <2>1, <2>2 DEF CollectStaleReview, ReviewOrDefer
<1>2. run' \in Runs /\ run'.kind = "none"
  BY ReviewAssumption DEF CollectStaleReview, Runs, NoRun
<1>3. owed' \subseteq {"review", "preflight", "gate"}
  BY DEF CollectStaleReview, ReviewOrDefer, DeferReview, RvInv, RvTypeOK
<1> QED
  BY <1>1, <1>2, <1>3 DEF CollectStaleReview, RvInv, RvTypeOK, Runs, Rows, EvidenceTypes, Working,
    Handling, Recorded, ApprovedNow, ReviewedBeforeDone, RvIdle

LEMMA RecordedReview ==
  ASSUME RvInv, RecordReview
  PROVE  RvInv'
<1> DEFINE v == VerdictOf(run)
<1>1. /\ run.kind = "review" /\ run.out # "none" /\ rv.state = "REVIEWING"
      /\ UNCHANGED <<policy, config, rv, run, finding, impl>> /\ owed' = owed \ {"review"}
  BY DEF RecordReview, RvInv, Working
<1>2. /\ verdict' = (IF verdict = "none" THEN v ELSE verdict)
      /\ evid' = (IF verdict' = "approved" THEN [evid EXCEPT !.rev = rv.rev] ELSE evid)
      /\ rvAt' = [step |-> (IF v = "blocked" THEN "finish" ELSE "restate"), by |-> NoAdapter, cfg |-> config]
  BY DEF RecordReview, RvIdle, VerdictOf
<1>3. verdict' = v /\ v \in {"approved", "changes", "blocked"}
  BY <1>1, <1>2 DEF RvInv, Recorded, VerdictOf
<1>4. evid' \in [rev : 0..RvMaxRevs, need : BOOLEAN] /\ (v = "approved" => evid'.rev = rv.rev)
  BY <1>2, <1>3 DEF RvInv, RvTypeOK, EvidenceTypes
<1>5. v = "blocked" <=> run.out = "blocked" BY <1>1 DEF VerdictOf
<1>6. run.out = "complete" /\ run.items = {} => v = "approved" BY DEF VerdictOf
<1> HIDE DEF v
<1>7. RvTypeOK' /\ EvidenceTypes'
  BY <1>1, <1>2, <1>3, <1>4 DEF RvInv, RvTypeOK, EvidenceTypes
<1>8. run.cfg = config BY DEF RecordReview, StaleEvidence
<1>12. /\ rvAt'.step \in {"finish", "restate"} /\ rvAt'.cfg = config
       /\ rvAt'.step = "restate" => v # "blocked"
  BY <1>2
<1>13. Working' /\ Handling'
  BY <1>1, <1>5, <1>8, <1>12 DEF RvInv, RvTypeOK, Working, Handling
<1>14. ApprovedNow' /\ ReviewedBeforeDone'
  BY <1>1, <1>4, <1>6 DEF RvInv, ApprovedNow, ReviewedBeforeDone
<1>9. Recorded' BY <1>1, <1>3 DEF Recorded, VerdictOf, v
<1> QED BY <1>7, <1>13, <1>14, <1>9 DEF RvInv

LEMMA Followed ==
  ASSUME RvInv, FollowVerdict
  PROVE  RvInv'
<1>1. run' \in Runs /\ run'.kind = "none"
  BY ReviewAssumption DEF FollowVerdict, Runs, NoRun
<1>2. /\ rv' \in Rows
      /\ \/ rv'.state = "RUNNING" /\ rvAt' = [step |-> "repair", by |-> NoAdapter, cfg |-> 0]
         \/ rv'.state \in {"FAILED", "BLOCKED"} /\ rvAt' = RvIdle
         \/ /\ rv'.state = "DONE" /\ rvAt' = RvIdle /\ rv'.rev = rv.rev
            /\ LiveItems = {} /\ owed = {} /\ evid.rev = rv.rev
  <2>1. CASE run.items = {}
    <3>1. AcceptTask(owed) /\ evid.rev = rv.rev
      BY <2>1 DEF FollowVerdict, RvInv, Handling, ApprovedNow
    <3>2. CASE Settled(owed)
      <4>1. RvState("DONE") BY <3>1, <3>2 DEF AcceptTask
      <4> QED BY <3>1, <3>2, <4>1, RvMoved DEF AcceptTask, Settled, RvInv
    <3>3. CASE ~Settled(owed)
      <4>1. RvState("BLOCKED") BY <3>1, <3>3 DEF AcceptTask
      <4> QED BY <3>1, <4>1, RvMoved DEF AcceptTask, RvInv
    <3> QED BY <3>2, <3>3
  <2>2. CASE RvState("BLOCKED") /\ rvAt' = RvIdle BY <2>2, RvMoved DEF RvInv
  <2>3. CASE ChargeRepair(FALSE) BY <2>3, Charged DEF RvInv
  <2> QED BY <2>1, <2>2, <2>3 DEF FollowVerdict
<1> QED
  BY Zero, <1>1, <1>2 DEF FollowVerdict, RvInv, RvTypeOK, Runs, Rows, EvidenceTypes, Working,
    Handling, Recorded, ApprovedNow, ReviewedBeforeDone, LiveItems, Live, RvIdle

\* The other steps of dispatch and work.
LEMMA KeptByDispatch ==
  ASSUME RvInv, PreflightFails \/ PolicyBlocked \/ RecoverReview \/ WorkFails
  PROVE  RvInv'
<1>1. CASE PreflightFails
  BY <1>1, ReviewAssumption DEF PreflightFails, RvIdle, RvState, LiveItems, Live, RvInv,
    RvTypeOK, EvidenceTypes, Working, Handling, Recorded, VerdictOf, ApprovedNow,
    ReviewedBeforeDone, NoRun
<1>2. CASE PolicyBlocked
  BY <1>2, ReviewAssumption DEF PolicyBlocked, RvIdle, RvState, LiveItems, Live, RvInv,
    RvTypeOK, EvidenceTypes, Working, Handling, Recorded, VerdictOf, ApprovedNow,
    ReviewedBeforeDone, NoRun
<1>3. CASE RecoverReview
  <2>1. /\ rv' \in Rows
        /\ \/ rv'.state = "REVIEWING" /\ \E a \in Adapters : rvAt' = [step |-> "recover", by |-> a, cfg |-> 0]
           \/ rv'.state = "BLOCKED" /\ rvAt' = RvIdle
    BY <1>3, RvMoved DEF RecoverReview, RvInv, RvGo, RvIdle, selectReviewRoute
  <2>2. run.kind = "none" /\ (rv'.state = "REVIEWING" => rv'.recoveries < RvRecoveryLimit)
    <3>1. rv.state = "READY" /\ rv'.recoveries = rv.recoveries BY <1>3, RvMoved DEF RecoverReview, RvInv
    <3>2. rv'.state = "REVIEWING" => rv.recoveries < RvRecoveryLimit
      BY <1>3, RvMoved DEF RecoverReview, RvInv
    <3> QED BY <3>1, <3>2 DEF RvInv, RvTypeOK, Working
  <2> QED
    BY <1>3, <2>1, <2>2, Zero DEF RecoverReview, RvInv, RvTypeOK, Rows, EvidenceTypes, Working, Handling,
      Recorded, ApprovedNow, ReviewedBeforeDone, RvIdle
<1>4. CASE WorkFails
  BY <1>4, ReviewAssumption DEF WorkFails, NoRun, RvIdle, RvState, RvInv, RvTypeOK,
    EvidenceTypes, Working, Handling, Recorded, VerdictOf, ApprovedNow,
    ReviewedBeforeDone, LiveItems, Live
<1> QED BY <1>1, <1>2, <1>3, <1>4

\* The other steps of a review.
LEMMA KeptByReview ==
  ASSUME RvInv, ReviewerReports \/ ReviewFails \/ ReviewerMeddled \/ RestateFindings \/
                ResolveFindings \/ FinishReview
  PROVE  RvInv'
<1>1. CASE ReviewerReports
  <2>1. /\ run.kind = "review" /\ run.out = "none" /\ rv.state = "REVIEWING"
        /\ rvAt.step = "idle" /\ verdict = "none"
    BY <1>1 DEF ReviewerReports, RvInv, Working, Handling, Recorded
  <2>2. run' \in Runs /\ run'.kind = "review"
    BY <1>1 DEF ReviewerReports, RvInv, RvTypeOK, Runs
  <2> QED
    BY <1>1, <2>1, <2>2 DEF ReviewerReports, RvInv, RvTypeOK, Runs, EvidenceTypes, Working, Handling,
      Recorded, ApprovedNow, ReviewedBeforeDone, LiveItems, Live
<1>2. CASE ReviewFails
  <2>1. /\ rv' \in Rows
        /\ \/ rv'.state = "REVIEWING" /\ \E a \in Adapters : rvAt' = [step |-> "launch", by |-> a, cfg |-> 0]
           \/ rv'.state = "BLOCKED" /\ rvAt' = RvIdle
    <3>1. CASE UNCHANGED <<rv, owed>> /\ \E a \in selectReviewRoute(impl.last, {run.by}) : RvGo("launch", a)
      BY <1>2, <3>1 DEF ReviewFails, RvInv, RvTypeOK, Rows, Working, RvGo, RvIdle, selectReviewRoute
    <3>2. CASE RvState("BLOCKED") /\ UNCHANGED rvAt BY <1>2, <3>2, RvMoved DEF ReviewFails, RvInv
    <3> QED BY <1>2, <3>1, <3>2 DEF ReviewFails
  <2>2. run' \in Runs /\ run'.kind = "none"
    BY <1>2, Zero DEF ReviewFails, Runs, NoRun
  <2>3. owed' \subseteq {"review", "preflight", "gate"}
    BY <1>2 DEF ReviewFails, RvInv, RvTypeOK
  <2> QED
    BY <1>2, <2>1, <2>2, <2>3, Zero DEF ReviewFails, RvInv, RvTypeOK, Runs, Rows, EvidenceTypes, Working,
      Handling, Recorded, ApprovedNow, ReviewedBeforeDone, RvIdle
<1>3. CASE ReviewerMeddled
  BY <1>3, ReviewAssumption DEF ReviewerMeddled, NoRun, RvIdle, RvState, RvInv,
    RvTypeOK, EvidenceTypes, Working, Handling, Recorded, VerdictOf, ApprovedNow,
    ReviewedBeforeDone, LiveItems, Live
<1>4. CASE RestateFindings
  BY <1>4, ReviewAssumption DEF RestateFindings, RvGo, RvInv, RvTypeOK, EvidenceTypes,
    Working, Handling, Recorded, VerdictOf, ApprovedNow, ReviewedBeforeDone, LiveItems,
    Live, RvIdle, NoRun
<1>5. CASE ResolveFindings
  BY <1>5, ReviewAssumption DEF ResolveFindings, RvGo, NotRestated, LiveItems, Live,
    RvInv, RvTypeOK, EvidenceTypes, Working, Handling, Recorded, VerdictOf, ApprovedNow,
    ReviewedBeforeDone, RvIdle, NoRun
<1>6. CASE FinishReview
  <2>1. /\ run.kind = "review" /\ run.out \in {"complete", "blocked"} /\ rv.state = "REVIEWING"
        /\ run' = [run EXCEPT !.kind = "none"]
    BY <1>6 DEF FinishReview, RvInv, RvTypeOK, Working, Handling
  <2>2. /\ run' \in Runs /\ run'.kind = "none" /\ run'.out = run.out /\ run'.items = run.items
    BY <2>1 DEF RvInv, RvTypeOK, Runs
  <2>3. /\ rv' \in Rows /\ rv'.rev = rv.rev
        /\ \/ rv'.state = "REVIEWING" /\ run.out = "complete" /\ rvAt' = [step |-> "follow", by |-> NoAdapter, cfg |-> 0]
           \/ rv'.state = "BLOCKED" /\ run.out = "blocked" /\ rvAt' = RvIdle
    BY <1>6, <2>1, RvMoved DEF FinishReview, RvInv, RvGo, RvIdle
  <2> QED
    BY <1>6, <2>1, <2>2, <2>3, Zero DEF FinishReview, RvInv, RvTypeOK, Runs, Rows, EvidenceTypes, Working,
      Handling, Recorded, ApprovedNow, ReviewedBeforeDone, RvIdle
<1> QED BY <1>1, <1>2, <1>3, <1>4, <1>5, <1>6

\* Recovery, the operator and the controller's death.
LEMMA KeptByOthers ==
  ASSUME RvInv, RvRecovered \/ RvRetry \/ DecideQuestion \/ ConfigChanges \/ RvCrash
  PROVE  RvInv'
<1>1. CASE RvRecovered
  BY <1>1, ReviewAssumption DEF RvRecovered, NoRun, RvIdle, RvState, RvInv, RvTypeOK,
    EvidenceTypes, Working, Handling, Recorded, VerdictOf, ApprovedNow,
    ReviewedBeforeDone, LiveItems, Live
<1>2. CASE RvRetry
  BY <1>2, ReviewAssumption DEF RvRetry, RvInv, RvTypeOK, EvidenceTypes, Working,
    Handling, Recorded, VerdictOf, ApprovedNow, ReviewedBeforeDone, LiveItems, Live,
    RvIdle, NoRun
<1>3. CASE DecideQuestion
  BY <1>3, ReviewAssumption DEF DecideQuestion, Live, RvInv, RvTypeOK, EvidenceTypes,
    Working, Handling, Recorded, VerdictOf, ApprovedNow, ReviewedBeforeDone, LiveItems,
    RvIdle, NoRun
<1>4. CASE ConfigChanges
  BY <1>4, ReviewAssumption DEF ConfigChanges, RvInv, RvTypeOK, EvidenceTypes, Working,
    Handling, Recorded, VerdictOf, ApprovedNow, ReviewedBeforeDone, LiveItems, Live,
    RvIdle, NoRun
<1>5. CASE RvCrash
  BY <1>5, ReviewAssumption DEF RvCrash, RvIdle, RvInv, RvTypeOK, EvidenceTypes,
    Working, Handling, Recorded, VerdictOf, ApprovedNow, ReviewedBeforeDone, LiveItems,
    Live, NoRun
<1> QED BY <1>1, <1>2, <1>3, <1>4, <1>5

LEMMA Stutters == RvInv /\ UNCHANGED rvVars => RvInv'
BY DEF rvVars, RvInv, RvTypeOK, EvidenceTypes, Working, Handling, Recorded, VerdictOf, ApprovedNow,
  ReviewedBeforeDone, LiveItems, Live

LEMMA RvBegins == RvInit => RvInv
<1> SUFFICES ASSUME RvInit PROVE RvInv
  OBVIOUS
<1>1. run \in Runs /\ run.kind = "none" BY ReviewAssumption DEF RvInit, Runs, NoRun
<1> QED
  BY <1>1, ReviewAssumption DEF RvInit, RvInv, RvTypeOK, Runs, EvidenceTypes, Working, Handling,
    Recorded, ApprovedNow, ReviewedBeforeDone, RvIdle

LEMMA RvInvInductive == RvInv /\ [RvNext]_rvVars => RvInv'
BY Begun, LaunchedRepair, ResumedChecks, CollectedWork, PassedChecks, FailedChecks, LaunchedReview,
  ResumedReview, StaleReview, RecordedReview, Followed, KeptByDispatch, KeptByReview, KeptByOthers,
  Stutters DEF RvNext, RvTick

LEMMA RvInvAlways == RvSpec => []RvInv
BY RvBegins, RvInvInductive, PTL DEF RvSpec
-----------------------------------------------------------------------------
(* The theorems.                                                           *)

\* A task that is DONE has every finding of its reviews settled and nothing owed, and where
\* its last checks called for a review, the approval of its very revision: whatever died
\* between the record of a verdict and what follows it, whatever was retried, answered,
\* deferred, rerouted or found stale (completeChecks, collectReview, acceptTask).
THEOREM DoneIsReviewed == RvSpec => []ReviewedBeforeDone
<1>1. RvInv => ReviewedBeforeDone BY DEF RvInv
<1> QED BY <1>1, RvInvAlways, PTL

\* The rows of a task under review and the controller's locals keep their types.
THEOREM ReviewsTyped == RvSpec => []RvTypeOK
<1>1. RvInv => RvTypeOK BY DEF RvInv
<1> QED BY <1>1, RvInvAlways, PTL

\* A finding that is open is resolved only by its validation.
LEMMA Validated ==
  ASSUME RvInv, RvNext, NEW k \in Items, Live(k), finding'[k] = "resolved"
  PROVE  \/ k = "question" /\ rvAt' = rvAt
         \/ k # "question" /\ run.kind = "review" /\ run.cfg = rvAt.cfg /\ k \notin run.items
<1>1. finding' = finding \/ CollectWork \/ RestateFindings \/ ResolveFindings \/ DecideQuestion
  BY DEF RvNext, RvTick, PreflightFails, ImplementTask, PolicyBlocked, RecoverReview, ResumeChecks,
    WorkFails, ChecksPass, ChecksFail, RvLaunchRepair, LaunchReview, ReviewFails, ReviewerMeddled,
    CollectStaleReview, RecordReview, FinishReview, FollowVerdict, RvRecovered, ResumePendingReview,
    ReviewerReports, RvRetry, ConfigChanges, RvCrash
<1>2. finding[k] # "resolved" BY DEF Live
<1>3. CASE CollectWork BY <1>2, <1>3 DEF CollectWork, RvInv, RvTypeOK
<1>4. CASE RestateFindings BY <1>2, <1>4 DEF RestateFindings
<1>5. CASE ResolveFindings
  <2>1. k \in NotRestated BY <1>2, <1>5 DEF ResolveFindings
  <2> QED BY <1>5, <2>1 DEF ResolveFindings, NotRestated, RvInv, Handling
<1>6. CASE DecideQuestion BY <1>2, <1>6 DEF DecideQuestion, RvInv, RvTypeOK
<1> QED BY <1>1, <1>2, <1>3, <1>4, <1>5, <1>6

\* Of all steps only those of the checks take a task out of CHECKING.
LEMMA NotStranded ==
  ASSUME RvInv, RvNext, rv.state = "CHECKING", rv'.state = "BLOCKED", rv'.why # "pending"
  PROVE  LiveItems \ {"question"} = {} \/ owed' # {}
<1>1. run.kind = "none" /\ rvAt.step = "idle"
  BY DEF RvInv, RvTypeOK, Working, Handling
<1>2. rv' = rv \/ ChecksPass \/ ChecksFail
  BY <1>1 DEF RvNext, RvTick, PreflightFails, ImplementTask, PolicyBlocked, RecoverReview, ResumeChecks,
    CollectWork, WorkFails, RvLaunchRepair, LaunchReview, ReviewFails, ReviewerMeddled,
    CollectStaleReview, RecordReview, RestateFindings, ResolveFindings, FinishReview, FollowVerdict,
    RvRecovered, ResumePendingReview, ReviewerReports, RvRetry, DecideQuestion, ConfigChanges, RvCrash
<1>3. CASE ChecksPass
  <2>1. PICK wanted \in BOOLEAN :
         IF ReviewNeeded(wanted)
         THEN \/ \E a \in selectReviewRoute(impl.ok, {}) : RvState("REVIEWING")
              \/ /\ rv' = [rv EXCEPT !.state = "BLOCKED", !.why = IF policy = "pending" THEN "pending" ELSE "none"]
                 /\ owed' = (owed \ {"gate"}) \union (IF policy = "pending" THEN {} ELSE {"review"})
         ELSE TRUE
    BY <1>3 DEF ChecksPass
  <2>2. ~RvState("REVIEWING") BY RvMoved DEF RvInv
  <2>3. CASE ReviewNeeded(wanted)
    <3>1. /\ rv' = [rv EXCEPT !.state = "BLOCKED", !.why = IF policy = "pending" THEN "pending" ELSE "none"]
          /\ owed' = (owed \ {"gate"}) \union (IF policy = "pending" THEN {} ELSE {"review"})
      BY <2>1, <2>2, <2>3
    <3>2. policy # "pending" BY <3>1 DEF RvInv, RvTypeOK
    <3> QED BY <3>1, <3>2
  <2>4. CASE ~ReviewNeeded(wanted) BY <2>4 DEF ReviewNeeded
  <2> QED BY <2>3, <2>4
<1>4. CASE ChecksFail
  <2>1. ~ChargeRepair(TRUE) BY Charged DEF RvInv
  <2> QED BY <1>4, <2>1 DEF ChecksFail
<1>5. rv' # rv OBVIOUS
<1> QED BY <1>2, <1>3, <1>4, <1>5

\* A question is answered by a person, a finding by a review that does not report it again, made
\* for the configuration in force when its report was collected, and a round of checks that
\* ends with findings open never leaves the task without a review (resolveReviewObligations,
\* decideObligation, completeChecks).
THEOREM FindingsAreKept == RvSpec => FindingsKept
<1>1. RvInv /\ [RvNext]_rvVars
        => [\A k \in Items : Live(k) /\ finding'[k] = "resolved" =>
              \/ k = "question" /\ rvAt' = rvAt
              \/ k # "question" /\ run.kind = "review" /\ run.cfg = rvAt.cfg /\ k \notin run.items]_rvVars
  BY Validated
<1>2. RvInv /\ [RvNext]_rvVars
        => [/\ rv.state = "CHECKING" /\ rv'.state = "BLOCKED" /\ rv'.why # "pending"
            => LiveItems \ {"question"} = {} \/ owed' # {}]_rvVars
  BY NotStranded
<1> QED BY <1>1, <1>2, RvInvAlways, PTL DEF RvSpec, FindingsKept, FindingsValidated, FindingsNotStranded
-----------------------------------------------------------------------------
(* Incidents: the failures recorded, the lessons imported from them.        *)

FailureRow  == [kind : {"attempt", "contract", "launch", "gate", "stage"}, obs : Observations,
                category : Categories, at : Nat]
IncidentRow == [lifecycle : {"open", "investigating", "resolved", "superseded"}, verified : BOOLEAN,
                updated : Nat, since : SUBSET Nat]

IcRows ==
  /\ fails \in Seq(FailureRow) /\ charged \in Nat /\ now \in Nat
  /\ incidents \in [DOMAIN incidents -> IncidentRow]

\* A failure is taken for a defect of the code only when it was judged, and a repair is charged
\* for nothing else.
Earned(f)     == /\ f.category = "product_code" => Judged(f)
                 /\ f.kind = "gate" => f.category \notin {"provider_capacity", "provider_auth"}
JudgedOnes    == {i \in DOMAIN fails : Judged(fails[i])}
FailuresKnown == /\ \A i \in DOMAIN fails : Earned(fails[i])
                 /\ charged <= Cardinality(JudgedOnes)

\* What an import has read is a recorded failure, and no check's verdict on the code.
Imported(o)  == o.key \in DOMAIN fails /\ (fails[o.key].kind = "gate" => fails[o.key].category # "product_code")
ImportsKnown == \A o \in queue \union found : Imported(o)

\* An incident counts as fixed only over occurrences from before its fix.
Fixed(row)   == /\ row.since \subseteq DOMAIN fails
                /\ row.verified => row.lifecycle \in {"resolved", "superseded"}
                /\ row.lifecycle = "resolved" => \A k \in row.since : fails[k].at < row.updated
LessonsKnown == \A s \in DOMAIN incidents : Fixed(incidents[s])

IcInv == IcRows /\ FailuresKnown /\ ImportsKnown /\ LessonsKnown

LEMMA IcInvInit == IcInit => IcInv
<1> SUFFICES ASSUME IcInit PROVE IcInv OBVIOUS
<1>1. fails = <<>> /\ DOMAIN fails = {} /\ fails \in Seq(FailureRow) /\ DOMAIN incidents = {}
  BY DEF IcInit
<1>2. incidents \in [DOMAIN incidents -> IncidentRow] BY <1>1 DEF IcInit
<1>3. JudgedOnes = {} BY <1>1 DEF JudgedOnes
<1>4. Cardinality(JudgedOnes) = 0 BY <1>3, FS_EmptySet
<1> QED BY <1>1, <1>2, <1>4
  DEF IcInit, IcInv, IcRows, FailuresKnown, ImportsKnown, LessonsKnown
-----------------------------------------------------------------------------
(* A failure is recorded.                                                  *)

\* A failure is only called a defect of the code when a tool judged it, and a check's output
\* never closes a provider.
LEMMA DiagnosedByEvidence ==
  ASSUME NEW source \in Sources, NEW o \in Observations
  PROVE  /\ Diagnose(source, o) \in Categories
         /\ Diagnose(source, o) = "product_code" =>
              /\ "product" \in o.signs /\ o.exit # "unrunnable"
              /\ source \in {"worker", "review"} => o.exit # "none" /\ ~o.timedOut /\ o.signs = {"product"}
              /\ source \notin {"contract", "controller"}
         /\ source = "gate" => Diagnose(source, o) \notin {"provider_capacity", "provider_auth"}
<1>1. Diagnose(source, o) \in Categories BY DEF Diagnose, Categories
<1>2. source = "gate" => Diagnose(source, o) \notin {"provider_capacity", "provider_auth"} BY DEF Diagnose
<1>3. ASSUME Diagnose(source, o) = "product_code"
      PROVE  "product" \in o.signs /\ o.exit # "unrunnable" /\ source \notin {"contract", "controller"}
  BY <1>3 DEF Diagnose
<1>4. ASSUME Diagnose(source, o) = "product_code", source \in {"worker", "review"}
      PROVE  o.exit # "none" /\ ~o.timedOut /\ o.signs = {"product"}
  <2>1. /\ o.exit # "none" /\ ~o.timedOut /\ "product" \in o.signs
        /\ "quota" \notin o.signs /\ "auth" \notin o.signs /\ "config" \notin o.signs /\ "infra" \notin o.signs
        /\ o.signs \intersect {"permission", "tool missing"} = {}
    BY <1>4 DEF Diagnose
  <2>2. o.signs \subseteq Signs BY DEF Observations
  <2> QED BY <2>1, <2>2 DEF Signs
<1> QED BY <1>1, <1>2, <1>3, <1>4

\* Only what is taken for a defect of the code is of class CODE.
LEMMA CodeIsProduct ==
  ASSUME NEW c \in Categories
  PROVE  /\ FailureClass(c) = "CODE" <=> c = "product_code"
         /\ FailureClass(c) \in {"QUOTA", "AUTH"} => c \in {"provider_capacity", "provider_auth"}
BY DEF FailureClass, Categories

LEMMA FailureRecorded ==
  ASSUME IcInv, NEW row \in FailureRow, Earned(row), fails' = Append(fails, row),
         charged' \in {charged, charged + 1}, charged' = charged + 1 => Judged(row),
         UNCHANGED <<now, incidents, found, queue>>
  PROVE  IcInv'
<1>1. /\ fails' \in Seq(FailureRow) /\ Len(fails) \in Nat /\ Len(fails') = Len(fails) + 1
      /\ DOMAIN fails = 1..Len(fails) /\ DOMAIN fails' = 1..(Len(fails) + 1)
      /\ fails'[Len(fails) + 1] = row /\ \A i \in DOMAIN fails : fails'[i] = fails[i]
  <2>1. fails \in Seq(FailureRow) BY DEF IcInv, IcRows
  <2> QED BY <2>1, AppendProperties, LenProperties
<1>2. DOMAIN fails' = DOMAIN fails \union {Len(fails) + 1} /\ Len(fails) + 1 \notin DOMAIN fails BY <1>1
<1>3. IsFiniteSet(JudgedOnes) /\ Cardinality(JudgedOnes) \in Nat
  <2>1. IsFiniteSet(1..Len(fails)) BY <1>1, FS_Interval
  <2>2. JudgedOnes \subseteq 1..Len(fails) BY <1>1 DEF JudgedOnes
  <2> QED BY <2>1, <2>2, FS_Subset, FS_CardinalityType
<1>4. JudgedOnes' = JudgedOnes \union {i \in {Len(fails) + 1} : Judged(row)}
  BY <1>1, <1>2 DEF JudgedOnes
<1>5. charged' <= Cardinality(JudgedOnes')
  <2>1. CASE Judged(row)
    <3>1. JudgedOnes' = JudgedOnes \union {Len(fails) + 1} BY <1>4, <2>1
    <3>2. Len(fails) + 1 \notin JudgedOnes BY <1>2 DEF JudgedOnes
    <3>3. Cardinality(JudgedOnes') = Cardinality(JudgedOnes) + 1 BY <1>3, <3>1, <3>2, FS_AddElement
    <3> QED BY <1>3, <3>3 DEF IcInv, IcRows, FailuresKnown
  <2>2. CASE ~Judged(row)
    <3>1. JudgedOnes' = JudgedOnes /\ charged' = charged BY <1>4, <2>2
    <3> QED BY <3>1 DEF IcInv, FailuresKnown
  <2> QED BY <2>1, <2>2
<1>6. charged' \in Nat BY DEF IcInv, IcRows
<1>7. IcRows' BY <1>1, <1>6 DEF IcInv, IcRows
<1>8. FailuresKnown' BY <1>1, <1>2, <1>5 DEF IcInv, FailuresKnown
<1>9. ImportsKnown' BY <1>1, <1>2 DEF IcInv, ImportsKnown, Imported
<1>10. LessonsKnown'
  <2>1. \A s \in DOMAIN incidents : Fixed(incidents[s]) BY DEF IcInv, LessonsKnown
  <2>2. \A s \in DOMAIN incidents : Fixed(incidents[s])' BY <1>1, <1>2, <2>1 DEF Fixed
  <2> QED BY <2>2 DEF LessonsKnown
<1> QED BY <1>7, <1>8, <1>9, <1>10 DEF IcInv

LEMMA FailsKeeps ==
  ASSUME IcInv, NEW o \in Observed,
         AttemptFails(o) \/ ContractFails(o) \/ LaunchFails(o) \/ CheckFails(o) \/ StageLost(o)
  PROVE  IcInv'
<1>1. o \in Observations BY ObservedAssumption
<1>2. PICK kind \in {"attempt", "contract", "launch", "gate", "stage"}, source \in Sources :
        /\ Fails(kind, source, o)
        /\ kind = "contract" <=> source = "contract"
        /\ kind = "stage" <=> source = "controller"
        /\ kind = "gate" <=> source = "gate"
  BY <1>1 DEF AttemptFails, ContractFails, LaunchFails, CheckFails, StageLost, Sources
<1> DEFINE row == Failure(kind, o, Diagnose(source, o))
<1>3. fails' = Append(fails, row) /\ UNCHANGED <<now, incidents, found, queue>> BY <1>2 DEF Fails
<1>4. row \in FailureRow /\ row.kind = kind /\ row.category = Diagnose(source, o) /\ row.obs = o
  BY <1>1, DiagnosedByEvidence DEF Failure, FailureRow, IcInv, IcRows
<1>5. row.category = "product_code" => Judged(row)
  BY <1>1, <1>2, <1>4, DiagnosedByEvidence DEF Judged, Sources
<1>6. Earned(row) BY <1>1, <1>2, <1>4, <1>5, DiagnosedByEvidence DEF Earned
<1>7. charged' \in {charged, charged + 1} /\ (charged' = charged + 1 => row.category = "product_code")
  <2>1. CASE UNCHANGED charged BY <2>1 DEF IcInv, IcRows
  <2>2. CASE Charge(Diagnose(source, o))
    <3>1. row.category \in Categories BY <1>4 DEF FailureRow
    <3> QED BY <1>4, <2>2, <3>1, CodeIsProduct DEF Charge, IcInv, IcRows
  <2> QED BY <1>2, <2>1, <2>2 DEF Fails
<1> HIDE DEF row
<1> QED BY <1>3, <1>4, <1>5, <1>6, <1>7, FailureRecorded
-----------------------------------------------------------------------------
(* Imports and the operator.                                               *)

LEMMA StartImportKeeps == ASSUME IcInv, StartImport PROVE IcInv'
<1>1. queue' = Projection /\ UNCHANGED <<fails, charged, now, incidents, found, verified>>
  BY DEF StartImport
<1>2. ASSUME NEW o \in Projection PROVE Imported(o)
  <2>1. PICK i \in DOMAIN fails : o \in Occurrences(i) BY <1>2 DEF Projection
  <2>2. o.key = i BY <2>1 DEF Occurrences
  <2>3. fails[i].kind = "gate" => fails[i].category \in Systemic
    <3>1. CASE fails[i].kind = "gate"
      <4>1. Rediagnosed(fails[i]) = fails[i].category BY <3>1 DEF Rediagnosed
      <4> QED BY <2>1, <3>1, <4>1 DEF Occurrences
    <3> QED BY <3>1
  <2> QED BY <2>2, <2>3 DEF Imported, Systemic
<1>3. ImportsKnown' BY <1>1, <1>2 DEF IcInv, ImportsKnown, Imported
<1>4. IcRows' /\ FailuresKnown' /\ LessonsKnown'
  BY <1>1 DEF IcInv, IcRows, FailuresKnown, JudgedOnes, LessonsKnown, Fixed
<1> QED BY <1>3, <1>4 DEF IcInv

\* One incident's row is written, or added.
LEMMA IncidentWritten ==
  ASSUME IcInv, NEW s, NEW row \in IncidentRow, Fixed(row),
         incidents' = [t \in DOMAIN incidents \union {s} |-> IF t = s THEN row ELSE incidents[t]],
         UNCHANGED <<fails, charged, now>>, queue' \subseteq queue, found' \subseteq found \union queue
  PROVE  IcInv'
<1>1. /\ DOMAIN incidents' = DOMAIN incidents \union {s} /\ incidents'[s] = row
      /\ \A t \in DOMAIN incidents \ {s} : incidents'[t] = incidents[t]
  OBVIOUS
<1>2. \A t \in DOMAIN incidents' : incidents'[t] \in IncidentRow
  BY <1>1 DEF IcInv, IcRows
<1>3. incidents' \in [DOMAIN incidents' -> IncidentRow] BY <1>1, <1>2
<1>4. Fixed(row)' BY DEF Fixed
<1>5. \A t \in DOMAIN incidents : Fixed(incidents[t]) /\ Fixed(incidents[t])' = Fixed(incidents'[t])
  BY DEF IcInv, LessonsKnown, Fixed
<1>6. \A t \in DOMAIN incidents' : Fixed(incidents'[t])
  BY <1>1, <1>5 DEF IcInv, LessonsKnown
<1>7. LessonsKnown' BY <1>6 DEF LessonsKnown, Fixed
<1>8. IcRows' /\ FailuresKnown' /\ ImportsKnown'
  BY <1>3 DEF IcInv, IcRows, FailuresKnown, JudgedOnes, ImportsKnown, Imported
<1> QED BY <1>7, <1>8 DEF IcInv

LEMMA RecordKeeps == ASSUME IcInv, RecordOccurrence PROVE IcInv'
<1>1. PICK o \in queue :
        /\ queue' = queue \ {o}
        /\ LET row == IF o.sig \in DOMAIN incidents THEN incidents[o.sig] ELSE NewIncident
               new == [Reopened(row, o.key) EXCEPT !.since = @ \union {o.key}]
           IN IF o \in found THEN UNCHANGED <<incidents, found>>
              ELSE /\ found' = found \union {o}
                   /\ incidents' = [s \in DOMAIN incidents \union {o.sig} |->
                                     IF s = o.sig THEN new ELSE incidents[s]]
  BY DEF RecordOccurrence
<1>2. UNCHANGED <<fails, charged, now>> BY DEF RecordOccurrence
<1>3. o.key \in DOMAIN fails /\ o.key \in Nat /\ fails[o.key] \in FailureRow
  <2>1. o.key \in DOMAIN fails /\ fails \in Seq(FailureRow) BY DEF IcInv, IcRows, ImportsKnown, Imported
  <2> QED BY <2>1, LenProperties, ElementOfSeq
<1>4. CASE o \in found
  <2>1. UNCHANGED <<incidents, found>> BY <1>1, <1>4
  <2> QED BY <1>1, <1>2, <2>1
    DEF IcInv, IcRows, FailuresKnown, JudgedOnes, ImportsKnown, Imported, LessonsKnown, Fixed
<1>5. CASE o \notin found
  <2>1. PICK row : row = IF o.sig \in DOMAIN incidents THEN incidents[o.sig] ELSE NewIncident OBVIOUS
  <2>2. row \in IncidentRow /\ Fixed(row)
    BY <2>1 DEF NewIncident, IncidentRow, Fixed, IcInv, IcRows, LessonsKnown
  <2>3. PICK open : open = Reopened(row, o.key) OBVIOUS
  <2>4. open \in IncidentRow /\ Fixed(open) /\ (open.lifecycle = "resolved" => fails[o.key].at < open.updated)
    <3>1. fails[o.key].at \in Nat /\ row.updated \in Nat /\ now \in Nat
      BY <1>3, <2>2 DEF FailureRow, IncidentRow, IcInv, IcRows
    <3>2. CASE row.lifecycle = "resolved" /\ fails[o.key].at >= row.updated
      <4>1. open = [row EXCEPT !.lifecycle = "open", !.verified = FALSE, !.updated = now, !.since = {}]
        BY <2>3, <3>2 DEF Reopened
      <4> QED BY <2>2, <3>1, <4>1 DEF IncidentRow, Fixed
    <3>3. CASE ~(row.lifecycle = "resolved" /\ fails[o.key].at >= row.updated)
      <4>1. open = row BY <2>3, <3>3 DEF Reopened
      <4> QED BY <2>2, <3>1, <3>3, <4>1
    <3> QED BY <3>2, <3>3
  <2>5. PICK new : new = [open EXCEPT !.since = open.since \union {o.key}] OBVIOUS
  <2>6. new \in IncidentRow /\ Fixed(new) BY <1>3, <2>4, <2>5 DEF IncidentRow, Fixed
  <2>7. /\ found' = found \union {o}
        /\ incidents' = [s \in DOMAIN incidents \union {o.sig} |-> IF s = o.sig THEN new ELSE incidents[s]]
    BY <1>1, <1>5, <2>1, <2>3, <2>5
  <2>8. queue' \subseteq queue /\ found' \subseteq found \union queue BY <1>1, <2>7
  <2>9. PICK sig : sig = o.sig OBVIOUS
  <2>10. incidents' = [s \in DOMAIN incidents \union {sig} |-> IF s = sig THEN new ELSE incidents[s]]
    BY <2>7, <2>9
  <2> QED BY <1>2, <2>6, <2>8, <2>10, IncidentWritten
<1> QED BY <1>4, <1>5

LEMMA OperatorKeeps ==
  ASSUME IcInv, NEW s \in DOMAIN incidents, Hypothesize(s) \/ Verify(s) \/ Supersede(s)
  PROVE  IcInv'
<1>1. incidents[s] \in IncidentRow BY DEF IcInv, IcRows
<1>2. PICK row \in IncidentRow :
        /\ incidents' = [incidents EXCEPT ![s] = row] /\ row.since = {}
        /\ row.verified => row.lifecycle \in {"resolved", "superseded"}
  BY <1>1 DEF Hypothesize, Verify, Supersede, Updated, IncidentRow, IcInv, IcRows
<1>3. incidents' = [t \in DOMAIN incidents \union {s} |-> IF t = s THEN row ELSE incidents[t]]
  BY <1>2 DEF IcInv, IcRows
<1>4. Fixed(row) BY <1>2 DEF Fixed
<1>5. UNCHANGED <<fails, charged, now, found, queue>> BY DEF Hypothesize, Verify, Supersede, OthersStay
<1> QED BY <1>2, <1>3, <1>4, <1>5, IncidentWritten

LEMMA IcInvStep == IcInv /\ [IcNext]_icVars => IcInv'
<1> SUFFICES ASSUME IcInv, [IcNext]_icVars PROVE IcInv' OBVIOUS
<1>1. CASE IcClock \/ UNCHANGED icVars
  <2>1. UNCHANGED <<fails, charged, incidents, found, queue>> /\ now' \in Nat
    BY <1>1 DEF IcClock, icVars, IcInv, IcRows
  <2> QED BY <2>1
    DEF IcInv, IcRows, FailuresKnown, JudgedOnes, ImportsKnown, Imported, LessonsKnown, Fixed
<1> QED BY <1>1, FailsKeeps, StartImportKeeps, RecordKeeps, OperatorKeeps DEF IcNext
-----------------------------------------------------------------------------
(* Theorems about Incidents.                                               *)

LEMMA IcEarned == IcInv => RepairsEarned
<1> SUFFICES ASSUME IcInv PROVE RepairsEarned OBVIOUS
<1>1. ASSUME NEW i \in DOMAIN fails
      PROVE  /\ FailureClass(fails[i].category) = "CODE" => Judged(fails[i])
             /\ fails[i].kind = "gate" => FailureClass(fails[i].category) \notin {"QUOTA", "AUTH"}
  <2>1. fails[i] \in FailureRow BY LenProperties, ElementOfSeq DEF IcInv, IcRows
  <2>2. fails[i].category \in Categories BY <2>1 DEF FailureRow
  <2> QED BY <2>2, CodeIsProduct DEF IcInv, FailuresKnown, Earned
<1> QED BY <1>1 DEF RepairsEarned, IcInv, FailuresKnown, JudgedOnes

\* No repair is charged for a failure that no tool judged to be the code's, or that something
\* else explains, whatever a failure's text says and however it ended; and nothing a check
\* prints closes a provider.
THEOREM RepairsAreEarned == IcSpec => []RepairsEarned
BY IcEarned, IcInvInit, IcInvStep, PTL DEF IcSpec

\* A lesson is told as verified only while every failure imported since was observed before
\* its fix, in any order of failures, imports and commands; a check's verdict on a task's own
\* code never becomes an incident.
THEOREM LessonsAreVerified == IcSpec => []LessonsHold
<1>1. IcInv => LessonsHold
  BY DEF IcInv, LessonsKnown, Fixed, ImportsKnown, Imported, LessonsHold, ToldVerified
<1> QED BY <1>1, IcInvInit, IcInvStep, PTL DEF IcSpec
-----------------------------------------------------------------------------
(* A live experiment.                                                      *)

TrialFields == {"state", "bound", "attempts", "repairs", "retries", "staged", "going", "tools", "strayed"}
RowFields   == {"source", "accepted", "repairs", "retries", "tokens", "at", "tools"}

\* A trial is started under an authorization, and let through to a launch only within its
\* manifest, its deadline and its attempts.
TrialOK(t) == /\ DOMAIN t = TrialFields /\ t.attempts \in 0..MaxTrialAttempts /\ t.strayed = FALSE
              /\ t.going => t.attempts < MaxTrialAttempts /\ t.state # "none"
              /\ t.state = "none" <=> t.bound = NoManifest

\* What is measured is measured by hand or by a trial that was bound.
MeasuredOK(s) == \/ measured[s] = NotMeasured
                 \/ measured[s].source = "manual"
                 \/ measured[s].source = "live_trial" /\ trial[s].state # "none"

\* What a command saw lasts until it writes: an authorization, a trial bound, a measurement.
CmdOK(k) ==
  /\ cmd[k].stale \in BOOLEAN
  /\ \/ cmd[k] = NoCmd
     \/ cmd[k].op = "authorize" /\ DOMAIN cmd[k] = {"op", "to", "stale"} /\ cmd[k].to \in Manifests
     \/ /\ cmd[k].op = "start" /\ DOMAIN cmd[k] = {"op", "slot", "under", "stale"}
        /\ auth.by # NoManifest /\ cmd[k].under # NoManifest
     \/ /\ cmd[k].op = "insert" /\ DOMAIN cmd[k] = {"op", "slot", "row", "stale"}
        /\ cmd[k].slot \in Slots /\ DOMAIN cmd[k].row = RowFields
        /\ \/ cmd[k].row.source = "manual"
           \/ cmd[k].row.source = "live_trial" /\ trial[cmd[k].slot].state # "none"
     \/ /\ cmd[k].op = "complete" /\ DOMAIN cmd[k] = {"op", "stale"}
        /\ \E s \in Slots : measured[s] # NotMeasured

\* Beside a completed experiment only what looked before has anything to write to it, but for
\* an authorization no trial was measured under.
StaleOK(k) ==
  status = "completed" => \/ cmd[k] = NoCmd \/ cmd[k].stale
                          \/ cmd[k].op = "authorize" /\ LiveTrials = {}

ExInv ==
  /\ DOMAIN trial = Slots /\ DOMAIN measured = Slots /\ DOMAIN cmd = Terminals
  /\ \A s \in Slots : TrialOK(trial[s]) /\ MeasuredOK(s)
  /\ \A k \in Terminals : CmdOK(k) /\ StaleOK(k)
  /\ Bound # {} => auth.by # NoManifest
  /\ status = "completed" => \E s \in Slots : measured[s] # NotMeasured
  /\ derived \in Manifests

\* What is recorded stays, so what a command saw is still there when it goes on or ends.
LEMMA CmdKept ==
  ASSUME NEW k, CmdOK(k),
         \/ cmd'[k] = cmd[k] \/ cmd'[k] = NoCmd
         \/ cmd[k] # NoCmd /\ cmd'[k] = [cmd[k] EXCEPT !.stale = TRUE],
         auth.by # NoManifest => auth'.by # NoManifest,
         \A s \in Slots : trial[s].state # "none" => trial'[s].state # "none",
         \A s \in Slots : measured[s] # NotMeasured => measured'[s] # NotMeasured
  PROVE  CmdOK(k)'
<1>1. CASE cmd'[k] = NoCmd BY <1>1 DEF CmdOK, NoCmd
<1>2. CASE cmd'[k] = cmd[k] BY <1>2 DEF CmdOK
<1>3. CASE cmd[k] # NoCmd /\ cmd'[k] = [cmd[k] EXCEPT !.stale = TRUE]
  <2>1. PICK c, d : c = cmd[k] /\ d = cmd'[k] OBVIOUS
  <2>2. d = [c EXCEPT !.stale = TRUE] /\ {"op", "stale"} \subseteq DOMAIN c BY <1>3, <2>1 DEF CmdOK
  <2>3. d.stale = TRUE /\ DOMAIN d = DOMAIN c /\ \A f \in DOMAIN c \ {"stale"} : d[f] = c[f] BY <2>2
  <2>4. CASE c.op = "authorize" /\ DOMAIN c = {"op", "to", "stale"} /\ c.to \in Manifests
    <3>1. d.op = "authorize" /\ d.to = c.to BY <2>3, <2>4
    <3> QED BY <2>1, <2>3, <2>4, <3>1 DEF CmdOK
  <2>5. CASE c.op = "start" /\ DOMAIN c = {"op", "slot", "under", "stale"} /\ auth.by # NoManifest /\ c.under # NoManifest
    <3>1. d.op = "start" /\ d.under = c.under BY <2>3, <2>5
    <3> QED BY <2>1, <2>3, <2>5, <3>1 DEF CmdOK
  <2>6. CASE /\ c.op = "insert" /\ DOMAIN c = {"op", "slot", "row", "stale"} /\ c.slot \in Slots /\ DOMAIN c.row = RowFields
             /\ c.row.source = "manual" \/ (c.row.source = "live_trial" /\ trial[c.slot].state # "none")
    <3>1. d.op = "insert" /\ d.slot = c.slot /\ d.row = c.row BY <2>3, <2>6
    <3>2. d.slot \in Slots /\ DOMAIN d.row = RowFields /\ DOMAIN d = {"op", "slot", "row", "stale"} BY <2>3, <2>6, <3>1
    <3>3. d.row.source = "manual" \/ (d.row.source = "live_trial" /\ trial'[d.slot].state # "none")
      BY <2>6, <3>1
    <3> QED BY <2>1, <2>3, <3>1, <3>2, <3>3 DEF CmdOK
  <2>7. CASE c.op = "complete" /\ DOMAIN c = {"op", "stale"} /\ \E s \in Slots : measured[s] # NotMeasured
    <3>1. d.op = "complete" BY <2>3, <2>7
    <3> QED BY <2>1, <2>3, <2>7, <3>1 DEF CmdOK
  <2> QED BY <1>3, <2>1, <2>4, <2>5, <2>6, <2>7 DEF CmdOK
<1> QED BY <1>1, <1>2, <1>3

\* What an experiment supports depends on its rows and their authorization alone.
LEMMA SupportUnmoved ==
  ASSUME UNCHANGED <<auth, trial, measured>>
  PROVE  SupportsProposal' = SupportsProposal /\ Bound' = Bound /\ LiveTrials' = LiveTrials
<1>1. Bound' = Bound /\ LiveTrials' = LiveTrials BY DEF Bound, LiveTrials
<1>2. UsedTokens' = UsedTokens BY <1>1 DEF UsedTokens
<1>3. Improved' = Improved
  BY DEF Improved, Complete, Repaired, TokensOf, Regressed, AcceptedIn, Retries, Of
<1>4. LiveEvidence' = LiveEvidence /\ BudgetBreached' = BudgetBreached
  BY <1>1, <1>2 DEF LiveEvidence, BudgetBreached
<1> QED BY <1>1, <1>3, <1>4 DEF SupportsProposal

\* A step of commands alone, or of the environment.
LEMMA CommandMoves ==
  ASSUME ExInv, UNCHANGED <<status, auth, trial, measured>>, derived' \in Manifests, DOMAIN cmd' = Terminals,
         \A k \in Terminals : CmdOK(k)' /\ StaleOK(k)'
  PROVE  ExInv' /\ CompletedStays
<1>1. \A s \in Slots : MeasuredOK(s)' BY DEF ExInv, MeasuredOK
<1> QED BY <1>1, SupportUnmoved DEF ExInv, CompletedStays

\* A command that has looked, at an experiment that is not completed or to authorize one no
\* trial was measured in.
LEMMA Looked ==
  ASSUME ExInv, NEW k \in Terminals, NEW c, Checks(k, c),
         status # "completed" \/ (c.op = "authorize" /\ LiveTrials = {}),
         cmd'[k] = c => CmdOK(k)'
  PROVE  ExInv' /\ CompletedStays
<1>1. /\ DOMAIN cmd' = Terminals /\ cmd'[k] = c /\ \A j \in Terminals \ {k} : cmd'[j] = cmd[j]
      /\ UNCHANGED <<status, auth, trial, measured>> /\ derived' \in Manifests
  BY DEF Checks, ExInv
<1>2. ASSUME NEW j \in Terminals PROVE CmdOK(j)'
  BY <1>1, CmdKept DEF ExInv
<1>3. LiveTrials' = LiveTrials BY <1>1, SupportUnmoved
<1>4. ASSUME NEW j \in Terminals PROVE StaleOK(j)'
  BY <1>1, <1>3 DEF ExInv, StaleOK
<1> QED BY <1>1, <1>2, <1>4, CommandMoves

\* A step of one trial's task, measured and settled as before: nothing it supports changes.
LEMMA TrialMoves ==
  ASSUME ExInv, NEW s \in Slots, NEW t, TrialOK(t), trial' = [trial EXCEPT ![s] = t],
         t.state # "none", trial[s].state # "none", t.bound = trial[s].bound,
         UNCHANGED <<status, auth, derived, measured, cmd>>
  PROVE  ExInv' /\ CompletedStays
<1>1. DOMAIN trial = Slots /\ DOMAIN measured = Slots BY DEF ExInv
<1>2. DOMAIN trial' = Slots /\ trial'[s] = t /\ \A u \in Slots \ {s} : trial'[u] = trial[u] BY <1>1
<1>3. \A u \in Slots : TrialOK(trial[u]) /\ MeasuredOK(u) BY DEF ExInv
<1>4. \A u \in Slots : TrialOK(trial'[u])
  BY <1>2, <1>3
<1>5. \A u \in Slots : (trial'[u].state = "none" <=> trial[u].state = "none") /\ trial'[u].bound = trial[u].bound
  BY <1>2
<1>6. \A u \in Slots : MeasuredOK(u)' BY <1>3, <1>5 DEF MeasuredOK
<1>7. Bound' = Bound BY <1>5 DEF Bound
<1>8. LiveTrials' = LiveTrials BY DEF LiveTrials
<1>9. \A k \in Terminals : CmdOK(k)' /\ StaleOK(k)'
  <2>1. ASSUME NEW k \in Terminals PROVE CmdOK(k)' BY <1>5, CmdKept DEF ExInv
  <2> QED BY <1>8, <2>1 DEF ExInv, StaleOK
<1>10. ExInv'
  <2>1. \A u \in Slots : TrialOK(trial[u])' BY <1>4 DEF TrialOK
  <2> QED BY <1>1, <1>2, <2>1, <1>6, <1>7, <1>9 DEF ExInv
<1>11. CompletedStays
  <2>1. Improved' = Improved
    BY DEF Improved, Complete, Repaired, TokensOf, Regressed, AcceptedIn, Retries, Of
  <2>2. LiveEvidence' = LiveEvidence BY <1>5 DEF LiveEvidence
  <2>3. UsedTokens' = UsedTokens BY <1>8 DEF UsedTokens
  <2>4. \A u \in Slots : ~(trial[u].attempts > MaxTrialAttempts) /\ ~(trial'[u].attempts > MaxTrialAttempts)
    BY <1>3, <1>4, ExperimentsAssumption DEF TrialOK
  <2>5. BudgetBreached' = BudgetBreached BY <1>8, <2>3, <2>4 DEF BudgetBreached, Bound
  <2> QED BY <2>1, <2>2, <2>5 DEF CompletedStays, SupportsProposal
<1> QED BY <1>10, <1>11

\* Whatever a launch comes to, the trial stays within its manifest and its attempts.
LEMMA LaunchKeeps ==
  ASSUME ExInv, NEW s \in Slots, NEW r, TrialOK(r), r.attempts = trial[s].attempts, r.bound # NoManifest,
         NEW t \in Launched(r, s)
  PROVE  TrialOK(t) /\ t.bound = r.bound /\ t.state # "none"
<1>1. CASE t = [r EXCEPT !.state = "parked"] BY <1>1 DEF TrialOK, TrialFields
<1>2. CASE t = [r EXCEPT !.state = "blocked"] BY <1>2 DEF TrialOK, TrialFields
<1>3. ASSUME ~LaunchRefused(s),
             t = [r EXCEPT !.state = "running", !.going = TRUE, !.strayed = @ \/ derived # auth.by \/ ElapsedExceeded]
      PROVE  TrialOK(t) /\ t.bound = r.bound /\ t.state # "none"
  <2>1. derived = auth.by /\ ~ElapsedExceeded /\ ~(trial[s].attempts >= MaxTrialAttempts)
    BY <1>3 DEF LaunchRefused, Authorized
  <2>2. r.attempts < MaxTrialAttempts
    BY <2>1, ExperimentsAssumption DEF TrialOK
  <2>3. PICK b : b = (r.strayed \/ derived # auth.by \/ ElapsedExceeded) OBVIOUS
  <2>4. b = FALSE BY <2>1, <2>3 DEF TrialOK
  <2>5. t = [r EXCEPT !.state = "running", !.going = TRUE, !.strayed = b] BY <1>3, <2>3
  <2> QED BY <2>2, <2>4, <2>5 DEF TrialOK, TrialFields
<1> QED BY <1>1, <1>2, <1>3 DEF Launched

LEMMA ExInvInit == ExInit => ExInv
<1> SUFFICES ASSUME ExInit PROVE ExInv OBVIOUS
<1>1. \A s \in Slots : TrialOK(trial[s]) BY ExperimentsAssumption DEF ExInit, TrialOK, TrialFields, NoTrial
<1>2. Bound = {} BY DEF ExInit, Bound, NoTrial
<1>3. \A k \in Terminals : CmdOK(k) /\ StaleOK(k) BY DEF ExInit, CmdOK, StaleOK, NoCmd
<1> QED BY <1>1, <1>2, <1>3 DEF ExInit, ExInv, MeasuredOK

\* The commands.
LEMMA KeptByChecks ==
  ASSUME ExInv, NEW k \in Terminals,
         \/ CheckAuthorize(k) \/ CheckStart(k) \/ CheckComplete(k)
         \/ \E s \in Slots : RecordMeasurement(k, s) \/ RecordTrial(k, s)
  PROVE  ExInv' /\ CompletedStays
<1>1. CASE CheckAuthorize(k)
  <2>1. PICK to \in Manifests : Checks(k, [op |-> "authorize", to |-> to, stale |-> FALSE])
    BY <1>1 DEF CheckAuthorize, ExInv
  <2>2. cmd'[k] = [op |-> "authorize", to |-> to, stale |-> FALSE] => CmdOK(k)'
    BY DEF CmdOK
  <2>3. Bound = {}
    BY <1>1 DEF CheckAuthorize, ExInv
  <2>4. LiveTrials = {}
    BY <2>3 DEF LiveTrials, Bound, ExInv, MeasuredOK, NotMeasured
  <2> QED BY <2>1, <2>2, <2>4, Looked
<1>2. CASE CheckStart(k)
  <2>1. PICK s, f : /\ Checks(k, [op |-> "start", slot |-> s, under |-> f, stale |-> FALSE])
                    /\ f = auth.by /\ f # NoManifest /\ status # "completed"
    BY <1>2 DEF CheckStart, Authorized
  <2>2. ASSUME cmd'[k] = [op |-> "start", slot |-> s, under |-> f, stale |-> FALSE] PROVE CmdOK(k)'
    <3>1. auth' = auth BY <2>1 DEF Checks
    <3>2. /\ cmd'[k].op = "start" /\ cmd'[k].under = f /\ cmd'[k].stale = FALSE
          /\ DOMAIN cmd'[k] = {"op", "slot", "under", "stale"}
      BY <2>2
    <3> QED BY <2>1, <3>1, <3>2 DEF CmdOK
  <2> QED BY <2>1, <2>2, Looked
<1>3. CASE CheckComplete(k)
  <2>1. /\ Checks(k, [op |-> "complete", stale |-> FALSE]) /\ status # "completed"
        /\ \E s \in Slots : measured[s] # NotMeasured
    BY <1>3 DEF CheckComplete
  <2>2. ASSUME cmd'[k] = [op |-> "complete", stale |-> FALSE] PROVE CmdOK(k)'
    <3>1. measured' = measured BY <2>1 DEF Checks
    <3>2. cmd'[k].op = "complete" /\ cmd'[k].stale = FALSE /\ DOMAIN cmd'[k] = {"op", "stale"} BY <2>2
    <3> QED BY <2>1, <3>1, <3>2 DEF CmdOK
  <2> QED BY <2>1, <2>2, Looked
<1>4. ASSUME NEW s \in Slots, RecordMeasurement(k, s) \/ RecordTrial(k, s) PROVE ExInv' /\ CompletedStays
  <2>1. PICK m : /\ CheckInsert(k, s, m) /\ DOMAIN m = RowFields
                 /\ m.source = "manual" \/ (m.source = "live_trial" /\ trial[s].state # "none")
    <3>1. CASE RecordMeasurement(k, s) BY <3>1 DEF RecordMeasurement, RowFields
    <3>2. CASE RecordTrial(k, s)
      <4>1. trial[s].state # "none" BY <3>2 DEF RecordTrial, ExInv, TrialOK
      <4> QED BY <3>2, <4>1 DEF RecordTrial, RowFields
    <3> QED BY <1>4, <3>1, <3>2
  <2>2. /\ Checks(k, [op |-> "insert", slot |-> s, row |-> m, stale |-> FALSE]) /\ status # "completed"
    BY <2>1 DEF CheckInsert
  <2>3. ASSUME cmd'[k] = [op |-> "insert", slot |-> s, row |-> m, stale |-> FALSE] PROVE CmdOK(k)'
    <3>1. trial' = trial BY <2>2 DEF Checks
    <3>2. /\ cmd'[k].op = "insert" /\ cmd'[k].slot = s /\ cmd'[k].row = m /\ cmd'[k].stale = FALSE
          /\ DOMAIN cmd'[k] = {"op", "slot", "row", "stale"}
      BY <2>3
    <3>3. cmd'[k].row.source = "manual" \/ (cmd'[k].row.source = "live_trial" /\ trial'[s].state # "none")
      BY <2>1, <3>1, <3>2
    <3> QED BY <2>1, <3>2, <3>3 DEF CmdOK
  <2> QED BY <2>2, <2>3, Looked
<1> QED BY <1>1, <1>2, <1>3, <1>4

LEMMA KeptByWrites ==
  ASSUME ExInv, NEW k \in Terminals,
         \/ WriteAuthorize(k) \/ WriteStart(k) \/ WriteInsert(k) \/ WriteComplete(k) \/ CommandFails(k)
  PROVE  ExInv' /\ CompletedStays
<1>1. DOMAIN trial = Slots /\ DOMAIN measured = Slots /\ DOMAIN cmd = Terminals BY DEF ExInv
<1>2. \A u \in Slots : TrialOK(trial[u]) /\ MeasuredOK(u) BY DEF ExInv
<1>3. CmdOK(k) /\ StaleOK(k) /\ \A j \in Terminals : CmdOK(j) /\ StaleOK(j) BY DEF ExInv
<1>4. ASSUME CmdEnds(k)
      PROVE  DOMAIN cmd' = Terminals /\ cmd'[k] = NoCmd /\ \A j \in Terminals \ {k} : cmd'[j] = cmd[j]
  BY <1>1, <1>4 DEF CmdEnds
<1>5. CASE WriteAuthorize(k)
  <2>1. /\ cmd[k].op = "authorize" /\ CmdEnds(k) /\ UNCHANGED <<status, derived, trial, measured>>
        /\ auth'.by = cmd[k].to
    BY <1>5 DEF WriteAuthorize
  <2>2. cmd[k].to \in Manifests BY <1>3, <2>1 DEF CmdOK, NoCmd
  <2>3. auth'.by # NoManifest BY <2>1, <2>2, ExperimentsAssumption
  <2>4. LiveTrials' = LiveTrials BY <2>1 DEF LiveTrials
  <2>5. \A j \in Terminals : CmdOK(j)' /\ StaleOK(j)'
    <3>1. ASSUME NEW j \in Terminals PROVE CmdOK(j)' BY <1>3, <1>4, <2>1, <2>3, CmdKept
    <3>2. ASSUME NEW j \in Terminals PROVE StaleOK(j)' BY <1>3, <1>4, <2>1, <2>4 DEF StaleOK
    <3> QED BY <3>1, <3>2
  <2>6. \A u \in Slots : MeasuredOK(u)' BY <1>2, <2>1 DEF MeasuredOK
  <2>7. ExInv' BY <1>1, <1>2, <1>4, <2>1, <2>3, <2>5, <2>6 DEF ExInv
  <2>8. ASSUME status = "completed", NoLeftover PROVE ~LiveEvidence /\ ~LiveEvidence'
    <3>1. LiveTrials = {} BY <1>3, <2>1, <2>8 DEF StaleOK, NoLeftover, NoCmd
    <3>2. PICK u \in Slots : measured[u] # NotMeasured BY <2>8 DEF ExInv
    <3>3. measured[u].source # "live_trial" BY <3>1 DEF LiveTrials
    <3> QED BY <2>1, <3>2, <3>3 DEF LiveEvidence
  <2> QED BY <2>1, <2>7, <2>8 DEF CompletedStays, SupportsProposal
<1>6. CASE WriteStart(k)
  <2> DEFINE r == [NoTrial EXCEPT !.state = "ready", !.bound = cmd[k].under]
  <2>1. /\ cmd[k].op = "start" /\ CmdEnds(k) /\ UNCHANGED <<status, auth, derived, measured>>
        /\ trial[cmd[k].slot].state = "none" /\ trial' = [trial EXCEPT ![cmd[k].slot] = r]
    BY <1>6 DEF WriteStart
  <2>2. cmd[k].under # NoManifest /\ auth.by # NoManifest BY <1>3, <2>1 DEF CmdOK, NoCmd
  <2>3. TrialOK(r) /\ r.state # "none"
    BY <2>2, ExperimentsAssumption DEF TrialOK, TrialFields, NoTrial
  <2> HIDE DEF r
  <2>4. DOMAIN trial' = Slots /\ \A u \in Slots : trial'[u] = trial[u] \/ trial'[u] = r
    BY <1>1, <2>1
  <2>5. \A u \in Slots : TrialOK(trial'[u]) BY <1>2, <2>3, <2>4
  <2>6. \A u \in Slots : TrialOK(trial[u])' BY <2>5 DEF TrialOK
  <2>7. \A u \in Slots : trial[u].state # "none" => trial'[u].state # "none"
    BY <2>3, <2>4
  <2>8. \A u \in Slots : MeasuredOK(u)' BY <1>2, <2>1, <2>7 DEF MeasuredOK
  <2>9. LiveTrials' = LiveTrials BY <2>1 DEF LiveTrials
  <2>10. \A j \in Terminals : CmdOK(j)' /\ StaleOK(j)'
    <3>1. ASSUME NEW j \in Terminals PROVE CmdOK(j)' BY <1>3, <1>4, <2>1, <2>7, CmdKept
    <3>2. ASSUME NEW j \in Terminals PROVE StaleOK(j)' BY <1>3, <1>4, <2>1, <2>9 DEF StaleOK
    <3> QED BY <3>1, <3>2
  <2>11. ExInv' BY <1>1, <1>4, <2>1, <2>2, <2>4, <2>6, <2>8, <2>10 DEF ExInv
  <2>12. ~(status = "completed" /\ NoLeftover) BY <1>3, <2>1 DEF StaleOK, NoLeftover, NoCmd
  <2> QED BY <2>11, <2>12 DEF CompletedStays
<1>7. CASE WriteInsert(k)
  <2>1. /\ cmd[k].op = "insert" /\ CmdEnds(k) /\ UNCHANGED <<auth, derived, trial>> /\ status' = "running"
        /\ measured' = [measured EXCEPT ![cmd[k].slot] = [cmd[k].row EXCEPT !.at = clock]]
    BY <1>7 DEF WriteInsert
  <2>2. PICK s, m : s = cmd[k].slot /\ m = cmd[k].row OBVIOUS
  <2>20. /\ s \in Slots /\ DOMAIN m = RowFields
         /\ m.source = "manual" \/ (m.source = "live_trial" /\ trial[s].state # "none")
    BY <1>3, <2>1, <2>2 DEF CmdOK, NoCmd
  <2>3. PICK row : row = [m EXCEPT !.at = clock] OBVIOUS
  <2>4. row.source = m.source BY <2>20, <2>3 DEF RowFields
  <2>5. measured' = [measured EXCEPT ![s] = row] BY <2>1, <2>2, <2>3
  <2>6. DOMAIN measured' = Slots /\ measured'[s] = row /\ \A u \in Slots \ {s} : measured'[u] = measured[u]
    BY <1>1, <2>5, <2>20
  <2>7. \A u \in Slots : MeasuredOK(u)'
    <3>1. ASSUME NEW u \in Slots \ {s} PROVE MeasuredOK(u)' BY <1>2, <2>1, <2>6 DEF MeasuredOK
    <3>2. measured'[s].source = "manual" \/ (measured'[s].source = "live_trial" /\ trial'[s].state # "none")
      BY <2>1, <2>20, <2>4, <2>6
    <3>3. MeasuredOK(s)' BY <3>2 DEF MeasuredOK
    <3> QED BY <2>20, <3>1, <3>3
  <2>8. \A u \in Slots : measured[u] # NotMeasured => measured'[u] # NotMeasured
    BY <2>20, <2>4, <2>6 DEF NotMeasured
  <2>9. \A j \in Terminals : CmdOK(j)' /\ StaleOK(j)'
    <3>1. ASSUME NEW j \in Terminals PROVE CmdOK(j)' BY <1>3, <1>4, <2>1, <2>8, CmdKept
    <3> QED BY <2>1, <3>1 DEF StaleOK
  <2>10. \A u \in Slots : TrialOK(trial[u])' BY <1>2, <2>1 DEF TrialOK
  <2>11. Bound' = Bound BY <2>1 DEF Bound
  <2>12. ExInv' BY <1>1, <1>4, <2>1, <2>6, <2>7, <2>9, <2>10, <2>11 DEF ExInv
  <2>13. ~(status = "completed" /\ NoLeftover) BY <1>3, <2>1 DEF StaleOK, NoLeftover, NoCmd
  <2> QED BY <2>12, <2>13 DEF CompletedStays
<1>8. CASE WriteComplete(k)
  <2>1. /\ cmd[k].op = "complete" /\ UNCHANGED <<auth, derived, trial, measured>>
        /\ cmd' = [j \in Terminals |-> IF j = k \/ cmd[j] = NoCmd THEN NoCmd ELSE [cmd[j] EXCEPT !.stale = TRUE]]
    BY <1>8 DEF WriteComplete
  <2>2. \E u \in Slots : measured[u] # NotMeasured BY <1>3, <2>1 DEF CmdOK, NoCmd
  <2>3. \A j \in Terminals : \/ cmd'[j] = NoCmd
                             \/ cmd[j] # NoCmd /\ cmd'[j] = [cmd[j] EXCEPT !.stale = TRUE]
    BY <2>1
  <2>4. \A j \in Terminals : CmdOK(j)' /\ StaleOK(j)'
    <3>1. ASSUME NEW j \in Terminals PROVE CmdOK(j)' BY <1>3, <2>1, <2>3, CmdKept
    <3>2. ASSUME NEW j \in Terminals PROVE StaleOK(j)'
      <4>1. CASE cmd'[j] = NoCmd BY <4>1 DEF StaleOK
      <4>2. CASE cmd[j] # NoCmd /\ cmd'[j] = [cmd[j] EXCEPT !.stale = TRUE]
        <5>1. "stale" \in DOMAIN cmd[j] BY <1>3, <4>2 DEF CmdOK
        <5> QED BY <4>2, <5>1 DEF StaleOK
      <4> QED BY <2>3, <4>1, <4>2
    <3> QED BY <3>1, <3>2
  <2>5. Bound' = Bound BY <2>1, SupportUnmoved
  <2>6. \A u \in Slots : TrialOK(trial[u])' /\ MeasuredOK(u)' BY <1>2, <2>1 DEF TrialOK, MeasuredOK
  <2>7. ExInv' BY <1>1, <2>1, <2>2, <2>4, <2>5, <2>6 DEF ExInv
  <2>8. ~(status = "completed" /\ NoLeftover) BY <1>3, <2>1 DEF StaleOK, NoLeftover, NoCmd
  <2> QED BY <2>7, <2>8 DEF CompletedStays
<1>9. CASE CommandFails(k)
  <2>1. CmdEnds(k) /\ UNCHANGED <<status, auth, derived, trial, measured>> BY <1>9 DEF CommandFails
  <2>2. ASSUME NEW j \in Terminals PROVE CmdOK(j)' BY <1>3, <1>4, <2>1, CmdKept
  <2>3. LiveTrials' = LiveTrials BY <2>1, SupportUnmoved
  <2>4. ASSUME NEW j \in Terminals PROVE StaleOK(j)' BY <1>3, <1>4, <2>1, <2>3 DEF StaleOK
  <2> QED BY <1>4, <2>1, <2>2, <2>4, CommandMoves DEF ExInv
<1> QED BY <1>5, <1>6, <1>7, <1>8, <1>9

LEMMA ExInvStep == ExInv /\ [ExNext]_exVars => ExInv' /\ CompletedStays
<1> SUFFICES ASSUME ExInv, [ExNext]_exVars PROVE ExInv' /\ CompletedStays OBVIOUS
<1>1. DOMAIN trial = Slots /\ DOMAIN measured = Slots BY DEF ExInv
<1>2. \A u \in Slots : TrialOK(trial[u]) /\ MeasuredOK(u) BY DEF ExInv
<1>3. ASSUME NEW k \in Terminals, Command(k) PROVE ExInv' /\ CompletedStays
  BY <1>3, KeptByChecks, KeptByWrites DEF Command
<1>4. CASE Drifts \/ ToolChanges \/ ExClock \/ UNCHANGED exVars
  <2>1. UNCHANGED <<status, auth, trial, measured, cmd>> /\ derived' \in Manifests
    BY <1>4 DEF Drifts, ToolChanges, ExClock, exVars, ExInv
  <2>2. ASSUME NEW k \in Terminals PROVE CmdOK(k)' BY <2>1, CmdKept DEF ExInv
  <2>3. LiveTrials' = LiveTrials BY <2>1, SupportUnmoved
  <2>4. ASSUME NEW k \in Terminals PROVE StaleOK(k)' BY <2>1, <2>3 DEF ExInv, StaleOK
  <2> QED BY <2>1, <2>2, <2>4, CommandMoves DEF ExInv
<1>5. ASSUME NEW s \in Slots, LaunchTrial(s) PROVE ExInv' /\ CompletedStays
  <2> DEFINE r == [trial[s] EXCEPT !.staged = TRUE]
  <2>1. TrialOK(r) /\ r.attempts = trial[s].attempts /\ r.bound = trial[s].bound
    BY <1>2 DEF TrialOK, TrialFields
  <2>2. trial[s].state # "none" /\ UNCHANGED <<status, auth, derived, measured, cmd>> BY <1>5 DEF LaunchTrial
  <2>3. r.bound # NoManifest BY <1>2, <2>1, <2>2 DEF TrialOK
  <2>4. PICK t \in Launched(r, s) : trial' = [trial EXCEPT ![s] = t] BY <1>5 DEF LaunchTrial
  <2> HIDE DEF r
  <2>5. TrialOK(t) /\ t.bound = r.bound /\ t.state # "none" BY <2>1, <2>3, <2>4, LaunchKeeps
  <2> QED BY <2>1, <2>2, <2>4, <2>5, TrialMoves
<1>6. ASSUME NEW s \in Slots, StartAttempt(s) PROVE ExInv' /\ CompletedStays
  <2>1. /\ trial[s].attempts \in 0..MaxTrialAttempts /\ trial[s].attempts < MaxTrialAttempts
        /\ trial[s].state # "none" /\ DOMAIN trial[s] = TrialFields /\ trial[s].bound # NoManifest
    BY <1>2, <1>6 DEF StartAttempt, TrialOK
  <2>2. PICK n \in 0..MaxTrialAttempts : n = trial[s].attempts + 1 BY <2>1, ExperimentsAssumption
  <2>3. PICK st \in {"blocked", trial[s].state} : st = IF trial[s].state = "running" THEN "blocked" ELSE trial[s].state
    OBVIOUS
  <2>4. PICK t \in {[trial[s] EXCEPT !.going = FALSE, !.attempts = n],
                    [trial[s] EXCEPT !.going = FALSE, !.state = st]} :
          trial' = [trial EXCEPT ![s] = t]
    BY <1>1, <1>6, <2>2, <2>3 DEF StartAttempt
  <2>5. st # "none" BY <2>1, <2>3
  <2>6. TrialOK(t) /\ t.bound = trial[s].bound /\ t.state # "none"
    BY <1>2, <2>1, <2>2, <2>4, <2>5 DEF TrialOK, TrialFields
  <2>7. UNCHANGED <<status, auth, derived, measured, cmd>> BY <1>6 DEF StartAttempt
  <2> QED BY <2>1, <2>4, <2>6, <2>7, TrialMoves
<1>7. ASSUME NEW s \in Slots, EndAttempt(s) PROVE ExInv' /\ CompletedStays
  <2>1. PICK seen : seen = Rerun(trial[s].tools, tool) OBVIOUS
  <2> DEFINE r == [trial[s] EXCEPT !.tools = seen]
             f == [r EXCEPT !.repairs = @ + 1]
  <2>2. trial[s].state # "none" /\ UNCHANGED <<status, auth, derived, measured, cmd>> BY <1>7 DEF EndAttempt
  <2>3. trial[s].bound # NoManifest BY <1>2, <2>2 DEF TrialOK
  <2>4. TrialOK(f) /\ f.attempts = trial[s].attempts /\ f.bound = trial[s].bound
    BY <1>2 DEF TrialOK, TrialFields
  <2>5. PICK t \in {[r EXCEPT !.state = "done"], [trial[s] EXCEPT !.state = "blocked"], [r EXCEPT !.state = "failed"]}
                   \union Launched(f, s) : trial' = [trial EXCEPT ![s] = t]
    BY <1>7, <2>1 DEF EndAttempt
  <2>6. TrialOK(t) /\ t.bound = trial[s].bound /\ t.state # "none"
    <3>1. CASE t \in Launched(f, s)
      <4> HIDE DEF f
      <4> QED BY <2>3, <2>4, <3>1, LaunchKeeps
    <3>2. CASE t \in {[r EXCEPT !.state = "done"], [trial[s] EXCEPT !.state = "blocked"], [r EXCEPT !.state = "failed"]}
      BY <1>2, <2>3, <3>2 DEF TrialOK, TrialFields
    <3> QED BY <2>5, <3>1, <3>2
  <2> QED BY <2>2, <2>5, <2>6, TrialMoves
<1>8. ASSUME NEW s \in Slots, RetryTrial(s) \/ CancelTrial(s) PROVE ExInv' /\ CompletedStays
  <2>1. PICK t \in {[trial[s] EXCEPT !.state = "ready", !.retries = 1], [trial[s] EXCEPT !.state = "cancelled"]} :
          trial' = [trial EXCEPT ![s] = t]
    BY <1>1, <1>8 DEF RetryTrial, CancelTrial
  <2>2. trial[s].state # "none" /\ UNCHANGED <<status, auth, derived, measured, cmd>>
    BY <1>8 DEF RetryTrial, CancelTrial
  <2>3. TrialOK(t) /\ t.bound = trial[s].bound /\ t.state # "none"
    BY <1>2, <2>1, <2>2 DEF TrialOK, TrialFields
  <2> QED BY <2>1, <2>2, <2>3, TrialMoves
<1> QED BY <1>3, <1>4, <1>5, <1>6, <1>7, <1>8 DEF ExNext

\* One repeat: a pair has one slot for each variant, and a case one pair.
LEMMA OnePair ==
  ASSUME Repeats = 1, NEW s \in Slots, NEW v \in Variants
  PROVE  <<s[1], v>> \in Slots /\ {u \in Of(v) : u[1][1] = s[1][1]} = {<<s[1], v>>}
<1>1. Pairs = {<<c, 0>> : c \in ToSet(Cases)}
  BY DEF Pairs
<1>2. PICK c \in ToSet(Cases) : s[1] = <<c, 0>> BY <1>1 DEF Slots
<1>3. <<s[1], v>> \in Slots BY <1>1, <1>2 DEF Slots
<1>4. \A u \in Slots : u = <<u[1], u[2]>> /\ \E d \in ToSet(Cases) : u[1] = <<d, 0>> BY <1>1 DEF Slots
<1>5. ASSUME NEW u \in Of(v), u[1][1] = s[1][1] PROVE u = <<s[1], v>>
  <2>1. u \in Slots /\ u[2] = v BY <1>5 DEF Of
  <2>2. PICK d \in ToSet(Cases) : u[1] = <<d, 0>> BY <1>4, <2>1
  <2>3. d = c BY <1>2, <1>5, <2>2
  <2> QED BY <1>2, <1>4, <2>1, <2>2, <2>3
<1> QED BY <1>3, <1>5 DEF Of

LEMMA ExInvSays == ExInv => SupportIsEarned
<1> SUFFICES ASSUME ExInv, status = "completed", SupportsProposal, NEW s \in Slots
             PROVE  /\ measured[s].source = "live_trial" /\ trial[s].bound = auth.by /\ ~trial[s].strayed
                    /\ ~(measured[s].at > auth.at + MaxElapsed) /\ trial[s].attempts <= MaxTrialAttempts
                    /\ s[2] = "baseline" /\ Repeats = 1 /\ measured[s].accepted => measured[<<s[1], "candidate">>].accepted
  BY DEF SupportIsEarned
<1>1. measured[s] # NotMeasured BY DEF SupportsProposal, Improved, Complete
<1>2. measured[s].source = "live_trial" /\ trial[s].bound = auth.by
  BY <1>1 DEF SupportsProposal, LiveEvidence
<1>3. TrialOK(trial[s]) /\ MeasuredOK(s) BY DEF ExInv
<1>4. s \in Bound BY <1>1, <1>2, <1>3 DEF MeasuredOK, Bound
<1>5. ~(measured[s].at > auth.at + MaxElapsed) BY <1>2, <1>4 DEF ExInv, SupportsProposal, BudgetBreached, LiveTrials
<1>6. ~trial[s].strayed /\ trial[s].attempts <= MaxTrialAttempts
  BY <1>3, ExperimentsAssumption DEF TrialOK
<1>7. ASSUME s[2] = "baseline", Repeats = 1, measured[s].accepted, ~measured[<<s[1], "candidate">>].accepted
      PROVE  FALSE
  <2> DEFINE c == s[1][1]
             at(v) == {u \in Of(v) : u[1][1] = c}
             good(v) == {u \in at(v) : measured[u].accepted}
  <2>1. at("baseline") = {<<s[1], "baseline">>} /\ at("candidate") = {<<s[1], "candidate">>}
    BY <1>7, OnePair DEF Variants
  <2>2. s = <<s[1], "baseline">> BY <1>7 DEF Slots
  <2>3. good("baseline") = {s} /\ good("candidate") = {} BY <1>7, <2>1, <2>2
  <2>4. Cardinality(good("baseline")) = 1 /\ Cardinality(good("candidate")) = 0
    <3>1. Cardinality({s}) = 1 BY FS_Singleton
    <3>2. Cardinality({}) = 0 BY FS_EmptySet
    <3> QED BY <2>3, <3>1, <3>2
  <2>5. c \in ToSet(Cases) BY DEF Slots, Pairs
  <2>6. ~Regressed(c) BY <2>5 DEF SupportsProposal, Improved
  <2>7. ~(Cardinality(good("candidate")) < Cardinality(good("baseline"))) BY <2>6 DEF Regressed, AcceptedIn
  <2> QED BY <2>4, <2>7
<1> QED BY <1>2, <1>5, <1>6, <1>7

\* Whatever the operator, the clock and the environment do: a completed experiment supports a
\* proposal only by trials of its own manifest, in time and within their attempts, none of them
\* worse; and it never changes what was measured or what it supports.
THEOREM ExperimentsStand == ExSpec => ExperimentsHold
<1>1. ExInv' => SupportIsEarned' BY ExInvSays, PTL
<1> QED BY <1>1, ExInvInit, ExInvStep, PTL DEF ExSpec, ExperimentsHold
-----------------------------------------------------------------------------
\* Failures, repairs, the clock and the commands are counted within their bounds, and what is
\* imported is filed under a signature.
IcCounts ==
  /\ Len(fails) <= MaxFailures
  /\ \A i \in DOMAIN fails : /\ fails[i].at <= now
                             /\ fails[i].kind # "gate" => fails[i].obs.source \in {"worker", "review"}
  /\ charged <= IcRepairLimit /\ now <= MaxTime /\ verified \in 0..MaxVerified
  /\ DOMAIN incidents \subseteq Signature /\ \A s \in DOMAIN incidents : incidents[s].updated <= MaxTime
  /\ \A o \in queue \union found : o.sig \in Signature

LEMMA IcCountsInit == IcInit => IcCounts
<1> SUFFICES ASSUME IcInit PROVE IcCounts OBVIOUS
<1>1. MaxFailures \in Nat /\ IcRepairLimit \in Nat /\ MaxTime \in Nat /\ MaxVerified \in Nat BY IncidentsAssumption
<1>2. Len(fails) = 0 /\ DOMAIN fails = {} /\ DOMAIN incidents = {} BY DEF IcInit
<1> QED BY <1>1, <1>2 DEF IcInit, IcCounts

LEMMA SignedOccurrences ==
  ASSUME IcInv, IcCounts, NEW i \in DOMAIN fails, NEW o \in Occurrences(i)
  PROVE  o.sig \in Signature
<1>1. fails[i] \in FailureRow BY LenProperties, ElementOfSeq DEF IcInv, IcRows
<1>2. fails[i].obs \in Observations /\ fails[i].category \in Categories BY <1>1 DEF FailureRow
<1>3. Rediagnosed(fails[i]) \in Categories
  <2> DEFINE seen == [fails[i].obs EXCEPT !.timedOut = FALSE]
  <2>1. seen \in Observations /\ fails[i].obs.source \in Sources BY <1>2 DEF Observations, Sources
  <2>2. Rediagnosed(fails[i]) = IF fails[i].kind = "gate" THEN fails[i].category ELSE Diagnose(fails[i].obs.source, seen)
    BY DEF Rediagnosed
  <2> HIDE DEF seen
  <2> QED BY <1>2, <2>1, <2>2, DiagnosedByEvidence
<1>4. LayerOf(fails[i]) \in Layers BY DEF LayerOf, Layers, IcCounts
<1>5. o.sig = [category |-> Rediagnosed(fails[i]), layer |-> LayerOf(fails[i])]
      \/ o.sig = [category |-> "controller", layer |-> "controller"]
  BY DEF Occurrences
<1> QED BY <1>3, <1>4, <1>5 DEF Signature, Categories, Layers

LEMMA IcFails ==
  ASSUME IcInv, IcCounts, Len(fails) < MaxFailures, NEW o \in Observed,
         AttemptFails(o) \/ ContractFails(o) \/ LaunchFails(o) \/ CheckFails(o) \/ StageLost(o)
  PROVE  IcCounts'
<1>1. PICK kind, source :
        Fails(kind, source, o) /\ (kind # "gate" => o.source \in {"worker", "review"})
  BY DEF AttemptFails, ContractFails, LaunchFails, CheckFails, StageLost
<1> DEFINE row == Failure(kind, o, Diagnose(source, o))
<1>2. fails' = Append(fails, row) /\ UNCHANGED <<now, incidents, found, queue, verified>> BY <1>1 DEF Fails
<1>3. row.kind = kind /\ row.obs = o /\ row.at = now BY DEF Failure
<1>4. charged' <= IcRepairLimit
  <2>1. charged \in Nat /\ IcRepairLimit \in Nat BY IncidentsAssumption DEF IcInv, IcRows
  <2>2. charged' = charged \/ (charged < IcRepairLimit /\ charged' = charged + 1) BY <1>1 DEF Fails, Charge
  <2> QED BY <2>1, <2>2 DEF IcCounts
<1> HIDE DEF row
<1>5. fails \in Seq(FailureRow) /\ Len(fails) \in Nat /\ DOMAIN fails = 1..Len(fails) /\ now \in Nat /\ MaxFailures \in Nat
  BY LenProperties, IncidentsAssumption DEF IcInv, IcRows
<1>6. /\ Len(fails') = Len(fails) + 1 /\ DOMAIN fails' = 1..(Len(fails) + 1)
      /\ fails'[Len(fails) + 1] = row /\ \A i \in 1..Len(fails) : fails'[i] = fails[i]
  <2> PICK S : S = FailureRow \union {row} OBVIOUS
  <2>1. fails \in Seq(S) /\ row \in S BY <1>5
  <2> QED BY <1>2, <2>1, AppendProperties, LenProperties
<1>7. \A i \in DOMAIN fails' : fails'[i].at <= now /\ (fails'[i].kind # "gate" => fails'[i].obs.source \in {"worker", "review"})
  BY <1>1, <1>3, <1>5, <1>6 DEF IcCounts
<1>8. Len(fails') <= MaxFailures BY <1>5, <1>6
<1> QED BY <1>2, <1>4, <1>7, <1>8 DEF IcCounts

LEMMA IcRecords ==
  ASSUME IcInv, IcCounts, RecordOccurrence
  PROVE  IcCounts'
<1>1. PICK o \in queue :
        /\ queue' = queue \ {o}
        /\ LET row == IF o.sig \in DOMAIN incidents THEN incidents[o.sig] ELSE NewIncident
               new == [Reopened(row, o.key) EXCEPT !.since = @ \union {o.key}]
           IN IF o \in found THEN UNCHANGED <<incidents, found>>
              ELSE /\ found' = found \union {o}
                   /\ incidents' = [s \in DOMAIN incidents \union {o.sig} |->
                                     IF s = o.sig THEN new ELSE incidents[s]]
  BY DEF RecordOccurrence
<1>2. UNCHANGED <<fails, charged, now, verified>> BY DEF RecordOccurrence
<1>3. o.sig \in Signature /\ now \in Nat /\ now <= MaxTime BY DEF IcCounts, IcInv, IcRows
<1>4. CASE o \in found BY <1>1, <1>2, <1>4 DEF IcCounts
<1>5. CASE o \notin found
  <2>1. PICK row : row = IF o.sig \in DOMAIN incidents THEN incidents[o.sig] ELSE NewIncident OBVIOUS
  <2>2. row \in IncidentRow /\ row.updated <= MaxTime
    BY <1>3, <2>1 DEF NewIncident, IncidentRow, IcInv, IcRows, IcCounts
  <2>3. PICK open : open = Reopened(row, o.key) OBVIOUS
  <2>4. open \in IncidentRow /\ open.updated <= MaxTime
    BY <1>3, <2>2, <2>3 DEF Reopened, IncidentRow
  <2>5. PICK new : new = [open EXCEPT !.since = open.since \union {o.key}] OBVIOUS
  <2>6. new.updated <= MaxTime BY <2>4, <2>5 DEF IncidentRow
  <2>7. /\ found' = found \union {o}
        /\ incidents' = [s \in DOMAIN incidents \union {o.sig} |-> IF s = o.sig THEN new ELSE incidents[s]]
    BY <1>1, <1>5, <2>1, <2>3, <2>5
  <2>8. DOMAIN incidents' \subseteq Signature BY <1>3, <2>7 DEF IcCounts
  <2>9. \A s \in DOMAIN incidents' : incidents'[s].updated <= MaxTime BY <2>6, <2>7 DEF IcCounts
  <2>10. \A p \in queue' \union found' : p.sig \in Signature BY <1>1, <1>3, <2>7 DEF IcCounts
  <2> QED BY <1>2, <2>8, <2>9, <2>10 DEF IcCounts
<1> QED BY <1>4, <1>5

LEMMA IcCountsStep == IcInv /\ IcCounts /\ [IcNext]_icVars => IcCounts'
<1> SUFFICES ASSUME IcInv, IcCounts, [IcNext]_icVars PROVE IcCounts' OBVIOUS
<1>1. CASE UNCHANGED icVars BY <1>1 DEF icVars, IcCounts
<1>2. CASE IcClock
  <2>1. now \in Nat /\ MaxTime \in Nat /\ fails \in Seq(FailureRow) BY IncidentsAssumption DEF IcInv, IcRows
  <2>2. \A i \in DOMAIN fails : fails[i].at \in Nat
    <3>1. \A i \in DOMAIN fails : fails[i] \in FailureRow BY <2>1, LenProperties, ElementOfSeq
    <3> QED BY <3>1 DEF FailureRow
  <2>3. now' = now + 1 /\ now < MaxTime /\ UNCHANGED <<fails, charged, incidents, found, queue, verified>> BY <1>2 DEF IcClock
  <2>4. \A i \in DOMAIN fails : fails[i].at <= now' BY <2>1, <2>2, <2>3 DEF IcCounts
  <2> QED BY <2>1, <2>3, <2>4 DEF IcCounts
<1>3. CASE StartImport
  <2>1. queue' = Projection /\ UNCHANGED <<fails, charged, now, incidents, found, verified>> BY <1>3 DEF StartImport
  <2>2. \A o \in Projection : o.sig \in Signature BY SignedOccurrences DEF Projection
  <2> QED BY <2>1, <2>2 DEF IcCounts
<1>4. ASSUME NEW s \in DOMAIN incidents, Hypothesize(s) \/ Verify(s) \/ Supersede(s) PROVE IcCounts'
  <2>1. now <= MaxTime /\ now \in Nat /\ MaxVerified \in Nat BY IncidentsAssumption DEF IcCounts, IcInv, IcRows
  <2>2. PICK row : incidents' = [incidents EXCEPT ![s] = row] /\ row.updated = now
    BY <1>4 DEF Hypothesize, Verify, Supersede, Updated
  <2>3. DOMAIN incidents' = DOMAIN incidents /\ \A t \in DOMAIN incidents : incidents'[t].updated <= MaxTime
    BY <2>1, <2>2 DEF IcCounts
  <2>4. verified' = verified \/ (verified < MaxVerified /\ verified' = verified + 1) BY <1>4 DEF Hypothesize, Verify, Supersede
  <2>5. verified' \in 0..MaxVerified BY <2>1, <2>4 DEF IcCounts
  <2>6. UNCHANGED <<fails, charged, now, found, queue>> BY <1>4 DEF Hypothesize, Verify, Supersede, OthersStay
  <2> QED BY <2>3, <2>5, <2>6 DEF IcCounts
<1> QED BY <1>1, <1>2, <1>3, <1>4, IcFails, IcRecords DEF IcNext

LEMMA IcTyped == IcInv /\ IcCounts => IcTypeOK
<1> SUFFICES ASSUME IcInv, IcCounts PROVE IcTypeOK OBVIOUS
<1>1. /\ fails \in Seq(FailureRow) /\ charged \in Nat /\ now \in Nat /\ {MaxTime, MaxFailures, IcRepairLimit} \subseteq Nat
      /\ incidents \in [DOMAIN incidents -> IncidentRow] /\ Len(fails) \in Nat /\ DOMAIN fails = 1..Len(fails)
  BY IncidentsAssumption, LenProperties DEF IcInv, IcRows
<1>2. \A i \in DOMAIN fails : /\ fails[i].kind \in {"attempt", "contract", "launch", "gate", "stage"}
                              /\ fails[i].category \in Categories /\ fails[i].at \in 0..now
  <2> SUFFICES ASSUME NEW i \in DOMAIN fails
               PROVE  /\ fails[i].kind \in {"attempt", "contract", "launch", "gate", "stage"}
                      /\ fails[i].category \in Categories /\ fails[i].at \in 0..now
    OBVIOUS
  <2>1. fails[i] \in FailureRow BY <1>1, ElementOfSeq
  <2>2. fails[i].at \in Nat /\ fails[i].at <= now BY <2>1 DEF FailureRow, IcCounts
  <2> QED BY <1>1, <2>1, <2>2 DEF FailureRow
<1>3. ASSUME NEW s \in DOMAIN incidents
      PROVE  incidents[s] \in [lifecycle : {"open", "investigating", "resolved", "superseded"},
                               verified : BOOLEAN, updated : 0..MaxTime, since : SUBSET (1..MaxFailures)]
  <2>1. incidents[s] \in IncidentRow /\ incidents[s].updated <= MaxTime BY <1>1 DEF IcCounts
  <2>2. incidents[s].updated \in 0..MaxTime BY <1>1, <2>1 DEF IncidentRow
  <2>3. incidents[s].since \subseteq 1..MaxFailures
    <3>1. incidents[s].since \subseteq DOMAIN fails BY DEF IcInv, LessonsKnown, Fixed
    <3> QED BY <1>1, <3>1 DEF IcCounts
  <2> QED BY <2>1, <2>2, <2>3 DEF IncidentRow
<1>4. charged \in 0..IcRepairLimit /\ now \in 0..MaxTime BY <1>1 DEF IcCounts
<1> QED BY <1>2, <1>3, <1>4 DEF IcTypeOK, IcCounts
-----------------------------------------------------------------------------
(* Types of an experiment.                                                 *)

TrialTyped(t) == /\ t.state \in Resting \union {"none", "ready", "running"}
                 /\ t.repairs \in 0..ExRepairLimit /\ t.tools \in Seq(Tools)

ExCounts ==
  /\ ExInv
  /\ status \in {"draft", "running", "completed"}
  /\ auth \in [by : Manifests \union {NoManifest}, at : 0..ExMaxTime]
  /\ derived \in Manifests /\ tool \in Tools /\ clock \in 0..ExMaxTime
  /\ \A s \in Slots : TrialTyped(trial[s])

LEMMA RerunTyped ==
  ASSUME NEW versions \in Seq(Tools), NEW v \in Tools
  PROVE  Rerun(versions, v) \in Seq(Tools)
<1>1. ASSUME v \in ToSet(versions)
      PROVE  RemoveAt(versions, CHOOSE i \in DOMAIN versions : versions[i] = v) \in Seq(Tools)
  <2>1. PICK n \in Nat : n = Len(versions) /\ DOMAIN versions = 1..n /\ \A i \in 1..n : versions[i] \in Tools
    BY LenProperties, ElementOfSeq
  <2>2. PICK i : i = CHOOSE j \in DOMAIN versions : versions[j] = v
    OBVIOUS
  <2>3. \E j \in DOMAIN versions : versions[j] = v
    BY <1>1, <2>1 DEF ToSet
  <2>4. i \in 1..n
    BY <2>1, <2>2, <2>3
  <2>5. SubSeq(versions, 1, i - 1) \in Seq(Tools)
    <3>1. \A k \in 1..(i - 1) : versions[k] \in Tools
      BY <2>1, <2>4
    <3>2. i - 1 \in Int /\ 1 \in Int
      BY <2>4
    <3> QED BY <3>1, <3>2, SubSeqProperties
  <2>6. SubSeq(versions, i + 1, n) \in Seq(Tools)
    <3>1. \A k \in (i + 1)..n : versions[k] \in Tools
      BY <2>1, <2>4
    <3>2. i + 1 \in Int /\ n \in Int
      BY <2>4
    <3> QED BY <3>1, <3>2, SubSeqProperties
  <2>7. RemoveAt(versions, i) = SubSeq(versions, 1, i - 1) \o SubSeq(versions, i + 1, n)
    BY <2>1 DEF RemoveAt
  <2>8. RemoveAt(versions, i) \in Seq(Tools)
    BY <2>5, <2>6, <2>7, ConcatProperties
  <2> QED BY <2>2, <2>8
<1> DEFINE kept == IF v \in ToSet(versions)
                   THEN RemoveAt(versions, CHOOSE i \in DOMAIN versions : versions[i] = v) ELSE versions
<1>2. kept \in Seq(Tools)
  BY <1>1
<1>3. Rerun(versions, v) = Append(kept, v)
  BY DEF Rerun
<1> HIDE DEF kept
<1> QED BY <1>2, <1>3, AppendProperties

LEMMA ExCountsInit == ExInit => ExCounts
<1> SUFFICES ASSUME ExInit PROVE ExCounts
  OBVIOUS
<1>1. 0 \in 0..ExMaxTime /\ 0 \in 0..ExRepairLimit
  BY ExperimentsAssumption
<1>2. <<>> \in Seq(Tools)
  BY EmptySeq
<1>3. TrialTyped(NoTrial)
  BY <1>1, <1>2 DEF TrialTyped, NoTrial
<1>4. \A s \in Slots : TrialTyped(trial[s])
  BY <1>3 DEF ExInit
<1>5. auth \in [by : Manifests \union {NoManifest}, at : 0..ExMaxTime]
  BY <1>1 DEF ExInit
<1> QED BY <1>1, <1>4, <1>5, ExInvInit DEF ExInit, ExCounts

\* A step of one trial's task.
LEMMA ExTrialMoves ==
  ASSUME ExCounts, ExInv', NEW s \in Slots, NEW t, TrialTyped(t), trial' = [trial EXCEPT ![s] = t],
         UNCHANGED <<status, auth, derived, tool, clock>>
  PROVE  ExCounts'
<1>1. DOMAIN trial = Slots
  BY DEF ExCounts, ExInv
<1>2. \A u \in Slots : TrialTyped(trial'[u])
  BY <1>1 DEF ExCounts
<1>3. \A u \in Slots : TrialTyped(trial[u])'
  BY <1>2 DEF TrialTyped
<1> QED BY <1>3 DEF ExCounts

LEMMA LaunchTyped ==
  ASSUME NEW r, NEW s, DOMAIN r = TrialFields, TrialTyped(r), NEW t \in Launched(r, s)
  PROVE  TrialTyped(t)
<1>1. CASE t = [r EXCEPT !.state = "parked"]
  BY <1>1 DEF TrialTyped, TrialFields, Resting
<1>2. CASE t = [r EXCEPT !.state = "blocked"]
  BY <1>2 DEF TrialTyped, TrialFields, Resting
<1>3. CASE t = [r EXCEPT !.state = "running", !.going = TRUE, !.strayed = @ \/ derived # auth.by \/ ElapsedExceeded]
  <2>1. PICK b : b = (r.strayed \/ derived # auth.by \/ ElapsedExceeded)
    OBVIOUS
  <2>2. t = [r EXCEPT !.state = "running", !.going = TRUE, !.strayed = b]
    BY <1>3, <2>1
  <2> QED BY <2>2 DEF TrialTyped, TrialFields
<1> QED BY <1>1, <1>2, <1>3 DEF Launched

LEMMA ExCountsStep ==
  ASSUME ExCounts, [ExNext]_exVars
  PROVE  ExCounts'
<1>1. ExInv /\ ExInv'
  BY ExInvStep DEF ExCounts
<1>2. \A s \in Slots : TrialTyped(trial[s]) /\ DOMAIN trial[s] = TrialFields
  BY DEF ExCounts, ExInv, TrialOK
<1>3. ASSUME UNCHANGED trial PROVE \A s \in Slots : TrialTyped(trial[s])'
  BY <1>2, <1>3 DEF TrialTyped
<1>4. ASSUME NEW k \in Terminals, WriteAuthorize(k) PROVE ExCounts'
  <2>1. cmd[k].to \in Manifests
    BY <1>1, <1>4 DEF WriteAuthorize, ExInv, CmdOK, NoCmd
  <2>2. auth' \in [by : Manifests \union {NoManifest}, at : 0..ExMaxTime]
    BY <1>4, <2>1 DEF WriteAuthorize, ExCounts
  <2> QED BY <1>1, <1>3, <1>4, <2>2 DEF WriteAuthorize, ExCounts
<1>5. ASSUME NEW k \in Terminals, WriteStart(k) PROVE ExCounts'
  <2> DEFINE r == [NoTrial EXCEPT !.state = "ready", !.bound = cmd[k].under]
  <2>1. trial' = [trial EXCEPT ![cmd[k].slot] = r]
    BY <1>5 DEF WriteStart
  <2>2. 0 \in 0..ExRepairLimit /\ <<>> \in Seq(Tools)
    BY ExperimentsAssumption, EmptySeq
  <2>3. TrialTyped(r)
    BY <2>2 DEF TrialTyped, NoTrial
  <2> HIDE DEF r
  <2>4. \A u \in Slots : trial'[u] = trial[u] \/ trial'[u] = r
    BY <1>1, <2>1 DEF ExInv
  <2>5. \A u \in Slots : TrialTyped(trial[u])'
    BY <1>2, <2>3, <2>4 DEF TrialTyped
  <2> QED BY <1>1, <1>5, <2>5 DEF WriteStart, ExCounts
<1>6. ASSUME NEW k \in Terminals,
             \/ CheckAuthorize(k) \/ CheckStart(k) \/ CheckComplete(k) \/ CommandFails(k)
             \/ \E s \in Slots : RecordMeasurement(k, s) \/ RecordTrial(k, s)
      PROVE  ExCounts'
  <2>1. UNCHANGED <<status, auth, derived, tool, clock, trial>>
    BY <1>6 DEF CheckAuthorize, CheckStart, CheckComplete, CommandFails, RecordMeasurement, RecordTrial, CheckInsert, Checks
  <2> QED BY <1>1, <1>3, <2>1 DEF ExCounts
<1>7. CASE Drifts \/ ToolChanges \/ UNCHANGED exVars
  BY <1>1, <1>3, <1>7 DEF Drifts, ToolChanges, exVars, ExCounts
<1>8. CASE ExClock
  <2>1. clock' \in 0..ExMaxTime
    BY <1>8, ExperimentsAssumption DEF ExClock, ExCounts
  <2> QED BY <1>1, <1>3, <1>8, <2>1 DEF ExClock, ExCounts
<1>9. ASSUME NEW s \in Slots, LaunchTrial(s) PROVE ExCounts'
  <2> DEFINE r == [trial[s] EXCEPT !.staged = TRUE]
  <2>1. TrialTyped(r) /\ DOMAIN r = TrialFields
    BY <1>2 DEF TrialTyped, TrialFields
  <2>2. PICK t \in Launched(r, s) : trial' = [trial EXCEPT ![s] = t]
    BY <1>9 DEF LaunchTrial
  <2>3. UNCHANGED <<status, auth, derived, tool, clock>>
    BY <1>9 DEF LaunchTrial
  <2> HIDE DEF r
  <2>4. TrialTyped(t)
    BY <2>1, <2>2, LaunchTyped
  <2> QED BY <1>1, <2>2, <2>3, <2>4, ExTrialMoves
<1>10. ASSUME NEW s \in Slots, EndAttempt(s) PROVE ExCounts'
  <2>1. PICK seen : seen = Rerun(trial[s].tools, tool)
    OBVIOUS
  <2>2. seen \in Seq(Tools)
    BY <1>2, <2>1, RerunTyped DEF TrialTyped, ExCounts
  <2> DEFINE r == [trial[s] EXCEPT !.tools = seen]
             f == [r EXCEPT !.repairs = @ + 1]
  <2>3. PICK t \in {[r EXCEPT !.state = "done"], [trial[s] EXCEPT !.state = "blocked"], [r EXCEPT !.state = "failed"]}
                   \union (IF r.repairs < ExRepairLimit THEN Launched(f, s) ELSE {}) : trial' = [trial EXCEPT ![s] = t]
    BY <1>10, <2>1 DEF EndAttempt
  <2>4. TrialTyped(t)
    <3>1. CASE r.repairs < ExRepairLimit /\ t \in Launched(f, s)
      <4>1. trial[s].repairs \in 0..ExRepairLimit /\ trial[s].repairs + 1 \in 0..ExRepairLimit
        BY <1>2, <3>1, ExperimentsAssumption DEF TrialTyped, TrialFields
      <4>2. TrialTyped(f) /\ DOMAIN f = TrialFields
        BY <1>2, <2>2, <4>1 DEF TrialTyped, TrialFields
      <4> HIDE DEF f
      <4> QED BY <3>1, <4>2, LaunchTyped
    <3>2. CASE t \in {[r EXCEPT !.state = "done"], [trial[s] EXCEPT !.state = "blocked"], [r EXCEPT !.state = "failed"]}
      BY <1>2, <2>2, <3>2 DEF TrialTyped, TrialFields, Resting
    <3> QED BY <2>3, <3>1, <3>2
  <2>5. UNCHANGED <<status, auth, derived, tool, clock>>
    BY <1>10 DEF EndAttempt
  <2> QED BY <1>1, <2>3, <2>4, <2>5, ExTrialMoves
<1>11. ASSUME NEW s \in Slots, RetryTrial(s) \/ CancelTrial(s) PROVE ExCounts'
  <2>1. PICK t \in {[trial[s] EXCEPT !.state = "ready", !.retries = 1], [trial[s] EXCEPT !.state = "cancelled"]} :
          trial' = [trial EXCEPT ![s] = t]
    BY <1>1, <1>11 DEF RetryTrial, CancelTrial, ExInv
  <2>2. UNCHANGED <<status, auth, derived, tool, clock>>
    BY <1>11 DEF RetryTrial, CancelTrial
  <2>3. TrialTyped(t)
    BY <1>2, <2>1 DEF TrialTyped, TrialFields, Resting
  <2> QED BY <1>1, <2>1, <2>2, <2>3, ExTrialMoves
<1>12. ASSUME NEW k \in Terminals, WriteInsert(k) \/ WriteComplete(k) PROVE ExCounts'
  <2>1. status' \in {"running", "completed"} /\ UNCHANGED <<auth, derived, tool, clock, trial>>
    BY <1>12 DEF WriteInsert, WriteComplete
  <2> QED BY <1>1, <1>3, <2>1 DEF ExCounts
<1>13. ASSUME NEW s \in Slots, StartAttempt(s) PROVE ExCounts'
  <2>1. PICK n, st : /\ n = trial[s].attempts + 1
                    /\ st = IF trial[s].state = "running" THEN "blocked" ELSE trial[s].state
    OBVIOUS
  <2>2. PICK t \in {[trial[s] EXCEPT !.going = FALSE, !.attempts = n], [trial[s] EXCEPT !.going = FALSE, !.state = st]} :
          trial' = [trial EXCEPT ![s] = t]
    BY <1>1, <1>13, <2>1 DEF StartAttempt, ExInv
  <2>3. UNCHANGED <<status, auth, derived, tool, clock>>
    BY <1>13 DEF StartAttempt
  <2>4. st \in Resting \union {"none", "ready", "running"}
    BY <1>2, <2>1 DEF TrialTyped, Resting
  <2>5. TrialTyped(t)
    BY <1>2, <2>2, <2>4 DEF TrialTyped, TrialFields
  <2> QED BY <1>1, <2>2, <2>3, <2>5, ExTrialMoves
<1>14. ASSUME NEW k \in Terminals, Command(k) PROVE ExCounts'
  BY <1>4, <1>5, <1>6, <1>12, <1>14 DEF Command
<1> QED BY <1>7, <1>8, <1>9, <1>10, <1>11, <1>13, <1>14 DEF ExNext

LEMMA ExTyped == ExCounts => ExTypeOK
<1> SUFFICES ASSUME ExCounts PROVE ExTypeOK
  OBVIOUS
<1>1. ASSUME NEW s \in Slots PROVE ToSet(trial[s].tools) \subseteq Tools
  <2>1. PICK vs \in Seq(Tools) : vs = trial[s].tools
    BY DEF ExCounts, TrialTyped
  <2>2. \A i \in DOMAIN vs : vs[i] \in Tools
    BY LenProperties, ElementOfSeq
  <2> QED BY <2>1, <2>2 DEF ToSet
<1>2. \A s \in Slots : measured[s].source \in {"none", "manual", "live_trial"}
  BY DEF ExCounts, ExInv, MeasuredOK, NotMeasured
<1>3. \A k \in Terminals : cmd[k].op \in {"none", "authorize", "start", "insert", "complete"} /\ cmd[k].stale \in BOOLEAN
  BY DEF ExCounts, ExInv, CmdOK, NoCmd
<1> QED BY <1>1, <1>2, <1>3 DEF ExCounts, ExInv, TrialOK, TrialTyped, ExTypeOK
=============================================================================
