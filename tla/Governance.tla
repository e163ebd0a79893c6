------------------------------ MODULE Governance ------------------------------
(***************************************************************************)
(* Who decided how a project's changes are reviewed, and what work is done *)
(* under it: createProject, recordProjectDecision, setProjectReviewPolicy, *)
(* applyConfiguration and prepareApproval of src/store/records.ts, briefs  *)
(* of src/intake, standing preferences of src/governance/standing.ts, and  *)
(* the readiness and review decisions of src/controller/controller.ts.     *)
(*                                                                         *)
(* One project, one brief with one plan, one task. Every command of a CLI, *)
(* of the workbench or of the controller is a process of its own: two of   *)
(* them read before their transaction, and the completion of checks waits  *)
(* for git between its reading and its decision.                           *)
(***************************************************************************)
EXTENDS ReviewPolicy

CONSTANTS Kinds,         \* the types of projects and briefs in this instance
          Stored,        \* policies rows of earlier versions hold
          Curated,       \* valid policies of approved configurations
          Changes,       \* the changes the task may make: [class, signs]
          MaxDecisions,  \* bound: decisions of the project
          MaxRevisions,  \* bound: versions of the brief
          MaxSettings    \* bound: changes of configuration and preference beside decisions

ASSUME GovernanceAssumption ==
  /\ Kinds \subseteq Types
  /\ \A p \in Curated : p \in Policies /\ Valid(p)
  /\ \A p \in Stored : Normalized(p) \in Policies /\ Valid(Normalized(p))   \* validated when written
  /\ \A c \in Changes : c.class \in Classes /\ c.signs \subseteq Signs
  /\ {MaxDecisions, MaxSettings} \subseteq Nat /\ MaxRevisions \in Nat \ {0}

VARIABLES
  gov,    \* projects: type, choice, whether decided, governance_version
  held,   \* projects.review_policy, as stored
  known,  \* policies of the project's config_versions
  doc,    \* product_briefs: type, choice, decided, governance_version; rev: its version
  pref,   \* standing_preferences: the active one's choice
  plan,   \* the proposal: its state, what it was fingerprinted with, the decision it went in under
  work,   \* the task: state, change, the policy its completion read, its review
  merge,  \* an approval to merge it
  cmd,    \* the command between its reading and its transaction
  settings \* counts the changes of configuration

govVars == <<gov, held, known, doc, pref, plan, work, merge, cmd, settings>>

None == [kind |-> "none"]
Undecided == [type |-> Unset, choice |-> Unset, decided |-> FALSE, version |-> 0]
NoPlan == [state |-> "none", of |-> <<>>, under |-> 0]
Policy == Normalized(held)      \* toProject
HasProject == held # None

GovTypeOK ==
  /\ gov \in [type : Types \union {Unset}, choice : ReviewChoices \union {Unset}, decided : BOOLEAN, version : 0..MaxDecisions]
  /\ held # None => Policy \in Policies
  /\ known \subseteq Policies
  /\ doc.version \in 0..MaxRevisions /\ doc.rev \in 1..MaxRevisions
  /\ pref \in ReviewChoices \union {Unset}
  /\ plan.state \in {"none", "presented", "accepted", "submitted"}
  /\ work.state \in {"none", "queued", "running", "deciding", "reviewing", "done", "cancelled"}
  /\ work.review \in {"none", "approved", "stale"}
  /\ merge \in {"none", "live"}
  /\ cmd.kind \in {"none", "policy", "merge"} /\ settings \in 0..MaxSettings

Decided(g, type, choice) ==
  [g EXCEPT !.type = type, !.choice = choice, !.decided = TRUE, !.version = @ + 1]

\* createBrief: with a decision, or without a word about it.
Created == {Undecided} \union {Decided(Undecided, c[1], c[2]) : c \in {d \in Kinds \X ReviewChoices : MayDecide(d[1], d[2])}}

GovInit ==
  /\ gov = Undecided /\ known = {} /\ held \in {None} \union Stored
  /\ \E g \in Created :
       doc = [type |-> g.type, choice |-> g.choice, decided |-> g.decided, version |-> g.version, rev |-> 1]
  /\ pref = Unset /\ plan = NoPlan
  /\ work = [state |-> "none", change |-> None, seen |-> None, review |-> "none"]
  /\ merge = "none" /\ cmd = None /\ settings = 0
-----------------------------------------------------------------------------
(* The project's configuration.                                            *)

\* A new config_version of the project: invalidateProjectApprovals, recordCurrentProjectConfig.
\* What was prepared or reviewed for the old one is for another context
\* (reviewContextFingerprint, findApprovalFor).
Configured(p) ==
  /\ held' = p /\ known' = known \union {p}
  /\ merge' = "none"
  /\ work' = [work EXCEPT !.review = IF @ = "approved" THEN "stale" ELSE @]
\* A command in between keeps what it read.
Outdated == IF cmd.kind = "merge" THEN [cmd EXCEPT !.fresh = FALSE] ELSE cmd

\* Mutant: a policy that conflicts with the decision survives it.
PolicyKept(g) == Policy

\* recordProjectDecision: a compatible policy is kept, another replaced.
PolicyUnder(g) == IF Conflicts(g, Policy) THEN ForChoice(g.choice) ELSE Policy

\* recordProjectDecision of the project. Automation does not relabel a client's project.
DecideProject(type, choice, person) ==
  /\ HasProject /\ gov.version < MaxDecisions /\ MayDecide(type, choice)
  /\ gov.type = "client" /\ type # "client" => person
  /\ gov' = Decided(gov, type, choice)
  /\ Configured(PolicyUnder(gov')) /\ cmd' = Outdated
  /\ UNCHANGED <<doc, pref, plan, settings>>

\* applyDeliveryPreference: it fills a missing choice of a known type.
Filled(g, types) == pref # Unset /\ g.type \in types /\ g.choice = Unset
Eligible == {"personal"}

\* createProject, then the preference (project add).
CreateProject(type, choice) ==
  LET full == IF type = "client" /\ choice = Unset THEN "required" ELSE choice
      own  == [Undecided EXCEPT !.type = type, !.choice = full]
  IN  /\ ~HasProject /\ MaxDecisions > 0
      /\ type # Unset /\ full # Unset => MayDecide(type, full)
      /\ gov' = IF type # Unset /\ full # Unset THEN Decided(Undecided, type, full)
                ELSE IF choice = Unset /\ Filled(own, Eligible) THEN Decided(own, type, pref) ELSE own
      /\ Configured(IF gov'.decided THEN ForChoice(gov'.choice) ELSE Unclassified) /\ cmd' = cmd
      /\ UNCHANGED <<doc, pref, plan, settings>>

\* setProjectReviewPolicy, and the preset and mode commands that call it: it reads the
\* project, refuses a conflict with a confirmed decision and an unacknowledged weakening.
Requests == {Experiment, Personal, Client} \union {Migrated([mode |-> m, skips |-> DefaultSkips]) : m \in {"none", "substantive", "required"}}
BeginPolicy(p, acknowledged) ==
  /\ HasProject /\ cmd = None /\ settings < MaxSettings
  /\ ~(gov.decided /\ Conflicts(gov, p))
  /\ Weakens(Policy, p) = acknowledged   \* an idle acknowledgement changes nothing
  /\ cmd' = [kind |-> "policy", policy |-> p, acknowledged |-> acknowledged]
  /\ settings' = settings + 1
  /\ UNCHANGED <<gov, held, known, doc, pref, plan, work, merge>>
EndPolicy ==
  /\ cmd.kind = "policy"
  /\ Configured(cmd.policy) /\ cmd' = None
  /\ UNCHANGED <<gov, doc, pref, plan, settings>>

\* assertConfigurationGovernance
Governed(p) == Ready(gov, Policy) /\ Ready(gov, p)

\* activateCuratorProposal and revertProjectConfig, with their exact approval. A decision in
\* between takes the approval back and ends them (markApprovalConsumed, see Curator), so
\* they are one step here. Only at a safe checkpoint, as far as that was looked at (Curator).
ApplyConfiguration(p) ==
  /\ HasProject /\ settings < MaxSettings /\ settings' = settings + 1
  /\ Governed(p) /\ Valid(p) /\ work.state \notin {"running", "deciding", "reviewing"}
  /\ Configured(p) /\ cmd' = Outdated
  /\ UNCHANGED <<gov, doc, pref, plan>>

\* setDeliveryPreference and clearDeliveryPreference, by the person they speak for.
SetPreference(choice) ==
  /\ pref # choice /\ pref' = choice /\ settings < MaxSettings /\ settings' = settings + 1
  /\ UNCHANGED <<gov, held, known, doc, plan, work, merge, cmd>>
-----------------------------------------------------------------------------
(* The brief and its plan.                                                 *)

\* invalidateAcceptance, and with it the submitted tasks that have not started.
Withdraw ==
  /\ plan' = IF plan.state \in {"accepted", "submitted"} THEN NoPlan ELSE plan
  /\ work' = IF plan.state = "submitted" /\ work.state = "queued" THEN [work EXCEPT !.state = "cancelled"] ELSE work

\* updateBrief: the fields, then a decision or the preference when the type or the choice
\* was named ("same": it was not). Any revision takes an acceptance back.
UpdateBrief(type, choice) ==
  LET given  == [doc EXCEPT !.type = IF type = "same" THEN @ ELSE type,
                            !.choice = IF choice = "same" THEN @ ELSE choice, !.rev = @ + 1]
      wanted == IF given.type = "client" /\ choice = "same" THEN "required" ELSE given.choice
  IN  /\ doc.rev < MaxRevisions
      /\ given.type # Unset /\ wanted # Unset => MayDecide(given.type, wanted)
      /\ doc' = IF type = "same" /\ choice = "same" THEN given
                ELSE IF given.type # Unset /\ wanted # Unset THEN Decided(given, given.type, wanted)
                ELSE IF choice = "same" /\ Filled(given, Eligible) THEN Decided(given, given.type, pref)
                ELSE given
      /\ Withdraw
      /\ UNCHANGED <<gov, held, known, pref, merge, cmd, settings>>

\* fingerprintForBrief: the version and the governance decision a plan is shown with.
Shown == <<doc.rev, doc.version>>

\* proposePlan; a brief need not be ready for it.
Propose ==
  /\ plan.state \in {"none", "presented"}
  /\ plan' = [state |-> "presented", of |-> Shown, under |-> 0] /\ plan' # plan
  /\ UNCHANGED <<gov, held, known, doc, pref, work, merge, cmd, settings>>

\* acceptPlan
Accept ==
  /\ plan.state = "presented" /\ BriefReady(doc) /\ plan.of = Shown
  /\ plan' = [plan EXCEPT !.state = "accepted"]
  /\ UNCHANGED <<gov, held, known, doc, pref, work, merge, cmd, settings>>

\* bootstrapProject registers the project under the brief's governance.
Bootstrap ==
  /\ ~HasProject /\ plan.state = "accepted" /\ BriefReady(doc) /\ MaxDecisions > 0
  /\ gov' = Decided(Undecided, doc.type, doc.choice)
  /\ Configured(ForChoice(doc.choice)) /\ cmd' = cmd
  /\ UNCHANGED <<doc, pref, plan, settings>>

\* submitAcceptedPlan: the two decisions are the same.
Agree == doc.type = gov.type /\ doc.choice = gov.choice

\* submitAcceptedPlan, startAcceptedWork: createTask refuses a project that is not ready.
SubmitPlan(change) ==
  /\ HasProject /\ plan.state = "accepted" /\ plan.of = Shown /\ work.state \in {"none", "cancelled"}
  /\ BriefReady(doc) /\ Ready(gov, Policy) /\ Agree
  /\ plan' = [plan EXCEPT !.state = "submitted", !.under = gov.version]
  /\ work' = [work EXCEPT !.state = "queued", !.change = change]
  /\ UNCHANGED <<gov, held, known, doc, pref, merge, cmd, settings>>

\* createTask by hand (task add).
AddTask(change) ==
  /\ HasProject /\ work.state = "none" /\ Ready(gov, Policy)
  /\ work' = [work EXCEPT !.state = "queued", !.change = change]
  /\ UNCHANGED <<gov, held, known, doc, pref, plan, merge, cmd, settings>>
-----------------------------------------------------------------------------
(* The task.                                                               *)

Task(changed) == /\ work' = changed /\ UNCHANGED <<gov, held, known, doc, pref, plan, merge, cmd, settings>>

\* dispatchReadyTasks, launchAttempt: recordGovernanceNeedsInput asks instead.
Dispatch == /\ work.state = "queued" /\ Ready(gov, Policy) /\ Task([work EXCEPT !.state = "running"])

\* completeChecks reads the project, then the changed files and the diff.
ReadChange == /\ work.state = "running" /\ Task([work EXCEPT !.state = "deciding", !.seen = Policy])

\* reviewDecision, beginReview or acceptTask; requested: hasOpenManualReviewRequest.
DecideReview(requested) ==
  /\ work.state = "deciding"
  /\ Task([work EXCEPT !.seen = None,
             !.state = IF Reviews(work.seen, work.change.class, work.change.signs, requested)
                       THEN "reviewing" ELSE "done"])

\* recordReview: the verdict is of the context of the moment (ReviewRounds runs a stale
\* review again).
ReviewApproves == /\ work.state = "reviewing" /\ Task([work EXCEPT !.state = "done", !.review = "approved"])

\* prepareApproval: the policy again, of the changed paths; a review that ran is asked for
\* whatever the policy says, and it must be of this context.
ReviewedEnough == /\ work.review # "stale"
                  /\ Reviews(Policy, work.change.class, work.change.signs \ {"diff"}, FALSE) => work.review = "approved"
BeginMerge == /\ work.state = "done" /\ merge # "live" /\ cmd = None /\ ReviewedEnough
              /\ cmd' = [kind |-> "merge", fresh |-> TRUE]
              /\ UNCHANGED <<gov, held, known, doc, pref, plan, work, merge, settings>>
\* requestApproval: bound to the configuration that was read.
EndMerge == /\ cmd.kind = "merge" /\ cmd' = None
            /\ merge' = IF cmd.fresh THEN "live" ELSE "none"
            /\ UNCHANGED <<gov, held, known, doc, pref, plan, work, settings>>
-----------------------------------------------------------------------------
GovNext ==
  \/ \E type \in Kinds, choice \in ReviewChoices, person \in BOOLEAN : DecideProject(type, choice, person)
  \/ \E type \in Kinds \union {Unset}, choice \in ReviewChoices \union {Unset} : CreateProject(type, choice)
  \/ \E p \in Requests, acknowledged \in BOOLEAN : BeginPolicy(p, acknowledged)
  \/ EndPolicy
  \/ \E p \in Curated \union known : ApplyConfiguration(p)
  \/ \E choice \in ReviewChoices \union {Unset} : SetPreference(choice)
  \/ \E type \in Kinds \union {Unset, "same"}, choice \in ReviewChoices \union {Unset, "same"} : UpdateBrief(type, choice)
  \/ Propose \/ Accept \/ Bootstrap
  \/ \E change \in Changes : SubmitPlan(change) \/ AddTask(change)
  \/ Dispatch \/ ReadChange \/ (\E requested \in BOOLEAN : DecideReview(requested)) \/ ReviewApproves
  \/ BeginMerge \/ EndMerge

GovSpec == GovInit /\ [][GovNext]_govVars
-----------------------------------------------------------------------------
Asks(p, class, signs) == Reviews(p, class, signs, FALSE)

\* However a project's policy came about (a row of an earlier version, a preset, a
\* configuration the curator wrote, a reverted one), a project that counts as ready is
\* reviewed as its recorded choice says: every change, no change that nobody asks for, or
\* those that show a risk, of a class the policy does not skip; a client's by an independent
\* reviewer or not at all (evaluateProjectReadiness over recordProjectDecision and
\* applyConfiguration).
ReadyIsReviewed ==
  HasProject /\ Ready(gov, Policy) =>
    /\ gov.choice = "required" => \A class \in Classes, signs \in SUBSET Signs : Asks(Policy, class, signs)
    /\ gov.choice = "off" => \A class \in Classes, signs \in SUBSET Signs : ~Asks(Policy, class, signs)
    /\ gov.choice = "risk" => \A class \in Classes \ Policy.skips : Asks(Policy, class, Signs)
    /\ gov.type = "client" => /\ gov.choice = "required" /\ Policy.route = "independent"
                              /\ Policy.capacity = "blocked" /\ "critical" \in Policy.blocks

\* Whatever became of the policy between the acceptance of the task, the request of its
\* merge approval and now, a live approval is of a change that the policy of this moment
\* finds reviewed, as far as it judges by paths (prepareApproval, findApprovalFor,
\* invalidateProjectApprovals).
LiveApprovalReviewed ==
  merge = "live" => /\ work.review # "stale"
                    /\ Asks(Policy, work.change.class, work.change.signs \ {"diff"}) => work.review = "approved"

\* While a submitted plan stands, its project is reviewed as the person chose who accepted
\* it, or as somebody decided for the project after that; neither a revision of the brief
\* nor a standing preference changes the deal (acceptPlan, submitAcceptedPlan,
\* invalidateAcceptance, applyDeliveryPreference).
SubmittedAsAccepted ==
  plan.state = "submitted" =>
    plan.of = Shown /\ (gov.version = plan.under => <<doc.type, doc.choice>> = <<gov.type, gov.choice>>)

\* A decision settles: the step that records one leaves the project ready for work under
\* it, whatever policy it found (recordProjectDecision replaces one that conflicts).
DecisionSettles == gov'.version # gov.version => Ready(gov', Policy')

GovernanceHolds == [](ReadyIsReviewed /\ LiveApprovalReviewed /\ SubmittedAsAccepted) /\ [][DecisionSettles]_govVars

\* Not so: a recorded decision is in force until the next one. setProjectReviewPolicy reads
\* the governance it checks before its transaction (records.ts:1099), so a decision recorded
\* in between is overwritten by a policy that conflicts with it: the project stops.
DecidedIsReady == gov.decided => Ready(gov, Policy)

\* Not so: what used to be reviewed and no longer is was acknowledged (records.ts:1088).
\* weakensReview compares triggers and not rules, so `review preset personal` drops the
\* rule "always" of `review substantive` without a word.
WeakeningAcknowledged ==
  [][EndPolicy /\ ~cmd.acknowledged =>
       \A class \in Classes, signs \in SUBSET Signs : Asks(Policy, class, signs) => Asks(Policy', class, signs)]_govVars

\* Not so: every consumer means the same policy (policy.ts:4). prepareApproval evaluates it
\* without the diff, so a change accepted while review was off, with its only sign in its
\* diff, is approved unreviewed.
OneMeaning ==
  merge = "live" => (Asks(Policy, work.change.class, work.change.signs) => work.review = "approved")

\* Not so: no client change is accepted unreviewed. completeChecks decides by the project it
\* read before it listed the changed files, and a decision may come in between.
ClientReviewed == [][work.state = "deciding" /\ work'.state = "done" => gov.type # "client"]_govVars
=============================================================================
