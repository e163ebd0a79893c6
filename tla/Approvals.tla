------------------------------ MODULE Approvals ------------------------------
(***************************************************************************)
(* Approvals of a project and of one of its tasks, and what takes them     *)
(* back: prepareApproval, requestApproval, decideApproval, waiveGate,      *)
(* markApprovalConsumed and the invalidations of src/store/records.ts,     *)
(* under the changes of configuration of the same file.                    *)
(*                                                                         *)
(* Each record call is a transaction; a command makes several, and the     *)
(* controller, the CLI and the workbench are processes of their own, so    *)
(* anything may happen between two of them.                                *)
(***************************************************************************)
EXTENDS Integers, Sequences, FiniteSets

CONSTANTS MaxConfigs, MaxRevs, MaxApprovals   \* bounds

ASSUME ApprovalsAssumption ==
  /\ MaxConfigs \in Nat \ {0} /\ MaxRevs \in Nat \ {0} /\ MaxApprovals \in Nat

VARIABLES
  project,   \* configVersion, requirements, and whether a required check is configured
  task,      \* resultRevision, and the revision a collection has announced but not set
  evidence,  \* of each revision: its required check, and its accepted review's context
  approvals, \* the approvals, oldest first
  asked      \* what prepareApproval has read and requestApproval not yet recorded

apVars == <<project, task, evidence, approvals, asked>>

None == [action |-> "none"]
Context == [config : 1..MaxConfigs, requirements : 0..1]
Actions == {"merge", "waive_required_gate", "waive_coverage"}
\* What is asked for is bound to the configuration and the revision of the moment.
Here(action, target, revision) ==
  [action |-> action, target |-> target, revision |-> revision, config |-> project.config]

ApTypeOK ==
  /\ project \in [config : 1..MaxConfigs, requirements : 0..1, checks : BOOLEAN]
  /\ task \in [revision : 0..MaxRevs, next : 0..MaxRevs]
  /\ evidence \in [1..MaxRevs -> [check : {"none", "PASS", "FAIL", "waived"},
                                  review : {None} \union Context]]
  /\ Len(approvals) <= MaxApprovals
  /\ \A i \in DOMAIN approvals :
       /\ approvals[i].state \in {"pending", "approved", "rejected", "invalidated", "consumed"}
       /\ approvals[i].revision \in 0..MaxRevs /\ approvals[i].config \in 1..MaxConfigs
  /\ asked = None \/ asked.config \in 1..MaxConfigs

ApInit ==
  /\ project = [config |-> 1, requirements |-> 0, checks |-> TRUE]
  /\ task = [revision |-> 0, next |-> 0]
  /\ evidence = [r \in 1..MaxRevs |-> [check |-> "none", review |-> None]]
  /\ approvals = <<>> /\ asked = None
-----------------------------------------------------------------------------
(* The approvals table.                                                    *)

Open(a) == a.state \in {"pending", "approved"}
With(state, S) == [i \in DOMAIN approvals |->
                     IF i \in S THEN [approvals[i] EXCEPT !.state = state] ELSE approvals[i]]
OpenOnes == {i \in DOMAIN approvals : Open(approvals[i])}

\* Mutant: whatever is decided stays decided.
PendingOnly == {i \in DOMAIN approvals : approvals[i].state = "pending"}

\* invalidateProjectApprovals
ProjectApprovals == OpenOnes

\* invalidateApprovals: those of the task, bound to another revision than the kept one.
TaskApprovals(kept) == {i \in OpenOnes : approvals[i].action \in Actions /\ approvals[i].revision # kept}

\* requestApproval
Requested(b) == Append(approvals, [action |-> b.action, target |-> b.target, revision |-> b.revision,
                                   config |-> b.config, state |-> "pending"])
CanRequest   == Len(approvals) < MaxApprovals

\* Mutant: what a decision was asked for is not compared with what is there now.
NoDrift(a) == FALSE

\* decideApproval: drift
Drift(a) == \/ a.config # project.config
            \/ a.action \in Actions /\ task.revision # 0 /\ task.revision # a.revision
            \/ a.action = "merge" /\ a.target # "base"

\* decideApproval: a stale decision is invalidated; a rejection is always taken.
Decide(i) ==
  /\ approvals[i].state = "pending"
  /\ \E state \in {"approved", "rejected"} :
       approvals' = With(IF state = "approved" /\ Drift(approvals[i]) THEN "invalidated" ELSE state, {i})
  /\ UNCHANGED <<project, task, evidence, asked>>

\* Mutant: a decision can be used again.
AnyDecision(i) == approvals[i].state \in {"approved", "consumed"}

\* markApprovalConsumed: only an approved decision can be consumed.
Consumable(i) == approvals[i].state = "approved"
-----------------------------------------------------------------------------
(* Configuration.                                                          *)

\* setProjectBaseBranch, updateProjectChecks, updateProjectRecipes, setProjectPolicy,
\* setProjectReviewPolicy and recordProjectDecision: one transaction each.
ChangeConfig(checks) ==
  /\ project.config < MaxConfigs
  /\ project' = [project EXCEPT !.config = @ + 1, !.checks = checks]
  /\ approvals' = With("invalidated", ProjectApprovals)
  /\ UNCHANGED <<task, evidence, asked>>

\* addRequirement: the configuration stays.
AddRequirement == /\ project.requirements = 0 /\ project' = [project EXCEPT !.requirements = 1]
                  /\ UNCHANGED <<task, evidence, approvals, asked>>
-----------------------------------------------------------------------------
(* The task's work, as far as approvals see it.                            *)

\* collectImplementation: approvals of other revisions go, then the task gets the new one.
AnnounceRevision ==
  /\ task.next = 0 /\ task.revision < MaxRevs
  /\ task' = [task EXCEPT !.next = task.revision + 1]
  /\ approvals' = With("invalidated", TaskApprovals(task.revision + 1))
  /\ UNCHANGED <<project, evidence, asked>>
SetRevision ==
  /\ task.next # 0 /\ task' = [revision |-> task.next, next |-> 0]
  /\ UNCHANGED <<project, evidence, approvals, asked>>

\* recordGate and recordReview, of the present revision. A failing row stays, whatever a
\* later run of the check says; one at a time is enough here.
Check == /\ task.revision # 0 /\ project.checks /\ evidence[task.revision].check # "FAIL"
         /\ \E status \in {"PASS", "FAIL"} : evidence' = [evidence EXCEPT ![task.revision].check = status]
         /\ UNCHANGED <<project, task, approvals, asked>>
Review == /\ task.revision # 0
          /\ evidence' = [evidence EXCEPT ![task.revision].review =
                            [config |-> project.config, requirements |-> project.requirements]]
          /\ UNCHANGED <<project, task, approvals, asked>>
-----------------------------------------------------------------------------
(* What is asked for the task.                                             *)

\* qualityCoverage: an approved waiver stands in for checks nobody configured.
CoverageWaived == \E i \in DOMAIN approvals : /\ approvals[i].action = "waive_coverage"
                                              /\ approvals[i].state = "approved"
                                              /\ approvals[i].revision = task.revision

\* prepareApproval, where the policy demands a review and the action an approval: no failing
\* check, coverage or its waiver, and a review made in the present context.
Evidence == /\ project.checks => evidence[task.revision].check \in {"PASS", "waived"}
            /\ ~project.checks => /\ CoverageWaived
                                  /\ evidence[task.revision].check # "FAIL"
            /\ evidence[task.revision].review # None
            /\ evidence[task.revision].review.config = project.config
            /\ evidence[task.revision].review.requirements = project.requirements
Prepare(action, target) ==
  /\ asked = None /\ CanRequest /\ task.revision # 0
  /\ CASE action = "merge" -> Evidence
       [] action = "waive_required_gate" -> evidence[task.revision].check = "FAIL"
       [] action = "waive_coverage" -> ~project.checks
  /\ asked' = Here(action, target, task.revision)
  /\ UNCHANGED <<project, task, evidence, approvals>>
Request == /\ asked # None /\ CanRequest /\ approvals' = Requested(asked) /\ asked' = None
           /\ UNCHANGED <<project, task, evidence>>

\* waiveGate: the gate, its revision and the configuration are the approved ones.
WaiveGate(i) ==
  /\ approvals[i].action = "waive_required_gate" /\ Consumable(i)
  /\ approvals[i].config = project.config /\ evidence[approvals[i].revision].check = "FAIL"
  /\ evidence' = [evidence EXCEPT ![approvals[i].revision].check = "waived"]
  /\ approvals' = With("consumed", {i}) /\ UNCHANGED <<project, task, asked>>

ApNext ==
  \/ \E checks \in BOOLEAN : ChangeConfig(checks)
  \/ AddRequirement \/ AnnounceRevision \/ SetRevision \/ Check \/ Review \/ Request
  \/ \E action \in Actions, target \in {"base", "other"} :
       (target = "other" => action = "merge") /\ Prepare(action, target)
  \/ \E i \in DOMAIN approvals : Decide(i) \/ WaiveGate(i)

ApSpec == ApInit /\ [][ApNext]_apVars
-----------------------------------------------------------------------------
\* What stands approved is approved for the configuration in force, whichever process
\* changed it and whenever the request read it.
ApprovedIsCurrent ==
  \A i \in DOMAIN approvals : approvals[i].state = "approved" => approvals[i].config = project.config
=============================================================================
