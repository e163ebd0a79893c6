------------------------------- MODULE Curator -------------------------------
(***************************************************************************)
(* Proposed configurations of a project: how one is made, evaluated,       *)
(* approved, activated, rejected or reverted (src/curator/service.ts and   *)
(* the curator_proposals, config_versions and config_activations of        *)
(* src/store/records.ts), over the approvals of Approvals.                 *)
(*                                                                         *)
(* Making a proposal waits for git, evaluating it writes files, activating *)
(* it reads tasks, attempts and leases before its transaction: other       *)
(* processes act meanwhile. Contents of configurations are left out.       *)
(***************************************************************************)
EXTENDS Approvals

CONSTANT MaxProposals   \* bound

ASSUME CuratorAssumption == MaxProposals \in Nat

VARIABLES
  proposals, \* each proposal: status, base configuration, verdict of its last evaluation
  evals,     \* evaluations not yet recorded: proposal, verdict, proposal looked at again
  applies,   \* activations and reverts that have passed their checks: proposal, approval
  busy       \* unresolvedProjectWork is not empty

cuVars == <<apVars, proposals, evals, applies, busy>>

Ended == {"activated", "superseded", "rejected", "failed"}
\* A revert has no proposal.
Reverted == 0

CuTypeOK ==
  /\ Len(proposals) <= MaxProposals /\ busy \in BOOLEAN
  /\ \A i \in DOMAIN proposals :
       proposals[i] \in [status : {"draft", "proposed", "evaluated"} \union Ended,
                         base : 1..MaxConfigs, verdict : {"none", "passed", "failed"}]
  /\ evals \subseteq [proposal : DOMAIN proposals, verdict : {"passed", "failed"}, looked : BOOLEAN]
  /\ applies \subseteq [proposal : DOMAIN proposals \union {Reverted}, approval : DOMAIN approvals]

CuInit == ApInit /\ proposals = <<>> /\ evals = {} /\ applies = {} /\ busy = FALSE

Status(i, s) == proposals' = [proposals EXCEPT ![i].status = s]
-----------------------------------------------------------------------------
\* createCuratorProposal, with the configuration as it was read before; git;
\* updateCuratorProposalEvidence or failCuratorProposal. After a crash in between the
\* draft stays.
CreateProposal ==
  /\ Len(proposals) < MaxProposals
  /\ \E base \in 1..project.config :
       proposals' = Append(proposals, [status |-> "draft", base |-> base, verdict |-> "none"])
  /\ UNCHANGED <<apVars, evals, applies, busy>>
Materialize(i) == /\ proposals[i].status = "draft" /\ Status(i, "proposed")
                  /\ UNCHANGED <<apVars, evals, applies, busy>>
FailDraft(i)   == /\ proposals[i].status = "draft" /\ Status(i, "failed")
                  /\ UNCHANGED <<apVars, evals, applies, busy>>

\* evaluateProposal: a proposal whose base is stale fails. One evaluation at a time.
Evaluate(i) ==
  /\ proposals[i].status = "proposed" /\ evals = {}
  /\ \E v \in {"passed", "failed"} :
       /\ proposals[i].base # project.config => v = "failed"
       /\ evals' = evals \union {[proposal |-> i, verdict |-> v, looked |-> FALSE]}
  /\ UNCHANGED <<apVars, proposals, applies, busy>>

\* recordCuratorEvaluation looks at the proposal again, and then writes the evaluation to
\* whatever the proposal has become.
Evaluable(s) == s \in {"proposed", "evaluated"}
LookAgain(e) ==
  /\ ~e.looked
  /\ evals' = (evals \ {e}) \union IF Evaluable(proposals[e.proposal].status)
                                   THEN {[e EXCEPT !.looked = TRUE]} ELSE {}
  /\ UNCHANGED <<apVars, proposals, applies, busy>>
RecordEvaluation(e) ==
  /\ e.looked /\ evals' = evals \ {e}
  /\ proposals' = [proposals EXCEPT ![e.proposal].status = "evaluated", ![e.proposal].verdict = e.verdict]
  /\ UNCHANGED <<apVars, applies, busy>>

Passed(i) == proposals[i].status = "evaluated" /\ proposals[i].verdict = "passed"

\* requestActivationApproval, requestRevertApproval
AskActivation ==
  /\ asked = None
  /\ \/ \E i \in DOMAIN proposals : /\ Passed(i) /\ proposals[i].base = project.config
                                    /\ asked' = Here("activate", i, 0)
     \/ project.config > 1 /\ asked' = Here("activate", Reverted, 0)
  /\ UNCHANGED <<project, task, evidence, approvals, proposals, evals, applies, busy>>

\* Mutant: approvals of a rejected proposal are left to be decided.
NoApprovals(i) == {}

\* rejectCuratorProposal
ProposalApprovals(i) == {a \in OpenOnes : approvals[a].action = "activate" /\ approvals[a].target = i}
Reject(i) ==
  /\ Evaluable(proposals[i].status) /\ Status(i, "rejected")
  /\ approvals' = With("invalidated", ProposalApprovals(i))
  /\ UNCHANGED <<project, task, evidence, asked, evals, applies, busy>>
-----------------------------------------------------------------------------
(* activateCuratorProposal, revertProjectConfig: checks, then              *)
(* applyConfiguration.                                                     *)

CheckActivation(a) ==
  /\ ~busy /\ approvals[a].action = "activate" /\ Consumable(a)
  /\ approvals[a].config = project.config
  /\ LET i == approvals[a].target
     IN /\ i # Reverted => Passed(i) /\ proposals[i].base = project.config
        /\ applies' = applies \union {[proposal |-> i, approval |-> a]}
  /\ UNCHANGED <<apVars, proposals, evals, busy>>

\* Mutant: the old configuration's approvals live on.
Untouched == {}

\* applyConfiguration: whatever else was approved or proposed falls.
Replaced == ProjectApprovals
Apply(c) ==
  /\ project.config < MaxConfigs /\ Consumable(c.approval)
  /\ project' = [project EXCEPT !.config = @ + 1]
  /\ approvals' = [a \in DOMAIN approvals |->
                     IF a = c.approval THEN With("consumed", {a})[a] ELSE With("invalidated", Replaced)[a]]
  /\ proposals' = IF c.proposal = Reverted THEN proposals
                  ELSE [i \in DOMAIN proposals |->
                          IF i = c.proposal THEN [proposals[i] EXCEPT !.status = "activated"]
                          ELSE IF Evaluable(proposals[i].status)
                               THEN [proposals[i] EXCEPT !.status = "superseded"] ELSE proposals[i]]
  /\ applies' = applies \ {c} /\ UNCHANGED <<task, evidence, asked, evals, busy>>
RefuseApply(c) == /\ ~Consumable(c.approval) /\ applies' = applies \ {c}
                  /\ UNCHANGED <<apVars, proposals, evals, busy>>

Work == busy' = ~busy /\ UNCHANGED <<apVars, proposals, evals, applies>>

CuNext ==
  \/ CreateProposal \/ AskActivation \/ Work
  \/ \E i \in DOMAIN proposals : Materialize(i) \/ FailDraft(i) \/ Evaluate(i) \/ Reject(i)
  \/ \E e \in evals : LookAgain(e) \/ RecordEvaluation(e)
  \/ \E a \in DOMAIN approvals : CheckActivation(a)
  \/ \E c \in applies : Apply(c) \/ RefuseApply(c)
  \/ (ChangeConfig(project.checks) \/ Request \/ \E a \in DOMAIN approvals : Decide(a))
       /\ UNCHANGED <<proposals, evals, applies, busy>>

CuSpec == CuInit /\ [][CuNext]_cuVars
-----------------------------------------------------------------------------
\* A proposal is activated while it stands as evaluated, and over the configuration it was
\* made and evaluated for: one that was rejected or superseded while its activation was
\* on its way is not, whatever else was changed, activated or reverted meanwhile.
ActivationsHold ==
  [][\A i \in DOMAIN proposals :
       proposals[i].status # "activated" /\ proposals'[i].status = "activated"
         => proposals[i].status = "evaluated" /\ proposals[i].base = project.config]_cuVars

\* "cannot be rejected from its current state", "is not ready for evaluation": a proposal
\* that was rejected, superseded, activated or failed stays so. Not with two processes: an
\* evaluation that had looked at the proposal before then makes it evaluated again.
EndedProposalsStay ==
  [][\A i \in DOMAIN proposals :
       proposals[i].status \in Ended => proposals'[i].status = proposals[i].status]_cuVars

\* "Configuration activation requires a safe checkpoint": not so with two processes, work
\* may begin between the check and the transaction.
AppliedAtCheckpoint == [][\A c \in applies : project'.config # project.config /\ c \notin applies' => ~busy]_cuVars
=============================================================================
