----------------------------- MODULE Operations -----------------------------
(***************************************************************************)
(* Deployment under approval: setOperationsConfig, executeDeployment and   *)
(* recoverDeployment of src/operations/service.ts over the approvals of    *)
(* Approvals. Between matching an approval and consuming it a deployment   *)
(* waits for its adapter, and any process may change what was matched.     *)
(***************************************************************************)
EXTENDS Approvals

CONSTANTS Fingerprints,  \* the operations configurations one can choose
          Paid,          \* those that enable an external cost
          MaxChanges, MaxOpRuns   \* bounds

ASSUME OperationsAssumption == Paid \subseteq Fingerprints /\ MaxChanges \in Nat /\ MaxOpRuns \in Nat

VARIABLES
  ops,    \* operation_configs: version and fingerprint; version 0 has deployment off
  edits,  \* setOperationsConfig calls between their checks and their transaction
  calls,  \* deployments between their match and their transaction: approval, fingerprint
  opRuns  \* operation_runs, each with the approval of its last start, as it then was

opVars == <<apVars, ops, edits, calls, opRuns>>

OpTypeOK ==
  /\ ops \in [version : 0..MaxChanges, fingerprint : Fingerprints \union {"off"}]
  /\ \A e \in edits : e.fingerprint \in Fingerprints /\ e.approval \in 0..Len(approvals)
  /\ calls \subseteq [approval : DOMAIN approvals, fingerprint : Fingerprints]
  /\ Len(opRuns) <= MaxOpRuns
  /\ \A i \in DOMAIN opRuns :
       /\ opRuns[i].state \in {"running", "succeeded", "failed", "unknown", "recovering", "recovered"}
       /\ opRuns[i].approval \in DOMAIN approvals

OpInit == /\ ApInit /\ ops = [version |-> 0, fingerprint |-> "off"]
          /\ edits = {} /\ calls = {} /\ opRuns = <<>>

Project(action, target) == [action |-> action, target |-> target, config |-> project.config, revision |-> 0]

\* requestApproval, from requestExternalCostApproval or by the operator: its two steps.
AskDeploy == /\ asked = None /\ ops.fingerprint # "off"
             /\ \E action \in {"deploy", "recover"} : asked' = Project(action, ops.fingerprint)
             /\ UNCHANGED <<project, task, evidence, approvals, ops, edits, calls, opRuns>>
AskCost == /\ asked = None
           /\ \E f \in Paid : asked' = Project("external_cost", f)
           /\ UNCHANGED <<project, task, evidence, approvals, ops, edits, calls, opRuns>>
-----------------------------------------------------------------------------
(* setOperationsConfig: it reads and checks, then writes in a transaction. *)

CostApproved(i, f) ==
  /\ i \in DOMAIN approvals /\ Consumable(i)
  /\ approvals[i].action = "external_cost" /\ approvals[i].target = f
  /\ approvals[i].config = project.config

CheckEdit ==
  /\ Cardinality(edits) < 2
  /\ \E f \in Fingerprints, i \in 0..Len(approvals) :
       /\ IF f \in Paid THEN CostApproved(i, f) ELSE i = 0
       /\ edits' = edits \union {[fingerprint |-> f, approval |-> i, version |-> ops.version]}
  /\ UNCHANGED <<apVars, ops, calls, opRuns>>

\* Mutant: only what nobody has decided yet is taken back.
PendingDeploys == {i \in PendingOnly : approvals[i].action = "deploy"}

\* "AND action = 'deploy'", which is what a recovery asks for too.
Deploys == {i \in OpenOnes : approvals[i].action \in {"deploy", "recover"}}

\* The transaction does not read the version again: see WritesCheckedVersion.
WriteEdit(e) ==
  /\ ops.version < MaxChanges /\ (e.approval # 0 => Consumable(e.approval))
  /\ ops' = [version |-> ops.version + 1, fingerprint |-> e.fingerprint]
  /\ approvals' = [i \in DOMAIN approvals |-> IF i = e.approval THEN With("consumed", {i})[i]
                                              ELSE With("invalidated", Deploys)[i]]
  /\ edits' = edits \ {e} /\ UNCHANGED <<project, task, evidence, asked, calls, opRuns>>
RefuseEdit(e) == /\ e.approval # 0 /\ ~Consumable(e.approval) /\ edits' = edits \ {e}
                 /\ UNCHANGED <<apVars, ops, calls, opRuns>>
-----------------------------------------------------------------------------
(* executeDeployment                                                       *)

\* matchingApproval
Matching(i, action) ==
  /\ approvals[i].action = action /\ Consumable(i)
  /\ approvals[i].target = ops.fingerprint /\ approvals[i].config = project.config

MatchDeploy ==
  /\ Cardinality(calls) < 2
  /\ \E i \in DOMAIN approvals :
       /\ Matching(i, "deploy")
       /\ calls' = calls \union {[approval |-> i, fingerprint |-> ops.fingerprint]}
  /\ UNCHANGED <<apVars, ops, edits, opRuns>>

\* markApprovalConsumed and the new row, in one transaction; it throws otherwise.
StartDeploy(c) ==
  /\ Len(opRuns) < MaxOpRuns /\ Consumable(c.approval)
  /\ approvals' = With("consumed", {c.approval})
  /\ opRuns' = Append(opRuns, [state |-> "running", approval |-> c.approval])
  /\ calls' = calls \ {c} /\ UNCHANGED <<project, task, evidence, asked, ops, edits>>
RefuseDeploy(c) == /\ ~Consumable(c.approval) /\ calls' = calls \ {c}
                   /\ UNCHANGED <<apVars, ops, edits, opRuns>>

\* The adapter answers, or throws; after a crash of the process the row stays "running".
EndDeploy(i) ==
  /\ opRuns[i].state = "running"
  /\ \E s \in {"succeeded", "failed", "unknown"} : opRuns' = [opRuns EXCEPT ![i].state = s]
  /\ UNCHANGED <<apVars, ops, edits, calls>>

\* recoverDeployment: what is being recovered is recorded as "unknown" too, so a second
\* recovery may start under an approval of its own.
Recoverable == {"failed", "unknown", "recovering"}
StartRecovery(i) ==
  /\ opRuns[i].state \in Recoverable
  /\ \E a \in DOMAIN approvals :
       /\ Matching(a, "recover") /\ approvals' = With("consumed", {a})
       /\ opRuns' = [opRuns EXCEPT ![i] = [state |-> "recovering", approval |-> a]]
  /\ UNCHANGED <<project, task, evidence, asked, ops, edits, calls>>
EndRecovery(i) ==
  /\ opRuns[i].state = "recovering"
  /\ \E s \in {"recovered", "failed", "unknown"} : opRuns' = [opRuns EXCEPT ![i].state = s]
  /\ UNCHANGED <<apVars, ops, edits, calls>>

OpNext ==
  \/ AskDeploy \/ AskCost \/ CheckEdit \/ MatchDeploy
  \/ \E e \in edits : WriteEdit(e) \/ RefuseEdit(e)
  \/ \E c \in calls : StartDeploy(c) \/ RefuseDeploy(c)
  \/ \E i \in DOMAIN opRuns : EndDeploy(i) \/ StartRecovery(i) \/ EndRecovery(i)
  \/ (ChangeConfig(project.checks) \/ Request \/ \E i \in DOMAIN approvals : Decide(i))
       /\ UNCHANGED <<ops, edits, calls, opRuns>>

OpSpec == OpInit /\ [][OpNext]_opVars
-----------------------------------------------------------------------------
\* An adapter only ever acts under an approval that was still standing at that moment, for
\* the operations and project configuration in force, and no two starts share one.
Starts(i) == opRuns'[i].state \in {"running", "recovering"}
             /\ (i \in DOMAIN opRuns => opRuns'[i].approval # opRuns[i].approval)
ActsAsApproved ==
  [][\A i \in DOMAIN opRuns' : Starts(i) =>
       LET a == opRuns'[i].approval
       IN /\ approvals[a].state = "approved" /\ approvals[a].config = project.config
          /\ approvals[a].target = ops.fingerprint]_opVars

\* An edit is written over the version it was checked against. Not so with two processes:
\* the version is read before the transaction.
WritesCheckedVersion ==
  [][\A e \in edits : ops' # ops /\ e \notin edits' => e.version = ops.version]_opVars
=============================================================================
