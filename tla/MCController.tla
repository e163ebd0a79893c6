---------------------------- MODULE MCController ----------------------------
(* Instances of the parts of one controller's passes, for TLC. The parts do *)
(* not share variables: each behaviour is one of one part, the others stay  *)
(* as they are.                                                             *)
EXTENDS CheckJobs, Scheduling, Dependencies, Workspaces, Governance, TLC

CONSTANTS t1, t2, t3, p1, p2, d1, d2, d3

VARIABLE part   \* the part that runs

TwoOfThree  == t1 :> p1 @@ t2 :> p1 @@ t3 :> p2
FirstHalf   == t1 :> 1 @@ t2 :> 2 @@ t3 :> 1
\* A policy of the first version, one a configuration may bring, and a change to review.
OldSubstantive == {[mode |-> "substantive", skips |-> {"mechanical"}]}
ClientSameRoute == {[Client EXCEPT !.route = "same"]}
OnePath     == {[class |-> "coding", signs |-> {"path"}]}
OneDiff     == {[class |-> "coding", signs |-> {"diff"}]}
DiamondHalf == d1 :> {} @@ d2 :> {d1} @@ d3 :> {d1, d2}

MCInit == /\ part \in {"checks", "schedule", "dependencies", "workspace", "governance"}
          /\ CkInit /\ SchedInit /\ DepInit /\ WsInit /\ GovInit
          /\ part = "governance" \/ (held = None /\ ~doc.decided)

MCNext ==
  /\ UNCHANGED part
  /\ \/ part = "checks" /\ CkNext /\ UNCHANGED <<schedVars, depVars, wsVars, govVars>>
     \/ part = "schedule" /\ SchedNext /\ UNCHANGED <<ckVars, depVars, wsVars, govVars>>
     \/ part = "dependencies" /\ DepNext /\ UNCHANGED <<ckVars, schedVars, wsVars, govVars>>
     \/ part = "workspace" /\ WsNext /\ UNCHANGED <<ckVars, schedVars, depVars, govVars>>
     \/ part = "governance" /\ GovNext /\ UNCHANGED <<ckVars, schedVars, depVars, wsVars>>

\* The fairness of each part, for the behaviours of that part.
MCFairness ==
  /\ WF_ckVars(part = "checks" /\ CkTick)
  /\ WF_ckVars(part = "checks" /\ \E s \in DOMAIN stages : MarkJob(s) \/ CompleteJob(s))
  /\ SF_ckVars(part = "checks" /\ \E s \in DOMAIN stages : AdmitCheck(s))
  /\ WF_schedVars(part = "schedule" /\ Ticks)
  /\ WF_schedVars(part = "schedule" /\ Offer)
  /\ \A t \in STasks : /\ SF_schedVars(part = "schedule" /\ WorkEnds(t))
                       /\ SF_schedVars(part = "schedule" /\ TaskOver(t))
  /\ \A t \in DTasks : WF_depVars(part = "dependencies" /\ PromoteTask(t))

MCSpec == MCInit /\ [][MCNext]_<<part, ckVars, schedVars, depVars, wsVars, govVars>> /\ MCFairness

\* The dependencies alone, with an operator who retries whatever is blocked again and again.
MCRetriedSpec == /\ MCInit /\ part = "dependencies" /\ [][MCNext]_<<part, ckVars, schedVars, depVars, wsVars, govVars>>
                 /\ DepFairness /\ \A t \in DTasks : WF_depVars(DepRetry(t))

\* Every part's state keeps its type.
TypesOK == CkTypeOK /\ SchedTypeOK /\ DepTypeOK /\ WsTypeOK /\ GovTypeOK

\* Who works where works alone: a check's job in its worktree, and an exclusive task in its
\* repository, whatever was lost, recovered or offered again.
ResourcesApart == JobsApart /\ RepoApart

\* A task starts after what it depends on, from a worktree that has each of those
\* deliveries once.
DependenciesKept == DependenciesFirst /\ DependenciesOnce

\* The liveness of each part, in the behaviours of that part.
ChecksEnd         == part = "checks" => CheckRoundEnds
SchedulingServes  == part = "schedule" => ProjectsServed
StuckPropagates   == part = "dependencies" => DependentsSettle
=============================================================================
