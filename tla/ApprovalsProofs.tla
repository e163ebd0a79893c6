--------------------------- MODULE ApprovalsProofs ---------------------------
(***************************************************************************)
(* Theorems about approvals, deployments under approval (Operations) and   *)
(* proposed configurations (Curator), for any bounds and any operations    *)
(* configurations.                                                         *)
(***************************************************************************)
EXTENDS Operations, Curator, SequenceTheorems, TLAPS

ActionNames == Actions \union {"deploy", "recover", "external_cost", "activate"}
Targets == {"base", "other"} \union Fingerprints \union Nat
States  == {"pending", "approved", "rejected", "invalidated", "consumed"}
AskRow     == [action : ActionNames, target : Targets, revision : Nat, config : Nat]
Row     == [action : ActionNames, target : Targets, revision : Nat, config : Nat, state : States]

\* The rows an approval is about.
RowsOK ==
  /\ project.config \in Nat /\ "config" \in DOMAIN project
  /\ task \in [revision : Nat, next : Nat]
  /\ approvals \in Seq(Row)
  /\ asked = None \/ asked \in AskRow

\* The same question.
Same(a, b) == a.action = b.action /\ a.target = b.target /\ a.revision = b.revision /\ a.config = b.config

\* What any step does to the approvals: what was asked for is never rewritten, and what
\* stands approved afterwards stood so, or has just been decided for this configuration.
Moved ==
  /\ DOMAIN approvals \subseteq DOMAIN approvals'
  /\ \A i \in DOMAIN approvals :
       /\ Same(approvals'[i], approvals[i])
       /\ approvals[i].state # "pending" => approvals'[i].state # "pending"
  /\ \A i \in DOMAIN approvals' : approvals'[i].state = "approved" =>
       /\ i \in DOMAIN approvals /\ project'.config = project.config
       /\ \/ approvals[i].state = "approved"
          \/ approvals[i].state = "pending" /\ approvals[i].config = project.config

\* Rows change state, and none comes to be approved.
Restated(rows) ==
  /\ rows \in [DOMAIN approvals -> Row]
  /\ \A i \in DOMAIN approvals :
       Same(rows[i], approvals[i]) /\ rows[i].state \in {approvals[i].state, "rejected", "invalidated", "consumed"}

LEMMA RowRestated ==
  ASSUME NEW a \in Row, NEW s \in States
  PROVE  /\ [a EXCEPT !.state = s] \in Row /\ Same([a EXCEPT !.state = s], a)
         /\ [a EXCEPT !.state = s].state = s
BY DEF Row, Same

LEMMA SeqOfRows ==
  ASSUME NEW S, NEW s \in Seq(S), NEW f \in [DOMAIN s -> S]
  PROVE  f \in Seq(S)
<1>1. Len(s) \in Nat /\ DOMAIN s = 1..Len(s)
  BY LenProperties
<1> QED BY <1>1

LEMMA RowAt ==
  ASSUME RowsOK, NEW i \in DOMAIN approvals
  PROVE  approvals[i] \in Row
BY LenProperties, ElementOfSeq DEF RowsOK

LEMMA WithRestates ==
  ASSUME RowsOK, NEW s \in {"rejected", "invalidated", "consumed"}, NEW S
  PROVE  Restated(With(s, S))
<1> DEFINE b(i) == [approvals[i] EXCEPT !.state = s]
<1>1. \A i \in DOMAIN approvals : approvals[i] \in Row /\ b(i) \in Row /\ Same(b(i), approvals[i]) /\ b(i).state = s
  <2>1. s \in States
    BY DEF States
  <2> QED BY <2>1, RowAt, RowRestated
<1>2. With(s, S) = [i \in DOMAIN approvals |-> IF i \in S THEN b(i) ELSE approvals[i]]
  BY DEF With
<1> HIDE DEF b
<1> QED BY <1>1, <1>2 DEF Restated, Same

LEMMA RestatedMoves ==
  ASSUME RowsOK, Restated(approvals'), project' = project
  PROVE  Moved /\ approvals' \in Seq(Row)
<1>1. approvals' \in Seq(Row) /\ DOMAIN approvals' = DOMAIN approvals
  BY SeqOfRows DEF RowsOK, Restated
<1>2. \A i \in DOMAIN approvals : approvals[i] \in Row
  BY RowAt
<1> QED BY <1>1, <1>2 DEF Moved, Restated
-----------------------------------------------------------------------------
LEMMA RowsInit == ApInit => RowsOK
<1>1. <<>> \in Seq(Row)
  BY EmptySeq
<1>2. ASSUME ApInit PROVE project.config \in Nat /\ "config" \in DOMAIN project
  BY <1>2 DEF ApInit
<1>3. ASSUME ApInit PROVE task \in [revision : Nat, next : Nat]
  BY <1>3 DEF ApInit
<1>4. ASSUME ApInit PROVE approvals = <<>> /\ asked = None
  BY <1>4 DEF ApInit
<1> QED BY <1>1, <1>2, <1>3, <1>4 DEF RowsOK

LEMMA DecideMoves ==
  ASSUME RowsOK, NEW i \in DOMAIN approvals, Decide(i)
  PROVE  RowsOK' /\ Moved
<1>1. approvals[i] \in Row /\ approvals[i].state = "pending"
  BY RowAt DEF Decide
<1>2. CASE \E s \in {"rejected", "invalidated"} : approvals' = With(s, {i})
  BY <1>2, WithRestates, RestatedMoves DEF Decide, RowsOK
<1>3. CASE approvals' = With("approved", {i}) /\ ~Drift(approvals[i])
  <2>1. approvals' \in [DOMAIN approvals -> Row]
    BY <1>3, RowAt, RowRestated DEF With, States
  <2>2. approvals' \in Seq(Row) /\ DOMAIN approvals' = DOMAIN approvals
    BY <2>1, SeqOfRows DEF RowsOK
  <2>3. approvals[i].config = project.config
    BY <1>3 DEF Drift
  <2>4. \A j \in DOMAIN approvals : approvals'[j] = IF j = i THEN [approvals[i] EXCEPT !.state = "approved"]
                                                    ELSE approvals[j]
    BY <1>3 DEF With
  <2>5. Moved
    <3>1. UNCHANGED project
      BY DEF Decide
    <3>2. Same(approvals'[i], approvals[i]) /\ approvals'[i].state = "approved"
      BY <1>1, <2>4, RowRestated DEF States
    <3>3. \A j \in DOMAIN approvals \ {i} : approvals'[j] = approvals[j]
      BY <2>4
    <3> QED BY <1>1, <2>2, <2>3, <3>1, <3>2, <3>3 DEF Moved, Same
  <2> QED BY <2>2, <2>5 DEF Decide, RowsOK
<1> QED BY <1>2, <1>3 DEF Decide

LEMMA RequestMoves ==
  ASSUME RowsOK, Request
  PROVE  RowsOK' /\ Moved
<1> DEFINE r == [action |-> asked.action, target |-> asked.target, revision |-> asked.revision,
                 config |-> asked.config, state |-> "pending"]
<1>1. r \in Row
  BY DEF RowsOK, Request, AskRow, Row, States
<1>2. approvals' = Append(approvals, r)
  BY DEF Request, Requested
<1>3. /\ approvals' \in Seq(Row) /\ Len(approvals') = Len(approvals) + 1
      /\ \A i \in 1..Len(approvals) : approvals'[i] = approvals[i]
      /\ approvals'[Len(approvals) + 1] = r
  BY <1>1, <1>2, AppendProperties DEF RowsOK
<1>4. /\ Len(approvals) \in Nat /\ DOMAIN approvals = 1..Len(approvals)
      /\ DOMAIN approvals' = 1..(Len(approvals) + 1)
  BY <1>3, LenProperties DEF RowsOK
<1>5. \A i \in DOMAIN approvals' : i \in DOMAIN approvals \/ i = Len(approvals) + 1
  BY <1>4
<1>6. r.state = "pending"
  OBVIOUS
<1> HIDE DEF r
<1>7. Moved
  BY <1>3, <1>4, <1>5, <1>6 DEF Moved, Request, Same
<1> QED BY <1>3, <1>7 DEF RowsOK, Request

LEMMA ChangeMoves ==
  ASSUME RowsOK, NEW checks, ChangeConfig(checks)
  PROVE  RowsOK' /\ Moved
<1>1. \A i \in DOMAIN approvals : approvals[i] \in Row
  BY RowAt
<1>2. approvals' \in Seq(Row) /\ DOMAIN approvals' = DOMAIN approvals
  BY WithRestates, SeqOfRows DEF RowsOK, ChangeConfig, Restated
<1>3. \A i \in DOMAIN approvals :
        approvals'[i] = IF Open(approvals[i]) THEN [approvals[i] EXCEPT !.state = "invalidated"] ELSE approvals[i]
  BY DEF ChangeConfig, With, ProjectApprovals, OpenOnes
<1>4. \A i \in DOMAIN approvals : Same(approvals'[i], approvals[i]) /\ ~Open(approvals'[i])
                                   /\ (approvals[i].state # "pending" => approvals'[i].state # "pending")
  <2> TAKE i \in DOMAIN approvals
  <2>1. CASE Open(approvals[i])
    <3>1. "invalidated" \in States
      BY DEF States
    <3> QED BY <1>1, <1>3, <2>1, <3>1, RowRestated DEF Open
  <2>2. CASE ~Open(approvals[i])
    BY <1>3, <2>2 DEF Same
  <2> QED BY <2>1, <2>2
<1>8. Moved
  BY <1>2, <1>4 DEF Moved, Open
<1>5. project' = [project EXCEPT !.config = @ + 1, !.checks = checks]
  BY DEF ChangeConfig
<1>6. project'.config \in Nat /\ "config" \in DOMAIN project'
  BY <1>5 DEF RowsOK
<1>7. UNCHANGED <<task, asked>>
  BY DEF ChangeConfig
<1> QED BY <1>2, <1>6, <1>7, <1>8 DEF RowsOK

LEMMA StillMoves ==
  ASSUME RowsOK, approvals' = approvals, project'.config = project.config
  PROVE  Moved
BY DEF Moved, Same

\* Nothing the rows are about changes, except possibly what is asked for next.
LEMMA AskMoves ==
  ASSUME RowsOK, UNCHANGED <<project, task, approvals>>, asked' = None \/ asked' \in AskRow
  PROVE  RowsOK' /\ Moved
BY StillMoves DEF RowsOK

LEMMA HereAsked ==
  ASSUME RowsOK, NEW action \in ActionNames, NEW target \in Targets, NEW revision \in Nat
  PROVE  Here(action, target, revision) \in AskRow
BY DEF RowsOK, Here, AskRow

LEMMA UnchangedMoves ==
  ASSUME RowsOK, UNCHANGED apVars
  PROVE  RowsOK' /\ Moved
BY AskMoves DEF apVars, RowsOK

LEMMA ApStep ==
  ASSUME RowsOK, [ApNext]_apVars
  PROVE  RowsOK' /\ Moved
<1>1. CASE AddRequirement
  <2>1. project'.config \in Nat /\ project'.config = project.config /\ "config" \in DOMAIN project'
    BY <1>1 DEF AddRequirement, RowsOK
  <2> QED BY <1>1, <2>1, StillMoves DEF AddRequirement, RowsOK
<1>2. CASE AnnounceRevision
  <2>1. Moved /\ approvals' \in Seq(Row)
    BY <1>2, WithRestates, RestatedMoves DEF AnnounceRevision
  <2>2. task' \in [revision : Nat, next : Nat]
    BY <1>2 DEF AnnounceRevision, RowsOK
  <2> QED BY <1>2, <2>1, <2>2 DEF AnnounceRevision, RowsOK
<1>3. CASE SetRevision
  <2>1. task' \in [revision : Nat, next : Nat]
    BY <1>3 DEF SetRevision, RowsOK
  <2> QED BY <1>3, <2>1, StillMoves DEF SetRevision, RowsOK
<1>4. CASE Check \/ Review
  BY <1>4, UnchangedMoves, StillMoves DEF Check, Review, RowsOK
<1>5. CASE Request
  BY <1>5, RequestMoves
<1>6. ASSUME NEW action \in Actions, NEW target \in {"base", "other"}, Prepare(action, target)
      PROVE  RowsOK' /\ Moved
  <2>1. task.revision \in Nat /\ action \in ActionNames /\ target \in Targets
    BY DEF RowsOK, ActionNames, Targets
  <2>2. asked' \in AskRow
    BY <1>6, <2>1, HereAsked DEF Prepare
  <2> QED BY <1>6, <2>2, AskMoves DEF Prepare
<1>7. ASSUME NEW i \in DOMAIN approvals, WaiveGate(i) PROVE RowsOK' /\ Moved
  BY <1>7, WithRestates, RestatedMoves DEF WaiveGate, RowsOK
<1>8. CASE UNCHANGED apVars
  BY <1>8, UnchangedMoves
<1> QED BY <1>1, <1>2, <1>3, <1>4, <1>5, <1>6, <1>7, <1>8, ChangeMoves, DecideMoves DEF ApNext

\* All that ApprovedIsCurrent needs to know of a step.
LEMMA MovedIsCurrent ==
  ASSUME ApprovedIsCurrent, Moved
  PROVE  ApprovedIsCurrent'
BY DEF ApprovedIsCurrent, Moved, Same
-----------------------------------------------------------------------------
(* Deployments.                                                            *)

RunStates == {"running", "succeeded", "failed", "unknown", "recovering", "recovered"}
Run == [state : RunStates, approval : Nat]
DeployTypes ==
  /\ ops.fingerprint \in Fingerprints \union {"off"}
  /\ \A e \in edits : e.fingerprint \in Fingerprints
  /\ opRuns \in Seq(Run)

\* A deployment on its way was approved for the operations configuration it read; if its
\* approval still stands, that configuration is still in force.
CallsHold ==
  \A c \in calls :
    /\ c.approval \in DOMAIN approvals
    /\ approvals[c.approval].action = "deploy" /\ approvals[c.approval].state # "pending"
    /\ approvals[c.approval].state = "approved" => approvals[c.approval].target = ops.fingerprint

DeployInv == RowsOK /\ DeployTypes /\ ApprovedIsCurrent /\ CallsHold

LEMMA WriteEditMoves ==
  ASSUME RowsOK, NEW e, WriteEdit(e)
  PROVE  /\ RowsOK' /\ Moved
         /\ \A i \in DOMAIN approvals : approvals[i].action = "deploy" => approvals'[i].state # "approved"
<1>1. Restated(With("consumed", {e.approval})) /\ Restated(With("invalidated", Deploys))
  BY WithRestates
<1>2. approvals' = [i \in DOMAIN approvals |-> IF i = e.approval THEN With("consumed", {e.approval})[i]
                                              ELSE With("invalidated", Deploys)[i]]
  BY DEF WriteEdit, With
<1>3. Restated(approvals')
  BY <1>1, <1>2 DEF Restated
<1>4. UNCHANGED <<project, task, asked>>
  BY DEF WriteEdit
<1>5. RowsOK' /\ Moved
  BY <1>3, <1>4, RestatedMoves DEF RowsOK
<1>6. ASSUME NEW i \in DOMAIN approvals, approvals[i].action = "deploy" PROVE approvals'[i].state # "approved"
  <2>1. approvals[i] \in Row
    BY RowAt
  <2>2. CASE i = e.approval
    <3>1. approvals'[i] = [approvals[i] EXCEPT !.state = "consumed"]
      BY <1>2, <2>2 DEF With
    <3> QED BY <2>1, <3>1, RowRestated DEF States
  <2>3. CASE i # e.approval /\ Open(approvals[i])
    <3>1. approvals'[i] = [approvals[i] EXCEPT !.state = "invalidated"]
      BY <1>2, <1>6, <2>3 DEF With, Deploys, OpenOnes
    <3> QED BY <2>1, <3>1, RowRestated DEF States
  <2>4. CASE i # e.approval /\ ~Open(approvals[i])
    <3>1. approvals'[i] = approvals[i]
      BY <1>2, <2>4 DEF With, Deploys, OpenOnes
    <3> QED BY <2>4, <3>1 DEF Open
  <2> QED BY <2>2, <2>3, <2>4
<1> QED BY <1>5, <1>6

LEMMA CallsKept ==
  ASSUME CallsHold, Moved, UNCHANGED ops, NEW c \in calls
  PROVE  /\ c.approval \in DOMAIN approvals'
         /\ approvals'[c.approval].action = "deploy" /\ approvals'[c.approval].state # "pending"
         /\ approvals'[c.approval].state = "approved" => approvals'[c.approval].target = ops'.fingerprint
BY DEF CallsHold, Moved, Same

LEMMA DeployInit == OpInit => DeployInv
<1>1. ASSUME OpInit PROVE opRuns \in Seq(Run)
  BY <1>1, EmptySeq DEF OpInit
<1>2. ASSUME OpInit PROVE /\ ApInit /\ ops.fingerprint = "off" /\ calls = {} /\ edits = {}
                             /\ DOMAIN approvals = {}
  BY <1>2, EmptySeq, LenProperties DEF OpInit, ApInit
<1> QED BY <1>1, <1>2, RowsInit DEF DeployInv, DeployTypes, CallsHold, ApprovedIsCurrent

LEMMA RunsAppended ==
  ASSUME opRuns \in Seq(Run), NEW r \in Run, opRuns' = Append(opRuns, r)
  PROVE  /\ opRuns' \in Seq(Run)
         /\ \A i \in DOMAIN opRuns' : /\ i \in DOMAIN opRuns => opRuns'[i] = opRuns[i]
                                      /\ i \notin DOMAIN opRuns => opRuns'[i] = r
<1>1. /\ opRuns' \in Seq(Run) /\ Len(opRuns') = Len(opRuns) + 1
      /\ \A i \in 1..Len(opRuns) : opRuns'[i] = opRuns[i]
      /\ opRuns'[Len(opRuns) + 1] = r
  BY AppendProperties
<1>2. Len(opRuns) \in Nat /\ DOMAIN opRuns = 1..Len(opRuns) /\ DOMAIN opRuns' = 1..(Len(opRuns) + 1)
  BY <1>1, LenProperties
<1> QED BY <1>1, <1>2

LEMMA RunReplaced ==
  ASSUME opRuns \in Seq(Run), NEW i \in DOMAIN opRuns, NEW r \in Run, opRuns' = [opRuns EXCEPT ![i] = r]
  PROVE  /\ opRuns' \in Seq(Run) /\ DOMAIN opRuns' = DOMAIN opRuns
         /\ opRuns'[i] = r /\ \A j \in DOMAIN opRuns \ {i} : opRuns'[j] = opRuns[j]
<1>1. i \in 1..Len(opRuns) /\ DOMAIN opRuns = 1..Len(opRuns)
  BY LenProperties
<1> QED BY <1>1, ExceptSeq, LenProperties

\* An end leaves the approval of the run's last start as it was.
LEMMA RunEnds ==
  ASSUME opRuns \in Seq(Run), NEW i \in DOMAIN opRuns, NEW s \in RunStates, opRuns' = [opRuns EXCEPT ![i].state = s]
  PROVE  /\ opRuns' \in Seq(Run) /\ DOMAIN opRuns' = DOMAIN opRuns
         /\ \A j \in DOMAIN opRuns : opRuns'[j].approval = opRuns[j].approval
<1>1. opRuns[i] \in Run
  BY LenProperties, ElementOfSeq
<1> DEFINE r == [state |-> s, approval |-> opRuns[i].approval]
<1>2. r \in Run /\ [opRuns[i] EXCEPT !.state = s] = r
  BY <1>1 DEF Run
<1>3. opRuns' = [opRuns EXCEPT ![i] = r]
  BY <1>2
<1>4. r.approval = opRuns[i].approval
  OBVIOUS
<1> HIDE DEF r
<1> QED BY <1>2, <1>3, <1>4, RunReplaced

\* What starts, if anything does, is approved.
StartsApproved ==
  \A i \in DOMAIN opRuns' : Starts(i) =>
    LET a == opRuns'[i].approval
    IN /\ approvals[a].state = "approved" /\ approvals[a].config = project.config
       /\ approvals[a].target = ops.fingerprint

LEMMA NothingStarts ==
  ASSUME DOMAIN opRuns' = DOMAIN opRuns, \A j \in DOMAIN opRuns : opRuns'[j].approval = opRuns[j].approval
  PROVE  StartsApproved
BY DEF StartsApproved, Starts

LEMMA ConsumeMoves ==
  ASSUME RowsOK, NEW a, approvals' = With("consumed", {a}), UNCHANGED <<project, task, asked>>
  PROVE  RowsOK' /\ Moved
BY WithRestates, RestatedMoves DEF RowsOK

LEMMA DeployStep ==
  ASSUME DeployInv, [OpNext]_opVars
  PROVE  DeployInv' /\ StartsApproved
<1> USE DEF DeployInv
<1>1. ASSUME RowsOK', Moved, UNCHANGED ops, calls' \subseteq calls, edits' \subseteq edits, opRuns' \in Seq(Run)
      PROVE  DeployInv'
  BY <1>1, CallsKept, MovedIsCurrent DEF CallsHold, DeployTypes
<1>2. ASSUME UNCHANGED opRuns PROVE StartsApproved /\ opRuns' \in Seq(Run)
  BY <1>2, NothingStarts DEF DeployTypes
<1>3. CASE AskDeploy \/ AskCost
  <2>1. PICK action \in {"deploy", "recover", "external_cost"}, f \in Fingerprints : asked' = Project(action, f)
    BY <1>3, OperationsAssumption DEF AskDeploy, AskCost, DeployTypes
  <2>3. Project(action, f) \in AskRow
    BY DEF Project, AskRow, RowsOK, Targets, ActionNames
  <2> QED BY <1>1, <1>2, <1>3, <2>1, <2>3, AskMoves DEF AskDeploy, AskCost
<1>4. CASE CheckEdit
  <2>1. RowsOK' /\ Moved
    BY <1>4, UnchangedMoves DEF CheckEdit
  <2>2. \A e \in edits' : e.fingerprint \in Fingerprints
    BY <1>4 DEF CheckEdit, DeployTypes
  <2>3. CallsHold'
    BY <1>4, <2>1, CallsKept DEF CheckEdit, CallsHold
  <2> QED BY <1>2, <1>4, <2>1, <2>2, <2>3, MovedIsCurrent DEF CheckEdit, DeployTypes
<1>5. CASE MatchDeploy
  <2>1. PICK i \in DOMAIN approvals :
          Matching(i, "deploy") /\ calls' = calls \union {[approval |-> i, fingerprint |-> ops.fingerprint]}
    BY <1>5 DEF MatchDeploy
  <2>2. RowsOK' /\ Moved
    BY <1>5, UnchangedMoves DEF MatchDeploy
  <2>3. CallsHold'
    BY <1>5, <2>1 DEF MatchDeploy, apVars, CallsHold, Matching, Consumable
  <2> QED BY <1>2, <1>5, <2>2, <2>3, MovedIsCurrent DEF MatchDeploy, DeployTypes
<1>6. ASSUME NEW e \in edits, WriteEdit(e) PROVE DeployInv' /\ StartsApproved
  <2>1. /\ RowsOK' /\ Moved
        /\ \A i \in DOMAIN approvals : approvals[i].action = "deploy" => approvals'[i].state # "approved"
    BY <1>6, WriteEditMoves
  <2>2. CallsHold'
    <3>1. UNCHANGED calls
      BY <1>6 DEF WriteEdit
    <3> QED BY <2>1, <3>1 DEF CallsHold, Moved, Same
  <2>3. ops'.fingerprint \in Fingerprints \union {"off"}
    BY <1>6 DEF WriteEdit, DeployTypes
  <2> QED BY <1>2, <1>6, <2>1, <2>2, <2>3, MovedIsCurrent DEF WriteEdit, DeployTypes
<1>7. ASSUME NEW e \in edits, RefuseEdit(e) PROVE DeployInv' /\ StartsApproved
  BY <1>1, <1>2, <1>7, UnchangedMoves DEF RefuseEdit
<1>8. ASSUME NEW c \in calls, StartDeploy(c) PROVE DeployInv' /\ StartsApproved
  <2> DEFINE r == [state |-> "running", approval |-> c.approval]
  <2>1. /\ c.approval \in DOMAIN approvals /\ approvals[c.approval].state = "approved"
        /\ approvals[c.approval].config = project.config /\ approvals[c.approval].target = ops.fingerprint
    BY <1>8 DEF StartDeploy, Consumable, CallsHold, ApprovedIsCurrent
  <2>2. c.approval \in Nat
    BY <2>1, LenProperties DEF RowsOK
  <2>3. r \in Run /\ r.approval = c.approval
    BY <2>2 DEF Run, RunStates
  <2>4. opRuns' = Append(opRuns, r)
    BY <1>8 DEF StartDeploy
  <2> HIDE DEF r
  <2>5. RowsOK' /\ Moved
    BY <1>8, ConsumeMoves DEF StartDeploy
  <2>6. /\ opRuns' \in Seq(Run)
        /\ \A i \in DOMAIN opRuns' : /\ i \in DOMAIN opRuns => opRuns'[i] = opRuns[i]
                                     /\ i \notin DOMAIN opRuns => opRuns'[i] = r
    BY <2>3, <2>4, RunsAppended DEF DeployTypes
  <2>7. StartsApproved
    BY <2>1, <2>3, <2>6 DEF StartsApproved, Starts
  <2> QED BY <1>1, <1>8, <2>5, <2>6, <2>7 DEF StartDeploy
<1>9. ASSUME NEW c \in calls, RefuseDeploy(c) PROVE DeployInv' /\ StartsApproved
  BY <1>1, <1>2, <1>9, UnchangedMoves DEF RefuseDeploy
<1>10. ASSUME NEW i \in DOMAIN opRuns, EndDeploy(i) \/ EndRecovery(i) PROVE DeployInv' /\ StartsApproved
  <2>1. PICK s \in RunStates : opRuns' = [opRuns EXCEPT ![i].state = s]
    BY <1>10 DEF EndDeploy, EndRecovery, RunStates
  <2>2. UNCHANGED <<apVars, ops, edits, calls>>
    BY <1>10 DEF EndDeploy, EndRecovery
  <2>3. opRuns' \in Seq(Run) /\ StartsApproved
    BY <2>1, RunEnds, NothingStarts DEF DeployTypes
  <2> QED BY <1>1, <2>2, <2>3, UnchangedMoves
<1>11. ASSUME NEW i \in DOMAIN opRuns, StartRecovery(i) PROVE DeployInv' /\ StartsApproved
  <2>1. PICK a \in DOMAIN approvals :
          /\ Matching(a, "recover") /\ approvals' = With("consumed", {a})
          /\ opRuns' = [opRuns EXCEPT ![i] = [state |-> "recovering", approval |-> a]]
    BY <1>11 DEF StartRecovery
  <2> DEFINE r == [state |-> "recovering", approval |-> a]
  <2>2. r \in Run /\ r.approval = a
    BY LenProperties DEF RowsOK, Run, RunStates
  <2>3. opRuns' = [opRuns EXCEPT ![i] = r]
    BY <2>1
  <2> HIDE DEF r
  <2>4. /\ opRuns' \in Seq(Run) /\ DOMAIN opRuns' = DOMAIN opRuns
        /\ opRuns'[i] = r /\ \A j \in DOMAIN opRuns \ {i} : opRuns'[j] = opRuns[j]
    BY <2>2, <2>3, RunReplaced DEF DeployTypes
  <2>5. RowsOK' /\ Moved
    BY <1>11, <2>1, ConsumeMoves DEF StartRecovery
  <2>6. StartsApproved
    BY <2>1, <2>2, <2>4 DEF StartsApproved, Starts, Matching, Consumable
  <2> QED BY <1>1, <1>11, <2>4, <2>5, <2>6 DEF StartRecovery
<1>12. CASE (ChangeConfig(project.checks) \/ Request \/ \E i \in DOMAIN approvals : Decide(i))
              /\ UNCHANGED <<ops, edits, calls, opRuns>>
  <2>1. RowsOK' /\ Moved
    BY <1>12, ChangeMoves, RequestMoves, DecideMoves
  <2> QED BY <1>1, <1>2, <1>12, <2>1
<1>13. CASE UNCHANGED opVars
  BY <1>1, <1>2, <1>13, UnchangedMoves DEF opVars
<1> QED BY <1>3, <1>4, <1>5, <1>6, <1>7, <1>8, <1>9, <1>10, <1>11, <1>12, <1>13 DEF OpNext
-----------------------------------------------------------------------------
(* Proposed configurations.                                                *)

Proposal == [status : {"draft", "proposed", "evaluated"} \union Ended, base : Nat,
             verdict : {"none", "passed", "failed"}]
Proposed == DOMAIN proposals \union {Reverted}

ProposalTypes ==
  /\ proposals \in Seq(Proposal)
  /\ \A e \in evals : e.proposal \in DOMAIN proposals /\ e.verdict \in {"passed", "failed"}
  /\ asked # None /\ asked.action = "activate" => asked.target \in Proposed
  /\ \A a \in DOMAIN approvals : approvals[a].action = "activate" => approvals[a].target \in Proposed

\* An activation on its way has an approval of its own proposal; if that still stands, the
\* proposal is still an evaluated one, made for the configuration in force.
AppliesHold ==
  \A c \in applies :
    /\ c.approval \in DOMAIN approvals
    /\ approvals[c.approval].action = "activate" /\ approvals[c.approval].target = c.proposal
    /\ approvals[c.approval].state # "pending"
    /\ approvals[c.approval].state = "approved" /\ c.proposal # Reverted =>
         proposals[c.proposal].status = "evaluated" /\ proposals[c.proposal].base = project.config

CurateInv == RowsOK /\ ProposalTypes /\ ApprovedIsCurrent /\ AppliesHold

\* The promise, of one step.
OnBase ==
  \A i \in DOMAIN proposals : proposals[i].status # "activated" /\ proposals'[i].status = "activated"
                                => proposals[i].status = "evaluated" /\ proposals[i].base = project.config

LEMMA ProposalAt ==
  ASSUME ProposalTypes, NEW i \in DOMAIN proposals
  PROVE  proposals[i] \in Proposal
BY LenProperties, ElementOfSeq DEF ProposalTypes

LEMMA CurateInit == CuInit => CurateInv
<1>1. ASSUME CuInit PROVE /\ ApInit /\ proposals \in Seq(Proposal) /\ evals = {} /\ applies = {}
                          /\ asked = None /\ DOMAIN approvals = {}
  BY <1>1, EmptySeq, LenProperties DEF CuInit, ApInit
<1> QED BY <1>1, RowsInit DEF CurateInv, ProposalTypes, AppliesHold, ApprovedIsCurrent

\* The approvals keep their targets, however many proposals are added.
LEMMA TypesKept ==
  ASSUME ProposalTypes, Moved, proposals' \in Seq(Proposal), DOMAIN proposals \subseteq DOMAIN proposals',
         DOMAIN approvals' = DOMAIN approvals, UNCHANGED asked, evals' \subseteq evals
  PROVE  ProposalTypes'
BY DEF ProposalTypes, Proposed, Moved, Same

LEMMA AppliesKept ==
  ASSUME ProposalTypes, AppliesHold, Moved, NEW c \in applies,
         \A i \in DOMAIN proposals :
            proposals[i].status = "evaluated" /\ approvals'[c.approval].state = "approved" /\ c.proposal = i
            => proposals'[i].status = "evaluated" /\ proposals'[i].base = proposals[i].base
  PROVE  /\ c.approval \in DOMAIN approvals'
         /\ approvals'[c.approval].action = "activate" /\ approvals'[c.approval].target = c.proposal
         /\ approvals'[c.approval].state # "pending"
         /\ approvals'[c.approval].state = "approved" /\ c.proposal # Reverted =>
              proposals'[c.proposal].status = "evaluated" /\ proposals'[c.proposal].base = project'.config
<1>1. /\ c.approval \in DOMAIN approvals' /\ Same(approvals'[c.approval], approvals[c.approval])
      /\ approvals'[c.approval].state # "pending"
  BY DEF AppliesHold, Moved
<1>2. ASSUME approvals'[c.approval].state = "approved", c.proposal # Reverted
      PROVE  proposals'[c.proposal].status = "evaluated" /\ proposals'[c.proposal].base = project'.config
  <2>1. approvals[c.approval].state = "approved" /\ project'.config = project.config
    BY <1>1, <1>2 DEF AppliesHold, Moved
  <2>2. c.proposal \in DOMAIN proposals
    BY <1>2 DEF AppliesHold, ProposalTypes, Proposed
  <2> QED BY <1>2, <2>1, <2>2 DEF AppliesHold
<1> QED BY <1>1, <1>2 DEF AppliesHold, Same

LEMMA StatusSet ==
  ASSUME ProposalTypes, NEW i \in DOMAIN proposals, NEW s \in {"proposed", "rejected", "failed"}, Status(i, s)
  PROVE  /\ proposals' \in Seq(Proposal) /\ DOMAIN proposals' = DOMAIN proposals
         /\ proposals'[i].status = s /\ \A j \in DOMAIN proposals \ {i} : proposals'[j] = proposals[j]
<1>1. proposals[i] \in Proposal
  BY ProposalAt
<1>2. [proposals[i] EXCEPT !.status = s] \in Proposal /\ [proposals[i] EXCEPT !.status = s].status = s
  BY <1>1 DEF Proposal, Ended
<1>3. proposals' = [proposals EXCEPT ![i] = [proposals[i] EXCEPT !.status = s]]
  BY DEF Status
<1>4. i \in 1..Len(proposals) /\ DOMAIN proposals = 1..Len(proposals)
  BY LenProperties DEF ProposalTypes
<1> QED BY <1>2, <1>3, <1>4, ExceptSeq, LenProperties DEF ProposalTypes

LEMMA SameDomain ==
  ASSUME RowsOK, NEW rows, Restated(rows)
  PROVE  DOMAIN rows = DOMAIN approvals
BY DEF Restated

\* A step that leaves the applications, or some of them, and the proposals they are about.
LEMMA CurateKept ==
  ASSUME CurateInv, RowsOK', Moved, ProposalTypes', applies' \subseteq applies,
         \A c \in applies, i \in DOMAIN proposals :
            proposals[i].status = "evaluated" /\ approvals'[c.approval].state = "approved" /\ c.proposal = i
            => proposals'[i].status = "evaluated" /\ proposals'[i].base = proposals[i].base
  PROVE  CurateInv'
<1>1. AppliesHold'
  BY AppliesKept DEF CurateInv, AppliesHold
<1> QED BY <1>1, MovedIsCurrent DEF CurateInv

LEMMA ProposalsStay ==
  ASSUME UNCHANGED proposals
  PROVE  OnBase
BY DEF OnBase

LEMMA CreateStep ==
  ASSUME CurateInv, CreateProposal
  PROVE  CurateInv' /\ OnBase
<1> PICK base \in 1..project.config :
           proposals' = Append(proposals, [status |-> "draft", base |-> base, verdict |-> "none"])
  BY DEF CreateProposal
<1> DEFINE r == [status |-> "draft", base |-> base, verdict |-> "none"]
<1>1. r \in Proposal
  BY DEF CurateInv, RowsOK, Proposal
<1>2. proposals' = Append(proposals, r) /\ UNCHANGED <<apVars, evals, applies>>
  BY DEF CreateProposal
<1> HIDE DEF r
<1>3. /\ proposals' \in Seq(Proposal) /\ Len(proposals') = Len(proposals) + 1
      /\ \A i \in 1..Len(proposals) : proposals'[i] = proposals[i]
  BY <1>1, <1>2, AppendProperties DEF CurateInv, ProposalTypes
<1>4. Len(proposals) \in Nat /\ DOMAIN proposals = 1..Len(proposals) /\ DOMAIN proposals' = 1..(Len(proposals) + 1)
  BY <1>3, LenProperties DEF CurateInv, ProposalTypes
<1>5. RowsOK' /\ Moved
  BY <1>2, UnchangedMoves DEF CurateInv
<1>6. ProposalTypes'
  BY <1>2, <1>3, <1>4, <1>5, TypesKept DEF CurateInv, apVars
<1>7. \A i \in DOMAIN proposals : proposals'[i] = proposals[i]
  BY <1>3, <1>4
<1> QED BY <1>2, <1>5, <1>6, <1>7, CurateKept DEF OnBase

LEMMA StatusStep ==
  ASSUME CurateInv, NEW i \in DOMAIN proposals, Materialize(i) \/ FailDraft(i)
  PROVE  CurateInv' /\ OnBase
<1>1. PICK s \in {"proposed", "rejected", "failed"} : Status(i, s)
  BY DEF Materialize, FailDraft
<1>2. proposals[i].status = "draft" /\ UNCHANGED <<apVars, evals, applies>>
  BY DEF Materialize, FailDraft
<1>3. /\ proposals' \in Seq(Proposal) /\ DOMAIN proposals' = DOMAIN proposals
      /\ proposals'[i].status = s /\ \A j \in DOMAIN proposals \ {i} : proposals'[j] = proposals[j]
  BY <1>1, StatusSet DEF CurateInv
<1>4. RowsOK' /\ Moved
  BY <1>2, UnchangedMoves DEF CurateInv
<1>5. ProposalTypes'
  BY <1>2, <1>3, <1>4, TypesKept DEF CurateInv, apVars
<1>6. CurateInv'
  BY <1>2, <1>3, <1>4, <1>5, CurateKept
<1> QED BY <1>2, <1>3, <1>6 DEF OnBase, Ended

LEMMA RejectStep ==
  ASSUME CurateInv, NEW i \in DOMAIN proposals, Reject(i)
  PROVE  CurateInv' /\ OnBase
<1>1. Status(i, "rejected") /\ Evaluable(proposals[i].status) /\ UNCHANGED <<project, task, asked, evals, applies>>
  BY DEF Reject
<1>2. /\ proposals' \in Seq(Proposal) /\ DOMAIN proposals' = DOMAIN proposals
      /\ proposals'[i].status = "rejected" /\ \A j \in DOMAIN proposals \ {i} : proposals'[j] = proposals[j]
  BY <1>1, StatusSet DEF CurateInv
<1>3. approvals' = With("invalidated", ProposalApprovals(i)) /\ Restated(approvals')
  BY WithRestates DEF Reject, CurateInv
<1>4. RowsOK' /\ Moved
  BY <1>1, <1>3, RestatedMoves DEF CurateInv, RowsOK
<1>5. ProposalTypes'
  BY <1>1, <1>2, <1>3, <1>4, TypesKept, SameDomain DEF CurateInv
<1>6. ASSUME NEW c \in applies, c.proposal = i PROVE approvals'[c.approval].state # "approved"
  <2>1. /\ c.approval \in DOMAIN approvals /\ approvals[c.approval].action = "activate"
        /\ approvals[c.approval].target = i
    BY <1>6 DEF CurateInv, AppliesHold
  <2>2. approvals[c.approval] \in Row
    BY <2>1, RowAt DEF CurateInv
  <2>3. CASE Open(approvals[c.approval])
    <3>1. approvals'[c.approval] = [approvals[c.approval] EXCEPT !.state = "invalidated"]
      BY <1>3, <2>1, <2>3 DEF With, ProposalApprovals, OpenOnes
    <3> QED BY <2>2, <3>1, RowRestated DEF States
  <2>4. CASE ~Open(approvals[c.approval])
    <3>1. approvals'[c.approval] = approvals[c.approval]
      BY <1>3, <2>1, <2>4 DEF With, ProposalApprovals, OpenOnes
    <3> QED BY <2>4, <3>1 DEF Open
  <2> QED BY <2>3, <2>4
<1>7. CurateInv'
  BY <1>1, <1>2, <1>4, <1>5, <1>6, CurateKept
<1> QED BY <1>1, <1>2, <1>7 DEF OnBase, Ended, Evaluable

LEMMA RecordStep ==
  ASSUME CurateInv, NEW e \in evals, RecordEvaluation(e)
  PROVE  CurateInv' /\ OnBase
<1> DEFINE i == e.proposal
           r == [proposals[i] EXCEPT !.status = "evaluated", !.verdict = e.verdict]
<1>1. i \in DOMAIN proposals /\ e.verdict \in {"passed", "failed"} /\ proposals[i] \in Proposal
  BY ProposalAt DEF CurateInv, ProposalTypes
<1>2. r \in Proposal /\ r.status = "evaluated" /\ r.base = proposals[i].base
  BY <1>1 DEF Proposal
<1>3. UNCHANGED <<apVars, applies>> /\ evals' \subseteq evals /\ proposals' = [proposals EXCEPT ![i] = r]
  BY DEF RecordEvaluation
<1>4. RowsOK' /\ Moved
  BY <1>3, UnchangedMoves DEF CurateInv
<1>5. i \in 1..Len(proposals) /\ DOMAIN proposals = 1..Len(proposals)
  BY <1>1, LenProperties DEF CurateInv, ProposalTypes
<1> HIDE DEF r, i
<1>6. /\ proposals' \in Seq(Proposal) /\ DOMAIN proposals' = DOMAIN proposals
      /\ proposals'[i] = r /\ \A j \in DOMAIN proposals \ {i} : proposals'[j] = proposals[j]
  BY <1>2, <1>3, <1>5, ExceptSeq, LenProperties DEF CurateInv, ProposalTypes
<1>7. ProposalTypes'
  BY <1>3, <1>4, <1>6, TypesKept DEF CurateInv, apVars
<1>8. CurateInv'
  BY <1>2, <1>3, <1>4, <1>6, <1>7, CurateKept
<1> QED BY <1>2, <1>6, <1>8 DEF OnBase

LEMMA LookStep ==
  ASSUME CurateInv, NEW e \in evals, LookAgain(e)
  PROVE  CurateInv' /\ OnBase
<1>1. UNCHANGED <<apVars, proposals, applies>>
  BY DEF LookAgain
<1>2. RowsOK' /\ Moved
  BY <1>1, UnchangedMoves DEF CurateInv
<1>3. e.proposal \in DOMAIN proposals /\ e.verdict \in {"passed", "failed"}
  BY DEF CurateInv, ProposalTypes
<1> DEFINE f == [e EXCEPT !.looked = TRUE]
<1>4. f.proposal = e.proposal /\ f.verdict = e.verdict
  OBVIOUS
<1>5. \A d \in evals' : d \in evals \/ d = f
  BY DEF LookAgain
<1> HIDE DEF f
<1>6. \A d \in evals' : d.proposal \in DOMAIN proposals /\ d.verdict \in {"passed", "failed"}
  BY <1>3, <1>4, <1>5 DEF CurateInv, ProposalTypes
<1>7. ProposalTypes'
  BY <1>1, <1>6 DEF CurateInv, ProposalTypes, Proposed, apVars
<1> QED BY <1>1, <1>2, <1>7, CurateKept, ProposalsStay

LEMMA CheckStep ==
  ASSUME CurateInv, NEW a \in DOMAIN approvals, CheckActivation(a)
  PROVE  CurateInv' /\ OnBase
<1> DEFINE i == approvals[a].target
<1>1. /\ approvals[a].action = "activate" /\ approvals[a].state = "approved"
      /\ i # Reverted => proposals[i].status = "evaluated" /\ proposals[i].base = project.config
      /\ applies' = applies \union {[proposal |-> i, approval |-> a]}
      /\ UNCHANGED <<apVars, proposals, evals>>
  BY DEF CheckActivation, Consumable, Passed
<1> HIDE DEF i
<1>2. RowsOK' /\ Moved
  BY <1>1, UnchangedMoves DEF CurateInv
<1>3. ProposalTypes'
  BY <1>1, <1>2, TypesKept DEF CurateInv, ProposalTypes, apVars
<1>4. AppliesHold'
  BY <1>1 DEF CurateInv, AppliesHold, apVars, i
<1> QED BY <1>1, <1>2, <1>3, <1>4, MovedIsCurrent, ProposalsStay DEF CurateInv

\* Nothing stands approved once a configuration is applied.
LEMMA ApplyMoves ==
  ASSUME RowsOK, NEW c, Apply(c)
  PROVE  /\ RowsOK' /\ Moved /\ DOMAIN approvals' = DOMAIN approvals
         /\ \A a \in DOMAIN approvals : approvals'[a].state # "approved"
<1>1. Restated(With("consumed", {c.approval})) /\ Restated(With("invalidated", Replaced))
  BY WithRestates
<1>2. approvals' = [a \in DOMAIN approvals |-> IF a = c.approval THEN With("consumed", {c.approval})[a]
                                              ELSE With("invalidated", Replaced)[a]]
  BY DEF Apply, With
<1>3. Restated(approvals')
  BY <1>1, <1>2 DEF Restated
<1>4. approvals' \in Seq(Row) /\ DOMAIN approvals' = DOMAIN approvals
  BY <1>3, SeqOfRows DEF RowsOK, Restated
<1>5. ASSUME NEW a \in DOMAIN approvals PROVE approvals'[a].state # "approved"
  <2>1. approvals[a] \in Row
    BY RowAt
  <2>2. CASE a = c.approval
    <3>1. approvals'[a] = [approvals[a] EXCEPT !.state = "consumed"]
      BY <1>2, <2>2 DEF With
    <3> QED BY <2>1, <3>1, RowRestated DEF States
  <2>3. CASE a # c.approval /\ Open(approvals[a])
    <3>1. approvals'[a] = [approvals[a] EXCEPT !.state = "invalidated"]
      BY <1>2, <2>3 DEF With, Replaced, ProjectApprovals, OpenOnes
    <3> QED BY <2>1, <3>1, RowRestated DEF States
  <2>4. CASE a # c.approval /\ ~Open(approvals[a])
    <3>1. approvals'[a] = approvals[a]
      BY <1>2, <2>4 DEF With, Replaced, ProjectApprovals, OpenOnes
    <3> QED BY <2>4, <3>1 DEF Open
  <2> QED BY <2>2, <2>3, <2>4
<1>6. \A a \in DOMAIN approvals : /\ Same(approvals'[a], approvals[a])
                                  /\ approvals[a].state # "pending" => approvals'[a].state # "pending"
  BY <1>3 DEF Restated
<1>7. Moved
  BY <1>4, <1>5, <1>6 DEF Moved
<1>8. project'.config = project.config + 1 /\ "config" \in DOMAIN project' /\ UNCHANGED <<task, asked>>
  BY DEF Apply, RowsOK
<1> QED BY <1>4, <1>5, <1>7, <1>8 DEF RowsOK

LEMMA ApplyStep ==
  ASSUME CurateInv, NEW c \in applies, Apply(c)
  PROVE  CurateInv' /\ OnBase
<1> DEFINE next(i) == IF i = c.proposal THEN [proposals[i] EXCEPT !.status = "activated"]
                      ELSE IF Evaluable(proposals[i].status)
                      THEN [proposals[i] EXCEPT !.status = "superseded"] ELSE proposals[i]
<1>1. /\ RowsOK' /\ Moved /\ DOMAIN approvals' = DOMAIN approvals
      /\ \A a \in DOMAIN approvals : approvals'[a].state # "approved"
  BY ApplyMoves DEF CurateInv
<1>2. UNCHANGED <<asked, evals>> /\ applies' \subseteq applies
  BY DEF Apply
<1>3. \A d \in applies : approvals'[d.approval].state # "approved"
  BY <1>1 DEF CurateInv, AppliesHold
<1>4. CASE c.proposal = Reverted
  <2>1. UNCHANGED proposals
    BY <1>4 DEF Apply
  <2>2. ProposalTypes'
    BY <1>1, <1>2, <2>1, TypesKept DEF CurateInv, ProposalTypes
  <2> QED BY <1>1, <1>2, <1>3, <2>1, <2>2, CurateKept, ProposalsStay
<1>5. CASE c.proposal # Reverted
  <2>1. proposals' = [i \in DOMAIN proposals |-> next(i)]
    BY <1>5 DEF Apply
  <2>2. /\ proposals[c.proposal].status = "evaluated" /\ proposals[c.proposal].base = project.config
    BY <1>5 DEF Apply, Consumable, CurateInv, AppliesHold
  <2>3. \A i \in DOMAIN proposals : proposals[i] \in Proposal
    BY ProposalAt DEF CurateInv
  <2>4. ASSUME NEW i \in DOMAIN proposals
        PROVE  /\ next(i) \in Proposal
               /\ next(i).status \in {"activated", "superseded", proposals[i].status}
               /\ next(i).status = "activated" => i = c.proposal \/ proposals[i].status = "activated"
               /\ proposals[i].status \in Ended => i # c.proposal /\ next(i) = proposals[i]
    BY <2>2, <2>3 DEF Proposal, Ended, Evaluable
  <2> HIDE DEF next
  <2>5. proposals' \in [DOMAIN proposals -> Proposal]
    BY <2>1, <2>4
  <2>6. proposals' \in Seq(Proposal) /\ DOMAIN proposals' = DOMAIN proposals
    BY <2>5, SeqOfRows DEF CurateInv, ProposalTypes
  <2>7. ProposalTypes'
    BY <1>1, <1>2, <2>6, TypesKept DEF CurateInv
  <2>8. CurateInv'
    BY <1>1, <1>2, <1>3, <2>7, CurateKept
  <2> QED BY <2>1, <2>2, <2>4, <2>8 DEF OnBase
<1> QED BY <1>4, <1>5

\* Requests, decisions and changes of configuration by others.
LEMMA OthersStep ==
  ASSUME CurateInv, UNCHANGED <<proposals, evals, applies>>,
         \/ ChangeConfig(project.checks) \/ Request
         \/ \E a \in DOMAIN approvals : Decide(a)
  PROVE  CurateInv'
<1>1. RowsOK' /\ Moved
  BY ChangeMoves, RequestMoves, DecideMoves DEF CurateInv
<1>2. CASE Request
  <2> DEFINE r == [action |-> asked.action, target |-> asked.target, revision |-> asked.revision,
                   config |-> asked.config, state |-> "pending"]
  <2>1. r \in Row /\ r.action = asked.action /\ r.target = asked.target
    BY <1>2 DEF CurateInv, RowsOK, Request, AskRow, Row, States
  <2>2. approvals' = Append(approvals, r) /\ asked' = None /\ asked # None
    BY <1>2 DEF Request, Requested
  <2> HIDE DEF r
  <2>3. /\ Len(approvals') = Len(approvals) + 1 /\ approvals' \in Seq(Row)
        /\ \A i \in 1..Len(approvals) : approvals'[i] = approvals[i]
        /\ approvals'[Len(approvals) + 1] = r
    BY <2>1, <2>2, AppendProperties DEF CurateInv, RowsOK
  <2>4. /\ Len(approvals) \in Nat /\ DOMAIN approvals = 1..Len(approvals)
        /\ DOMAIN approvals' = 1..(Len(approvals) + 1)
    BY <2>3, LenProperties DEF CurateInv, RowsOK
  <2>5. ProposalTypes'
    BY <2>1, <2>2, <2>3, <2>4 DEF CurateInv, ProposalTypes, Proposed
  <2> QED BY <1>1, <2>5, CurateKept
<1>3. CASE ~Request
  <2>1. UNCHANGED asked /\ DOMAIN approvals' = DOMAIN approvals
    BY <1>3 DEF ChangeConfig, Decide, With
  <2>2. ProposalTypes'
    BY <1>1, <2>1, TypesKept DEF CurateInv, ProposalTypes
  <2> QED BY <1>1, <2>2, CurateKept
<1> QED BY <1>2, <1>3

LEMMA CurateStep ==
  ASSUME CurateInv, [CuNext]_cuVars
  PROVE  CurateInv' /\ OnBase
<1>1. ASSUME UNCHANGED <<apVars, proposals>>, evals' \subseteq evals, applies' \subseteq applies
      PROVE  CurateInv' /\ OnBase
  <2>1. RowsOK' /\ Moved
    BY <1>1, UnchangedMoves DEF CurateInv
  <2>2. ProposalTypes'
    BY <1>1, <2>1, TypesKept DEF CurateInv, ProposalTypes, apVars
  <2> QED BY <1>1, <2>1, <2>2, CurateKept, ProposalsStay
<1>2. CASE AskActivation
  <2>1. PICK i \in Proposed : asked' = Here("activate", i, 0)
    BY <1>2 DEF AskActivation, Proposed
  <2>2. i \in Targets
    BY LenProperties DEF CurateInv, ProposalTypes, Proposed, Targets, Reverted
  <2>3. asked' \in AskRow /\ asked'.target = i
    BY <2>1, <2>2, HereAsked DEF CurateInv, ActionNames, Here
  <2>4. UNCHANGED <<project, task, approvals, proposals, evals, applies>>
    BY <1>2 DEF AskActivation
  <2>5. RowsOK' /\ Moved
    BY <2>3, <2>4, AskMoves DEF CurateInv
  <2>6. ProposalTypes'
    BY <2>3, <2>4 DEF CurateInv, ProposalTypes, Proposed
  <2> QED BY <2>4, <2>5, <2>6, CurateKept, ProposalsStay
<1>3. ASSUME NEW i \in DOMAIN proposals, Evaluate(i) PROVE CurateInv' /\ OnBase
  <2>1. UNCHANGED <<apVars, proposals, applies>>
    BY <1>3 DEF Evaluate
  <2>2. RowsOK' /\ Moved
    BY <2>1, UnchangedMoves DEF CurateInv
  <2>3. \A e \in evals' : e.proposal \in DOMAIN proposals /\ e.verdict \in {"passed", "failed"}
    BY <1>3 DEF Evaluate
  <2>4. ProposalTypes'
    BY <2>1, <2>3 DEF CurateInv, ProposalTypes, Proposed, apVars
  <2> QED BY <2>1, <2>2, <2>4, CurateKept, ProposalsStay
<1>4. CASE Work
  BY <1>1, <1>4 DEF Work
<1>5. ASSUME NEW c \in applies, RefuseApply(c) PROVE CurateInv' /\ OnBase
  BY <1>1, <1>5 DEF RefuseApply
<1>6. CASE UNCHANGED cuVars
  BY <1>1, <1>6 DEF cuVars
<1>7. CASE (ChangeConfig(project.checks) \/ Request \/ \E a \in DOMAIN approvals : Decide(a))
             /\ UNCHANGED <<proposals, evals, applies, busy>>
  BY <1>7, OthersStep, ProposalsStay
<1> QED BY <1>2, <1>3, <1>4, <1>5, <1>6, <1>7, CreateStep, StatusStep, RejectStep, RecordStep, LookStep,
        CheckStep, ApplyStep
        DEF CuNext
-----------------------------------------------------------------------------
\* What stands approved is approved for the configuration in force, whichever process changed
\* it, whatever was asked for before, and however many approvals there are.
THEOREM ApprovalsAreCurrent == ApSpec => []ApprovedIsCurrent
<1>1. ApInit => RowsOK /\ ApprovedIsCurrent
  <2>1. ASSUME ApInit PROVE DOMAIN approvals = {}
    BY <2>1, EmptySeq, LenProperties DEF ApInit
  <2> QED BY <2>1, RowsInit DEF ApprovedIsCurrent
<1>2. RowsOK /\ ApprovedIsCurrent /\ [ApNext]_apVars => RowsOK' /\ ApprovedIsCurrent'
  BY ApStep, MovedIsCurrent
<1> QED BY <1>1, <1>2, PTL DEF ApSpec

\* The same of the approvals of deployments, and a deployment or recovery starts only under an
\* approval that stands at that moment for the operations and the configuration in force,
\* whatever was edited, decided or invalidated while it waited for its adapter.
THEOREM DeploymentsApproved == OpSpec => []ApprovedIsCurrent /\ ActsAsApproved
<1>1. OpInit => DeployInv
  BY DeployInit
<1>2. DeployInv /\ [OpNext]_opVars => DeployInv' /\ StartsApproved
  BY DeployStep
<1>3. DeployInv => ApprovedIsCurrent
  BY DEF DeployInv
<1> QED BY <1>1, <1>2, <1>3, PTL DEF OpSpec, ActsAsApproved, StartsApproved

\* The same of the approvals of proposals; a proposal is activated only while it stands as
\* evaluated and over the configuration it was evaluated for, whatever runs beside its
\* evaluation and its activation.
THEOREM ActivationsEvaluated == CuSpec => []ApprovedIsCurrent /\ ActivationsHold
<1>1. CuInit => CurateInv
  BY CurateInit
<1>2. CurateInv /\ [CuNext]_cuVars => CurateInv' /\ OnBase
  BY CurateStep
<1>3. CurateInv => ApprovedIsCurrent
  BY DEF CurateInv
<1> QED BY <1>1, <1>2, <1>3, PTL DEF CuSpec, ActivationsHold, OnBase
-----------------------------------------------------------------------------
(* Types.                                                                  *)

\* What is asked for, and what has been, stays within the bounds of the present.
ApCounts ==
  /\ project \in [config : 1..MaxConfigs, requirements : 0..1, checks : BOOLEAN]
  /\ task \in [revision : 0..MaxRevs, next : 0..MaxRevs]
  /\ evidence \in [1..MaxRevs -> [check : {"none", "PASS", "FAIL", "waived"},
                                  review : {None} \union Context]]
  /\ Len(approvals) <= MaxApprovals
  /\ \A i \in DOMAIN approvals : approvals[i].revision \in 0..MaxRevs /\ approvals[i].config \in 1..MaxConfigs
  /\ asked # None => asked.revision \in 0..MaxRevs /\ asked.config \in 1..MaxConfigs

ApInv == RowsOK /\ ApCounts

LEMMA ApCountsInit == ApInit => ApCounts
<1> SUFFICES ASSUME ApInit PROVE ApCounts
  OBVIOUS
<1>1. MaxConfigs \in Nat \ {0} /\ MaxRevs \in Nat \ {0} /\ MaxApprovals \in Nat
  BY ApprovalsAssumption
<1>2. 1 \in 1..MaxConfigs /\ 0 \in 0..MaxRevs /\ 0 \in 0..1
  BY <1>1
<1>3. project \in [config : 1..MaxConfigs, requirements : 0..1, checks : BOOLEAN]
  BY <1>2 DEF ApInit
<1>4. task \in [revision : 0..MaxRevs, next : 0..MaxRevs]
  BY <1>2 DEF ApInit
<1>5. evidence \in [1..MaxRevs -> [check : {"none", "PASS", "FAIL", "waived"}, review : {None} \union Context]]
  <2>1. [check |-> "none", review |-> None] \in [check : {"none", "PASS", "FAIL", "waived"}, review : {None} \union Context]
    OBVIOUS
  <2> QED BY <2>1 DEF ApInit
<1>6. Len(approvals) = 0 /\ DOMAIN approvals = {} /\ asked = None
  BY EmptySeq, LenProperties DEF ApInit
<1> QED BY <1>1, <1>3, <1>4, <1>5, <1>6 DEF ApCounts

\* What the rows are about stays, with Moved, within the bounds.
RowCounts(rows) ==
  /\ Len(rows) <= MaxApprovals
  /\ \A i \in DOMAIN rows : rows[i].revision \in 0..MaxRevs /\ rows[i].config \in 1..MaxConfigs

LEMMA RowsKept ==
  ASSUME RowsOK, RowsOK', RowCounts(approvals), Moved, DOMAIN approvals' = DOMAIN approvals
  PROVE  RowCounts(approvals')
<1>1. Len(approvals') = Len(approvals)
  BY LenProperties DEF RowsOK
<1> QED BY <1>1 DEF RowCounts, Moved, Same

LEMMA RequestCounts ==
  ASSUME RowsOK, RowCounts(approvals), Request, asked.revision \in 0..MaxRevs, asked.config \in 1..MaxConfigs
  PROVE  RowCounts(approvals')
<1> DEFINE r == [action |-> asked.action, target |-> asked.target, revision |-> asked.revision,
                 config |-> asked.config, state |-> "pending"]
<1>1. r \in Row
  BY DEF RowsOK, Request, AskRow, Row, States
<1>2. approvals' = Append(approvals, r) /\ Len(approvals) < MaxApprovals
  BY DEF Request, Requested, CanRequest
<1>3. r.revision \in 0..MaxRevs /\ r.config \in 1..MaxConfigs
  OBVIOUS
<1> HIDE DEF r
<1>4. /\ Len(approvals') = Len(approvals) + 1 /\ approvals' \in Seq(Row)
      /\ \A i \in 1..Len(approvals) : approvals'[i] = approvals[i]
      /\ approvals'[Len(approvals) + 1] = r
  BY <1>1, <1>2, AppendProperties DEF RowsOK
<1>5. /\ Len(approvals) \in Nat /\ DOMAIN approvals = 1..Len(approvals)
      /\ DOMAIN approvals' = 1..(Len(approvals) + 1)
  BY <1>4, LenProperties DEF RowsOK
<1>6. \A i \in DOMAIN approvals' : i \in DOMAIN approvals \/ i = Len(approvals) + 1
  BY <1>5
<1>7. MaxApprovals \in Nat
  BY ApprovalsAssumption
<1> QED BY <1>2, <1>3, <1>4, <1>5, <1>6, <1>7 DEF RowCounts

LEMMA ConfigCounts ==
  ASSUME project.config \in 1..MaxConfigs, project.config < MaxConfigs
  PROVE  project.config + 1 \in 1..MaxConfigs
BY ApprovalsAssumption

LEMMA ApCountsStep ==
  ASSUME ApInv, [ApNext]_apVars
  PROVE  ApInv'
<1> USE DEF ApInv
<1> DEFINE Standing == [check : {"none", "PASS", "FAIL", "waived"}, review : {None} \union Context]
<1>1. RowsOK' /\ Moved
  BY ApStep
<1>2. RowCounts(approvals) /\ (RowCounts(approvals') => /\ Len(approvals') <= MaxApprovals
        /\ \A i \in DOMAIN approvals' : approvals'[i].revision \in 0..MaxRevs /\ approvals'[i].config \in 1..MaxConfigs)
  BY DEF ApCounts, RowCounts
<1>3. MaxConfigs \in Nat \ {0} /\ MaxRevs \in Nat \ {0} /\ MaxApprovals \in Nat
  BY ApprovalsAssumption
<1>4. ASSUME NEW r, NEW v \in {"PASS", "FAIL", "waived"}, evidence' = [evidence EXCEPT ![r].check = v]
      PROVE  evidence' \in [1..MaxRevs -> Standing]
  BY <1>4 DEF ApCounts
<1>5. ASSUME NEW checks \in BOOLEAN, ChangeConfig(checks) PROVE ApCounts'
  <2>1. project' \in [config : 1..MaxConfigs, requirements : 0..1, checks : BOOLEAN]
    BY <1>5, ConfigCounts DEF ChangeConfig, ApCounts
  <2>2. DOMAIN approvals' = DOMAIN approvals
    BY <1>5 DEF ChangeConfig, With
  <2> QED BY <1>1, <1>2, <1>5, <2>1, <2>2, RowsKept DEF ChangeConfig, ApCounts
<1>6. CASE AddRequirement
  <2>1. project' \in [config : 1..MaxConfigs, requirements : 0..1, checks : BOOLEAN]
    BY <1>6 DEF AddRequirement, ApCounts
  <2> QED BY <1>1, <1>6, <2>1 DEF AddRequirement, ApCounts
<1>7. CASE AnnounceRevision
  <2>1. task' \in [revision : 0..MaxRevs, next : 0..MaxRevs]
    BY <1>3, <1>7 DEF AnnounceRevision, ApCounts
  <2>2. DOMAIN approvals' = DOMAIN approvals
    BY <1>7 DEF AnnounceRevision, With
  <2> QED BY <1>1, <1>2, <1>7, <2>1, <2>2, RowsKept DEF AnnounceRevision, ApCounts
<1>8. CASE SetRevision
  <2>1. task' \in [revision : 0..MaxRevs, next : 0..MaxRevs]
    BY <1>3, <1>8 DEF SetRevision, ApCounts
  <2> QED BY <1>1, <1>8, <2>1 DEF SetRevision, ApCounts
<1>9. CASE Check
  <2>1. evidence' \in [1..MaxRevs -> Standing]
    BY <1>4, <1>9 DEF Check
  <2> QED BY <1>1, <1>9, <2>1 DEF Check, ApCounts
<1>10. CASE Review
  <2>1. [config |-> project.config, requirements |-> project.requirements] \in Context
    BY DEF ApCounts, Context
  <2>2. evidence' \in [1..MaxRevs -> Standing]
    BY <1>10, <2>1 DEF Review, ApCounts
  <2> QED BY <1>1, <1>10, <2>2 DEF Review, ApCounts
<1>11. CASE Request
  <2>1. RowCounts(approvals')
    BY <1>2, <1>11, RequestCounts DEF ApCounts, Request
  <2> QED BY <1>1, <1>2, <1>11, <2>1 DEF Request, ApCounts
<1>12. ASSUME NEW action \in Actions, NEW target \in {"base", "other"}, Prepare(action, target) PROVE ApCounts'
  <2>1. asked'.revision = task.revision /\ asked'.config = project.config
    BY <1>12 DEF Prepare, Here
  <2> QED BY <1>12, <2>1 DEF Prepare, ApCounts
<1>13. ASSUME NEW i \in DOMAIN approvals, Decide(i) PROVE ApCounts'
  <2>1. DOMAIN approvals' = DOMAIN approvals
    BY <1>13 DEF Decide, With
  <2> QED BY <1>1, <1>2, <1>13, <2>1, RowsKept DEF Decide, ApCounts
<1>14. ASSUME NEW i \in DOMAIN approvals, WaiveGate(i) PROVE ApCounts'
  <2>1. DOMAIN approvals' = DOMAIN approvals
    BY <1>14 DEF WaiveGate, With
  <2>2. evidence' \in [1..MaxRevs -> Standing]
    BY <1>4, <1>14 DEF WaiveGate
  <2> QED BY <1>1, <1>2, <1>14, <2>1, <2>2, RowsKept DEF WaiveGate, ApCounts
<1>15. CASE UNCHANGED apVars
  BY <1>1, <1>15 DEF apVars, ApCounts
<1> QED BY <1>1, <1>5, <1>6, <1>7, <1>8, <1>9, <1>10, <1>11, <1>12, <1>13, <1>14, <1>15 DEF ApNext

LEMMA ApTyped == ApInv => ApTypeOK
<1> SUFFICES ASSUME ApInv PROVE ApTypeOK
  OBVIOUS
<1>1. \A i \in DOMAIN approvals : approvals[i].state \in States
  BY RowAt DEF ApInv, Row
<1> QED BY <1>1 DEF ApInv, ApCounts, ApTypeOK, States
-----------------------------------------------------------------------------
\* Deployment is asked for what can be configured, and what is on its way is bound to an approval.
OpCounts ==
  /\ ops \in [version : 0..MaxChanges, fingerprint : Fingerprints \union {"off"}]
  /\ \A e \in edits : e.fingerprint \in Fingerprints /\ e.approval \in 0..Len(approvals)
  /\ calls \subseteq [approval : DOMAIN approvals, fingerprint : Fingerprints]
  /\ Len(opRuns) <= MaxOpRuns
  /\ \A i \in DOMAIN opRuns : opRuns[i].approval \in DOMAIN approvals
  /\ asked # None /\ asked.action = "deploy" => asked.target \in Fingerprints
  /\ \A i \in DOMAIN approvals : approvals[i].action = "deploy" => approvals[i].target \in Fingerprints

OpInv == DeployInv /\ OpCounts

LEMMA OpCountsInit == OpInit => OpInv
<1> SUFFICES ASSUME OpInit PROVE OpInv
  OBVIOUS
<1>1. MaxChanges \in Nat /\ MaxOpRuns \in Nat
  BY OperationsAssumption
<1>2. approvals = <<>> /\ opRuns = <<>> /\ asked = None
  BY DEF OpInit, ApInit
<1>3. /\ Len(approvals) = 0 /\ DOMAIN approvals = {} /\ Len(opRuns) = 0 /\ DOMAIN opRuns = {}
  BY <1>2, EmptySeq, LenProperties
<1>4. ops \in [version : 0..MaxChanges, fingerprint : Fingerprints \union {"off"}]
  BY <1>1 DEF OpInit
<1>5. edits = {} /\ calls = {}
  BY DEF OpInit
<1> QED BY <1>1, <1>2, <1>3, <1>4, <1>5, DeployInit DEF OpInv, OpCounts

\* The approvals grow, if they change, by what was asked for.
LEMMA OpRowsKept ==
  ASSUME OpInv, RowsOK', Moved, UNCHANGED ops,
         (DOMAIN approvals' = DOMAIN approvals /\ UNCHANGED asked) \/ Request,
         edits' \subseteq edits, calls' \subseteq calls
  PROVE  /\ Len(approvals) \in Nat /\ Len(approvals') \in Nat
         /\ Len(approvals) <= Len(approvals') /\ DOMAIN approvals \subseteq DOMAIN approvals'
         /\ \A e \in edits' : e.fingerprint \in Fingerprints /\ e.approval \in 0..Len(approvals')
         /\ calls' \subseteq [approval : DOMAIN approvals', fingerprint : Fingerprints]
         /\ asked' # None /\ asked'.action = "deploy" => asked'.target \in Fingerprints
         /\ \A i \in DOMAIN approvals' : approvals'[i].action = "deploy" => approvals'[i].target \in Fingerprints
<1> USE DEF OpInv, DeployInv
<1>1. PICK n \in Nat : n = Len(approvals) /\ DOMAIN approvals = 1..n
  BY LenProperties DEF RowsOK
<1>2. PICK m \in Nat : m = Len(approvals') /\ DOMAIN approvals' = 1..m
  BY LenProperties DEF RowsOK
<1>3. DOMAIN approvals \subseteq DOMAIN approvals' /\ n <= m
  <2>1. DOMAIN approvals \subseteq DOMAIN approvals'
    BY DEF Moved
  <2>2. ASSUME n > m PROVE FALSE
    <3>1. n \in 1..n /\ n \notin 1..m
      BY <2>2
    <3> QED BY <1>1, <1>2, <2>1, <3>1
  <2> QED BY <2>1, <2>2
<1>4. \A e \in edits' : e.fingerprint \in Fingerprints /\ e.approval \in 0..m
  <2>1. \A e \in edits : e.fingerprint \in Fingerprints /\ e.approval \in 0..n
    BY <1>1 DEF OpCounts
  <2>2. 0..n \subseteq 0..m
    BY <1>3
  <2> QED BY <2>1, <2>2
<1>5. calls' \subseteq [approval : DOMAIN approvals', fingerprint : Fingerprints]
  BY <1>3 DEF OpCounts
<1>6. CASE DOMAIN approvals' = DOMAIN approvals /\ UNCHANGED asked
  BY <1>1, <1>2, <1>3, <1>4, <1>5, <1>6 DEF OpCounts, Moved, Same
<1>7. CASE Request
  <2> DEFINE r == [action |-> asked.action, target |-> asked.target, revision |-> asked.revision,
                   config |-> asked.config, state |-> "pending"]
  <2>1. r \in Row /\ (r.action = "deploy" => r.target \in Fingerprints)
    BY <1>7 DEF RowsOK, Request, AskRow, Row, States, OpCounts
  <2>2. approvals' = Append(approvals, r) /\ asked' = None
    BY <1>7 DEF Request, Requested
  <2> HIDE DEF r
  <2>3. /\ m = n + 1 /\ approvals'[m] = r
        /\ \A i \in 1..n : approvals'[i] = approvals[i]
    BY <1>1, <1>2, <2>1, <2>2, AppendProperties DEF RowsOK
  <2>4. \A i \in DOMAIN approvals' : i \in DOMAIN approvals \/ i = m
    BY <1>1, <1>2, <2>3
  <2>5. \A i \in DOMAIN approvals' : approvals'[i].action = "deploy" => approvals'[i].target \in Fingerprints
    BY <1>1, <1>2, <2>1, <2>3, <2>4 DEF OpCounts
  <2> QED BY <1>1, <1>2, <1>3, <1>4, <1>5, <2>2, <2>5
<1> QED BY <1>6, <1>7

LEMMA OpStill ==
  ASSUME OpInv, UNCHANGED <<apVars, ops, opRuns>>, edits' \subseteq edits, calls' \subseteq calls
  PROVE  OpCounts'
BY DEF OpInv, OpCounts, apVars

LEMMA OpCountsStep ==
  ASSUME OpInv, [OpNext]_opVars
  PROVE  OpInv'
<1> USE DEF OpInv
<1>1. DeployInv'
  BY DeployStep
<1>2. RowsOK /\ RowsOK'
  BY <1>1 DEF DeployInv
<1>3. MaxChanges \in Nat /\ MaxOpRuns \in Nat
  BY OperationsAssumption
<1>4. ASSUME Moved, UNCHANGED <<ops, opRuns>>, edits' \subseteq edits, calls' \subseteq calls,
             (DOMAIN approvals' = DOMAIN approvals /\ UNCHANGED asked) \/ Request
      PROVE  OpCounts'
  BY <1>2, <1>4, OpRowsKept DEF OpCounts
<1>5. CASE AskDeploy \/ AskCost
  <2>1. asked'.action = "deploy" => asked'.target \in Fingerprints
    BY <1>5 DEF AskDeploy, AskCost, Project, OpCounts
  <2>2. UNCHANGED <<approvals, ops, edits, calls, opRuns>>
    BY <1>5 DEF AskDeploy, AskCost
  <2> QED BY <1>1, <2>1, <2>2 DEF OpCounts
<1>6. CASE CheckEdit
  <2>1. PICK f \in Fingerprints, i \in 0..Len(approvals) :
          edits' = edits \union {[fingerprint |-> f, approval |-> i, version |-> ops.version]}
    BY <1>6 DEF CheckEdit
  <2>2. UNCHANGED <<approvals, asked, ops, calls, opRuns>>
    BY <1>6 DEF CheckEdit, apVars
  <2>3. \A e \in edits' : e.fingerprint \in Fingerprints /\ e.approval \in 0..Len(approvals)
    BY <2>1 DEF OpCounts
  <2> QED BY <1>1, <2>2, <2>3 DEF OpCounts
<1>7. CASE MatchDeploy
  <2>1. PICK i \in DOMAIN approvals :
          Matching(i, "deploy") /\ calls' = calls \union {[approval |-> i, fingerprint |-> ops.fingerprint]}
    BY <1>7 DEF MatchDeploy
  <2>2. ops.fingerprint \in Fingerprints
    BY <2>1 DEF Matching, OpCounts
  <2>3. UNCHANGED <<approvals, asked, ops, edits, opRuns>>
    BY <1>7 DEF MatchDeploy, apVars
  <2>4. calls' \subseteq [approval : DOMAIN approvals, fingerprint : Fingerprints]
    BY <2>1, <2>2 DEF OpCounts
  <2> QED BY <1>1, <2>3, <2>4 DEF OpCounts
<1>8. ASSUME NEW e \in edits, WriteEdit(e) PROVE OpCounts'
  <2>1. Moved
    BY <1>2, <1>8, WriteEditMoves
  <2>2. DOMAIN approvals' = DOMAIN approvals /\ UNCHANGED <<asked, calls, opRuns>> /\ edits' \subseteq edits
    BY <1>8 DEF WriteEdit
  <2>3. ops' \in [version : 0..MaxChanges, fingerprint : Fingerprints \union {"off"}]
    BY <1>3, <1>8 DEF WriteEdit, OpCounts
  <2>4. Len(approvals') = Len(approvals)
    BY <1>2, <2>2, LenProperties DEF RowsOK
  <2> QED BY <2>1, <2>2, <2>3, <2>4 DEF OpCounts, Moved, Same
<1>9. ASSUME NEW e \in edits, RefuseEdit(e) PROVE OpCounts'
  BY <1>9, OpStill DEF RefuseEdit
<1>10. ASSUME NEW c \in calls, StartDeploy(c) PROVE OpCounts'
  <2> DEFINE r == [state |-> "running", approval |-> c.approval]
  <2>1. c.approval \in DOMAIN approvals
    BY DEF OpCounts
  <2>2. r \in Run /\ r.approval = c.approval
    BY <1>2, <2>1, LenProperties DEF RowsOK, Run, RunStates
  <2>3. opRuns' = Append(opRuns, r) /\ Len(opRuns) < MaxOpRuns /\ UNCHANGED <<project, task, asked, ops, edits>>
        /\ calls' \subseteq calls
    BY <1>10 DEF StartDeploy
  <2> HIDE DEF r
  <2>4. Moved /\ DOMAIN approvals' = DOMAIN approvals
    BY <1>2, <1>10, ConsumeMoves DEF StartDeploy, With
  <2>5. /\ opRuns' \in Seq(Run)
        /\ \A i \in DOMAIN opRuns' : /\ i \in DOMAIN opRuns => opRuns'[i] = opRuns[i]
                                     /\ i \notin DOMAIN opRuns => opRuns'[i] = r
    BY <2>2, <2>3, RunsAppended DEF DeployInv, DeployTypes
  <2>6. Len(opRuns') = Len(opRuns) + 1 /\ Len(opRuns) \in Nat
    BY <2>2, <2>3, AppendProperties, LenProperties DEF DeployInv, DeployTypes
  <2>7. Len(approvals') = Len(approvals)
    BY <1>2, <2>4, LenProperties DEF RowsOK
  <2>8. Len(opRuns') <= MaxOpRuns
    BY <1>3, <2>3, <2>6
  <2>9. \A i \in DOMAIN opRuns' : opRuns'[i].approval \in DOMAIN approvals'
    BY <2>1, <2>2, <2>4, <2>5 DEF OpCounts
  <2> QED BY <2>3, <2>4, <2>7, <2>8, <2>9 DEF OpCounts, Moved, Same
<1>11. ASSUME NEW c \in calls, RefuseDeploy(c) PROVE OpCounts'
  BY <1>11, OpStill DEF RefuseDeploy
<1>12. ASSUME NEW i \in DOMAIN opRuns, EndDeploy(i) \/ EndRecovery(i) PROVE OpCounts'
  <2>1. PICK s \in RunStates : opRuns' = [opRuns EXCEPT ![i].state = s]
    BY <1>12 DEF EndDeploy, EndRecovery, RunStates
  <2>2. UNCHANGED <<apVars, ops, edits, calls>>
    BY <1>12 DEF EndDeploy, EndRecovery
  <2>3. /\ opRuns' \in Seq(Run) /\ DOMAIN opRuns' = DOMAIN opRuns
        /\ \A j \in DOMAIN opRuns : opRuns'[j].approval = opRuns[j].approval
    BY <2>1, RunEnds DEF DeployInv, DeployTypes
  <2>4. Len(opRuns') = Len(opRuns)
    BY <2>3, LenProperties DEF DeployInv, DeployTypes
  <2> QED BY <2>2, <2>3, <2>4 DEF OpCounts, apVars
<1>13. ASSUME NEW i \in DOMAIN opRuns, StartRecovery(i) PROVE OpCounts'
  <2>1. PICK a \in DOMAIN approvals :
          /\ approvals' = With("consumed", {a})
          /\ opRuns' = [opRuns EXCEPT ![i] = [state |-> "recovering", approval |-> a]]
    BY <1>13 DEF StartRecovery
  <2> DEFINE r == [state |-> "recovering", approval |-> a]
  <2>2. r \in Run /\ r.approval = a
    BY <1>2, LenProperties DEF RowsOK, Run, RunStates
  <2>3. opRuns' = [opRuns EXCEPT ![i] = r]
    BY <2>1
  <2> HIDE DEF r
  <2>4. /\ opRuns' \in Seq(Run) /\ DOMAIN opRuns' = DOMAIN opRuns
        /\ opRuns'[i] = r /\ \A j \in DOMAIN opRuns \ {i} : opRuns'[j] = opRuns[j]
    BY <2>2, <2>3, RunReplaced DEF DeployInv, DeployTypes
  <2>5. UNCHANGED <<project, task, asked, ops, edits, calls>>
    BY <1>13 DEF StartRecovery
  <2>6. Moved /\ DOMAIN approvals' = DOMAIN approvals
    BY <1>2, <2>1, <2>5, ConsumeMoves DEF With
  <2>7. Len(approvals') = Len(approvals)
    BY <1>2, <2>6, LenProperties DEF RowsOK
  <2>8. Len(opRuns') = Len(opRuns)
    BY <2>4, LenProperties DEF DeployInv, DeployTypes
  <2> QED BY <2>2, <2>4, <2>5, <2>6, <2>7, <2>8 DEF OpCounts, Moved, Same
<1>14. CASE (ChangeConfig(project.checks) \/ Request \/ \E i \in DOMAIN approvals : Decide(i))
              /\ UNCHANGED <<ops, edits, calls, opRuns>>
  <2>1. Moved
    BY <1>2, <1>14, ChangeMoves, RequestMoves, DecideMoves
  <2>2. (DOMAIN approvals' = DOMAIN approvals /\ UNCHANGED asked) \/ Request
    BY <1>14 DEF ChangeConfig, Decide, With
  <2>3. UNCHANGED <<ops, opRuns>> /\ edits' \subseteq edits /\ calls' \subseteq calls
    BY <1>14
  <2> QED BY <1>1, <1>4, <2>1, <2>2, <2>3
<1>15. CASE UNCHANGED opVars
  BY <1>1, <1>15, OpStill DEF opVars
<1> QED BY <1>1, <1>5, <1>6, <1>7, <1>8, <1>9, <1>10, <1>11, <1>12, <1>13, <1>14, <1>15 DEF OpNext

LEMMA OpTyped == OpInv => OpTypeOK
<1> SUFFICES ASSUME OpInv PROVE OpTypeOK
  OBVIOUS
<1>1. \A i \in DOMAIN opRuns : opRuns[i] \in Run
  BY LenProperties, ElementOfSeq DEF OpInv, DeployInv, DeployTypes
<1> QED BY <1>1 DEF OpInv, OpCounts, OpTypeOK, Run, RunStates
-----------------------------------------------------------------------------
\* What is on its way is about a proposal and an approval that are there.
CuCounts ==
  /\ project.config \in 1..MaxConfigs /\ busy \in BOOLEAN
  /\ Len(proposals) <= MaxProposals
  /\ \A i \in DOMAIN proposals : proposals[i].base \in 1..MaxConfigs
  /\ evals \subseteq [proposal : DOMAIN proposals, verdict : {"passed", "failed"}, looked : BOOLEAN]
  /\ applies \subseteq [proposal : DOMAIN proposals \union {Reverted}, approval : DOMAIN approvals]

CuInv == CurateInv /\ CuCounts

LEMMA CuCountsInit == CuInit => CuInv
<1> SUFFICES ASSUME CuInit PROVE CuInv
  OBVIOUS
<1>1. MaxConfigs \in Nat \ {0} /\ MaxProposals \in Nat
  BY ApprovalsAssumption, CuratorAssumption
<1>2. Len(proposals) = 0 /\ DOMAIN proposals = {}
  BY EmptySeq, LenProperties DEF CuInit
<1>3. project.config \in 1..MaxConfigs
  BY <1>1 DEF CuInit, ApInit
<1>4. evals = {} /\ applies = {} /\ busy \in BOOLEAN
  BY DEF CuInit
<1> QED BY <1>1, <1>2, <1>3, <1>4, CurateInit DEF CuInv, CuCounts

\* A step that adds no proposal, and changes the base of none.
LEMMA CuKept ==
  ASSUME CuInv, CurateInv', DOMAIN proposals' = DOMAIN proposals, DOMAIN approvals \subseteq DOMAIN approvals',
         \A i \in DOMAIN proposals : proposals'[i].base = proposals[i].base,
         project'.config \in 1..MaxConfigs, busy' \in BOOLEAN, evals' \subseteq evals, applies' \subseteq applies
  PROVE  CuInv'
<1>1. proposals \in Seq(Proposal) /\ proposals' \in Seq(Proposal)
  BY DEF CuInv, CurateInv, ProposalTypes
<1>2. Len(proposals') = Len(proposals)
  BY <1>1, LenProperties
<1>3. evals' \subseteq [proposal : DOMAIN proposals', verdict : {"passed", "failed"}, looked : BOOLEAN]
  BY DEF CuInv, CuCounts
<1>4. applies' \subseteq [proposal : DOMAIN proposals' \union {Reverted}, approval : DOMAIN approvals']
  BY DEF CuInv, CuCounts
<1> QED BY <1>2, <1>3, <1>4 DEF CuInv, CuCounts

LEMMA CuCountsStep ==
  ASSUME CuInv, [CuNext]_cuVars
  PROVE  CuInv'
<1>1. CurateInv /\ CurateInv'
  BY CurateStep DEF CuInv
<1>2. MaxConfigs \in Nat \ {0} /\ MaxProposals \in Nat
  BY ApprovalsAssumption, CuratorAssumption
<1>3. ASSUME UNCHANGED <<project, approvals, proposals, busy>>, evals' \subseteq evals, applies' \subseteq applies
      PROVE  CuInv'
  BY <1>1, <1>3, CuKept DEF CuInv, CuCounts
<1>4. CASE CreateProposal
  <2> PICK base \in 1..project.config :
             proposals' = Append(proposals, [status |-> "draft", base |-> base, verdict |-> "none"])
    BY <1>4 DEF CreateProposal
  <2> DEFINE r == [status |-> "draft", base |-> base, verdict |-> "none"]
  <2>0. base \in Nat /\ base \in 1..MaxConfigs
    BY <1>2 DEF CuInv, CuCounts
  <2>1. r \in Proposal /\ r.base \in 1..MaxConfigs
    BY <2>0 DEF Proposal
  <2>2. proposals' = Append(proposals, r) /\ Len(proposals) < MaxProposals
        /\ UNCHANGED <<project, approvals, evals, applies, busy>>
    BY <1>4 DEF CreateProposal, apVars
  <2> HIDE DEF r
  <2>3. proposals \in Seq(Proposal)
    BY <1>1 DEF CurateInv, ProposalTypes
  <2>4. PICK n \in Nat : n = Len(proposals) /\ DOMAIN proposals = 1..n
    BY <2>3, LenProperties
  <2>5. /\ Len(proposals') = n + 1 /\ proposals' \in Seq(Proposal)
        /\ \A i \in 1..n : proposals'[i] = proposals[i]
        /\ proposals'[n + 1] = r
    BY <2>1, <2>2, <2>3, <2>4, AppendProperties
  <2>6. DOMAIN proposals' = 1..(n + 1)
    BY <2>5, LenProperties
  <2>7. \A i \in DOMAIN proposals' : i \in DOMAIN proposals \/ i = n + 1
    BY <2>4, <2>6
  <2>8. DOMAIN proposals \subseteq DOMAIN proposals'
    BY <2>4, <2>6
  <2>9. \A i \in DOMAIN proposals' : proposals'[i].base \in 1..MaxConfigs
    BY <2>1, <2>4, <2>5, <2>7 DEF CuInv, CuCounts
  <2>10. Len(proposals') <= MaxProposals
    BY <1>2, <2>2, <2>4, <2>5
  <2> QED BY <1>1, <2>2, <2>8, <2>9, <2>10 DEF CuInv, CuCounts
<1>5. ASSUME NEW i \in DOMAIN proposals, Materialize(i) \/ FailDraft(i) \/ Reject(i) PROVE CuInv'
  <2>1. PICK s \in {"proposed", "rejected", "failed"} : Status(i, s)
    BY <1>5 DEF Materialize, FailDraft, Reject
  <2>2. proposals[i] \in Proposal
    BY <1>1, ProposalAt DEF CurateInv
  <2>3. DOMAIN proposals' = DOMAIN proposals /\ \A j \in DOMAIN proposals : proposals'[j].base = proposals[j].base
    BY <2>1, <2>2 DEF Status, Proposal
  <2>4. DOMAIN approvals' = DOMAIN approvals /\ UNCHANGED <<project, evals, applies, busy>>
    BY <1>5 DEF Materialize, FailDraft, Reject, apVars, With
  <2>5. project'.config \in 1..MaxConfigs /\ busy' \in BOOLEAN
    BY <2>4 DEF CuInv, CuCounts
  <2> QED BY <1>1, <2>3, <2>4, <2>5, CuKept
<1>6. ASSUME NEW i \in DOMAIN proposals, Evaluate(i) PROVE CuInv'
  <2>1. UNCHANGED <<project, approvals, proposals, applies, busy>>
    BY <1>6 DEF Evaluate, apVars
  <2>2. evals' \subseteq [proposal : DOMAIN proposals, verdict : {"passed", "failed"}, looked : BOOLEAN]
    BY <1>6 DEF Evaluate, CuInv, CuCounts
  <2> QED BY <1>1, <2>1, <2>2 DEF CuInv, CuCounts
<1>7. ASSUME NEW e \in evals, RecordEvaluation(e) PROVE CuInv'
  <2>1. e.proposal \in DOMAIN proposals
    BY DEF CuInv, CuCounts
  <2>2. proposals[e.proposal] \in Proposal
    BY <1>1, <2>1, ProposalAt DEF CurateInv
  <2>3. DOMAIN proposals' = DOMAIN proposals /\ \A j \in DOMAIN proposals : proposals'[j].base = proposals[j].base
    BY <1>7, <2>1, <2>2 DEF RecordEvaluation, Proposal
  <2>4. UNCHANGED <<project, approvals, applies, busy>> /\ evals' \subseteq evals
    BY <1>7 DEF RecordEvaluation, apVars
  <2>5. project'.config \in 1..MaxConfigs /\ busy' \in BOOLEAN
    BY <2>4 DEF CuInv, CuCounts
  <2> QED BY <1>1, <2>3, <2>4, <2>5, CuKept
<1>14. ASSUME NEW e \in evals, LookAgain(e) PROVE CuInv'
  <2>1. UNCHANGED <<project, approvals, proposals, applies, busy>>
    BY <1>14 DEF LookAgain, apVars
  <2>2. e \in [proposal : DOMAIN proposals, verdict : {"passed", "failed"}, looked : BOOLEAN]
    BY DEF CuInv, CuCounts
  <2>3. [e EXCEPT !.looked = TRUE] \in [proposal : DOMAIN proposals, verdict : {"passed", "failed"}, looked : BOOLEAN]
    BY <2>2
  <2>4. evals' \subseteq [proposal : DOMAIN proposals, verdict : {"passed", "failed"}, looked : BOOLEAN]
    BY <1>14, <2>3 DEF LookAgain, CuInv, CuCounts
  <2> QED BY <1>1, <2>1, <2>4 DEF CuInv, CuCounts
<1>8. CASE AskActivation \/ UNCHANGED cuVars
  BY <1>3, <1>8 DEF AskActivation, cuVars, apVars
<1>9. CASE Work
  <2>1. UNCHANGED <<project, approvals, proposals, evals, applies>> /\ busy' \in BOOLEAN
    BY <1>9 DEF Work, apVars
  <2> QED BY <1>1, <2>1, CuKept DEF CuInv, CuCounts
<1>10. ASSUME NEW a \in DOMAIN approvals, CheckActivation(a) PROVE CuInv'
  <2>1. approvals[a].target \in Proposed
    BY <1>1, <1>10 DEF CheckActivation, CurateInv, ProposalTypes
  <2>2. applies' = applies \union {[proposal |-> approvals[a].target, approval |-> a]}
        /\ UNCHANGED <<project, approvals, proposals, evals, busy>>
    BY <1>10 DEF CheckActivation, apVars
  <2>3. applies' \subseteq [proposal : DOMAIN proposals \union {Reverted}, approval : DOMAIN approvals]
    BY <2>1, <2>2 DEF CuInv, CuCounts, Proposed
  <2> QED BY <1>1, <2>2, <2>3 DEF CuInv, CuCounts
<1>11. ASSUME NEW c \in applies, Apply(c) PROVE CuInv'
  <2>1. DOMAIN approvals' = DOMAIN approvals /\ UNCHANGED <<evals, busy>> /\ applies' \subseteq applies
    BY <1>11 DEF Apply
  <2>2. project'.config = project.config + 1 /\ project.config < MaxConfigs
    BY <1>1, <1>11 DEF Apply, CurateInv, RowsOK
  <2>3. project'.config \in 1..MaxConfigs /\ busy' \in BOOLEAN
    BY <2>1, <2>2, ConfigCounts DEF CuInv, CuCounts
  <2>4. \A i \in DOMAIN proposals : proposals[i] \in Proposal
    BY <1>1, ProposalAt DEF CurateInv
  <2>5. DOMAIN proposals' = DOMAIN proposals /\ \A j \in DOMAIN proposals : proposals'[j].base = proposals[j].base
    BY <1>11, <2>4 DEF Apply, Proposal
  <2> QED BY <1>1, <2>1, <2>3, <2>5, CuKept
<1>12. ASSUME NEW c \in applies, RefuseApply(c) PROVE CuInv'
  BY <1>3, <1>12 DEF RefuseApply, apVars
<1>13. CASE (ChangeConfig(project.checks) \/ Request \/ \E a \in DOMAIN approvals : Decide(a))
             /\ UNCHANGED <<proposals, evals, applies, busy>>
  <2>1. Moved
    BY <1>1, <1>13, ChangeMoves, RequestMoves, DecideMoves DEF CurateInv
  <2>2. CASE ChangeConfig(project.checks)
    <3>1. project'.config = project.config + 1 /\ project.config < MaxConfigs
      BY <1>1, <2>2 DEF ChangeConfig, CurateInv, RowsOK
    <3>2. project'.config \in 1..MaxConfigs
      BY <3>1, ConfigCounts DEF CuInv, CuCounts
    <3> QED BY <1>1, <1>13, <2>1, <3>2, CuKept DEF CuInv, CuCounts, Moved
  <2>3. CASE UNCHANGED project
    BY <1>1, <1>13, <2>1, <2>3, CuKept DEF CuInv, CuCounts, Moved
  <2> QED BY <1>13, <2>2, <2>3 DEF Request, Decide
<1> QED BY <1>4, <1>5, <1>6, <1>7, <1>8, <1>9, <1>10, <1>11, <1>12, <1>13, <1>14 DEF CuNext

LEMMA CuTyped == CuInv => CuTypeOK
<1> SUFFICES ASSUME CuInv PROVE CuTypeOK
  OBVIOUS
<1>1. \A i \in DOMAIN proposals : proposals[i] \in [status : {"draft", "proposed", "evaluated"} \union Ended,
                         base : 1..MaxConfigs, verdict : {"none", "passed", "failed"}]
  BY ProposalAt DEF CuInv, CuCounts, CurateInv, Proposal
<1> QED BY <1>1 DEF CuInv, CuCounts, CuTypeOK
=============================================================================
