----------------------------- MODULE IntakeProofs -----------------------------
(***************************************************************************)
(* Theorems about Intake, for any bounds on versions and proposals, with   *)
(* other commands running beside a start or a bootstrap, or not; about the *)
(* Questions asked of a brief; about Routing, for any providers, quota     *)
(* domains, limits, trials and numbers of tasks; and about ExecutionPlans, *)
(* for any plans, cyclic and ill formed ones included.                     *)
(***************************************************************************)
EXTENDS Intake, Questions, Routing, ExecutionPlans, SequenceTheorems, FiniteSetTheorems, TLAPS

ProposalRow == [version : Nat, late : BOOLEAN, state : {"presented", "superseded", "accepted", "invalidated"}]
Submission  == [proposal : Nat, late : BOOLEAN, queued : BOOLEAN]

\* What was seen let the command go on.
Accepting(look) == /\ look.plan \in DOMAIN props /\ look.state = "presented" /\ look.last = 0
                   /\ look.version = props[look.plan].version
Writing(look)   == look.plan \in DOMAIN props /\ look.last = look.plan /\ look.prior = FALSE

IntakeRows ==
  /\ "version" \in DOMAIN brief /\ "state" \in DOMAIN brief /\ brief.version \in Nat
  /\ props \in Seq(ProposalRow) /\ submissions \in Seq(Submission)
  /\ projects \in {0, 1}
  /\ (\A look \in accepts : Accepting(look)) /\ \A look \in submits : Writing(look)

\* A proposal is submitted once in time.
InTimeOnce ==
  \A j, k \in DOMAIN submissions :
    submissions[j].proposal = submissions[k].proposal /\ ~submissions[j].late /\ ~submissions[k].late => j = k

\* No active acceptance is overlooked.
LastKnown == accepted \in {0} \union Active /\ (accepted = 0 => Active = {})

IntakeInv == IntakeRows /\ LastKnown /\ AcceptanceCurrent /\ RevisionStops /\ InTimeOnce

LEMMA IntakeInit == InInit => IntakeInv
<1>1. ASSUME InInit PROVE /\ brief = [state |-> "DRAFT", version |-> 1] /\ projects = 0
                          /\ props \in Seq(ProposalRow) /\ submissions \in Seq(Submission)
                          /\ DOMAIN props = {} /\ DOMAIN submissions = {} /\ accepted = 0 /\ accepts = {} /\ submits = {}
  BY <1>1, EmptySeq, LenProperties DEF InInit
<1> QED BY <1>1 DEF IntakeInv, IntakeRows, LastKnown, AcceptanceCurrent, RevisionStops, InTimeOnce, InTime, Active

LEMMA SeqFrom ==
  ASSUME NEW S, NEW s \in Seq(S), NEW f \in [DOMAIN s -> S]
  PROVE  f \in Seq(S)
<1>1. Len(s) \in Nat /\ DOMAIN s = 1..Len(s)
  BY LenProperties
<1> QED BY <1>1

LEMMA PropAt ==
  ASSUME IntakeRows, NEW i \in DOMAIN props
  PROVE  props[i] \in ProposalRow /\ i \in Nat
BY LenProperties, ElementOfSeq DEF IntakeRows

LEMMA SubmissionAt ==
  ASSUME IntakeRows, NEW j \in DOMAIN submissions
  PROVE  submissions[j] \in Submission
BY LenProperties, ElementOfSeq DEF IntakeRows

\* A brief goes to another state and keeps its version.
LEMMA BriefMoves ==
  ASSUME IntakeRows, NEW s, brief' = In(s) \/ brief' = brief
  PROVE  "version" \in DOMAIN brief' /\ "state" \in DOMAIN brief' /\ brief'.version = brief.version
BY DEF IntakeRows, In

\* Steps that leave proposals, submissions and projects alone.
LEMMA BriefStep ==
  ASSUME IntakeInv, NEW s, brief' = In(s) \/ brief' = brief,
         \A look \in accepts' : Accepting(look), \A look \in submits' : Writing(look),
         UNCHANGED <<props, accepted, submissions, projects>>
  PROVE  IntakeInv'
<1>1. (\A look \in accepts' : Accepting(look)') /\ \A look \in submits' : Writing(look)'
  BY DEF Accepting, Writing
<1> QED BY <1>1, BriefMoves DEF IntakeInv, IntakeRows, LastKnown, AcceptanceCurrent, RevisionStops, InTimeOnce, InTime, Active

\* What is added in time is of the accepted plan, and of one that has no submission.
LEMMA WriteStep ==
  ASSUME IntakeInv, NEW look, Writing(look), look.plan \in Nat, Writes(look), submits' \subseteq submits,
         UNCHANGED <<props, accepted, accepts, projects>>
  PROVE  IntakeInv'
<1> DEFINE i == look.plan
           r == [proposal |-> i, queued |-> TRUE, late |-> ~Still(look)]
<1>0. (~Still(look)) \in BOOLEAN
  BY DEF Still
<1>1. r \in Submission /\ r.proposal = i /\ (~r.late => ~PriorSubmission(i) /\ i \in Active)
  <2>1. ASSUME Still(look) PROVE ~PriorSubmission(i) /\ i \in Active
    <3>1. look.last = accepted /\ look.prior = PriorSubmission(i)
      BY <2>1 DEF Still, Look
    <3>2. accepted = i /\ 0 \notin DOMAIN props
      BY <3>1, LenProperties DEF Writing, IntakeInv, IntakeRows
    <3>3. accepted # 0
      BY <3>2 DEF Writing
    <3> QED BY <3>1, <3>2, <3>3 DEF Writing, IntakeInv, LastKnown
  <2> QED BY <1>0, <2>1 DEF Submission
<1>2. submissions' = Append(submissions, r) /\ brief' = In("REGISTERED")
  BY DEF Writes
<1> HIDE DEF r, i
<1>3. /\ submissions' \in Seq(Submission) /\ Len(submissions') = Len(submissions) + 1
      /\ \A j \in 1..Len(submissions) : submissions'[j] = submissions[j]
      /\ submissions'[Len(submissions) + 1] = r
  BY <1>1, <1>2, AppendProperties DEF IntakeInv, IntakeRows
<1>4. /\ Len(submissions) \in Nat /\ DOMAIN submissions = 1..Len(submissions)
      /\ DOMAIN submissions' = 1..(Len(submissions) + 1)
  BY <1>3, LenProperties DEF IntakeInv, IntakeRows
<1>5. ~r.late => \A j \in DOMAIN submissions : submissions'[j].proposal # i
  BY <1>1, <1>3, <1>4 DEF PriorSubmission
<1>6. InTimeOnce'
  BY <1>1, <1>3, <1>4, <1>5 DEF IntakeInv, InTimeOnce
<1>7. RevisionStops'
  BY <1>1, <1>3, <1>4 DEF IntakeInv, RevisionStops, Active
<1>8. (\A k \in accepts' : Accepting(k)') /\ \A k \in submits' : Writing(k)'
  BY DEF IntakeInv, IntakeRows, Accepting, Writing
<1> QED BY <1>2, <1>3, <1>6, <1>7, <1>8, BriefMoves DEF IntakeInv, IntakeRows, LastKnown, AcceptanceCurrent, InTime, Active

LEMMA ReviseStep ==
  ASSUME IntakeInv, Revise
  PROVE  IntakeInv'
<1>1. \A i \in DOMAIN props : props[i] \in ProposalRow
  BY PropAt DEF IntakeInv
<1>2. props' = [i \in DOMAIN props |-> IF i \in Active THEN [props[i] EXCEPT !.state = "invalidated"] ELSE props[i]]
  BY DEF Revise, TakenBack
<1>3. \A i \in DOMAIN props : /\ [props[i] EXCEPT !.state = "invalidated"] \in ProposalRow
                              /\ [props[i] EXCEPT !.state = "invalidated"].state = "invalidated"
  BY <1>1 DEF ProposalRow
<1>4. props' \in [DOMAIN props -> ProposalRow]
  BY <1>1, <1>2, <1>3
<1>5. props' \in Seq(ProposalRow) /\ DOMAIN props' = DOMAIN props
  BY <1>4, SeqFrom DEF IntakeInv, IntakeRows
<1>6. Active' = {} /\ accepted' = 0
  BY <1>2, <1>3, <1>5 DEF Active, Revise, TakenBack, IntakeInv, LastKnown
<1>7. \A j \in DOMAIN submissions : /\ submissions[j] \in Submission
                                    /\ [submissions[j] EXCEPT !.queued = FALSE] \in Submission
                                    /\ [submissions[j] EXCEPT !.queued = FALSE].proposal = submissions[j].proposal
                                    /\ [submissions[j] EXCEPT !.queued = FALSE].late = submissions[j].late
                                    /\ ~[submissions[j] EXCEPT !.queued = FALSE].queued
  BY SubmissionAt DEF IntakeInv, Submission
<1>8. /\ submissions' \in [DOMAIN submissions -> Submission]
      /\ \A j \in DOMAIN submissions :
           /\ submissions'[j].proposal = submissions[j].proposal /\ submissions'[j].late = submissions[j].late
           /\ submissions[j].proposal \in Active => ~submissions'[j].queued
           /\ submissions[j].proposal \notin Active => submissions'[j] = submissions[j]
  BY <1>7 DEF Revise, TakenBack
<1>9. submissions' \in Seq(Submission) /\ InTimeOnce'
  BY <1>8, SeqFrom DEF IntakeInv, IntakeRows, InTimeOnce
<1>10. RevisionStops'
  BY <1>8 DEF IntakeInv, RevisionStops
<1>11. brief'.version \in Nat /\ "version" \in DOMAIN brief' /\ "state" \in DOMAIN brief'
  BY DEF Revise, IntakeInv, IntakeRows
<1>12. UNCHANGED projects /\ (\A look \in accepts' : Accepting(look)') /\ \A look \in submits' : Writing(look)'
  <2>1. \A i \in DOMAIN props : props'[i].version = props[i].version
    BY <1>1, <1>2 DEF ProposalRow
  <2> QED BY <1>5, <2>1 DEF Revise, IntakeInv, IntakeRows, Accepting, Writing
<1> QED BY <1>5, <1>6, <1>9, <1>10, <1>11, <1>12 DEF IntakeInv, IntakeRows, LastKnown, AcceptanceCurrent, InTime

LEMMA ProposeStep ==
  ASSUME IntakeInv, NEW v \in Nat, Propose(v)
  PROVE  IntakeInv'
<1> DEFINE old == [i \in DOMAIN props |-> IF props[i].state = "presented"
                                          THEN [props[i] EXCEPT !.state = "superseded"] ELSE props[i]]
           r == [version |-> v, state |-> "presented", late |-> FALSE]
<1>1. \A i \in DOMAIN props : props[i] \in ProposalRow
  BY PropAt DEF IntakeInv
<1>2. \A i \in DOMAIN props :
        /\ [props[i] EXCEPT !.state = "superseded"] \in ProposalRow
        /\ [props[i] EXCEPT !.state = "superseded"].state = "superseded"
        /\ [props[i] EXCEPT !.state = "superseded"].version = props[i].version
        /\ [props[i] EXCEPT !.state = "superseded"].late = props[i].late
  BY <1>1 DEF ProposalRow
<1>3. old \in [DOMAIN props -> ProposalRow]
  BY <1>1, <1>2
<1>4. old \in Seq(ProposalRow) /\ DOMAIN old = DOMAIN props
  BY <1>3, SeqFrom DEF IntakeInv, IntakeRows
<1>5. \A i \in DOMAIN props : /\ old[i].version = props[i].version /\ old[i].late = props[i].late
                              /\ (old[i].state = "accepted") <=> (props[i].state = "accepted")
  BY <1>2
<1>6. r \in ProposalRow /\ r.state = "presented"
  BY DEF IntakeInv, IntakeRows, ProposalRow
<1>7. props' = Append(old, r) /\ brief' = In("PROPOSED") /\ UNCHANGED <<accepted, accepts, submits, submissions, projects>>
  BY DEF Propose
<1> HIDE DEF old, r
<1>8. /\ props' \in Seq(ProposalRow) /\ Len(props') = Len(old) + 1
      /\ \A i \in 1..Len(old) : props'[i] = old[i]
      /\ props'[Len(old) + 1] = r
  BY <1>4, <1>6, <1>7, AppendProperties
<1>9. PICK n \in Nat : n = Len(old) /\ DOMAIN props = 1..n /\ DOMAIN props' = 1..(n + 1)
  BY <1>4, <1>8, LenProperties
<1>10. \A i \in DOMAIN props' : i \in DOMAIN props \/ i = n + 1
  BY <1>9
<1>11. \A i \in DOMAIN props : /\ i \in DOMAIN props' /\ props'[i].version = props[i].version /\ props'[i].late = props[i].late
                               /\ (props'[i].state = "accepted") <=> (props[i].state = "accepted")
  BY <1>5, <1>8, <1>9
<1>12. props'[n + 1].state # "accepted"
  BY <1>6, <1>8, <1>9
<1>13. Active' = Active
  <2>1. ASSUME NEW i \in Active' PROVE i \in Active
    <3>1. i \in DOMAIN props' /\ props'[i].state = "accepted" BY DEF Active
    <3>2. i \in DOMAIN props BY <1>10, <1>12, <3>1
    <3> QED BY <1>11, <3>1, <3>2 DEF Active
  <2>2. ASSUME NEW i \in Active PROVE i \in Active'
    BY <1>11, <2>2 DEF Active
  <2> QED BY <2>1, <2>2
<1>14. (\A look \in accepts' : Accepting(look)') /\ \A look \in submits' : Writing(look)'
  BY <1>7, <1>11 DEF IntakeInv, IntakeRows, Accepting, Writing
<1>15. InTime' = InTime /\ \A i \in InTime : props'[i].version = props[i].version
  BY <1>11, <1>13 DEF InTime, Active
<1> QED BY <1>7, <1>8, <1>13, <1>14, <1>15, BriefMoves
        DEF IntakeInv, IntakeRows, LastKnown, AcceptanceCurrent, RevisionStops, InTimeOnce

\* An acceptance in time is of the brief as it is, and no other is active.
LEMMA AcceptStep ==
  ASSUME IntakeInv, NEW look \in accepts, RecordAccept(look)
  PROVE  IntakeInv'
<1>0. /\ accepts' \subseteq accepts /\ submits' = submits /\ UNCHANGED <<submissions, projects>> /\ Accepting(look)
      /\ (\A k \in accepts' : Accepting(k)) /\ \A k \in submits' : Writing(k)
  BY DEF RecordAccept, IntakeInv, IntakeRows
<1>1. CASE ~CanBecome("ACCEPTED")
  BY <1>0, <1>1, BriefStep DEF RecordAccept
<1>2. CASE CanBecome("ACCEPTED")
  <2>100. PICK i \in DOMAIN props : i = look.plan
    BY <1>0 DEF Accepting
  <2> DEFINE r == [props[i] EXCEPT !.state = "accepted", !.late = ~Still(look)]
  <2>0. (~Still(look)) \in BOOLEAN
    BY DEF Still
  <2>10. ASSUME Still(look) PROVE props[i].version = brief.version /\ accepted = 0
    BY <1>0, <2>100, <2>10 DEF Still, Look, Accepting
  <2>1. r \in ProposalRow /\ r.version = props[i].version /\ r.state = "accepted"
        /\ (~r.late => props[i].version = brief.version /\ accepted = 0)
    BY <2>0, <2>10, PropAt DEF IntakeInv, ProposalRow
  <2>2. /\ props' = [props EXCEPT ![i] = r] /\ brief' = In("ACCEPTED") /\ accepted' = i
    BY <1>2, <2>100 DEF RecordAccept
  <2> HIDE DEF r
  <2>3. i \in 1..Len(props) /\ DOMAIN props = 1..Len(props)
    BY LenProperties DEF IntakeInv, IntakeRows
  <2>4. /\ props' \in Seq(ProposalRow) /\ DOMAIN props' = DOMAIN props
        /\ props'[i] = r /\ \A j \in DOMAIN props \ {i} : props'[j] = props[j]
    BY <2>1, <2>2, <2>3, ExceptSeq, LenProperties DEF IntakeInv, IntakeRows
  <2>5. Active' = Active \union {i}
    BY <2>1, <2>2, <2>4 DEF Active
  <2>6. InTime' \subseteq InTime \union {i}
    <3>1. ASSUME NEW j \in InTime', j # i PROVE j \in InTime
      <4>1. j \in Active' /\ ~props'[j].late BY DEF InTime
      <4>2. j \in Active BY <2>5, <3>1, <4>1
      <4>3. props'[j] = props[j] BY <2>4, <3>1, <4>2 DEF Active
      <4> QED BY <4>1, <4>2, <4>3 DEF InTime
    <3> QED BY <3>1
  <2>7. brief'.version = brief.version
    BY <2>2, BriefMoves DEF IntakeInv
  <2>8. AcceptanceCurrent'
    <3>1. CASE r.late
      <4>1. InTime' \subseteq InTime \ {i}
        BY <2>4, <2>6, <3>1 DEF InTime
      <4>2. \A j \in InTime \ {i} : props'[j] = props[j]
        BY <2>4 DEF InTime, Active
      <4> QED BY <4>1, <4>2, <2>7 DEF IntakeInv, AcceptanceCurrent
    <3>2. CASE ~r.late
      <4>1. InTime' \subseteq {i} /\ props'[i].version = brief.version
        BY <2>1, <2>4, <2>6, <3>2 DEF InTime, IntakeInv, LastKnown
      <4> QED BY <4>1, <2>7 DEF AcceptanceCurrent
    <3> QED BY <3>1, <3>2
  <2>9. RevisionStops'
    BY <1>0, <2>5 DEF IntakeInv, RevisionStops
  <2>11. \A j \in DOMAIN props : props'[j].version = props[j].version
    BY <2>1, <2>4
  <2>12. (\A k \in accepts' : Accepting(k)') /\ \A k \in submits' : Writing(k)'
    BY <1>0, <2>4, <2>11 DEF Accepting, Writing
  <2> QED BY <1>0, <2>2, <2>4, <2>5, <2>8, <2>9, <2>12, BriefMoves DEF IntakeInv, IntakeRows, LastKnown, InTimeOnce
<1> QED BY <1>1, <1>2

LEMMA StartTasksStep ==
  ASSUME IntakeInv, StartTasks
  PROVE  IntakeInv'
<1>1. PICK j \in DOMAIN submissions : submissions' = [submissions EXCEPT ![j].queued = FALSE]
  BY DEF StartTasks
<1> DEFINE r == [submissions[j] EXCEPT !.queued = FALSE]
<1>2. /\ r \in Submission /\ r.proposal = submissions[j].proposal /\ r.late = submissions[j].late /\ ~r.queued
      /\ submissions' = [submissions EXCEPT ![j] = r]
  BY <1>1, SubmissionAt DEF IntakeInv, Submission
<1> HIDE DEF r
<1>3. j \in 1..Len(submissions) /\ DOMAIN submissions = 1..Len(submissions)
  BY LenProperties DEF IntakeInv, IntakeRows
<1>4. /\ submissions' \in Seq(Submission) /\ DOMAIN submissions' = DOMAIN submissions
      /\ \A k \in DOMAIN submissions : /\ submissions'[k].proposal = submissions[k].proposal
                                       /\ submissions'[k].late = submissions[k].late
                                       /\ submissions'[k].queued => submissions[k].queued
  BY <1>2, <1>3, ExceptSeq, LenProperties DEF IntakeInv, IntakeRows
<1>5. UNCHANGED <<brief, props, accepted, accepts, submits, projects>>
  BY DEF StartTasks, planVars
<1>6. (\A look \in accepts' : Accepting(look)') /\ \A look \in submits' : Writing(look)'
  BY <1>5 DEF IntakeInv, IntakeRows, Accepting, Writing
<1> QED BY <1>4, <1>5, <1>6
        DEF IntakeInv, IntakeRows, LastKnown, AcceptanceCurrent, RevisionStops, InTimeOnce, InTime, Active

LEMMA OperateStep ==
  ASSUME IntakeInv, Operate
  PROVE  IntakeInv'
<1>1. UNCHANGED <<brief, props, accepted, accepts, submits, submissions>>
  BY DEF Operate, planVars
<1>2. projects' \in {0, 1}
  BY DEF Operate, ProjectFound, IntakeInv, IntakeRows
<1> QED BY <1>1, <1>2
        DEF IntakeInv, IntakeRows, Accepting, Writing, LastKnown, AcceptanceCurrent, RevisionStops, InTimeOnce, InTime, Active

-----------------------------------------------------------------------------
(* Types of the intake.                                                    *)

BootRows     == [state : {"none", "running", "failed", "completed"}, done : 0..Steps]
ProgressRows == [state : {"none", "in_progress", "failed", "completed"},
                 submitted : BOOLEAN, target : {"directory", "project"}]
CallPlaces   == {"none", "claimed", "boot", "move", "mark", "operate", "record", "undo", "booted", "submit",
                 "apply", "finish"}
CallRow(c)   == /\ DOMAIN c = {"by", "proposal", "look", "at"} /\ c.by \in {"none", "start", "bootstrap"}
                /\ c.proposal \in 0..MaxProps /\ c.at \in CallPlaces

\* A call that is not about to write a submission.
Called(c)    == CallRow(c) /\ c.at # "apply" /\ c.look = NoLook

\* What is proposed, and the versions of what is.
PlansTyped ==
  /\ brief \in [state : BriefStates, version : 1..MaxVersion]
  /\ Len(props) <= MaxProps
  /\ \A i \in DOMAIN props : props[i].version \in 1..MaxVersion
  /\ \A j \in DOMAIN submissions : submissions[j].proposal \in DOMAIN props

CallsTyped ==
  /\ boot \in BootRows /\ request \in [1..MaxProps -> ProgressRows] /\ CallRow(call)
  /\ IF call.at = "apply" THEN Writing(call.look) ELSE call.look = NoLook

InCounts == IntakeInv /\ PlansTyped /\ CallsTyped

LEMMA InCountsInit == InInit => InCounts
<1> SUFFICES ASSUME InInit PROVE InCounts
  OBVIOUS
<1>1. MaxVersion \in Nat \ {0} /\ MaxProps \in Nat
  BY IntakeAssumption
<1>2. 1 \in 1..MaxVersion /\ 0 \in 0..MaxProps /\ 0 \in 0..Steps
  BY <1>1 DEF Steps
<1>3. Len(props) = 0 /\ DOMAIN props = {} /\ DOMAIN submissions = {}
  BY EmptySeq, LenProperties DEF InInit
<1>4. brief \in [state : BriefStates, version : 1..MaxVersion]
  BY <1>2 DEF InInit, BriefStates
<1>5. boot \in BootRows
  BY <1>2 DEF InInit, BootRows
<1>6. request \in [1..MaxProps -> ProgressRows]
  BY DEF InInit, ProgressRows
<1>7. CallRow(call) /\ call.at = "none" /\ call.look = NoLook
  BY <1>2 DEF InInit, Idle, CallRow, CallPlaces
<1> QED BY <1>1, <1>3, <1>4, <1>5, <1>6, <1>7, IntakeInit DEF InCounts, PlansTyped, CallsTyped

LEMMA ProposalCounted ==
  ASSUME InCounts, NEW i \in DOMAIN props
  PROVE  i \in 1..MaxProps /\ i \in 0..MaxProps /\ i \in Nat
<1>1. PICK n \in Nat : n = Len(props) /\ DOMAIN props = 1..n
  BY LenProperties DEF InCounts, IntakeInv, IntakeRows
<1>2. n <= MaxProps /\ MaxProps \in Nat
  BY <1>1, IntakeAssumption DEF InCounts, PlansTyped
<1> QED BY <1>1, <1>2

LEMMA AcceptedCounted ==
  ASSUME InCounts, CanSubmit(accepted)
  PROVE  accepted \in DOMAIN props
BY DEF InCounts, IntakeInv, LastKnown, CanSubmit, Active

LEMMA WritePlanStep ==
  ASSUME InCounts, NEW look \in submits, WritePlan(look)
  PROVE  IntakeInv'
<1>1. /\ submits' = submits \ {look} /\ UNCHANGED <<props, accepted, accepts, projects>> /\ IntakeInv
      /\ Writes(look) \/ (~CanBecome("REGISTERED") /\ UNCHANGED <<brief, submissions>>)
  BY DEF WritePlan, InCounts
<1>2. Writing(look) /\ (\A k \in accepts' : Accepting(k)) /\ \A k \in submits' : Writing(k)
  BY <1>1 DEF IntakeInv, IntakeRows
<1>3. look.plan \in Nat
  BY <1>2, ProposalCounted DEF Writing
<1> QED BY <1>1, <1>2, <1>3, WriteStep, BriefStep

LEMMA CallWritesStep ==
  ASSUME InCounts, CallWrites
  PROVE  IntakeInv'
<1>1. Writes(call.look) /\ UNCHANGED <<props, accepted, accepts, submits, projects>> /\ IntakeInv
  BY DEF CallWrites, planVars, InCounts
<1>2. Writing(call.look)
  BY DEF CallWrites, InCounts, CallsTyped
<1>3. call.look.plan \in Nat
  BY <1>2, ProposalCounted DEF Writing
<1> QED BY <1>1, <1>2, <1>3, WriteStep

\* The looks of the commands that begin.
LEMMA LooksBegin ==
  ASSUME InCounts, NEW i \in DOMAIN props
  PROVE  /\ Acceptable(i) => Accepting(Look(i))
         /\ CanSubmit(i) /\ ~PriorSubmission(i) => Writing(Look(i))
<1>1. PriorSubmission(i) \in BOOLEAN
  BY DEF PriorSubmission
<1> QED BY <1>1 DEF Acceptable, Accepting, Look, CanSubmit, Writing

LEMMA IntakeStep ==
  ASSUME InCounts, [InNext]_inVars
  PROVE  IntakeInv'
<1>1. IntakeInv /\ (\A look \in accepts : Accepting(look)) /\ \A look \in submits : Writing(look)
  BY DEF InCounts, IntakeInv, IntakeRows
<1>2. CASE Ask
  BY <1>1, <1>2, BriefStep DEF Ask, planVars
<1>3. CASE LookUpPlan
  <2>1. submits' = submits \union {Look(accepted)} /\ Writing(Look(accepted))
    BY <1>3, AcceptedCounted, LooksBegin DEF LookUpPlan
  <2> QED BY <1>1, <1>3, <2>1, BriefStep DEF LookUpPlan
<1>4. ASSUME NEW i \in DOMAIN props, CheckAccept(i) PROVE IntakeInv'
  <2>1. accepts' = accepts \union {Look(i)} /\ Accepting(Look(i))
    BY <1>4, LooksBegin DEF CheckAccept
  <2> QED BY <1>1, <1>4, <2>1, BriefStep DEF CheckAccept
<1>5. CASE BootBegins \/ Undo
  BY <1>1, <1>5, BriefStep DEF BootBegins, Undo, planVars
<1>6. CASE UNCHANGED <<brief, planVars, submissions, projects>>
  BY <1>1, <1>6, BriefStep DEF planVars
<1>7. BootstrapCommand \/ BootAdmitted \/ BootReads \/ BootRefused \/ Record \/ CallLooksUp \/ StepFails \/ BootDone
        => UNCHANGED <<brief, planVars, submissions, projects>>
  BY DEF BootstrapCommand, BootAdmitted, BootReads, BootRefused, Record, CallLooksUp, StepFails, BootDone
<1>8. StartChecks \/ SubmitFails \/ Checkpoint \/ Finish \/ Crash => UNCHANGED <<brief, planVars, submissions, projects>>
  BY DEF StartChecks, SubmitFails, Checkpoint, Finish, Crash
<1>9. ASSUME NEW i, NEW target, Start(i, target) PROVE UNCHANGED <<brief, planVars, submissions, projects>>
  BY <1>9 DEF Start
<1>10. UNCHANGED inVars => UNCHANGED <<brief, planVars, submissions, projects>>
  BY DEF inVars
<1>11. ASSUME NEW v \in 1..brief.version, Propose(v) PROVE IntakeInv'
  BY <1>1, <1>11, ProposeStep DEF IntakeInv, IntakeRows
<1> QED BY <1>1, <1>2, <1>3, <1>4, <1>5, <1>6, <1>7, <1>8, <1>9, <1>10, <1>11,
           ReviseStep, AcceptStep, StartTasksStep, OperateStep, WritePlanStep, CallWritesStep DEF InNext
-----------------------------------------------------------------------------
LEMMA BriefIn ==
  ASSUME PlansTyped, NEW s \in BriefStates, brief' = In(s) \/ brief' = brief
  PROVE  brief' \in [state : BriefStates, version : 1..MaxVersion]
BY DEF PlansTyped, In

\* Proposals that keep their versions, and submissions that keep their proposals.
LEMMA PlansKept ==
  ASSUME PlansTyped, props \in Seq(ProposalRow), props' \in Seq(ProposalRow),
         brief' \in [state : BriefStates, version : 1..MaxVersion],
         DOMAIN props' = DOMAIN props, \A i \in DOMAIN props : props'[i].version = props[i].version,
         DOMAIN submissions' = DOMAIN submissions,
         \A j \in DOMAIN submissions : submissions'[j].proposal = submissions[j].proposal
  PROVE  PlansTyped'
<1>1. Len(props') = Len(props)
  BY LenProperties
<1> QED BY <1>1 DEF PlansTyped

LEMMA PlansStay ==
  ASSUME PlansTyped, NEW s \in BriefStates, brief' = In(s) \/ brief' = brief, UNCHANGED <<props, submissions>>
  PROVE  PlansTyped'
BY BriefIn DEF PlansTyped

LEMMA WrittenTyped ==
  ASSUME InCounts, NEW look, look.plan \in DOMAIN props, Writes(look), UNCHANGED props
  PROVE  PlansTyped'
<1> DEFINE i == look.plan
           r == [proposal |-> i, queued |-> TRUE, late |-> ~Still(look)]
<1>0. (~Still(look)) \in BOOLEAN
  BY DEF Still
<1>1. r \in Submission /\ r.proposal = i
  BY <1>0, ProposalCounted DEF Submission
<1>2. submissions' = Append(submissions, r) /\ brief' = In("REGISTERED")
  BY DEF Writes
<1> HIDE DEF r, i
<1>3. submissions \in Seq(Submission)
  BY DEF InCounts, IntakeInv, IntakeRows
<1>4. PICK n \in Nat : n = Len(submissions) /\ DOMAIN submissions = 1..n
  BY <1>3, LenProperties
<1>5. /\ submissions' \in Seq(Submission) /\ Len(submissions') = n + 1
      /\ \A j \in 1..n : submissions'[j] = submissions[j]
      /\ submissions'[n + 1] = r
  BY <1>1, <1>2, <1>3, <1>4, AppendProperties
<1>6. DOMAIN submissions' = 1..(n + 1)
  BY <1>5, LenProperties
<1>7. \A j \in DOMAIN submissions' : j \in DOMAIN submissions \/ j = n + 1
  BY <1>4, <1>6
<1>80. i \in DOMAIN props
  BY DEF i
<1>8. \A j \in DOMAIN submissions' : submissions'[j].proposal \in DOMAIN props
  BY <1>80, <1>1, <1>4, <1>5, <1>7 DEF InCounts, PlansTyped
<1>9. "REGISTERED" \in BriefStates
  BY DEF BriefStates
<1>10. brief' \in [state : BriefStates, version : 1..MaxVersion]
  BY <1>2, <1>9, BriefIn DEF InCounts
<1> QED BY <1>8, <1>10 DEF InCounts, PlansTyped

LEMMA ReviseTyped ==
  ASSUME InCounts, IntakeInv', Revise
  PROVE  PlansTyped'
<1>1. brief' \in [state : BriefStates, version : 1..MaxVersion]
  <2>1. brief.version + 1 \in 1..MaxVersion
    BY IntakeAssumption DEF Revise, InCounts, PlansTyped
  <2>2. brief.state \in BriefStates /\ "CLARIFYING" \in BriefStates
    BY DEF InCounts, PlansTyped, BriefStates
  <2> QED BY <2>1, <2>2 DEF Revise
<1>2. \A i \in DOMAIN props : props[i] \in ProposalRow
  BY PropAt DEF InCounts, IntakeInv
<1>3. DOMAIN props' = DOMAIN props /\ \A i \in DOMAIN props : props'[i].version = props[i].version
  BY <1>2 DEF Revise, ProposalRow
<1>4. \A j \in DOMAIN submissions : submissions[j] \in Submission
  BY SubmissionAt DEF InCounts, IntakeInv
<1>5. DOMAIN submissions' = DOMAIN submissions
      /\ \A j \in DOMAIN submissions : submissions'[j].proposal = submissions[j].proposal
  BY <1>4 DEF Revise, Submission
<1> QED BY <1>1, <1>3, <1>5, PlansKept DEF InCounts, IntakeInv, IntakeRows

\* A proposal is added; the others stay where they are.
LEMMA ProposeTyped ==
  ASSUME InCounts, NEW v \in 1..MaxVersion, Propose(v)
  PROVE  PlansTyped' /\ DOMAIN props \subseteq DOMAIN props'
<1> DEFINE old == [i \in DOMAIN props |-> IF props[i].state = "presented"
                                          THEN [props[i] EXCEPT !.state = "superseded"] ELSE props[i]]
           r == [version |-> v, state |-> "presented", late |-> FALSE]
<1>0. v \in Nat
  BY IntakeAssumption
<1>1. \A i \in DOMAIN props : props[i] \in ProposalRow
  BY PropAt DEF InCounts, IntakeInv
<1>2. \A i \in DOMAIN props : /\ [props[i] EXCEPT !.state = "superseded"] \in ProposalRow
                              /\ [props[i] EXCEPT !.state = "superseded"].version = props[i].version
  BY <1>1 DEF ProposalRow
<1>3. old \in [DOMAIN props -> ProposalRow]
  BY <1>1, <1>2
<1>4. old \in Seq(ProposalRow) /\ DOMAIN old = DOMAIN props
  BY <1>3, SeqFrom DEF InCounts, IntakeInv, IntakeRows
<1>5. \A i \in DOMAIN props : old[i].version \in 1..MaxVersion
  BY <1>2 DEF InCounts, PlansTyped
<1>6. r \in ProposalRow /\ r.version \in 1..MaxVersion
  BY <1>0 DEF ProposalRow
<1>7. props' = Append(old, r) /\ brief' = In("PROPOSED") /\ UNCHANGED submissions /\ Len(props) < MaxProps
  BY DEF Propose
<1> HIDE DEF old, r
<1>8. PICK n \in Nat : n = Len(old) /\ DOMAIN props = 1..n
  BY <1>4, LenProperties
<1>9. n = Len(props)
  BY <1>8, LenProperties DEF InCounts, IntakeInv, IntakeRows
<1>10. /\ props' \in Seq(ProposalRow) /\ Len(props') = n + 1
       /\ \A i \in 1..n : props'[i] = old[i]
       /\ props'[n + 1] = r
  BY <1>4, <1>6, <1>7, <1>8, AppendProperties
<1>11. DOMAIN props' = 1..(n + 1)
  BY <1>10, LenProperties
<1>12. \A i \in DOMAIN props' : i \in DOMAIN props \/ i = n + 1
  BY <1>8, <1>11
<1>13. \A i \in DOMAIN props' : props'[i].version \in 1..MaxVersion
  BY <1>5, <1>6, <1>8, <1>10, <1>12
<1>14. DOMAIN props \subseteq DOMAIN props'
  BY <1>8, <1>11
<1>15. Len(props') <= MaxProps
  BY <1>7, <1>9, <1>10, IntakeAssumption
<1>16. brief' \in [state : BriefStates, version : 1..MaxVersion]
  BY <1>7, BriefIn DEF InCounts, BriefStates
<1> QED BY <1>7, <1>13, <1>14, <1>15, <1>16 DEF InCounts, PlansTyped

LEMMA AcceptTyped ==
  ASSUME InCounts, IntakeInv', NEW look \in accepts, RecordAccept(look)
  PROVE  PlansTyped' /\ DOMAIN props' = DOMAIN props
<1>1. look.plan \in DOMAIN props /\ props[look.plan] \in ProposalRow
  BY PropAt DEF InCounts, IntakeInv, IntakeRows, Accepting
<1>2. DOMAIN props' = DOMAIN props /\ \A j \in DOMAIN props : props'[j].version = props[j].version
  BY <1>1 DEF RecordAccept, ProposalRow
<1>3. brief' \in [state : BriefStates, version : 1..MaxVersion]
  BY BriefIn DEF RecordAccept, InCounts, BriefStates
<1>4. UNCHANGED submissions
  BY DEF RecordAccept
<1> QED BY <1>2, <1>3, <1>4, PlansKept DEF InCounts, IntakeInv, IntakeRows

LEMMA StartTasksTyped ==
  ASSUME InCounts, StartTasks
  PROVE  PlansTyped'
<1>1. PICK j \in DOMAIN submissions : submissions' = [submissions EXCEPT ![j].queued = FALSE]
  BY DEF StartTasks
<1>2. submissions[j] \in Submission
  BY SubmissionAt DEF InCounts, IntakeInv
<1>3. DOMAIN submissions' = DOMAIN submissions
      /\ \A k \in DOMAIN submissions : submissions'[k].proposal = submissions[k].proposal
  BY <1>1, <1>2 DEF Submission
<1>4. UNCHANGED <<brief, props>>
  BY DEF StartTasks, planVars
<1> QED BY <1>3, <1>4 DEF InCounts, PlansTyped

\* The proposals are never fewer.
LEMMA PlansTypedStep ==
  ASSUME InCounts, [InNext]_inVars
  PROVE  PlansTyped' /\ DOMAIN props \subseteq DOMAIN props'
<1>1. PlansTyped /\ IntakeInv'
  BY IntakeStep DEF InCounts
<1>2. {"CLARIFYING", "BOOTSTRAPPING", "ACCEPTED", "DRAFT"} \subseteq BriefStates
  BY DEF BriefStates
<1>3. CASE Ask \/ BootBegins \/ Undo
  BY <1>1, <1>2, <1>3, PlansStay DEF Ask, BootBegins, Undo, planVars
<1>4. ASSUME NEW look \in submits, WritePlan(look) PROVE PlansTyped' /\ UNCHANGED props
  <2>1. Writes(look) \/ UNCHANGED <<brief, submissions>>
    BY <1>4 DEF WritePlan
  <2>2. look.plan \in DOMAIN props /\ UNCHANGED props
    BY <1>4 DEF WritePlan, InCounts, IntakeInv, IntakeRows, Writing
  <2>3. CASE Writes(look) BY <2>2, <2>3, WrittenTyped
  <2>4. CASE UNCHANGED <<brief, submissions>> BY <1>1, <2>2, <2>4 DEF PlansTyped
  <2> QED BY <2>1, <2>2, <2>3, <2>4
<1>5. CASE CallWrites
  <2>1. call.look.plan \in DOMAIN props /\ Writes(call.look) /\ UNCHANGED props
    BY <1>5 DEF CallWrites, planVars, InCounts, CallsTyped, Writing
  <2> QED BY <2>1, WrittenTyped
<1>6. CASE UNCHANGED <<brief, props, submissions>>
  BY <1>1, <1>6 DEF PlansTyped
<1>7. LookUpPlan \/ BootstrapCommand \/ BootAdmitted \/ BootReads \/ BootRefused \/ Operate \/ Record \/ BootDone
        => UNCHANGED <<brief, props, submissions>>
  BY DEF LookUpPlan, BootstrapCommand, BootAdmitted, BootReads, BootRefused, Operate, Record, BootDone, planVars
<1>8. CallLooksUp \/ StepFails \/ StartChecks \/ SubmitFails \/ Checkpoint \/ Finish \/ Crash \/ UNCHANGED inVars
        => UNCHANGED <<brief, props, submissions>>
  BY DEF CallLooksUp, StepFails, StartChecks, SubmitFails, Checkpoint, Finish, Crash, inVars, planVars
<1>9. ASSUME NEW i \in DOMAIN props, NEW target, Start(i, target) \/ CheckAccept(i)
      PROVE  UNCHANGED <<brief, props, submissions>>
  BY <1>9 DEF Start, CheckAccept, planVars
<1>10. ASSUME NEW v \in 1..brief.version, Propose(v) PROVE PlansTyped' /\ DOMAIN props \subseteq DOMAIN props'
  <2>1. v \in 1..MaxVersion
    BY IntakeAssumption DEF InCounts, PlansTyped
  <2> QED BY <1>10, <2>1, ProposeTyped
<1>11. Revise \/ StartTasks => DOMAIN props' = DOMAIN props
  BY DEF Revise, StartTasks, planVars
<1> QED BY <1>1, <1>3, <1>4, <1>5, <1>6, <1>7, <1>8, <1>9, <1>10, <1>11,
           ReviseTyped, AcceptTyped, StartTasksTyped DEF InNext
-----------------------------------------------------------------------------
LEMMA CallMoves ==
  ASSUME CallsTyped, NEW p \in CallPlaces \ {"apply"},
         \/ call.at # "apply" /\ call' = [call EXCEPT !.at = p]
         \/ call' = [call EXCEPT !.at = p, !.look = NoLook]
  PROVE  Called(call')
<1>1. PICK c : c = call'
  OBVIOUS
<1>2. CallRow(call) /\ (call.at # "apply" => call.look = NoLook)
  BY DEF CallsTyped
<1>3. CASE call.at # "apply" /\ c = [call EXCEPT !.at = p]
  BY <1>1, <1>2, <1>3 DEF CallRow, Called
<1>4. CASE c = [call EXCEPT !.at = p, !.look = NoLook]
  BY <1>1, <1>2, <1>4 DEF CallRow, Called
<1> QED BY <1>1, <1>3, <1>4

LEMMA CallEnds == ASSUME call' = Idle PROVE Called(call')
<1>1. 0 \in 0..MaxProps
  BY IntakeAssumption
<1> QED BY <1>1 DEF Idle, CallRow, CallPlaces, Called

LEMMA CallBegins ==
  ASSUME NEW b \in {"start", "bootstrap"}, NEW i \in 0..MaxProps, NEW p \in CallPlaces \ {"apply"},
         call' = [Idle EXCEPT !.by = b, !.proposal = i, !.at = p]
  PROVE  Called(call')
BY DEF Idle, CallRow, Called

\* What a call leaves of its rows.
LEMMA CallTyped ==
  ASSUME boot' \in BootRows, request' \in [1..MaxProps -> ProgressRows], Called(call')
  PROVE  CallsTyped'
BY DEF CallsTyped, Called, CallRow

LEMMA ClaimMoves ==
  ASSUME CallsTyped, NEW i, NEW s \in {"none", "in_progress", "failed", "completed"}, NEW b \in BOOLEAN,
         \/ request' = [request EXCEPT ![i].state = s]
         \/ request' = [request EXCEPT ![i].submitted = b, ![i].state = s]
  PROVE  request' \in [1..MaxProps -> ProgressRows]
BY DEF CallsTyped, ProgressRows

LEMMA CallFails ==
  ASSUME CallsTyped, Failed
  PROVE  Called(call') /\ request' \in [1..MaxProps -> ProgressRows]
<1>1. request' = [request EXCEPT ![call.proposal].state = "failed"] \/ request' = request
  BY DEF Failed
<1>2. request' \in [1..MaxProps -> ProgressRows]
  BY <1>1, ClaimMoves DEF CallsTyped
<1> QED BY <1>2, CallEnds DEF Failed

LEMMA BootMoves ==
  ASSUME CallsTyped, NEW s \in {"none", "running", "failed", "completed"},
         boot' = [boot EXCEPT !.state = s] \/ boot' = boot
  PROVE  boot' \in BootRows
BY DEF CallsTyped, BootRows

LEMMA RecordTyped ==
  ASSUME CallsTyped, Record
  PROVE  CallsTyped'
<1> DEFINE done == IF boot.done < Steps THEN boot.done + 1 ELSE Steps
<1>1. done \in 0..Steps
  BY DEF CallsTyped, BootRows, Steps
<1>2. boot' = [state |-> IF done = Steps THEN "completed" ELSE "running", done |-> done]
  BY DEF Record
<1> HIDE DEF done
<1>3. boot' \in BootRows
  BY <1>1, <1>2 DEF BootRows
<1>4. At("booted") \/ At("operate")
  BY DEF Record
<1>5. Called(call')
  BY <1>4, CallMoves DEF At, CallPlaces, Record
<1> QED BY <1>3, <1>5, CallTyped DEF Record, CallsTyped

LEMMA StartTyped ==
  ASSUME InCounts, NEW i \in DOMAIN props, NEW target \in {"directory", "project"}, Start(i, target)
  PROVE  CallsTyped'
<1>1. i \in 1..MaxProps /\ i \in 0..MaxProps
  BY ProposalCounted
<1>2. [state |-> "in_progress", submitted |-> FALSE, target |-> target] \in ProgressRows
  BY DEF ProgressRows
<1>3. request' \in [1..MaxProps -> ProgressRows]
  BY <1>1, <1>2 DEF Start, InCounts, CallsTyped
<1>4. Called(call')
  BY <1>1, CallBegins DEF Start, CallPlaces
<1> QED BY <1>3, <1>4, CallTyped DEF Start, InCounts, CallsTyped

LEMMA LooksUpTyped ==
  ASSUME InCounts, CallLooksUp
  PROVE  CallsTyped'
<1>1. accepted \in DOMAIN props /\ CallsTyped /\ UNCHANGED props
  BY AcceptedCounted DEF CallLooksUp, InCounts, planVars
<1>2. accepted \in 0..MaxProps
  BY <1>1, ProposalCounted
<1>3. boot' \in BootRows
  BY <1>1, BootMoves DEF CallLooksUp
<1>4. CASE PriorSubmission(accepted)
  <2>1. call.at # "apply" /\ (call' = [call EXCEPT !.at = "booted"] \/ call' = [call EXCEPT !.at = "record"])
    BY <1>4 DEF CallLooksUp, AfterPlan, Linking
  <2>2. Called(call')
    BY <1>1, <2>1, CallMoves DEF CallPlaces
  <2> QED BY <1>1, <1>3, <2>2, CallTyped DEF CallLooksUp, CallsTyped
<1>5. CASE ~PriorSubmission(accepted)
  <2>1. PICK look : look = Look(accepted)
    OBVIOUS
  <2>2. Writing(look)
    BY <1>1, <1>5, <2>1, LooksBegin DEF CallLooksUp
  <2>3. call' = [call EXCEPT !.at = "apply", !.look = look]
    BY <1>5, <2>1 DEF CallLooksUp
  <2>4. CallRow(call') /\ call'.at = "apply" /\ call'.look = look
    BY <1>1, <2>3 DEF CallsTyped, CallRow, CallPlaces
  <2>5. CallRow(call)' /\ Writing(look)'
    BY <1>1, <2>2, <2>4 DEF CallRow, Writing
  <2> QED BY <1>1, <1>3, <2>4, <2>5 DEF CallLooksUp, CallsTyped, Writing
<1> QED BY <1>4, <1>5

LEMMA CallsTypedStep ==
  ASSUME InCounts, [InNext]_inVars
  PROVE  CallsTyped'
<1>1. CallsTyped /\ DOMAIN props \subseteq DOMAIN props'
  BY PlansTypedStep DEF InCounts
<1>2. CASE UNCHANGED <<boot, request, call>>
  BY <1>1, <1>2 DEF CallsTyped, CallRow, Writing
<1>3. Ask \/ Revise \/ LookUpPlan \/ StartTasks \/ UNCHANGED inVars => UNCHANGED <<boot, request, call>>
  BY DEF Ask, Revise, LookUpPlan, StartTasks, inVars
<1>4. ASSUME NEW i, Propose(i) \/ CheckAccept(i) \/ RecordAccept(i) \/ WritePlan(i)
      PROVE  UNCHANGED <<boot, request, call>>
  BY <1>4 DEF Propose, CheckAccept, RecordAccept, WritePlan
<1>5. SUFFICES ASSUME ~UNCHANGED <<boot, request, call>> PROVE CallsTyped'
  BY <1>2
<1> USE DEF CallPlaces
<1>6. CASE BootstrapCommand
  <2>1. 0 \in 0..MaxProps
    BY IntakeAssumption
  <2>2. Called(call')
    BY <1>6, <2>1 DEF BootstrapCommand, Idle, CallRow, Called
  <2> QED BY <1>1, <1>6, <2>2, CallTyped DEF BootstrapCommand, CallsTyped
<1>7. CASE BootAdmitted \/ BootReads
  <2>1. At("booted") \/ At("move") \/ At("operate") \/ At("mark")
    BY <1>7 DEF BootAdmitted, BootReads
  <2>2. Called(call')
    BY <1>1, <1>7, <2>1, CallMoves DEF At, BootAdmitted, BootReads
  <2> QED BY <1>1, <1>7, <2>2, CallTyped DEF BootAdmitted, BootReads, CallsTyped
<1>8. CASE BootBegins
  BY <1>1, <1>8, CallMoves, CallTyped DEF BootBegins, At, CallsTyped
<1>9. CASE BootRefused
  <2>1. boot' = boot \/ boot' = [boot EXCEPT !.state = "failed"]
    BY <1>9 DEF BootRefused
  <2>2. boot' \in BootRows
    BY <1>1, <2>1, BootMoves
  <2> QED BY <1>1, <1>9, <2>2, CallFails, CallTyped DEF BootRefused, CallsTyped
<1>10. CASE Operate
  BY <1>1, <1>10, CallMoves, BootMoves, CallTyped DEF Operate, At, CallsTyped
<1>11. CASE CallWrites
  <2>1. call' = [call EXCEPT !.at = "booted", !.look = NoLook] \/ call' = [call EXCEPT !.at = "record", !.look = NoLook]
    BY <1>11 DEF CallWrites, AfterPlan
  <2> QED BY <1>1, <1>11, <2>1, CallMoves, CallTyped DEF CallWrites, CallsTyped
<1>12. CASE StepFails
  <2>1. boot' \in BootRows
    BY <1>1, <1>12, BootMoves DEF StepFails
  <2>2. CASE brief.state = "BOOTSTRAPPING"
    BY <1>1, <1>12, <2>1, <2>2, CallMoves, CallTyped DEF StepFails, CallsTyped
  <2>3. CASE brief.state # "BOOTSTRAPPING"
    BY <1>1, <1>12, <2>1, <2>3, CallFails, CallTyped DEF StepFails, CallsTyped
  <2> QED BY <2>2, <2>3
<1>13. CASE Undo \/ SubmitFails
  BY <1>1, <1>13, CallFails, CallTyped DEF Undo, SubmitFails, CallsTyped
<1>14. CASE BootDone \/ Crash
  BY <1>1, <1>14, CallEnds, CallTyped DEF BootDone, Crash, CallsTyped
<1>15. CASE StartChecks
  <2>1. call' = Idle \/ At("finish") \/ At("boot") \/ At("submit")
    BY <1>15 DEF StartChecks
  <2>2. Called(call')
    BY <1>1, <1>15, <2>1, CallMoves, CallEnds DEF At, StartChecks
  <2> QED BY <1>1, <1>15, <2>2, CallTyped DEF StartChecks, CallsTyped
<1>16. CASE Checkpoint
  BY <1>1, <1>16, CallMoves, ClaimMoves, CallTyped DEF Checkpoint, At, CallsTyped
<1>17. CASE Finish
  BY <1>1, <1>17, CallEnds, ClaimMoves, CallTyped DEF Finish, CallsTyped
<1>18. CASE Record
  BY <1>1, <1>18, RecordTyped
<1> QED BY <1>3, <1>4, <1>5, <1>6, <1>7, <1>8, <1>9, <1>10, <1>11, <1>12, <1>13, <1>14, <1>15, <1>16, <1>17, <1>18,
           StartTyped, LooksUpTyped DEF InNext

LEMMA InCountsStep ==
  ASSUME InCounts, [InNext]_inVars
  PROVE  InCounts'
BY IntakeStep, PlansTypedStep, CallsTypedStep DEF InCounts

LEMMA InTyped == InCounts => InTypeOK
<1> SUFFICES ASSUME InCounts PROVE InTypeOK
  OBVIOUS
<1>1. \A i \in DOMAIN props : props[i] \in [version : 1..MaxVersion, late : BOOLEAN,
                                state : {"presented", "superseded", "accepted", "invalidated"}]
  BY PropAt DEF InCounts, IntakeInv, PlansTyped, ProposalRow
<1>2. \A j \in DOMAIN submissions :
         submissions[j] \in [proposal : DOMAIN props, late : BOOLEAN, queued : BOOLEAN]
  BY SubmissionAt DEF InCounts, IntakeInv, PlansTyped, Submission
<1>3. projects \in 0..2 /\ accepted \in {0} \union Active 
  BY DEF InCounts, IntakeInv, IntakeRows, LastKnown
<1>4. \A look \in accepts \union submits : look.plan \in DOMAIN props
  BY DEF InCounts, IntakeInv, IntakeRows, Accepting, Writing
<1>5. call.look = NoLook \/ call.look.plan \in DOMAIN props
  BY DEF InCounts, CallsTyped, Writing
<1>6. call.by \in {"none", "start", "bootstrap"} /\ call.proposal \in 0..MaxProps /\ call.at \in CallPlaces
  BY DEF InCounts, CallsTyped, CallRow
<1> QED BY <1>1, <1>2, <1>3, <1>4, <1>5, <1>6
        DEF InCounts, PlansTyped, CallsTyped, InTypeOK, BootRows, ProgressRows, CallRow, CallPlaces
-----------------------------------------------------------------------------
\* An acceptance that nothing overtook is of the brief as it stands, and of one plan; what
\* waits to be started is of an accepted plan; and however often a start or a bootstrap dies
\* and is repeated, no plan is submitted twice but by submissions that overtake one another,
\* and no second project is registered.
THEOREM AcceptedOnce == InSpec => []IntakeHolds
<1>1. InCounts => IntakeHolds
  BY DEF InCounts, IntakeInv, IntakeRows, InTimeOnce, IntakeHolds, StartedOnce
<1>2. InInit => InCounts
  BY InCountsInit
<1>3. InCounts /\ [InNext]_inVars => InCounts'
  BY InCountsStep
<1> QED BY <1>1, <1>2, <1>3, PTL DEF InSpec
-----------------------------------------------------------------------------
(* Questions and their answers.                                            *)

Item    == [field : GovFields \union {"stack"}, at : Nat, state : WithWords \union {"open", "withdrawn"},
            said : Sayings \union {""}]
Paper   == [version : Nat, known : SUBSET GovFields, gov : Nat]
RequestRow == [version : Nat, item : Nat, said : Sayings, guess : BOOLEAN, patch : {NoEdit, GovFields},
            revise : BOOLEAN]

QRows ==
  /\ items \in Seq(Item) /\ paper \in Paper /\ reader \in Paper \union {Nothing}
  /\ used \subseteq Callers /\ sent \in [Callers -> RequestRow \union {Nothing}]
  /\ fb \in [state : {"none", "pending", "answered"}, by : {"", "person", "task"}]
  /\ answerer \in [state : {"none", "queued", "running", "stuck", "cancelled", "done"}, again : BOOLEAN]

\* A response task waits only for a question that is pending, unless it was retried; the
\* controller answers only for a task that is done.
Waiting ==
  /\ fb.state = "none" => answerer.state = "none"
  /\ answerer.state = "queued" => fb.state = "pending" \/ answerer.again
  /\ teller # "away" => answerer.state = "done"

QInv == QRows /\ Waiting

LEMMA ItemAt ==
  ASSUME NEW its \in Seq(Item)
  PROVE  /\ Len(its) \in Nat /\ DOMAIN its = 1..Len(its)
         /\ \A i \in DOMAIN its : its[i] \in Item
BY LenProperties, ElementOfSeq

\* A question is asked once more, or it is open already; the others stay as they are.
LEMMA AskedOnce ==
  ASSUME NEW its \in Seq(Item), NEW f \in GovFields \union {"stack"}, NEW at \in Nat
  PROVE  /\ Asked(its, f, at) \in Seq(Item)
         /\ \A i \in DOMAIN Asked(its, f, at) :
              \/ i \in DOMAIN its /\ Asked(its, f, at)[i] = its[i]
              \/ Asked(its, f, at)[i].field = f /\ Asked(its, f, at)[i].at = at
         /\ OpenFor(Asked(its, f, at), f, at)
<1> DEFINE row == [field |-> f, at |-> at, state |-> "open", said |-> ""]
<1>1. CASE OpenFor(its, f, at) BY <1>1 DEF Asked
<1>2. CASE ~OpenFor(its, f, at)
  <2>1. row \in Item /\ row.field = f /\ row.at = at /\ row.state = "open" BY DEF Item
  <2>2. Asked(its, f, at) = Append(its, row) BY <1>2 DEF Asked
  <2> HIDE DEF row
  <2>3. /\ Append(its, row) \in Seq(Item) /\ Len(Append(its, row)) = Len(its) + 1
        /\ \A i \in 1..Len(its) : Append(its, row)[i] = its[i]
        /\ Append(its, row)[Len(its) + 1] = row
    BY <2>1, AppendProperties
  <2>4. /\ Len(its) \in Nat /\ DOMAIN its = 1..Len(its)
        /\ DOMAIN Append(its, row) = 1..(Len(its) + 1)
    BY <2>3, LenProperties
  <2> QED BY <2>1, <2>2, <2>3, <2>4 DEF OpenFor
<1> QED BY <1>1, <1>2

LEMMA WithdrawnKeeps ==
  ASSUME NEW its \in Seq(Item), NEW p \in Paper
  PROVE  /\ Withdrawn(its, p) \in Seq(Item)
         /\ \A i \in DOMAIN Withdrawn(its, p) :
              Withdrawn(its, p)[i].state = "open" /\ Withdrawn(its, p)[i].field \in GovFields
                => Wanted(p, Withdrawn(its, p)[i])
<1> DEFINE new(i) == [its[i] EXCEPT !.state = "withdrawn"]
<1>1. \A i \in DOMAIN its : its[i] \in Item BY ItemAt
<1>2. ASSUME NEW i \in DOMAIN its PROVE new(i) \in Item /\ new(i).state = "withdrawn"
  BY <1>1 DEF Item
<1> HIDE DEF new
<1>3. Withdrawn(its, p) = [i \in DOMAIN its |-> IF its[i].state = "open" /\ its[i].field \in GovFields /\ ~Wanted(p, its[i])
                                                THEN new(i) ELSE its[i]]
  BY DEF Withdrawn, new
<1>4. Withdrawn(its, p) \in [DOMAIN its -> Item] BY <1>1, <1>2, <1>3
<1>5. Withdrawn(its, p) \in Seq(Item) BY <1>4, SeqFrom
<1> QED BY <1>2, <1>3, <1>4, <1>5

\* After a sync what is open is wanted, and what is wanted is open.
LEMMA SyncedAsks ==
  ASSUME NEW its \in Seq(Item), NEW p \in Paper
  PROVE  /\ Synced(its, p) \in Seq(Item)
         /\ \A i \in DOMAIN Synced(its, p) :
              Synced(its, p)[i].state = "open" /\ Synced(its, p)[i].field \in GovFields => Wanted(p, Synced(its, p)[i])
         /\ \A f \in AskedOf(p) : OpenFor(Synced(its, p), f, p.gov)
<1> DEFINE kept == Withdrawn(its, p)
<1>1. /\ kept \in Seq(Item) /\ p.gov \in Nat
      /\ \A i \in DOMAIN kept : kept[i].state = "open" /\ kept[i].field \in GovFields => Wanted(p, kept[i])
  BY WithdrawnKeeps DEF Paper
<1>2. Synced(its, p) = IF "type" \notin p.known THEN Asked(kept, "type", p.gov)
                       ELSE IF "choice" \notin p.known THEN Asked(kept, "choice", p.gov) ELSE kept
  BY DEF Synced
<1> HIDE DEF kept
<1>3. ASSUME NEW f \in GovFields, AskedOf(p) = {f}, Synced(its, p) = Asked(kept, f, p.gov)
      PROVE  /\ Synced(its, p) \in Seq(Item)
             /\ \A i \in DOMAIN Synced(its, p) :
                  Synced(its, p)[i].state = "open" /\ Synced(its, p)[i].field \in GovFields => Wanted(p, Synced(its, p)[i])
             /\ \A g \in AskedOf(p) : OpenFor(Synced(its, p), g, p.gov)
  <2>1. /\ Asked(kept, f, p.gov) \in Seq(Item)
        /\ \A i \in DOMAIN Asked(kept, f, p.gov) :
             \/ i \in DOMAIN kept /\ Asked(kept, f, p.gov)[i] = kept[i]
             \/ Asked(kept, f, p.gov)[i].field = f /\ Asked(kept, f, p.gov)[i].at = p.gov
        /\ OpenFor(Asked(kept, f, p.gov), f, p.gov)
    BY <1>1, AskedOnce
  <2>2. \A item : item.field = f /\ item.at = p.gov => Wanted(p, item) BY <1>3 DEF Wanted
  <2> QED BY <1>1, <1>3, <2>1, <2>2
<1>4. CASE "type" \notin p.known BY <1>2, <1>3, <1>4 DEF AskedOf, GovFields
<1>5. CASE "type" \in p.known /\ "choice" \notin p.known BY <1>2, <1>3, <1>5 DEF AskedOf, GovFields
<1>6. CASE "type" \in p.known /\ "choice" \in p.known
  <2>1. AskedOf(p) = {} /\ Synced(its, p) = kept BY <1>2, <1>6 DEF AskedOf, GovFields
  <2> QED BY <1>1, <2>1
<1> QED BY <1>4, <1>5, <1>6

LEMMA ResolvedKeeps ==
  ASSUME NEW its \in Seq(Item), NEW i, NEW said \in Sayings, NEW guess \in BOOLEAN
  PROVE  Resolved(its, i, said, guess) \in Seq(Item)
<1> DEFINE row == [its[i] EXCEPT !.state = IF guess THEN "assumed" ELSE "answered", !.said = said]
<1>1. Resolved(its, i, said, guess) = [its EXCEPT ![i] = row] BY DEF Resolved
<1>2. CASE i \in DOMAIN its
  <2>1. its[i] \in Item BY <1>2, ItemAt
  <2>2. row \in Item BY <2>1 DEF Item, WithWords
  <2> HIDE DEF row
  <2> QED BY <1>1, <1>2, <2>2, ExceptSeq, ItemAt
<1>3. CASE i \notin DOMAIN its
  <2> HIDE DEF row
  <2>1. its = [j \in DOMAIN its |-> its[j]] OBVIOUS
  <2> QED BY <1>1, <1>3, <2>1
<1> QED BY <1>2, <1>3

LEMMA EditedKeeps ==
  ASSUME QRows, NEW patch \in Patches \ {NoEdit}
  PROVE  Edited(patch) \in Paper
<1>1. paper \in Paper /\ OtherField \notin SUBSET GovFields BY DEF QRows, OtherField, GovFields
<1>2. CASE patch = OtherField BY <1>1, <1>2 DEF Edited, Paper
<1>3. CASE patch # OtherField
  <2>1. patch \in SUBSET GovFields /\ paper.version \in Nat /\ paper.gov \in Nat
    BY <1>1, <1>3 DEF Patches, Paper
  <2>2. (IF patch = GovFields THEN 1 ELSE 0) \in Nat OBVIOUS
  <2> DEFINE gov == paper.gov + IF patch = GovFields THEN 1 ELSE 0
  <2>3. gov \in Nat /\ paper.version + 1 \in Nat BY <2>1, <2>2
  <2>4. Edited(patch) = [version |-> paper.version + 1, known |-> patch, gov |-> gov] BY <1>3 DEF Edited
  <2> HIDE DEF gov
  <2> QED BY <2>1, <2>3, <2>4 DEF Paper
<1> QED BY <1>2, <1>3

\* The brief is revised together with the questions it then has.
LEMMA RevisedWithQuestions ==
  ASSUME NEW its \in Seq(Item), paper' \in Paper, items' = Synced(its, paper')
  PROVE  items' \in Seq(Item) /\ QuestionsCurrent'
<1> PICK p \in Paper : p = paper' OBVIOUS
<1>1. /\ items' \in Seq(Item)
      /\ \A i \in DOMAIN items' : items'[i].state = "open" /\ items'[i].field \in GovFields => Wanted(p, items'[i])
      /\ \A f \in AskedOf(p) : OpenFor(items', f, p.gov)
  BY SyncedAsks
<1> QED BY <1>1 DEF QuestionsCurrent, OpenFor, Wanted, AskedOf

LEMMA QInvInit == QInit => QInv
<1> SUFFICES ASSUME QInit PROVE QInv OBVIOUS
<1>1. PICK known \in {{}, {"type"}} : paper = [version |-> 1, known |-> known, gov |-> 0] /\ items = Synced(<<>>, paper)
  BY DEF QInit
<1>2. paper \in Paper
  <2>1. known \in SUBSET GovFields BY DEF GovFields
  <2> QED BY <1>1, <2>1 DEF Paper
<1>3. <<>> \in Seq(Item) OBVIOUS
<1>4. items \in Seq(Item) BY <1>1, <1>2, <1>3, SyncedAsks
<1> QED BY <1>2, <1>4 DEF QInit, QInv, QRows, Waiting

\* A step of the commands about clarifications: the rows keep their types, and a revision
\* leaves the questions current.
LEMMA ClarStep ==
  ASSUME QInv, ClarNext
  PROVE  QInv' /\ RevisionAsks
<1>1. /\ items \in Seq(Item) /\ paper \in Paper /\ reader \in Paper \union {Nothing} /\ QRows /\ Waiting
      /\ sent \in [Callers -> RequestRow \union {Nothing}]
  BY DEF QInv, QRows
<1>2. SUFFICES /\ items' \in Seq(Item) /\ paper' \in Paper /\ reader' \in Paper \union {Nothing}
               /\ used' \subseteq Callers /\ sent' \in [Callers -> RequestRow \union {Nothing}]
               /\ UNCHANGED feedbackVars /\ RevisionAsks
  BY DEF QInv, QRows, Waiting, feedbackVars
<1>3. CASE AskPlanning
  <2>1. items' \in Seq(Item) BY <1>1, <1>3, AskedOnce DEF AskPlanning
  <2> QED BY <1>1, <1>3, <2>1 DEF AskPlanning, QRows, RevisionAsks
<1>4. CASE BeginSync BY <1>1, <1>4 DEF BeginSync, QRows, RevisionAsks
<1>5. CASE EndSync
  <2>1. items' \in Seq(Item) BY <1>1, <1>5, SyncedAsks DEF EndSync
  <2> QED BY <1>1, <1>5, <2>1 DEF EndSync, QRows, RevisionAsks
<1>6. ASSUME NEW patch \in Patches, Update(patch)
      PROVE  /\ items' \in Seq(Item) /\ paper' \in Paper /\ reader' \in Paper \union {Nothing}
             /\ used' \subseteq Callers /\ sent' \in [Callers -> RequestRow \union {Nothing}]
             /\ UNCHANGED feedbackVars /\ RevisionAsks
  <2>1. "none" \notin patch BY DEF Patches, OtherField, GovFields
  <2>2. paper' \in Paper /\ items' = Synced(items, paper') BY <1>1, <1>6, <2>1, EditedKeeps DEF Update, NoEdit
  <2>3. items' \in Seq(Item) /\ QuestionsCurrent' BY <1>1, <2>2, RevisedWithQuestions
  <2> QED BY <1>1, <1>6, <2>2, <2>3 DEF Update, QRows, RevisionAsks
<1>7. ASSUME NEW i \in DOMAIN items, NEW said \in Sayings, NEW guess \in BOOLEAN, Answer(i, said, guess)
      PROVE  /\ items' \in Seq(Item) /\ paper' \in Paper /\ reader' \in Paper \union {Nothing}
             /\ used' \subseteq Callers /\ sent' \in [Callers -> RequestRow \union {Nothing}]
             /\ UNCHANGED feedbackVars /\ RevisionAsks
  <2>1. items' \in Seq(Item) BY <1>1, <1>7, ResolvedKeeps DEF Answer
  <2> QED BY <1>1, <1>7, <2>1 DEF Answer, QRows, RevisionAsks
<1>8. ASSUME NEW i \in DOMAIN items, NEW said \in Sayings, NEW guess \in BOOLEAN, NEW c \in Callers,
             NEW patch \in {NoEdit, GovFields}, NEW revise \in BOOLEAN, Tell(c, i, said, guess, patch, revise)
      PROVE  /\ items' \in Seq(Item) /\ paper' \in Paper /\ reader' \in Paper \union {Nothing}
             /\ used' \subseteq Callers /\ sent' \in [Callers -> RequestRow \union {Nothing}]
             /\ UNCHANGED feedbackVars /\ RevisionAsks
  <2> DEFINE r == [version |-> paper.version, item |-> i, said |-> said, guess |-> guess, patch |-> patch,
                   revise |-> revise]
  <2>1. i \in Nat /\ paper.version \in Nat BY <1>1, ItemAt DEF Paper
  <2>2. r \in RequestRow BY <2>1 DEF RequestRow
  <2>3. sent' = [sent EXCEPT ![c] = r] BY <1>8 DEF Tell
  <2> HIDE DEF r
  <2>4. sent' \in [Callers -> RequestRow \union {Nothing}] BY <1>1, <2>2, <2>3
  <2>5. UNCHANGED <<items, paper, used, reader, feedbackVars>> BY <1>8 DEF Tell
  <2> QED BY <1>1, <2>4, <2>5 DEF QRows, RevisionAsks
<1>9. ASSUME NEW c \in Callers, Replay(c) \/ Refuse(c)
      PROVE  /\ items' \in Seq(Item) /\ paper' \in Paper /\ reader' \in Paper \union {Nothing}
             /\ used' \subseteq Callers /\ sent' \in [Callers -> RequestRow \union {Nothing}]
             /\ UNCHANGED feedbackVars /\ RevisionAsks
  BY <1>1, <1>9 DEF Replay, Refuse, Heard, QRows, RevisionAsks
<1>10. ASSUME NEW c \in Callers, Resolve(c)
       PROVE  /\ items' \in Seq(Item) /\ paper' \in Paper /\ reader' \in Paper \union {Nothing}
              /\ used' \subseteq Callers /\ sent' \in [Callers -> RequestRow \union {Nothing}]
              /\ UNCHANGED feedbackVars /\ RevisionAsks
  <2> DEFINE r    == sent[c]
             heard == IF Unchanged(r) THEN items ELSE Resolved(items, r.item, r.said, r.guess)
  <2>1. r \in RequestRow BY <1>1, <1>10 DEF Resolve
  <2>2. heard \in Seq(Item) BY <1>1, <2>1, ResolvedKeeps DEF RequestRow
  <2>3. /\ paper' = (IF r.patch = NoEdit THEN paper ELSE Edited(r.patch))
        /\ items' = (IF r.patch = NoEdit THEN heard ELSE Synced(heard, paper'))
    BY <1>10 DEF Resolve
  <2>4. r.patch = NoEdit \/ r.patch \in Patches \ {NoEdit} BY <2>1 DEF RequestRow, Patches
  <2>5. /\ used' \subseteq Callers /\ sent' \in [Callers -> RequestRow \union {Nothing}]
        /\ reader' = reader /\ UNCHANGED feedbackVars
    BY <1>1, <1>10 DEF Resolve, Heard, QRows
  <2> HIDE DEF r, heard
  <2>6. CASE r.patch = NoEdit BY <1>1, <2>2, <2>3, <2>5, <2>6 DEF RevisionAsks
  <2>7. CASE r.patch # NoEdit
    <3>1. paper' \in Paper /\ items' = Synced(heard, paper') BY <1>1, <2>3, <2>4, <2>7, EditedKeeps
    <3>2. items' \in Seq(Item) /\ QuestionsCurrent' BY <2>2, <3>1, RevisedWithQuestions
    <3> QED BY <1>1, <2>5, <3>1, <3>2 DEF RevisionAsks
  <2> QED BY <2>6, <2>7
<1> QED BY <1>3, <1>4, <1>5, <1>6, <1>7, <1>8, <1>9, <1>10 DEF ClarNext

LEMMA FbStep ==
  ASSUME QInv, FbNext
  PROVE  QInv' /\ RevisionAsks /\ UNCHANGED clarVars
<1>1. UNCHANGED clarVars
  BY DEF FbNext, SubmitFeedback, AnswerFeedback, AcceptAnswer, ListPending, CompleteFeedback, TellerDies,
         AnswererMoves, RetryAnswerer
<1>2. /\ fb \in [state : {"none", "pending", "answered"}, by : {"", "person", "task"}]
      /\ answerer \in [state : {"none", "queued", "running", "stuck", "cancelled", "done"}, again : BOOLEAN]
      /\ Waiting
  BY DEF QInv, QRows
<1>3. SUFFICES /\ fb' \in [state : {"none", "pending", "answered"}, by : {"", "person", "task"}]
               /\ answerer' \in [state : {"none", "queued", "running", "stuck", "cancelled", "done"}, again : BOOLEAN]
               /\ Waiting'
  BY <1>1 DEF clarVars, QInv, QRows, RevisionAsks
<1>4. CASE SubmitFeedback BY <1>2, <1>4 DEF SubmitFeedback, Waiting
<1>5. CASE AnswerFeedback BY <1>2, <1>5 DEF AnswerFeedback, Waiting
<1>6. CASE AcceptAnswer BY <1>2, <1>6 DEF AcceptAnswer, Waiting
<1>7. CASE ListPending \/ TellerDies BY <1>2, <1>7 DEF ListPending, TellerDies, clarVars, Waiting
<1>8. CASE CompleteFeedback BY <1>2, <1>8 DEF CompleteFeedback, clarVars, Waiting
<1>9. CASE RetryAnswerer BY <1>2, <1>9 DEF RetryAnswerer, Waiting
<1>10. CASE AnswererMoves({"queued"}, "running") BY <1>2, <1>10 DEF AnswererMoves, Waiting
<1>11. CASE AnswererMoves({"running"}, "stuck") \/ AnswererMoves({"queued", "running", "stuck"}, "cancelled")
  BY <1>2, <1>11 DEF AnswererMoves, Waiting
<1> QED BY <1>4, <1>5, <1>6, <1>7, <1>8, <1>9, <1>10, <1>11 DEF FbNext

LEMMA Conversation ==
  QInv /\ [QNext]_qVars => QInv' /\ [RetryKeepsAnswers /\ RevisionAsks /\ AnsweredIsNotWorked]_qVars
<1> SUFFICES ASSUME QInv, [QNext]_qVars
             PROVE  QInv' /\ [RetryKeepsAnswers /\ RevisionAsks /\ AnsweredIsNotWorked]_qVars
  OBVIOUS
<1>1. CASE UNCHANGED qVars BY <1>1 DEF qVars, QInv, QRows, Waiting
<1>2. CASE ClarNext
  <2>1. QInv' /\ RevisionAsks BY <1>2, ClarStep
  <2>2. AnsweredIsNotWorked
    BY <1>2 DEF ClarNext, AnsweredIsNotWorked, AskPlanning, BeginSync, EndSync, Update, Answer, Tell, Replay,
                Refuse, Resolve, feedbackVars
  <2>3. RetryKeepsAnswers
    <3> SUFFICES ASSUME NEW c \in used, sent[c] # Nothing, sent'[c] # sent[c] PROVE UNCHANGED <<items, paper>>
      BY DEF RetryKeepsAnswers
    <3>1. c \in Callers /\ DOMAIN sent = Callers BY DEF QInv, QRows
    <3>2. ASSUME NEW d \in Callers, UNCHANGED sent \/ (\E m : sent' = [sent EXCEPT ![d] = m]) PROVE d = c
      BY <3>1, <3>2
    <3>3. ~ (AskPlanning \/ BeginSync \/ EndSync \/ \E patch \in Patches : Update(patch))
      BY DEF AskPlanning, BeginSync, EndSync, Update
    <3>4. ~ \E i \in DOMAIN items, said \in Sayings, guess \in BOOLEAN : Answer(i, said, guess)
      BY DEF Answer
    <3>5. ~ \E i \in DOMAIN items, said \in Sayings, guess \in BOOLEAN, d \in Callers, patch \in {NoEdit, GovFields},
               revise \in BOOLEAN : Tell(d, i, said, guess, patch, revise)
      BY <3>2 DEF Tell
    <3>6. \A d \in Callers : ~Resolve(d) BY <3>2 DEF Resolve, Matched, Heard
    <3>7. PICK d \in Callers : Replay(d) \/ Refuse(d) BY <1>2, <3>3, <3>4, <3>5, <3>6 DEF ClarNext
    <3> QED BY <3>7 DEF Replay, Refuse
  <2> QED BY <2>1, <2>2, <2>3
<1>3. CASE FbNext
  <2>1. QInv' /\ RevisionAsks /\ UNCHANGED clarVars BY <1>3, FbStep
  <2>2. RetryKeepsAnswers BY <2>1 DEF clarVars, RetryKeepsAnswers
  <2>3. AnsweredIsNotWorked
    BY <1>3 DEF FbNext, SubmitFeedback, AnswerFeedback, AcceptAnswer, ListPending, CompleteFeedback, TellerDies,
                AnswererMoves, RetryAnswerer, QInv, QRows, Waiting, AnsweredIsNotWorked
  <2> QED BY <2>1, <2>2, <2>3
<1> QED BY <1>1, <1>2, <1>3 DEF QNext

\* Only the first arrival of a request changes an answer or the brief, a revised brief has the
\* questions its governance leaves open and no others, and nobody starts on a question that was
\* answered: in any order of commands, retries, losses and crashes.
THEOREM ConversationsHold == QSpec => ConversationHolds
BY QInvInit, Conversation, PTL DEF QSpec, ConversationHolds
-----------------------------------------------------------------------------
(* Routing: which provider a worker is started on.                         *)

Jobs     == [state : {"ready", "running", "parked", "checking", "blocked", "failed", "done"},
             failure : Classes \union {"none"}, parked : {"none", "repair", "reroute", "initial"},
             repairs : Nat, retried : BOOLEAN]
Attempts == [on : Providers, kind : {"initial", "repair", "reroute"}, stage : {"implement", "repair"},
             end : Classes \union {"running", "ok"}]

\* The last of these attempts failed for want of its provider.
Interrupted(as) == as # <<>> /\ Last(as).end \in Unavailable

\* What a job says of a provider's failure has happened; a reroute answers the last attempt.
Answers(j, A, t) ==
  /\ j.parked # "none" <=> j.state = "parked"
  /\ j.failure \in Unavailable /\ j.state # "blocked" => Failures(A, t) # {}
  /\ j.failure \in Unavailable /\ j.state = "ready" => Interrupted(A[t])
  /\ j.parked = "reroute" => j.failure \in Unavailable /\ Interrupted(A[t])

RtInv ==
  /\ setup \in Setups /\ proven \subseteq setup.installed
  /\ job \in [RtTasks -> Jobs] /\ att \in [RtTasks -> Seq(Attempts)]
  /\ \A t \in RtTasks : Answers(job[t], att, t)
  /\ ProviderCap

\* What a launch on provider p must keep: pins, trials, and the failure a reroute answers.
Fits(p, A, t, kind) ==
  /\ p \in Providers
  /\ setup.mode = "pinned" => p = setup.adapter
  /\ setup.trial[t] # NoProvider => p = setup.trial[t]
  /\ kind = "reroute" /\ setup.trial[t] = NoProvider =>
       /\ p # LastFailed(A, t).on
       /\ LastFailed(A, t).end = "QUOTA" => DomainOf[p] # DomainOf[LastFailed(A, t).on]

\* The two action properties, of one task.
Elsewhere(t) ==
  Started(t) /\ Last(att'[t]).kind = "reroute" =>
    LET new    == Last(att'[t])
        failed == LastFailed(att', t)
    IN /\ new.stage = Before(t).stage
       /\ setup.trial[t] = NoProvider =>
            /\ new.on # failed.on
            /\ failed.end = "QUOTA" => DomainOf[new.on] # DomainOf[failed.on]
AsPinned(t) ==
  Started(t) =>
    LET new == Last(att'[t])
    IN /\ setup.mode = "pinned" => new.on = setup.adapter
       /\ setup.trial[t] # NoProvider => new.on = setup.trial[t]
       /\ capacity'[new.on] = "available"
StartsRight == \A t \in RtTasks : Elsewhere(t) /\ AsPinned(t)

\* A nonempty set of numbers has a least, one below a bound a greatest.
LEMMA LeastOf ==
  ASSUME NEW S \in SUBSET Nat, S # {}
  PROVE  Min(S) \in S
<1>1. IsWellFoundedOn(OpToRel(<, Nat), Nat) BY NatLessThanWellFounded
<1>2. PICK d \in S : \A y \in S : ~(<<y, d>> \in OpToRel(<, Nat)) BY <1>1, WFMin
<1>3. \A y \in S : ~(y < d) BY <1>2 DEF OpToRel
<1>4. \A y \in S : d <= y BY <1>3
<1> QED BY <1>4, Zenon DEF Min

LEMMA GreatestOf ==
  ASSUME NEW n \in Nat, NEW S \in SUBSET (1..n), S # {}
  PROVE  Max(S) \in S /\ \A x \in S : x <= Max(S)
<1> DEFINE T == {n - x : x \in S}
<1>1. T \in SUBSET Nat OBVIOUS
<1>2. T # {} OBVIOUS
<1>3. IsWellFoundedOn(OpToRel(<, Nat), Nat) BY NatLessThanWellFounded
<1>4. PICK d \in T : \A y \in T : ~(<<y, d>> \in OpToRel(<, Nat))
  <2> HIDE DEF T
  <2> QED BY <1>1, <1>2, <1>3, WFMin
<1>5. \A y \in T : ~(y < d) BY <1>1, <1>4 DEF OpToRel
<1>6. PICK m \in S : d = n - m OBVIOUS
<1>7. \A x \in S : m >= x
  <2>1. ASSUME NEW x \in S PROVE m >= x
    <3>1. n - x \in T OBVIOUS
    <3>2. ~(n - x < n - m) BY <1>5, <1>6, <3>1
    <3> QED BY <3>2
  <2> QED BY <2>1
<1>8. Max(S) \in S /\ \A x \in S : Max(S) >= x BY <1>7, Zenon DEF Max
<1> QED BY <1>8

\* The last failure of a task is one of its attempts.
LEMMA LastFailure ==
  ASSUME NEW t \in RtTasks, NEW A \in [RtTasks -> Seq(Attempts)], Failures(A, t) # {}
  PROVE  /\ LastFailed(A, t) \in Attempts /\ LastFailed(A, t).end \in Unavailable
         /\ Max(Failures(A, t)) \in Failures(A, t) /\ \A i \in Failures(A, t) : i <= Max(Failures(A, t))
<1>1. A[t] \in Seq(Attempts) /\ Len(A[t]) \in Nat /\ DOMAIN A[t] = 1..Len(A[t]) OBVIOUS
<1>2. Failures(A, t) \in SUBSET (1..Len(A[t])) BY <1>1 DEF Failures
<1>3. Max(Failures(A, t)) \in Failures(A, t) /\ \A i \in Failures(A, t) : i <= Max(Failures(A, t))
  BY <1>1, <1>2, GreatestOf
<1>4. \A i \in 1..Len(A[t]) : A[t][i] \in Attempts BY <1>1
<1>5. \A i \in Failures(A, t) : A[t][i].end \in Unavailable BY DEF Failures
<1> QED BY <1>2, <1>3, <1>4, <1>5 DEF LastFailed

\* What is chosen first among candidates is one of them.
LEMMA FirstIsOne ==
  ASSUME NEW S \in SUBSET Candidates, S # {}
  PROVE  FirstOf(S) \in S
<1> DEFINE I == {i \in DOMAIN Ranked : Ranked[i] \in S}
<1>1. DOMAIN Ranked \subseteq Nat BY RoutingAssumption, LenProperties
<1>2. PICK p \in S : TRUE OBVIOUS
<1>3. PICK i \in DOMAIN Ranked : Ranked[i] = p BY <1>2 DEF Candidates, ToSet
<1>4. I \in SUBSET Nat /\ I # {} BY <1>1, <1>3
<1>5. Min(I) \in I
  <2> HIDE DEF I
  <2> QED BY <1>4, LeastOf
<1>6. Ranked[Min(I)] \in S BY <1>5
<1> QED BY <1>6 DEF FirstOf

\* What the selection chooses can run, keeps to a trial or a pin, and is not excluded.
LEMMA Selected ==
  ASSUME setup \in Setups, NEW A, NEW cap, NEW t \in RtTasks, NEW failure, NEW also,
         NEW p, p = TaskRoute(A, cap, t, failure, also).chosen, p # NoProvider
  PROVE  /\ p \in Providers /\ p \in proven /\ cap[p] = "available"
         /\ setup.mode = "pinned" => p = setup.adapter
         /\ setup.trial[t] # NoProvider => p = setup.trial[t]
         /\ setup.trial[t] = NoProvider => p \notin Excluded(A, t, failure, also)
<1>1. setup.trial[t] \in Providers \union {NoProvider} BY RoutingAssumption
<1>2. CASE setup.trial[t] # NoProvider
  <2>1. p = TrialRoute(setup.trial[t], cap).chosen BY <1>2 DEF TaskRoute
  <2> QED BY <1>1, <1>2, <2>1 DEF TrialRoute
<1>3. CASE setup.trial[t] = NoProvider
  <2>1. PICK out : out = Excluded(A, t, failure, also) OBVIOUS
  <2> DEFINE fit == {q \in Candidates \intersect proven : q \notin out /\ cap[q] = "available"}
             eligible == {q \in fit : ~(Cardinality(RunsOn(A, q)) >= ProviderLimit[q])}
  <2>2. PICK sel : sel = Select(A, cap, out) OBVIOUS
  <2>3. sel.eligible = eligible /\ (sel.chosen = NoProvider \/ (eligible # {} /\ sel.chosen = FirstOf(eligible)))
    BY <2>2 DEF Select
  <2>4. eligible \in SUBSET Candidates OBVIOUS
  <2>5. sel.chosen = NoProvider \/ sel.chosen \in eligible
    <3> HIDE DEF eligible
    <3> QED BY <2>3, <2>4, FirstIsOne
  <2>6. p = IF setup.override \in eligible THEN setup.override ELSE sel.chosen
    <3>1. TaskRoute(A, cap, t, failure, also)
            = IF setup.override \in sel.eligible THEN [sel EXCEPT !.chosen = setup.override] ELSE sel
      BY <1>3, <2>1, <2>2 DEF TaskRoute
    <3>2. "chosen" \in DOMAIN sel BY <2>2 DEF Select
    <3> HIDE DEF eligible
    <3> QED BY <2>3, <3>1, <3>2
  <2>7. p \in eligible
    <3> HIDE DEF eligible
    <3> QED BY <2>5, <2>6
  <2>8. Candidates \subseteq Providers
    <3>1. \A i \in DOMAIN Ranked : Ranked[i] \in Providers BY RoutingAssumption
    <3> QED BY <3>1 DEF Candidates, ToSet
  <2> QED BY <1>3, <2>1, <2>7, <2>8 DEF Candidates
<1> QED BY <1>2, <1>3

\* A reroute after a failure the task still carries keeps away from what failed.
LEMMA KeepsAway ==
  ASSUME NEW A, NEW t \in RtTasks, NEW failure \in Unavailable, NEW also, Failures(A, t) # {},
         NEW p \in Providers, p \notin Excluded(A, t, failure, also)
  PROVE  /\ p # LastFailed(A, t).on
         /\ LastFailed(A, t).end = "QUOTA" => DomainOf[p] # DomainOf[LastFailed(A, t).on]
BY DEF Excluded, FailedProvider

\* What the end of the running attempt of a task does to its attempts.
EndedBy(A, t, class) ==
  /\ A \in [RtTasks -> Seq(Attempts)] /\ Len(A[t]) = Len(att[t]) /\ A[t] # <<>>
  /\ \A u \in RtTasks \ {t} : A[u] = att[u]
  /\ \A p \in Providers : RunsOn(A, p) \subseteq RunsOn(att, p)
  /\ Last(A[t]) = [Last(att[t]) EXCEPT !.end = class]
  /\ Failures(att, t) \subseteq Failures(A, t)
  /\ class \in Unavailable => Failures(A, t) # {} /\ LastFailed(A, t) = Last(A[t])

LEMMA Ends ==
  ASSUME RtInv, NEW t \in RtTasks, Running(t), NEW class \in Classes \union {"ok"},
         NEW A, A = EndedAs(t, class)
  PROVE  EndedBy(A, t, class)
<1> DEFINE n == Len(att[t])
<1>1. att \in [RtTasks -> Seq(Attempts)] /\ att[t] \in Seq(Attempts) BY DEF RtInv
<1>2. att[t] # <<>> /\ Last(att[t]).end = "running" BY DEF Running
<1>3. n \in Nat /\ n >= 1 /\ DOMAIN att[t] = 1..n BY <1>1, <1>2, EmptySeq, LenProperties
<1>4. Last(att[t]) = att[t][n] /\ att[t][n] \in Attempts BY <1>1, <1>3 DEF Last
<1>5. PICK row : row = [att[t][n] EXCEPT !.end = class] OBVIOUS
<1>6. row \in Attempts /\ row.end = class BY <1>4, <1>5 DEF Attempts
<1>7. PICK s : s = [att[t] EXCEPT ![n] = row] OBVIOUS
<1>8. A = [att EXCEPT ![t] = s]
  BY <1>1, <1>3, <1>5, <1>7 DEF EndedAs
<1>9. s \in Seq(Attempts) /\ Len(s) = n /\ s[n] = row /\ \A i \in 1..n : i # n => s[i] = att[t][i]
  BY <1>1, <1>3, <1>6, <1>7
<1>10. A[t] = s /\ A \in [RtTasks -> Seq(Attempts)] /\ \A u \in RtTasks \ {t} : A[u] = att[u]
  BY <1>1, <1>8, <1>9
<1>11. Last(A[t]) = row BY <1>9, <1>10 DEF Last
<1>12. DOMAIN A[t] = 1..n /\ DOMAIN s = 1..n BY <1>9, <1>10, LenProperties
<1>13. \A p \in Providers : RunsOn(A, p) \subseteq RunsOn(att, p)
  <2>1. ASSUME NEW p \in Providers, NEW i \in 1..n, s[i].on = p, s[i].end = "running"
        PROVE  att[t][i].on = p /\ att[t][i].end = "running"
    <3>1. i # n BY <1>6, <1>9, <2>1 DEF Classes, Unavailable
    <3> QED BY <1>9, <2>1, <3>1
  <2> QED BY <1>3, <1>10, <1>12, <2>1 DEF RunsOn
<1>14. Failures(att, t) \subseteq Failures(A, t)
  <2>1. "running" \notin Unavailable BY DEF Unavailable
  <2>2. \A i \in 1..n : att[t][i].end \in Unavailable => i # n BY <1>2, <1>4, <2>1
  <2> QED BY <1>3, <1>9, <1>10, <1>12, <2>2 DEF Failures
<1>15. ASSUME class \in Unavailable PROVE Failures(A, t) # {} /\ LastFailed(A, t) = Last(A[t])
  <2>1. n \in Failures(A, t) BY <1>3, <1>6, <1>9, <1>10, <1>12, <1>15 DEF Failures
  <2>2. Max(Failures(A, t)) \in Failures(A, t) /\ n <= Max(Failures(A, t)) BY <1>10, <2>1, LastFailure
  <2>3. Max(Failures(A, t)) \in 1..n BY <1>12, <2>2 DEF Failures
  <2>4. Max(Failures(A, t)) = n BY <1>3, <2>2, <2>3
  <2> QED BY <1>9, <1>10, <1>11, <2>1, <2>4 DEF LastFailed
<1> QED BY <1>3, <1>4, <1>5, <1>9, <1>10, <1>11, <1>12, <1>13, <1>14, <1>15, EmptySeq DEF EndedBy

\* The attempts of one task, one more of them running on p, which had room for it.
LEMMA OneMoreRuns ==
  ASSUME RtInv, NEW t \in RtTasks, NEW A \in [RtTasks -> Seq(Attempts)],
         \A q \in Providers : RunsOn(A, q) \subseteq RunsOn(att, q),
         NEW new \in Attempts, Cardinality(RunsOn(A, new.on) \ {t}) < ProviderLimit[new.on],
         att' = [A EXCEPT ![t] = Append(@, new)]
  PROVE  ProviderCap'
<1> SUFFICES ASSUME NEW q \in Providers PROVE Cardinality(RunsOn(att', q)) <= ProviderLimit[q]
  BY DEF ProviderCap
<1>1. A[t] \in Seq(Attempts) /\ Len(A[t]) \in Nat /\ DOMAIN A[t] = 1..Len(A[t]) OBVIOUS
<1>2. att' \in [RtTasks -> Seq(Attempts)] /\ att'[t] = Append(A[t], new) /\ \A u \in RtTasks \ {t} : att'[u] = A[u]
  BY <1>1
<1>3. /\ DOMAIN att'[t] = 1..(Len(A[t]) + 1) /\ att'[t][Len(A[t]) + 1] = new
      /\ \A i \in 1..Len(A[t]) : att'[t][i] = A[t][i]
  BY <1>1, <1>2, AppendProperties, LenProperties
<1>4. /\ IsFiniteSet(RunsOn(att', q)) /\ IsFiniteSet(RunsOn(A, q)) /\ IsFiniteSet(RunsOn(att, q))
      /\ RunsOn(att, q) \in SUBSET RtTasks
  BY RoutingAssumption, FS_Subset DEF RunsOn
<1>5. Cardinality(RunsOn(att, q)) <= ProviderLimit[q] /\ ProviderLimit[q] \in Nat
  BY RoutingAssumption DEF RtInv, ProviderCap
<1>6. CASE q = new.on
  <2>1. RunsOn(att', q) \subseteq (RunsOn(A, q) \ {t}) \union {t} BY <1>2 DEF RunsOn
  <2>2. IsFiniteSet(RunsOn(A, q) \ {t}) BY <1>4, FS_RemoveElement
  <2>3. /\ IsFiniteSet((RunsOn(A, q) \ {t}) \union {t})
        /\ Cardinality((RunsOn(A, q) \ {t}) \union {t}) = Cardinality(RunsOn(A, q) \ {t}) + 1
    <3>1. t \notin RunsOn(A, q) \ {t} OBVIOUS
    <3> QED BY <2>2, <3>1, FS_AddElement
  <2>4. Cardinality(RunsOn(att', q)) <= Cardinality((RunsOn(A, q) \ {t}) \union {t}) BY <2>1, <2>3, FS_Subset
  <2>5. Cardinality(RunsOn(A, q) \ {t}) \in Nat /\ Cardinality(RunsOn(att', q)) \in Nat
    BY <1>4, <2>2, FS_CardinalityType
  <2> QED BY <1>5, <1>6, <2>3, <2>4, <2>5
<1>7. CASE q # new.on
  <2>1. RunsOn(att', q) \subseteq RunsOn(att, q)
    <3>1. \A i \in DOMAIN att'[t] : att'[t][i].on = q => i \in 1..Len(A[t]) BY <1>1, <1>3, <1>7
    <3>2. RunsOn(att', q) \subseteq RunsOn(A, q) BY <1>1, <1>2, <1>3, <3>1 DEF RunsOn
    <3> QED BY <3>2
  <2>2. Cardinality(RunsOn(att', q)) <= Cardinality(RunsOn(att, q)) BY <1>4, <2>1, FS_Subset
  <2>3. Cardinality(RunsOn(att, q)) \in Nat /\ Cardinality(RunsOn(att', q)) \in Nat
    BY <1>4, FS_CardinalityType
  <2> QED BY <1>5, <2>2, <2>3
<1> QED BY <1>6, <1>7

\* Fewer run: the limits hold as they did.
LEMMA NoMoreRun ==
  ASSUME RtInv, \A q \in Providers : RunsOn(att', q) \subseteq RunsOn(att, q)
  PROVE  ProviderCap'
<1> SUFFICES ASSUME NEW q \in Providers PROVE Cardinality(RunsOn(att', q)) <= ProviderLimit[q]
  BY DEF ProviderCap
<1>1. IsFiniteSet(RunsOn(att, q)) BY RoutingAssumption, FS_Subset DEF RunsOn
<1>2. Cardinality(RunsOn(att', q)) <= Cardinality(RunsOn(att, q)) /\ IsFiniteSet(RunsOn(att', q))
  BY <1>1, FS_Subset
<1>3. Cardinality(RunsOn(att, q)) \in Nat /\ Cardinality(RunsOn(att', q)) \in Nat
  BY <1>1, <1>2, FS_CardinalityType
<1>4. Cardinality(RunsOn(att, q)) <= ProviderLimit[q] /\ ProviderLimit[q] \in Nat
  BY RoutingAssumption DEF RtInv, ProviderCap
<1> QED BY <1>2, <1>3, <1>4

\* A step that starts nothing and leaves task t with row j.
LEMMA Settles ==
  ASSUME RtInv, NEW t \in RtTasks, NEW A \in [RtTasks -> Seq(Attempts)], Len(A[t]) = Len(att[t]),
         \A u \in RtTasks \ {t} : A[u] = att[u], \A p \in Providers : RunsOn(A, p) \subseteq RunsOn(att, p),
         NEW j \in Jobs, Answers(j, A, t),
         att' = A, job' = [job EXCEPT ![t] = j], proven' = proven, setup' = setup
  PROVE  RtInv' /\ StartsRight
<1>1. job' \in [RtTasks -> Jobs] /\ job'[t] = j /\ \A u \in RtTasks \ {t} : job'[u] = job[u] BY DEF RtInv
<1>2. ProviderCap' BY NoMoreRun
<1>3. ASSUME NEW u \in RtTasks PROVE Answers(job'[u], att', u)
  <2>1. Answers(job[u], att, u) BY DEF RtInv
  <2>2. CASE u = t BY <1>1, <2>2
  <2>3. CASE u # t
    <3>1. att'[u] = att[u] /\ job'[u] = job[u] BY <1>1, <2>3
    <3> QED BY <2>1, <3>1 DEF Answers, Failures
  <2> QED BY <2>2, <2>3
<1>4. \A u \in RtTasks : Len(att'[u]) = Len(att[u]) /\ Len(att[u]) \in Nat
  BY LenProperties DEF RtInv
<1>5. \A u \in RtTasks : ~Started(u) BY <1>4 DEF Started
<1> QED BY <1>1, <1>2, <1>3, <1>5 DEF RtInv, StartsRight, Elsewhere, AsPinned

\* Whatever a launch comes to: started where it fits, parked, or blocked.
LEMMA Launches ==
  ASSUME RtInv, NEW t \in RtTasks, NEW A \in [RtTasks -> Seq(Attempts)], Len(A[t]) = Len(att[t]),
         \A u \in RtTasks \ {t} : A[u] = att[u], \A p \in Providers : RunsOn(A, p) \subseteq RunsOn(att, p),
         NEW j \in Jobs, j.failure \in Unavailable => Failures(A, t) # {},
         NEW kind \in {"initial", "repair", "reroute"}, kind = "reroute" => Interrupted(A[t]),
         NEW sel, sel.chosen # NoProvider => Fits(sel.chosen, A, t, kind) /\ capacity'[sel.chosen] = "available",
         Launch(A, j, t, kind, sel)
  PROVE  RtInv' /\ StartsRight
<1>1. proven' = proven /\ setup' = setup BY DEF Launch
<1>2. A[t] \in Seq(Attempts) /\ Len(A[t]) \in Nat /\ DOMAIN A[t] = 1..Len(A[t]) OBVIOUS
<1>3. A[t] # <<>> => Len(A[t]) \in DOMAIN A[t] /\ A[t][Len(A[t])] \in Attempts BY <1>2, EmptySeq
<1>4. Interrupted(A[t]) => A[t] # <<>> /\ Failures(A, t) # {} /\ Last(A[t]).end \in Classes
  BY <1>3 DEF Interrupted, Last, Failures, Classes
<1>5. PICK l : l = Last(A[t]).end OBVIOUS
<1>6. ASSUME job' = [job EXCEPT ![t] = ParkedAs(A, j, t, kind)], att' = A PROVE RtInv' /\ StartsRight
  <2>1. PICK f : f = IF kind = "reroute" /\ A[t] # <<>> /\ l \in Classes THEN l ELSE j.failure OBVIOUS
  <2>2. ParkedAs(A, j, t, kind) = [j EXCEPT !.state = "parked", !.parked = kind, !.failure = f]
    BY <1>5, <2>1 DEF ParkedAs
  <2>3. PICK k : k = ParkedAs(A, j, t, kind) OBVIOUS
  <2>4. f \in Classes \union {"none"} BY <2>1 DEF Jobs
  <2>5. k \in Jobs /\ k.state = "parked" /\ k.parked = kind /\ k.failure = f BY <2>2, <2>3, <2>4 DEF Jobs
  <2>6. kind = "reroute" => f \in Unavailable BY <1>4, <1>5, <2>1 DEF Interrupted
  <2>7. f \in Unavailable => Failures(A, t) # {} BY <1>4, <2>1
  <2>8. Answers(k, A, t) BY <2>5, <2>6, <2>7 DEF Answers
  <2> QED BY <1>1, <1>6, <2>3, <2>5, <2>8, Settles
<1>7. ASSUME NEW class \in Classes, job' = [job EXCEPT ![t] = BlockedAs(j, class)], att' = A PROVE RtInv' /\ StartsRight
  <2>1. PICK k : k = BlockedAs(j, class) OBVIOUS
  <2>2. k \in Jobs /\ k.state = "blocked" /\ k.parked = "none" BY <2>1 DEF BlockedAs, Jobs
  <2>3. Answers(k, A, t) BY <2>2 DEF Answers
  <2> QED BY <1>1, <1>7, <2>1, <2>2, <2>3, Settles
<1>8. ASSUME sel.chosen # NoProvider, NEW room \in BOOLEAN, Admits(A, t, sel.chosen, room),
             att' = [A EXCEPT ![t] = Append(@, [on |-> sel.chosen, kind |-> kind, stage |-> StageOf(A, t, kind), end |-> "running"])],
             job' = [job EXCEPT ![t] = [j EXCEPT !.state = "running", !.parked = "none"]]
      PROVE  RtInv' /\ StartsRight
  <2>1. PICK p : p = sel.chosen OBVIOUS
  <2>2. PICK stage : stage = StageOf(A, t, kind) OBVIOUS
  <2>3. stage \in {"implement", "repair"} BY <2>2 DEF StageOf
  <2>4. Fits(p, A, t, kind) /\ capacity'[p] = "available" /\ p \in Providers BY <1>8, <2>1 DEF Fits
  <2>5. PICK new \in Attempts : /\ new.on = p /\ new.kind = kind /\ new.stage = stage /\ new.end = "running"
                                /\ att' = [A EXCEPT ![t] = Append(@, new)]
    <3>1. [on |-> p, kind |-> kind, stage |-> stage, end |-> "running"] \in Attempts BY <2>3, <2>4 DEF Attempts
    <3> QED BY <1>8, <2>1, <2>2, <3>1
  <2>6. Cardinality(RunsOn(A, new.on) \ {t}) < ProviderLimit[new.on] BY <1>8, <2>1, <2>5 DEF Admits
  <2>7. ProviderCap' BY <2>5, <2>6, OneMoreRuns
  <2>8. PICK k : k = [j EXCEPT !.state = "running", !.parked = "none"] OBVIOUS
  <2>9. k \in Jobs /\ k.state = "running" /\ k.parked = "none" /\ k.failure = j.failure BY <2>8 DEF Jobs
  <2>10. job' \in [RtTasks -> Jobs] /\ job'[t] = k /\ \A u \in RtTasks \ {t} : job'[u] = job[u]
    BY <1>8, <2>8, <2>9 DEF RtInv
  <2>11. /\ att' \in [RtTasks -> Seq(Attempts)] /\ att'[t] = Append(A[t], new)
         /\ \A u \in RtTasks \ {t} : att'[u] = att[u]
    BY <1>2, <2>5
  <2>12. /\ Len(att'[t]) = Len(A[t]) + 1 /\ DOMAIN att'[t] = 1..(Len(A[t]) + 1) /\ att'[t][Len(A[t]) + 1] = new
         /\ \A i \in 1..Len(A[t]) : att'[t][i] = A[t][i]
    BY <1>2, <2>11, AppendProperties, LenProperties
  <2>13. Failures(att', t) = Failures(A, t)
    <3>1. new.end \notin Unavailable BY <2>5 DEF Unavailable
    <3> QED BY <1>2, <2>12, <3>1 DEF Failures
  <2>14. ASSUME NEW u \in RtTasks PROVE Answers(job'[u], att', u)
    <3>1. CASE u = t BY <2>9, <2>10, <2>13, <3>1 DEF Answers
    <3>2. CASE u # t
      <4>1. att'[u] = att[u] /\ job'[u] = job[u] /\ Answers(job[u], att, u) BY <2>10, <2>11, <3>2 DEF RtInv
      <4> QED BY <4>1 DEF Answers, Failures
    <3> QED BY <3>1, <3>2
  <2>15. RtInv' BY <1>1, <2>7, <2>10, <2>11, <2>14 DEF RtInv
  <2>16. Last(att'[t]) = new BY <1>2, <2>12 DEF Last
  <2>17. AsPinned(t) BY <2>4, <2>5, <2>16 DEF AsPinned, Fits
  <2>18. Elsewhere(t)
    <3> SUFFICES ASSUME kind = "reroute"
                 PROVE  /\ new.stage = Before(t).stage
                        /\ setup.trial[t] = NoProvider =>
                             /\ new.on # LastFailed(att', t).on
                             /\ LastFailed(att', t).end = "QUOTA" => DomainOf[new.on] # DomainOf[LastFailed(att', t).on]
      BY <2>5, <2>16 DEF Elsewhere
    <3>1. A[t] # <<>> /\ Failures(A, t) # {} BY <1>4
    <3>2. Before(t) = Last(A[t]) /\ Last(A[t]).stage \in {"implement", "repair"}
      BY <1>2, <1>3, <2>12, <3>1 DEF Before, Last, Attempts
    <3>3. new.stage = Before(t).stage BY <2>2, <2>5, <3>1, <3>2 DEF StageOf
    <3>4. Max(Failures(A, t)) \in 1..Len(A[t]) BY <1>2, <3>1, LastFailure DEF Failures
    <3>5. LastFailed(att', t) = LastFailed(A, t) BY <2>12, <2>13, <3>4 DEF LastFailed
    <3> QED BY <2>4, <2>5, <3>3, <3>5 DEF Fits
  <2>19. \A u \in RtTasks \ {t} : ~Started(u)
    <3>1. \A u \in RtTasks : Len(att[u]) \in Nat BY LenProperties DEF RtInv
    <3> QED BY <2>11, <3>1 DEF Started
  <2>20. StartsRight BY <2>17, <2>18, <2>19 DEF StartsRight, Elsewhere, AsPinned
  <2> QED BY <2>15, <2>20
<1>9. Repeated(A, t, sel.chosen) => Last(A[t]).end \in Classes BY DEF Repeated, Last
<1>10. PICK room \in BOOLEAN :
         \/ att' = A /\ job' = [job EXCEPT ![t] = ParkedAs(A, j, t, kind)]
         \/ att' = A /\ job' = [job EXCEPT ![t] = BlockedAs(j, "INFRA")]
         \/ att' = A /\ job' = [job EXCEPT ![t] = BlockedAs(j, l)] /\ l \in Classes
         \/ /\ sel.chosen # NoProvider /\ Admits(A, t, sel.chosen, room)
            /\ att' = [A EXCEPT ![t] = Append(@, [on |-> sel.chosen, kind |-> kind, stage |-> StageOf(A, t, kind), end |-> "running"])]
            /\ job' = [job EXCEPT ![t] = [j EXCEPT !.state = "running", !.parked = "none"]]
  BY <1>5, <1>9 DEF Launch
<1>11. "INFRA" \in Classes BY DEF Classes
<1> QED BY <1>6, <1>7, <1>8, <1>10, <1>11

\* The route of a task fits it: in particular a reroute of what the task still carries.
FitsIfChosen(sel, A, cap, t, kind) ==
  sel.chosen # NoProvider => Fits(sel.chosen, A, t, kind) /\ cap[sel.chosen] = "available"

LEMMA Routed ==
  ASSUME RtInv, NEW A \in [RtTasks -> Seq(Attempts)], NEW cap, NEW t \in RtTasks, NEW failure, NEW also, NEW kind,
         kind # "reroute" \/ (failure \in Unavailable /\ Failures(A, t) # {})
  PROVE  FitsIfChosen(TaskRoute(A, cap, t, failure, also), A, cap, t, kind)
<1>1. PICK p : p = TaskRoute(A, cap, t, failure, also).chosen OBVIOUS
<1> SUFFICES ASSUME p # NoProvider PROVE Fits(p, A, t, kind) /\ cap[p] = "available"
  BY <1>1 DEF FitsIfChosen
<1>2. setup \in Setups BY DEF RtInv
<1>3. /\ p \in Providers /\ cap[p] = "available"
      /\ setup.mode = "pinned" => p = setup.adapter
      /\ setup.trial[t] # NoProvider => p = setup.trial[t]
      /\ setup.trial[t] = NoProvider => p \notin Excluded(A, t, failure, also)
  BY <1>1, <1>2, Selected
<1>4. ASSUME kind = "reroute", setup.trial[t] = NoProvider
      PROVE  /\ p # LastFailed(A, t).on
             /\ LastFailed(A, t).end = "QUOTA" => DomainOf[p] # DomainOf[LastFailed(A, t).on]
  BY <1>3, <1>4, KeepsAway
<1> QED BY <1>3, <1>4 DEF Fits

LEMMA RtInvInit == RtInit => RtInv
<1> SUFFICES ASSUME RtInit PROVE RtInv OBVIOUS
<1>1. setup \in Setups /\ proven \subseteq setup.installed BY DEF RtInit
<1>2. PICK j \in Jobs : /\ j.state = "ready" /\ j.failure = "none" /\ j.parked = "none"
                        /\ job = [t \in RtTasks |-> j]
  <2>1. [state |-> "ready", failure |-> "none", parked |-> "none", repairs |-> 0, retried |-> FALSE] \in Jobs
    BY DEF Jobs
  <2> QED BY <2>1 DEF RtInit
<1>3. att \in [RtTasks -> Seq(Attempts)] /\ \A t \in RtTasks : att[t] = <<>> BY EmptySeq DEF RtInit
<1>4. \A t \in RtTasks : Answers(job[t], att, t) BY <1>2 DEF Answers, Unavailable
<1>5. ProviderCap
  <2>1. \A p \in Providers : RunsOn(att, p) = {} BY <1>3 DEF RunsOn
  <2>2. Cardinality({}) = 0 BY FS_EmptySet
  <2>3. \A p \in Providers : 0 <= ProviderLimit[p] BY RoutingAssumption
  <2> QED BY <2>1, <2>2, <2>3 DEF ProviderCap
<1> QED BY <1>1, <1>2, <1>3, <1>4, <1>5 DEF RtInv

LEMMA DispatchKeeps ==
  ASSUME RtInv, NEW t \in RtTasks, Dispatch(t) \/ ResumeLaunch(t)
  PROVE  RtInv' /\ StartsRight
<1>1. PICK A : A = att OBVIOUS
<1>2. PICK j : j = job[t] OBVIOUS
<1>3. A \in [RtTasks -> Seq(Attempts)] /\ j \in Jobs /\ Answers(j, A, t) BY <1>1, <1>2 DEF RtInv
<1>4. PICK sel : sel = TaskRoute(A, capacity, t, j.failure, {}) OBVIOUS
<1>5. PICK kind : kind = IF j.state = "parked" THEN j.parked ELSE IF j.failure \in Unavailable THEN "reroute" ELSE "initial"
  OBVIOUS
<1>6. j.state \in {"ready", "parked"} /\ capacity' = capacity BY <1>2 DEF Dispatch, ResumeLaunch
<1>7. kind \in {"initial", "repair", "reroute"} BY <1>3, <1>5 DEF Answers, Jobs
<1>8. kind = "reroute" => j.failure \in Unavailable /\ Failures(A, t) # {} /\ Interrupted(A[t])
  BY <1>3, <1>5, <1>6 DEF Answers
<1>9. j.failure \in Unavailable => Failures(A, t) # {} BY <1>3, <1>6 DEF Answers
<1>10. ASSUME sel.chosen # NoProvider PROVE Fits(sel.chosen, A, t, kind) /\ capacity'[sel.chosen] = "available"
  <2>1. FitsIfChosen(TaskRoute(A, capacity, t, j.failure, {}), A, capacity, t, kind)
    BY <1>3, <1>8, Routed
  <2> QED BY <1>4, <1>6, <1>10, <2>1 DEF FitsIfChosen
<1>11. \/ Launch(A, j, t, kind, sel)
       \/ job' = [job EXCEPT ![t] = BlockedAs(j, BlockClass)] /\ UNCHANGED <<att, proven, setup>>
  <2>1. CASE Dispatch(t) BY <1>1, <1>2, <1>4, <1>5, <2>1 DEF Dispatch, RtInv
  <2>2. CASE ResumeLaunch(t) BY <1>1, <1>2, <1>4, <1>5, <2>2 DEF ResumeLaunch
  <2> QED BY <2>1, <2>2
<1>12. CASE Launch(A, j, t, kind, sel) BY <1>1, <1>3, <1>7, <1>8, <1>9, <1>10, <1>12, Launches
<1>13. CASE job' = [job EXCEPT ![t] = BlockedAs(j, BlockClass)] /\ UNCHANGED <<att, proven, setup>>
  <2>1. PICK k : k = BlockedAs(j, BlockClass) OBVIOUS
  <2>2. BlockClass \in Classes BY DEF BlockClass, Classes, Unavailable
  <2>3. k \in Jobs /\ k.state = "blocked" /\ k.parked = "none" BY <1>3, <2>1, <2>2 DEF BlockedAs, Jobs
  <2>4. Answers(k, A, t) BY <2>3 DEF Answers
  <2> QED BY <1>1, <1>3, <1>13, <2>1, <2>3, <2>4, Settles
<1> QED BY <1>11, <1>12, <1>13

LEMMA ProviderFailsKeeps ==
  ASSUME RtInv, NEW t \in RtTasks, NEW class \in Unavailable, ProviderFails(t, class)
  PROVE  RtInv' /\ StartsRight
<1>1. PICK A : A = EndedAs(t, class) OBVIOUS
<1>2. Running(t) /\ class \in Classes BY DEF ProviderFails, Classes
<1>3. /\ A \in [RtTasks -> Seq(Attempts)] /\ Len(A[t]) = Len(att[t]) /\ A[t] # <<>>
      /\ \A u \in RtTasks \ {t} : A[u] = att[u]
      /\ \A p \in Providers : RunsOn(A, p) \subseteq RunsOn(att, p)
      /\ Last(A[t]) = [Last(att[t]) EXCEPT !.end = class]
      /\ Failures(A, t) # {} /\ LastFailed(A, t) = Last(A[t])
  <2>1. EndedBy(A, t, class) BY <1>1, <1>2, Ends
  <2> QED BY <2>1 DEF EndedBy
<1>4. LastFailed(A, t) \in Attempts BY <1>3, LastFailure
<1>5. /\ Last(A[t]).on = Last(att[t]).on /\ Interrupted(A[t])
      /\ Last(A[t]).end = class
  <2>1. Last(att[t]) \in Attempts
    <3>1. att[t] # <<>> /\ att[t] \in Seq(Attempts) BY <1>2 DEF Running, RtInv
    <3> QED BY <3>1, EmptySeq DEF Last
  <2> QED BY <1>3, <2>1 DEF Interrupted, Attempts
<1>6. PICK on \in Providers : on = Last(att[t]).on BY <1>3, <1>4, <1>5 DEF Attempts
<1>7. PICK cap : cap = CapacityAfter(on, class) OBVIOUS
<1>8. PICK j : j = Fresh(job[t]) OBVIOUS
<1>9. job[t] \in Jobs /\ job[t].state = "running" /\ Answers(job[t], att, t) BY <1>2 DEF RtInv, Running
<1>10. j \in Jobs /\ j.state = "running" /\ j.parked = "none" BY <1>8, <1>9 DEF Fresh, Jobs, Answers
<1>11. PICK sel : sel = TaskRoute(A, cap, t, job[t].failure, {on}) OBVIOUS
<1>12. /\ capacity' = cap
       /\ \/ sel.chosen # NoProvider /\ Launch(A, j, t, "reroute", sel)
          \/ /\ att' = A /\ UNCHANGED <<proven, setup>>
             /\ \/ job' = [job EXCEPT ![t] = [j EXCEPT !.state = "ready", !.failure = class]]
                \/ job' = [job EXCEPT ![t] = BlockedAs(j, class)]
  BY <1>1, <1>6, <1>7, <1>8, <1>11 DEF ProviderFails
<1>13. sel.chosen # NoProvider => Fits(sel.chosen, A, t, "reroute") /\ capacity'[sel.chosen] = "available"
  <2> SUFFICES ASSUME sel.chosen # NoProvider PROVE Fits(sel.chosen, A, t, "reroute") /\ capacity'[sel.chosen] = "available"
    OBVIOUS
  <2>1. PICK p : p = sel.chosen OBVIOUS
  <2>2. setup \in Setups /\ proven \subseteq setup.installed BY DEF RtInv
  <2>3. /\ p \in Providers /\ p \in proven /\ cap[p] = "available"
        /\ setup.mode = "pinned" => p = setup.adapter
        /\ setup.trial[t] # NoProvider => p = setup.trial[t]
        /\ setup.trial[t] = NoProvider => p \notin Excluded(A, t, job[t].failure, {on})
    BY <1>11, <2>1, <2>2, Selected
  <2>4. setup.trial[t] = NoProvider => p # on BY <2>3 DEF Excluded
  <2>5. class = "QUOTA" => DomainOf[p] # DomainOf[on]
    BY <1>7, <2>2, <2>3 DEF CapacityAfter
  <2> QED BY <1>3, <1>5, <1>6, <1>12, <2>1, <2>3, <2>4, <2>5 DEF Fits
<1>14. CASE Launch(A, j, t, "reroute", sel) BY <1>3, <1>5, <1>10, <1>13, <1>14, Launches
<1>15. ASSUME NEW k \in {[j EXCEPT !.state = "ready", !.failure = class], BlockedAs(j, class)},
              att' = A, UNCHANGED <<proven, setup>>, job' = [job EXCEPT ![t] = k]
       PROVE  RtInv' /\ StartsRight
  <2>1. k \in Jobs /\ k.state \in {"ready", "blocked"} /\ k.parked = "none"
    BY <1>2, <1>10 DEF BlockedAs, Jobs
  <2>2. Answers(k, A, t) BY <1>3, <1>5, <2>1 DEF Answers
  <2> QED BY <1>3, <1>15, <2>1, <2>2, Settles
<1> QED BY <1>12, <1>14, <1>15

LEMMA WorkerFailsKeeps ==
  ASSUME RtInv, NEW t \in RtTasks, NEW class \in Classes, WorkerFails(t, class)
  PROVE  RtInv' /\ StartsRight
<1>1. PICK A : A = EndedAs(t, class) OBVIOUS
<1>2. Running(t) /\ capacity' = capacity BY DEF WorkerFails
<1>3. /\ A \in [RtTasks -> Seq(Attempts)] /\ Len(A[t]) = Len(att[t])
      /\ \A u \in RtTasks \ {t} : A[u] = att[u]
      /\ \A p \in Providers : RunsOn(A, p) \subseteq RunsOn(att, p)
      /\ Failures(att, t) \subseteq Failures(A, t)
  <2>1. EndedBy(A, t, class) BY <1>1, <1>2, Ends
  <2> QED BY <2>1 DEF EndedBy
<1>4. PICK j : j = Fresh(job[t]) OBVIOUS
<1>5. job[t] \in Jobs /\ job[t].state = "running" /\ Answers(job[t], att, t) BY <1>2 DEF RtInv, Running
<1>6. j \in Jobs /\ j.state = "running" /\ j.parked = "none" /\ j.failure = job[t].failure
  BY <1>4, <1>5 DEF Fresh, Jobs, Answers
<1>7. j.failure \in Unavailable => Failures(A, t) # {} BY <1>3, <1>5, <1>6 DEF Answers
<1>8. PICK n : n = j.repairs + 1 OBVIOUS
<1>9. PICK k : k = [j EXCEPT !.repairs = n] OBVIOUS
<1>10. k \in Jobs /\ k.failure = j.failure BY <1>6, <1>8, <1>9 DEF Jobs
<1>11. PICK sel : sel = TaskRoute(A, capacity, t, k.failure, {}) OBVIOUS
<1>12. \/ Launch(A, k, t, "repair", sel)
       \/ /\ att' = A /\ UNCHANGED <<proven, setup>>
          /\ \/ job' = [job EXCEPT ![t] = [j EXCEPT !.state = "failed", !.failure = class]] /\ class = "CODE"
             \/ job' = [job EXCEPT ![t] = BlockedAs(j, class)]
  BY <1>1, <1>4, <1>8, <1>9, <1>11 DEF WorkerFails
<1>13. ASSUME sel.chosen # NoProvider PROVE Fits(sel.chosen, A, t, "repair") /\ capacity'[sel.chosen] = "available"
  <2>1. FitsIfChosen(TaskRoute(A, capacity, t, k.failure, {}), A, capacity, t, "repair")
    BY <1>3, Routed
  <2> QED BY <1>2, <1>11, <1>13, <2>1 DEF FitsIfChosen
<1>14. CASE Launch(A, k, t, "repair", sel) BY <1>3, <1>7, <1>10, <1>13, <1>14, Launches
<1>15. ASSUME NEW h \in {[j EXCEPT !.state = "failed", !.failure = class], BlockedAs(j, class)},
              h.state = "failed" => class = "CODE",
              att' = A, UNCHANGED <<proven, setup>>, job' = [job EXCEPT ![t] = h]
       PROVE  RtInv' /\ StartsRight
  <2>1. h \in Jobs /\ h.state \in {"failed", "blocked"} /\ h.parked = "none" /\ h.failure = class
    BY <1>6 DEF BlockedAs, Jobs
  <2>2. Answers(h, A, t) BY <1>15, <2>1 DEF Answers, Unavailable
  <2> QED BY <1>3, <1>15, <2>1, <2>2, Settles
<1>16. BlockedAs(j, class).state = "blocked" BY <1>6 DEF BlockedAs, Jobs
<1> QED BY <1>12, <1>14, <1>15, <1>16

LEMMA WorkEndsKeeps ==
  ASSUME RtInv, NEW t \in RtTasks, WorkerSucceeds(t) \/ ChecksFinish(t) \/ RetryTask(t)
  PROVE  RtInv' /\ StartsRight
<1>1. job[t] \in Jobs /\ Answers(job[t], att, t) /\ att \in [RtTasks -> Seq(Attempts)] BY DEF RtInv
<1>2. PICK j : j = job[t] OBVIOUS
<1>3. PICK B : B = att OBVIOUS
<1>4. CASE WorkerSucceeds(t)
  <2>1. PICK A : A = EndedAs(t, "ok") OBVIOUS
  <2>2. /\ A \in [RtTasks -> Seq(Attempts)] /\ Len(A[t]) = Len(att[t])
        /\ \A u \in RtTasks \ {t} : A[u] = att[u]
        /\ \A p \in Providers : RunsOn(A, p) \subseteq RunsOn(att, p)
    <3>1. Running(t) /\ "ok" \in Classes \union {"ok"} BY <1>4 DEF WorkerSucceeds
    <3>2. EndedBy(A, t, "ok") BY <2>1, <3>1, Ends
    <3> QED BY <3>2 DEF EndedBy
  <2>3. PICK k : k = [Fresh(j) EXCEPT !.state = "checking", !.failure = "none"] OBVIOUS
  <2>4. j.state = "running" BY <1>2, <1>4 DEF WorkerSucceeds, Running
  <2>5. k \in Jobs /\ k.failure = "none" /\ k.state = "checking" /\ k.parked = "none"
    BY <1>1, <1>2, <2>3, <2>4 DEF Fresh, Jobs, Answers
  <2>6. att' = A /\ job' = [job EXCEPT ![t] = k] /\ UNCHANGED <<proven, setup>>
    BY <1>2, <1>4, <2>1, <2>3 DEF WorkerSucceeds, RtInv
  <2>7. Answers(k, A, t) BY <2>5 DEF Answers, Unavailable
  <2> QED BY <2>2, <2>5, <2>6, <2>7, Settles
<1>5. ASSUME NEW k \in Jobs, Answers(k, B, t), job' = [job EXCEPT ![t] = k], UNCHANGED <<att, proven, setup>>
      PROVE  RtInv' /\ StartsRight
  BY <1>1, <1>3, <1>5, Settles
<1>6. CASE ChecksFinish(t)
  <2>1. j.state = "checking" /\ j.parked = "none" BY <1>1, <1>2, <1>6 DEF ChecksFinish, Answers, Jobs
  <2>2. CASE job' = [job EXCEPT ![t].state = "done"] /\ UNCHANGED <<att, proven, setup>>
    <3>1. PICK k : k = [j EXCEPT !.state = "done"] OBVIOUS
    <3>2. k \in Jobs /\ Answers(k, B, t)
      BY <1>1, <1>2, <1>3, <2>1, <3>1 DEF Jobs, Answers
    <3>3. job' = [job EXCEPT ![t] = k] BY <1>2, <2>2, <3>1 DEF RtInv
    <3> QED BY <1>5, <2>2, <3>2, <3>3
  <2>3. CASE job' = [job EXCEPT ![t].state = "failed", ![t].failure = "CODE"] /\ UNCHANGED <<att, proven, setup>>
    <3>1. PICK k : k = [j EXCEPT !.state = "failed", !.failure = "CODE"] OBVIOUS
    <3>2. k \in Jobs /\ Answers(k, B, t)
      BY <1>1, <1>2, <1>3, <2>1, <3>1 DEF Jobs, Answers, Classes, Unavailable
    <3>3. job' = [job EXCEPT ![t] = k] BY <1>2, <2>3, <3>1 DEF RtInv
    <3> QED BY <1>5, <2>3, <3>2, <3>3
  <2>4. PICK n : n = j.repairs + 1 OBVIOUS
  <2>5. PICK k : k = [j EXCEPT !.repairs = n] OBVIOUS
  <2>6. k \in Jobs /\ k.failure = j.failure
    <3>1. j \in Jobs /\ n \in Nat BY <1>1, <1>2, <2>4 DEF Jobs
    <3> QED BY <2>5, <3>1 DEF Jobs
  <2>7. PICK sel : sel = TaskRoute(B, capacity, t, k.failure, {}) OBVIOUS
  <2>8. CASE Launch(B, k, t, "repair", sel)
    <3>1. capacity' = capacity BY <1>6 DEF ChecksFinish
    <3>2. ASSUME sel.chosen # NoProvider PROVE Fits(sel.chosen, B, t, "repair") /\ capacity'[sel.chosen] = "available"
      <4>1. FitsIfChosen(TaskRoute(B, capacity, t, k.failure, {}), B, capacity, t, "repair")
        BY <1>1, <1>3, Routed
      <4> QED BY <2>7, <3>1, <3>2, <4>1 DEF FitsIfChosen
    <3>3. k.failure \in Unavailable => Failures(B, t) # {} BY <1>1, <1>2, <1>3, <2>1, <2>6 DEF Answers
    <3> QED BY <1>1, <1>3, <2>6, <2>8, <3>2, <3>3, Launches
  <2> QED BY <1>2, <1>3, <1>6, <2>2, <2>3, <2>4, <2>5, <2>7, <2>8 DEF ChecksFinish
<1>7. CASE RetryTask(t)
  <2>1. PICK k : k = [j EXCEPT !.state = "ready", !.failure = "none", !.parked = "none", !.retried = TRUE] OBVIOUS
  <2>2. k \in Jobs /\ Answers(k, B, t) BY <1>1, <1>2, <2>1 DEF Jobs, Answers, Unavailable
  <2>3. job' = [job EXCEPT ![t] = k] BY <1>2, <1>7, <2>1 DEF RetryTask, RtInv
  <2> QED BY <1>5, <1>7, <2>2, <2>3 DEF RetryTask
<1> QED BY <1>4, <1>6, <1>7

LEMMA RtInvStep == RtInv /\ [RtNext]_rtVars => RtInv' /\ StartsRight
<1> SUFFICES ASSUME RtInv, [RtNext]_rtVars PROVE RtInv' /\ StartsRight OBVIOUS
<1>1. ASSUME job' = job, att' = att, setup' = setup, proven' \subseteq setup.installed PROVE RtInv' /\ StartsRight
  <2>1. ProviderCap' BY <1>1, NoMoreRun
  <2>2. \A t \in RtTasks : Answers(job'[t], att', t) BY <1>1 DEF RtInv
  <2>3. \A t \in RtTasks : ~Started(t)
    <3>1. \A t \in RtTasks : Len(att[t]) \in Nat BY LenProperties DEF RtInv
    <3> QED BY <1>1, <3>1 DEF Started
  <2> QED BY <1>1, <2>1, <2>2, <2>3 DEF RtInv, StartsRight, Elsewhere, AsPinned
<1>2. proven \subseteq setup.installed BY DEF RtInv
<1>3. ASSUME NEW p \in Providers, CooldownExpires(p) \/ ResetProvider(p) \/ VerifyEntitlement(p)
      PROVE  RtInv' /\ StartsRight
  BY <1>1, <1>2, <1>3 DEF CooldownExpires, ResetProvider, VerifyEntitlement
<1>4. CASE UNCHANGED rtVars BY <1>1, <1>2, <1>4 DEF rtVars
<1>5. ASSUME NEW t \in RtTasks, NEW class \in Classes, ProviderFails(t, class) PROVE RtInv' /\ StartsRight
  BY <1>5, ProviderFailsKeeps DEF ProviderFails
<1> QED BY <1>3, <1>4, <1>5, DispatchKeeps, WorkerFailsKeeps, WorkEndsKeeps DEF RtNext

\* Whatever fails, waits, is parked, retried or reopened: a reroute runs where nothing failed
\* and goes on where it was interrupted, pins and trials are kept, and no provider runs more
\* than its limit.
THEOREM RoutesAreKept == RtSpec => RoutesHold
<1>1. RtInv => ProviderCap BY DEF RtInv
<1>2. StartsRight => /\ [\A t \in RtTasks : Elsewhere(t)]_rtVars
                     /\ [\A t \in RtTasks : AsPinned(t)]_rtVars
  BY DEF StartsRight
<1>3. RtSpec => [][\A t \in RtTasks : Elsewhere(t)]_rtVars /\ [][\A t \in RtTasks : AsPinned(t)]_rtVars /\ []ProviderCap
  BY <1>1, <1>2, RtInvInit, RtInvStep, PTL DEF RtSpec
<1> QED BY <1>3 DEF RoutesHold, RerouteElsewhere, PinsHold, Elsewhere, AsPinned
-----------------------------------------------------------------------------
(* Plans: what the depth-first visit finds, and what becomes of the tasks. *)

\* The least number of a set.
LEMMA LeastNumber ==
  ASSUME NEW S \in SUBSET Nat, S # {}
  PROVE  \E m \in S : \A y \in S : m <= y
<1>1. IsWellFoundedOn(OpToRel(<, Nat), Nat) BY NatLessThanWellFounded
<1>2. PICK m \in S : \A y \in S : ~(<<y, m>> \in OpToRel(<, Nat)) BY <1>1, WFMin
<1>3. \A y \in S : ~(y < m) BY <1>2 DEF OpToRel
<1> QED BY <1>3

Frames  == [key : Keys, at : Nat \ {0}]
RowOf   == [dependsOn : SUBSET Keys, state : {"QUEUED", "RUNNING", "DONE"}]
RivalsOf(k, l) == scopesOverlap(TaskOf(k).scope, TaskOf(l).scope)
Found(d, i) == d \in Visited \/ (i < Len(Calls) /\ Calls[i + 1].key = d)

\* A key comes after its dependencies; a call has seen the dependencies before the one it
\* looks at, the last of them perhaps in the call above it; and so for the tasks begun with.
AfterDeps   == \A i \in DOMAIN search.order : \A k \in Keys : search.order[i] = k =>
                 \A d \in DepsOf(k) : \E j \in 1..(i - 1) : search.order[j] = d
Seen(k, n)  == {d \in Keys : \E p \in 1..n : p <= Len(TaskOf(k).dependsOn) /\ TaskOf(k).dependsOn[p] = d}
CallsBelow  == \A i \in DOMAIN Calls : \A k \in Keys, n \in Nat : Calls[i].key = k /\ Calls[i].at = n + 1 =>
                 \A d \in Seen(k, n) : Found(d, i)
RootsBegun  == \A n \in 1..(search.root - 1) : \A d \in Keys : plan.tasks[n].key = d => Found(d, 0)
Acyclic     == AfterDeps /\ CallsBelow /\ RootsBegun

\* What validation leaves: no cycle, no dependency outside the plan, no two tasks that may
\* run beside each other and may write the same.
Sound ==
  /\ ~search.cycle
  /\ \A k \in Keys : DepsOf(k) = ToSet(TaskOf(k).dependsOn)
  /\ \A k, l \in ParallelKeys : k # l /\ ~Ordered(k, l) => ~RivalsOf(k, l)

\* An applied plan has a row for every task, and those that run are admitted beside each other.
Applied ==
  /\ DOMAIN rows = Keys /\ \A k \in Keys : rows[k] \in RowOf /\ rows[k].dependsOn = DepsOf(k)
  /\ \A k, l \in InState("RUNNING") : k # l => ~RefusedBy(k, l)

EpInv ==
  /\ EpTypeOK
  /\ ~search.cycle => Acyclic
  /\ step \in {"validated", "refused", "applied"} => Searched /\ Sound
  /\ step = "refused" => \E k \in Keys : CreateRefuses(k)
  /\ step = "applied" => Applied
  /\ step # "applied" => rows = <<>> /\ told = -1 /\ Len(plans) <= Earlier

\* A key is of a task of the plan.
LEMMA TaskFound ==
  ASSUME plan \in Plans, NEW k \in Keys
  PROVE  /\ TaskOf(k) \in PlannedTasks /\ TaskOf(k).key = k /\ TaskOf(k).dependsOn \in Seq(STRING)
         /\ Len(TaskOf(k).dependsOn) \in Nat /\ DOMAIN TaskOf(k).dependsOn = 1..Len(TaskOf(k).dependsOn)
<1>1. plan.tasks \in Seq(PlannedTasks) /\ DOMAIN plan.tasks = 1..Len(plan.tasks) /\ Len(plan.tasks) \in Nat
  BY PlansAssumption
<1> DEFINE S == {i \in DOMAIN plan.tasks : plan.tasks[i].key = k}
<1>2. S \in SUBSET Nat /\ S # {} BY <1>1 DEF Keys
<1>3. PICK m \in S : \A y \in S : m <= y
  <2> HIDE DEF S
  <2> QED BY <1>2, LeastNumber
<1>4. /\ m \in DOMAIN plan.tasks /\ plan.tasks[m].key = k
      /\ \A j \in 1..(m - 1) : plan.tasks[j].key # k
  <2>1. \A j \in 1..(m - 1) : j \in DOMAIN plan.tasks /\ ~(m <= j) BY <1>1
  <2> QED BY <1>3, <2>1
<1> DEFINE n == CHOOSE i \in DOMAIN plan.tasks : plan.tasks[i].key = k /\ \A j \in 1..(i - 1) : plan.tasks[j].key # k
<1>5. n \in DOMAIN plan.tasks /\ plan.tasks[n].key = k
  BY <1>4, Zenon
<1>6. TaskOf(k) = plan.tasks[n] BY DEF TaskOf
<1>7. TaskOf(k) \in PlannedTasks /\ TaskOf(k).key = k
  <2> HIDE DEF n
  <2> QED BY <1>1, <1>5, <1>6
<1> QED BY <1>7 DEF PlannedTasks

LEMMA KeysAre == ASSUME plan \in Plans PROVE /\ plan.tasks \in Seq(PlannedTasks) /\ Len(plan.tasks) \in Nat
                                            /\ DOMAIN plan.tasks = 1..Len(plan.tasks)
                                            /\ \A i \in DOMAIN plan.tasks : plan.tasks[i].key \in Keys
<1>1. plan.tasks \in Seq(PlannedTasks) /\ DOMAIN plan.tasks = 1..Len(plan.tasks) /\ Len(plan.tasks) \in Nat
  BY PlansAssumption
<1> QED BY <1>1 DEF Keys

LEMMA EpInvInit == EpInit => EpInv
<1> SUFFICES ASSUME EpInit PROVE EpInv OBVIOUS
<1>0. /\ DOMAIN <<>> = {} /\ \A S : <<>> \in Seq(S)
  OBVIOUS
<1>1. Calls = <<>> /\ search.order = <<>> /\ search.root = 1 /\ search.cycle = FALSE BY DEF EpInit, Calls
<1>2. PICK n \in 0..Earlier : plans = [i \in 1..n |-> n - i] BY DEF EpInit
<1>3. plans \in Seq(0..Earlier + 1) /\ Len(plans) = n
  <2>1. n \in Nat /\ \A i \in 1..n : n - i \in 0..Earlier + 1 BY PlansAssumption
  <2> QED BY <1>2, <2>1
<1>4. plan \in Plans BY DEF EpInit
<1>5. EpTypeOK
  BY <1>0, <1>3, <1>4, KeysAre DEF EpInit, EpTypeOK
<1>6. Acyclic
  BY <1>0, <1>1 DEF Acyclic, AfterDeps, CallsBelow, RootsBegun
<1> QED BY <1>0, <1>1, <1>3, <1>5, <1>6, PlansAssumption DEF EpInit, EpInv

\* What a plan says does not change.
LEMMA SamePlan ==
  ASSUME plan' = plan
  PROVE  /\ Keys' = Keys /\ \A k : TaskOf(k)' = TaskOf(k) /\ DepsOf(k)' = DepsOf(k)
BY DEF Keys, TaskOf, DepsOf

\* The conditions on a search: what it holds, and what it has found in its calls or d is.
SearchRow == [root : 1..Len(plan.tasks) + 1, calls : Seq([key : Keys, at : Nat \ {0}]), order : Seq(Keys), cycle : BOOLEAN]
CallsBut(s, x) == \A i \in DOMAIN s.calls : \A k \in Keys, n \in Nat : s.calls[i].key = k /\ s.calls[i].at = n + 1 =>
                    \A d \in Seen(k, n) : \/ d \in ToSet(s.order)
                                          \/ /\ i < Len(s.calls)
                                             /\ s.calls[i + 1].key = d
                                          \/ i = Len(s.calls) /\ d = x
RootsBut(s, x) == \A n \in 1..(s.root - 1) : \A d \in Keys : plan.tasks[n].key = d =>
                    \/ d \in ToSet(s.order)
                    \/ /\ 0 < Len(s.calls)
                       /\ s.calls[1].key = d
                    \/ 0 = Len(s.calls) /\ d = x

LEMMA SameAfter ==
  ASSUME plan' = plan, AfterDeps, search'.order = search.order
  PROVE  AfterDeps'
<1>1. Keys' = Keys /\ \A k : DepsOf(k)' = DepsOf(k) BY SamePlan
<1> QED BY <1>1 DEF AfterDeps

LEMMA SameSeen == ASSUME plan' = plan PROVE \A k, n : Seen(k, n)' = Seen(k, n)
<1>1. Keys' = Keys /\ \A k : TaskOf(k)' = TaskOf(k) BY SamePlan
<1> QED BY <1>1 DEF Seen

\* A search that looked at k in its last call, or began with it, and now visits it.
LEMMA VisitStep ==
  ASSUME EpInv, step = "written", UNCHANGED <<plan, source, step, rows, plans, told>>,
         NEW s \in SearchRow, s.order = search.order, s.cycle = search.cycle, NEW k \in Keys, search' = Visit(s, k),
         ~search.cycle => CallsBut(s, k) /\ RootsBut(s, k)
  PROVE  EpInv'
<1>1. Keys' = Keys /\ \A x : TaskOf(x)' = TaskOf(x) /\ DepsOf(x)' = DepsOf(x) BY SamePlan
<1>2. /\ s.calls \in Seq(Frames) /\ Len(s.calls) \in Nat /\ DOMAIN s.calls = 1..Len(s.calls)
      /\ s.root \in 1..Len(plan.tasks) + 1 /\ s.order \in Seq(Keys) /\ s.cycle \in BOOLEAN
      /\ s = [root |-> s.root, calls |-> s.calls, order |-> s.order, cycle |-> s.cycle]
  BY DEF SearchRow, Frames
<1>3. ~search.cycle => AfterDeps BY DEF EpInv, Acyclic
<1>4. SearchRow' = SearchRow BY <1>1 DEF SearchRow
<1>5. \A x, n : Seen(x, n)' = Seen(x, n) BY SameSeen
<1>6. ASSUME search' \in SearchRow, ~search'.cycle => CallsBelow' /\ RootsBegun',
             search'.order = search.order, ~search'.cycle => ~search.cycle
      PROVE  EpInv'
  <2>1. EpTypeOK' BY <1>1, <1>4, <1>6 DEF EpInv, EpTypeOK, SearchRow
  <2>2. ~search'.cycle => Acyclic' BY <1>3, <1>6, SameAfter DEF Acyclic
  <2> QED BY <2>1, <2>2 DEF EpInv
<1>7. CASE k \in Visited
  <2>1. search' = s BY <1>7 DEF Visit
  <2>2. Visited' = ToSet(s.order) /\ Calls' = s.calls /\ Visited = ToSet(s.order) BY <2>1 DEF Visited, Calls
  <2>3. ~search'.cycle => CallsBelow'
    BY <1>1, <1>2, <1>5, <1>7, <2>1, <2>2 DEF CallsBelow, Found, CallsBut
  <2>4. ~search'.cycle => RootsBegun'
    BY <1>1, <1>2, <1>7, <2>1, <2>2 DEF RootsBegun, Found, RootsBut
  <2> QED BY <1>6, <2>1, <2>3, <2>4
<1>8. CASE k \notin Visited /\ k \in Visiting
  <2>1. search' = [s EXCEPT !.cycle = TRUE] BY <1>8 DEF Visit
  <2>2. search' \in SearchRow /\ search'.cycle = TRUE /\ search'.order = search.order BY <1>2, <2>1 DEF SearchRow
  <2> QED BY <1>6, <2>2
<1>9. CASE k \notin Visited /\ k \notin Visiting
  <2> DEFINE f == [key |-> k, at |-> 1]
             c == Append(s.calls, f)
  <2>1. search' = [s EXCEPT !.calls = c] BY <1>9 DEF Visit
  <2>2. f \in Frames BY DEF Frames
  <2>3. /\ c \in Seq(Frames) /\ Len(c) = Len(s.calls) + 1 /\ DOMAIN c = 1..(Len(s.calls) + 1)
        /\ \A i \in 1..Len(s.calls) : c[i] = s.calls[i]
        /\ c[Len(s.calls) + 1] = f
    <3> HIDE DEF f
    <3> QED BY <1>2, <2>2, AppendProperties
  <2>4. f.key = k /\ f.at = 1 OBVIOUS
  <2> HIDE DEF f, c
  <2>5. /\ search' \in SearchRow /\ search'.root = s.root /\ search'.order = search.order /\ search'.cycle = search.cycle
        /\ Calls' = c
    BY <1>2, <2>1, <2>3 DEF SearchRow, Calls, Frames
  <2>6. Visited' = ToSet(s.order) BY <2>5 DEF Visited
  <2>7. ~search'.cycle => CallsBelow'
    <3> SUFFICES ASSUME ~search.cycle, NEW i \in DOMAIN c, NEW x \in Keys, NEW n \in Nat, c[i].key = x, c[i].at = n + 1,
                        NEW d \in Seen(x, n)
                 PROVE  Found(d, i)'
      BY <1>1, <1>5, <2>5 DEF CallsBelow
    <3>1. CASE i = Len(s.calls) + 1
      <4>1. n = 0 BY <2>3, <2>4, <3>1
      <4> QED BY <4>1 DEF Seen
    <3>2. CASE i # Len(s.calls) + 1
      <4>1. i \in DOMAIN s.calls /\ c[i] = s.calls[i] BY <1>2, <2>3, <3>2
      <4>2. \/ d \in ToSet(s.order)
            \/ i < Len(s.calls) /\ s.calls[i + 1].key = d
            \/ i = Len(s.calls) /\ d = k
        BY <4>1 DEF CallsBut
      <4>3. CASE d \in ToSet(s.order) BY <2>6, <4>3 DEF Found
      <4>4. CASE i < Len(s.calls) /\ s.calls[i + 1].key = d
        <5>1. i + 1 \in 1..Len(s.calls) /\ i < Len(c) BY <1>2, <2>3, <4>1, <4>4
        <5> QED BY <2>3, <2>5, <4>4, <5>1 DEF Found
      <4>5. CASE i = Len(s.calls) /\ d = k
        <5>1. i < Len(c) /\ c[i + 1].key = d BY <1>2, <2>3, <2>4, <4>5
        <5> QED BY <2>5, <5>1 DEF Found
      <4> QED BY <4>2, <4>3, <4>4, <4>5
    <3> QED BY <3>1, <3>2
  <2>8. ~search'.cycle => RootsBegun'
    <3> SUFFICES ASSUME ~search.cycle, NEW n \in 1..(s.root - 1), NEW d \in Keys, plan.tasks[n].key = d
                 PROVE  Found(d, 0)'
      BY <1>1, <2>5 DEF RootsBegun
    <3>1. \/ d \in ToSet(s.order)
          \/ 0 < Len(s.calls) /\ s.calls[1].key = d
          \/ 0 = Len(s.calls) /\ d = k
      BY DEF RootsBut
    <3>2. CASE d \in ToSet(s.order) BY <2>6, <3>2 DEF Found
    <3>3. CASE 0 < Len(s.calls) /\ s.calls[1].key = d
      <4>1. 1 \in 1..Len(s.calls) /\ 0 < Len(c) BY <1>2, <2>3, <3>3
      <4> QED BY <2>3, <2>5, <3>3, <4>1 DEF Found
    <3>4. CASE 0 = Len(s.calls) /\ d = k
      <4>1. 0 < Len(c) /\ c[1].key = d BY <1>2, <2>3, <2>4, <3>4
      <4> QED BY <2>5, <4>1 DEF Found
    <3> QED BY <3>1, <3>2, <3>3, <3>4
  <2> QED BY <1>6, <2>5, <2>7, <2>8
<1> QED BY <1>7, <1>8, <1>9

LEMMA VisitRootStep ==
  ASSUME EpInv, step = "written", UNCHANGED <<plan, source, step, rows, plans, told>>, VisitRoot
  PROVE  EpInv'
<1> DEFINE s == [search EXCEPT !.root = @ + 1]
<1>1. search \in SearchRow BY DEF EpInv, EpTypeOK, SearchRow
<1>2. plan.tasks \in Seq(PlannedTasks) /\ Len(plan.tasks) \in Nat /\ \A i \in 1..Len(plan.tasks) : plan.tasks[i].key \in Keys
  BY KeysAre DEF EpInv, EpTypeOK
<1>3. search.root \in 1..Len(plan.tasks) /\ search.calls = <<>> /\ Len(search.calls) = 0
  BY <1>1, <1>2 DEF VisitRoot, Calls, SearchRow
<1>4. PICK k \in Keys : k = plan.tasks[search.root].key BY <1>2, <1>3
<1>5. s \in SearchRow /\ s.order = search.order /\ s.cycle = search.cycle /\ s.calls = <<>> /\ s.root = search.root + 1
  BY <1>1, <1>2, <1>3 DEF SearchRow
<1>6. search' = Visit(s, k) BY <1>4 DEF VisitRoot
<1> HIDE DEF s
<1>7. CallsBut(s, k) BY <1>5 DEF CallsBut
<1>8. ASSUME ~search.cycle PROVE RootsBut(s, k)
  <2> SUFFICES ASSUME NEW n \in 1..search.root, NEW d \in Keys, plan.tasks[n].key = d
               PROVE  d \in ToSet(s.order) \/ (0 = Len(s.calls) /\ d = k)
    BY <1>3, <1>5 DEF RootsBut
  <2>1. CASE n = search.root BY <1>3, <1>4, <1>5, <2>1
  <2>2. CASE n # search.root
    <3>1. n \in 1..(search.root - 1) BY <1>3, <2>2
    <3>2. Found(d, 0) BY <1>8, <3>1 DEF EpInv, Acyclic, RootsBegun
    <3>3. d \in Visited BY <1>3, <3>2 DEF Found, Calls
    <3> QED BY <1>5, <3>3 DEF Visited
  <2> QED BY <2>1, <2>2
<1> QED BY <1>5, <1>6, <1>7, <1>8, VisitStep

LEMMA VisitDependencyStep ==
  ASSUME EpInv, step = "written", UNCHANGED <<plan, source, step, rows, plans, told>>, VisitDependency
  PROVE  EpInv'
<1> DEFINE L == Len(search.calls)
           s == [search EXCEPT !.calls[Len(Calls)].at = @ + 1]
<1>1. search \in SearchRow /\ plan \in Plans BY DEF EpInv, EpTypeOK, SearchRow
<1>2. /\ search.calls \in Seq(Frames) /\ search.calls # <<>> /\ L \in Nat \ {0} /\ L \in DOMAIN search.calls
      /\ DOMAIN search.calls = 1..L
  BY <1>1 DEF VisitDependency, Calls, SearchRow, Frames
<1>3. PICK k \in Keys, n \in Nat : search.calls[L].key = k /\ search.calls[L].at = n + 1
  <2>1. search.calls[L] \in Frames BY <1>2
  <2>2. search.calls[L].key \in Keys /\ search.calls[L].at \in Nat \ {0} BY <2>1 DEF Frames
  <2>3. search.calls[L].at - 1 \in Nat /\ search.calls[L].at = (search.calls[L].at - 1) + 1 BY <2>2
  <2> QED BY <2>2, <2>3
<1>4. Last(Calls) = search.calls[L] /\ Len(Calls) = L BY DEF Last, Calls
<1>5. n + 1 <= Len(TaskOf(k).dependsOn) BY <1>3, <1>4 DEF VisitDependency, More
<1>6. /\ s \in SearchRow /\ s.order = search.order /\ s.cycle = search.cycle /\ s.root = search.root
      /\ s.calls \in Seq(Frames) /\ Len(s.calls) = L /\ DOMAIN s.calls = 1..L
      /\ s.calls[L].key = k /\ s.calls[L].at = n + 2
      /\ \A i \in 1..L : i # L => s.calls[i] = search.calls[i]
      /\ \A i \in 1..L : s.calls[i].key = search.calls[i].key
  <2> DEFINE c == [search.calls EXCEPT ![L].at = @ + 1]
  <2>0. search.calls[L] \in Frames BY <1>2
  <2>1. search.calls[L] = [key |-> k, at |-> n + 1] BY <1>3, <2>0 DEF Frames
  <2>2. c = [search.calls EXCEPT ![L] = [key |-> k, at |-> n + 2]] BY <1>2, <2>1
  <2>3. [key |-> k, at |-> n + 2] \in Frames BY DEF Frames
  <2>4. /\ c \in Seq(Frames) /\ Len(c) = L /\ DOMAIN c = 1..L
        /\ c[L] = [key |-> k, at |-> n + 2] /\ \A i \in 1..L : i # L => c[i] = search.calls[i]
    BY <1>2, <2>2, <2>3
  <2>5. s = [search EXCEPT !.calls = c] BY <1>1, <1>4 DEF SearchRow
  <2> HIDE DEF c, s
  <2>6. s.calls = c /\ s \in SearchRow /\ s.order = search.order /\ s.cycle = search.cycle /\ s.root = search.root
    BY <1>1, <2>4, <2>5 DEF SearchRow, Frames
  <2> QED BY <1>3, <2>4, <2>6
<1>7. PICK d : d = TaskOf(k).dependsOn[n + 1] OBVIOUS
<1>8. DepAt(Last(Calls)) = d BY <1>3, <1>4, <1>7 DEF DepAt
<1>9. search' = IF d \in Keys THEN Visit(s, d) ELSE s BY <1>8 DEF VisitDependency
<1> HIDE DEF s
<1>10. ASSUME ~search.cycle, NEW i \in 1..L, NEW x \in Keys, NEW m \in Nat, s.calls[i].key = x, s.calls[i].at = m + 1,
              NEW y \in Seen(x, m)
       PROVE  \/ y \in ToSet(search.order)
              \/ /\ i < L
                 /\ s.calls[i + 1].key = y
              \/ i = L /\ y = d
  <2>1. ASSUME NEW j \in Nat, search.calls[i].key = x, search.calls[i].at = j + 1, y \in Seen(x, j)
        PROVE  \/ y \in ToSet(search.order)
               \/ /\ i < L
                  /\ search.calls[i + 1].key = y
    <3>1. Found(y, i) BY <1>2, <1>10, <2>1 DEF EpInv, Acyclic, CallsBelow, Calls
    <3> QED BY <3>1 DEF Found, Visited, Calls
  <2>2. CASE i # L
    <3>1. s.calls[i] = search.calls[i] /\ i + 1 \in 1..L /\ i < L BY <1>2, <1>6, <2>2
    <3> QED BY <1>6, <1>10, <2>1, <3>1
  <2>3. CASE i = L
    <3>1. m = n + 1 /\ x = k BY <1>6, <1>10, <2>3
    <3>2. PICK p \in 1..(n + 1) : p <= Len(TaskOf(k).dependsOn) /\ TaskOf(k).dependsOn[p] = y BY <3>1 DEF Seen
    <3>3. CASE p = n + 1 BY <1>7, <2>3, <3>2, <3>3
    <3>4. CASE p # n + 1
      <4>1. p \in 1..n BY <3>2, <3>4
      <4>2. y \in Seen(k, n)
        <5>1. y \in Keys BY DEF Seen
        <5> QED BY <3>2, <4>1, <5>1 DEF Seen
      <4> QED BY <1>3, <2>1, <2>3, <3>1, <4>2
    <3> QED BY <3>3, <3>4
  <2> QED BY <2>2, <2>3
<1>11. ASSUME ~search.cycle, NEW m \in 1..(search.root - 1), NEW y \in Keys, plan.tasks[m].key = y
       PROVE  \/ y \in ToSet(search.order)
              \/ /\ 0 < L
                 /\ s.calls[1].key = y
  <2>1. Found(y, 0) BY <1>11 DEF EpInv, Acyclic, RootsBegun
  <2>2. 1 \in 1..L BY <1>2
  <2> QED BY <1>6, <2>1, <2>2 DEF Found, Visited, Calls
<1>12. CASE d \in Keys
  <2>1. ~search.cycle => CallsBut(s, d) BY <1>6, <1>10 DEF CallsBut
  <2>2. ~search.cycle => RootsBut(s, d) BY <1>6, <1>11 DEF RootsBut
  <2> QED BY <1>6, <1>9, <1>12, <2>1, <2>2, VisitStep
<1>13. CASE d \notin Keys
  <2>1. search' = s BY <1>9, <1>13
  <2>2. Keys' = Keys /\ \A x : TaskOf(x)' = TaskOf(x) BY SamePlan
  <2>3. \A x, m : Seen(x, m)' = Seen(x, m) BY SameSeen
  <2>4. Calls' = s.calls /\ Visited' = ToSet(search.order) BY <1>6, <2>1 DEF Calls, Visited
  <2>5. EpTypeOK' BY <1>6, <2>1, <2>2 DEF EpInv, EpTypeOK, SearchRow
  <2>6. ~search'.cycle => AfterDeps' BY <1>6, <2>1, SameAfter DEF EpInv, Acyclic
  <2>7. ~search'.cycle => CallsBelow'
    <3> SUFFICES ASSUME ~search.cycle, NEW i \in 1..L, NEW x \in Keys, NEW m \in Nat, s.calls[i].key = x, s.calls[i].at = m + 1,
                        NEW y \in Seen(x, m)
                 PROVE  Found(y, i)'
      BY <1>6, <2>1, <2>2, <2>3, <2>4 DEF CallsBelow
    <3>1. y \in Keys BY DEF Seen
    <3> QED BY <1>6, <1>10, <1>13, <2>4, <3>1 DEF Found
  <2>8. ~search'.cycle => RootsBegun'
    BY <1>6, <1>11, <2>1, <2>2, <2>4 DEF RootsBegun, Found
  <2> QED BY <2>5, <2>6, <2>7, <2>8 DEF EpInv, Acyclic
<1> QED BY <1>12, <1>13

LEMMA VisitReturnsStep ==
  ASSUME EpInv, step = "written", UNCHANGED <<plan, source, step, rows, plans, told>>, VisitReturns
  PROVE  EpInv'
<1> DEFINE L == Len(search.calls)
           N == Len(search.order)
<1>1. search \in SearchRow /\ plan \in Plans BY DEF EpInv, EpTypeOK, SearchRow
<1>2. /\ search.calls \in Seq(Frames) /\ search.calls # <<>> /\ L \in Nat \ {0} /\ L \in DOMAIN search.calls
      /\ DOMAIN search.calls = 1..L /\ search.order \in Seq(Keys) /\ N \in Nat /\ DOMAIN search.order = 1..N
  BY <1>1 DEF VisitReturns, Calls, SearchRow, Frames
<1>3. PICK k \in Keys, n \in Nat : search.calls[L].key = k /\ search.calls[L].at = n + 1
  <2>1. search.calls[L] \in Frames BY <1>2
  <2>2. search.calls[L].key \in Keys /\ search.calls[L].at \in Nat \ {0} BY <2>1 DEF Frames
  <2>3. search.calls[L].at - 1 \in Nat /\ search.calls[L].at = (search.calls[L].at - 1) + 1 BY <2>2
  <2> QED BY <2>2, <2>3
<1>4. Last(Calls) = search.calls[L] /\ Len(Calls) = L BY DEF Last, Calls
<1>5. Len(TaskOf(k).dependsOn) \in Nat /\ DOMAIN TaskOf(k).dependsOn = 1..Len(TaskOf(k).dependsOn) BY <1>1, TaskFound
<1>6. Len(TaskOf(k).dependsOn) <= n
  <2>1. ~(n + 1 <= Len(TaskOf(k).dependsOn)) BY <1>3, <1>4 DEF VisitReturns, More
  <2> QED BY <1>5, <2>1
<1> DEFINE c == Front(search.calls)
           o == Append(search.order, k)
<1>7. c \in Seq(Frames) /\ Len(c) = L - 1 /\ DOMAIN c = 1..(L - 1) /\ \A i \in 1..(L - 1) : c[i] = search.calls[i]
  <2>1. c = SubSeq(search.calls, 1, L - 1) BY DEF Front
  <2>2. \A i \in 1..(L - 1) : search.calls[i] \in Frames BY <1>2
  <2>3. c \in Seq(Frames) /\ Len(c) = L - 1 /\ \A i \in 1..(L - 1) : c[i] = search.calls[i]
    BY <1>2, <2>1, <2>2, SubSeqProperties
  <2> HIDE DEF c
  <2> QED BY <2>3
<1>8. /\ o \in Seq(Keys) /\ Len(o) = N + 1 /\ DOMAIN o = 1..(N + 1) /\ \A i \in 1..N : o[i] = search.order[i]
      /\ o[N + 1] = k
  BY <1>2, AppendProperties
<1>9. search' = [search EXCEPT !.calls = c, !.order = o] BY <1>3, <1>4 DEF VisitReturns, Calls
<1> HIDE DEF c, o
<1>10. /\ search' \in SearchRow /\ search'.calls = c /\ search'.order = o /\ search'.root = search.root
       /\ search'.cycle = search.cycle
  BY <1>1, <1>7, <1>8, <1>9 DEF SearchRow, Frames
<1>11. Calls' = c /\ Visited' = ToSet(o) BY <1>10 DEF Calls, Visited
<1>12. ToSet(o) = Visited \union {k} BY <1>2, <1>8 DEF ToSet, Visited
<1>13. Keys' = Keys /\ \A x : TaskOf(x)' = TaskOf(x) /\ DepsOf(x)' = DepsOf(x) BY SamePlan
<1>14. \A x, m : Seen(x, m)' = Seen(x, m) BY SameSeen
<1>15. EpTypeOK' BY <1>10, <1>13 DEF EpInv, EpTypeOK, SearchRow
<1>16. ASSUME ~search.cycle PROVE AfterDeps'
  <2>0. DOMAIN search'.order = 1..(N + 1) BY <1>8, <1>10
  <2> SUFFICES \A i \in 1..(N + 1) : \A x \in Keys : o[i] = x => \A d \in DepsOf(x) : \E j \in 1..(i - 1) : o[j] = d
    <3>1. ASSUME NEW i \in DOMAIN search'.order, NEW x \in Keys', search'.order[i] = x, NEW d \in DepsOf(x)'
          PROVE  \E j \in 1..(i - 1) : search'.order[j] = d
      <4>1. search'.order = o /\ i \in 1..(N + 1) /\ x \in Keys BY <1>10, <1>13, <2>0, <3>1
      <4>2. d \in DepsOf(x) BY <1>13
      <4> QED BY <3>1, <4>1, <4>2
    <3> QED BY <1>13, <3>1 DEF AfterDeps
  <2> TAKE i \in 1..(N + 1)
  <2> TAKE x \in Keys
  <2> HAVE o[i] = x
  <2> TAKE d \in DepsOf(x)
  <2>1. CASE i # N + 1
    <3>1. i \in 1..N /\ search.order[i] = x BY <1>2, <1>8, <2>1
    <3>2. PICK j \in 1..(i - 1) : search.order[j] = d BY <1>2, <1>16, <3>1 DEF EpInv, Acyclic, AfterDeps
    <3> QED BY <1>2, <1>8, <3>1, <3>2
  <2>2. CASE i = N + 1
    <3>1. x = k BY <1>8, <2>2
    <3>2. d \in Keys /\ d \in ToSet(TaskOf(k).dependsOn) BY <3>1 DEF DepsOf
    <3>3. PICK p \in 1..Len(TaskOf(k).dependsOn) : TaskOf(k).dependsOn[p] = d BY <1>5, <3>2 DEF ToSet
    <3>4. p \in 1..n /\ p <= Len(TaskOf(k).dependsOn) BY <1>5, <1>6, <3>3
    <3>5. d \in Seen(k, n) BY <3>2, <3>3, <3>4 DEF Seen
    <3>6. Found(d, L) BY <1>2, <1>3, <1>16, <3>5 DEF EpInv, Acyclic, CallsBelow, Calls
    <3>7. d \in ToSet(search.order) BY <1>2, <3>6 DEF Found, Calls, Visited
    <3>8. PICK j \in 1..N : search.order[j] = d BY <1>2, <3>7 DEF ToSet
    <3> QED BY <1>2, <1>8, <2>2, <3>8
  <2> QED BY <2>1, <2>2
<1>17. ASSUME ~search.cycle, NEW i \in 0..(L - 1), NEW d \in Keys, Found(d, i)
       PROVE  Found(d, i)'
  <2>1. CASE d \in Visited BY <1>11, <1>12, <2>1 DEF Found
  <2>2. CASE i < L /\ search.calls[i + 1].key = d
    <3>1. CASE i + 1 = L BY <1>3, <1>11, <1>12, <2>2, <3>1 DEF Found
    <3>2. CASE i + 1 # L
      <4>1. i + 1 \in 1..(L - 1) /\ i < Len(c) BY <1>2, <1>7, <2>2, <3>2
      <4> QED BY <1>7, <1>11, <2>2, <4>1 DEF Found
    <3> QED BY <3>1, <3>2
  <2> QED BY <1>17, <2>1, <2>2 DEF Found, Calls
<1>18. ASSUME ~search.cycle PROVE CallsBelow'
  <2> SUFFICES ASSUME NEW i \in 1..(L - 1), NEW x \in Keys, NEW m \in Nat, c[i].key = x, c[i].at = m + 1, NEW d \in Seen(x, m)
               PROVE  Found(d, i)'
    BY <1>7, <1>11, <1>13, <1>14 DEF CallsBelow
  <2>1. d \in Keys BY DEF Seen
  <2>2. i \in 1..L /\ search.calls[i] = c[i] BY <1>2, <1>7
  <2>3. Found(d, i) BY <1>2, <1>18, <2>2 DEF EpInv, Acyclic, CallsBelow, Calls
  <2>4. i \in 0..(L - 1) BY <1>2
  <2> QED BY <1>17, <1>18, <2>1, <2>3, <2>4
<1>19. ASSUME ~search.cycle PROVE RootsBegun'
  <2> SUFFICES ASSUME NEW m \in 1..(search.root - 1), NEW d \in Keys, plan.tasks[m].key = d
               PROVE  Found(d, 0)'
    BY <1>10, <1>13 DEF RootsBegun
  <2>1. Found(d, 0) BY <1>19 DEF EpInv, Acyclic, RootsBegun
  <2>2. 0 \in 0..(L - 1) BY <1>2
  <2> QED BY <1>17, <1>19, <2>1, <2>2
<1>20. ~search'.cycle => Acyclic' BY <1>10, <1>16, <1>18, <1>19 DEF Acyclic
<1> QED BY <1>15, <1>20 DEF EpInv

LEMMA SameSound ==
  ASSUME plan' = plan
  PROVE  /\ \A k, l : RivalsOf(k, l)' = RivalsOf(k, l)
         /\ \A k, l : RefusedBy(k, l)' = RefusedBy(k, l)
         /\ search' = search => Sound' = Sound
<1>1. Keys' = Keys /\ \A k : TaskOf(k)' = TaskOf(k) /\ DepsOf(k)' = DepsOf(k) BY SamePlan
<1>2. ASSUME NEW k, NEW l PROVE RivalsOf(k, l)' = RivalsOf(k, l)
  BY <1>1 DEF RivalsOf, scopesOverlap, normalizeScope
<1>3. ASSUME NEW k, NEW l PROVE RefusedBy(k, l)' = RefusedBy(k, l)
  BY <1>1, <1>2 DEF RefusedBy, RivalsOf, scopesOverlap, normalizeScope, ModeOf
<1>4. ParallelKeys' = ParallelKeys BY <1>1 DEF ParallelKeys
<1>5. ASSUME NEW k, NEW l PROVE Ordered(k, l)' = Ordered(k, l)
  BY <1>1 DEF Ordered, hasDependencyPath, Closed
<1>6. ASSUME NEW k PROVE (ToSet(TaskOf(k).dependsOn))' = ToSet(TaskOf(k).dependsOn)
  BY <1>1 DEF ToSet
<1>7. ASSUME search' = search PROVE Sound' = Sound
  BY <1>1, <1>2, <1>4, <1>5, <1>6, <1>7 DEF Sound
<1> QED BY <1>2, <1>3, <1>7

LEMMA SameSearch ==
  ASSUME plan' = plan, search' = search, Acyclic
  PROVE  Acyclic'
<1>1. Keys' = Keys /\ \A x : TaskOf(x)' = TaskOf(x) /\ DepsOf(x)' = DepsOf(x) BY SamePlan
<1>2. AfterDeps' BY SameAfter DEF Acyclic
<1>3. \A x, n : Seen(x, n)' = Seen(x, n) BY SameSeen
<1>4. \A d, i : Found(d, i)' = Found(d, i) BY DEF Found, Visited, Calls
<1>5. CallsBelow' BY <1>1, <1>3, <1>4 DEF Acyclic, CallsBelow, Calls
<1>6. RootsBegun' BY <1>1, <1>4 DEF Acyclic, RootsBegun
<1> QED BY <1>2, <1>5, <1>6 DEF Acyclic

\* A search that is over has found every task of the plan.
LEMMA AllFound ==
  ASSUME EpTypeOK, Searched, Acyclic
  PROVE  ToSet(search.order) = Keys
<1>1. plan \in Plans /\ search.calls = <<>> /\ search.order \in Seq(Keys) /\ search.root \in 1..Len(plan.tasks) + 1
  BY DEF EpTypeOK, Searched, Calls
<1>2. /\ plan.tasks \in Seq(PlannedTasks) /\ Len(plan.tasks) \in Nat /\ DOMAIN plan.tasks = 1..Len(plan.tasks)
      /\ search.root = Len(plan.tasks) + 1
  BY <1>1, KeysAre DEF Searched
<1>3. ASSUME NEW k \in Keys PROVE k \in ToSet(search.order)
  <2>1. PICK n \in 1..Len(plan.tasks) : plan.tasks[n].key = k BY <1>2 DEF Keys
  <2>2. n \in 1..(search.root - 1) BY <1>2
  <2>3. Found(k, 0) BY <2>1, <2>2 DEF Acyclic, RootsBegun
  <2> QED BY <1>1, <2>3 DEF Found, Calls, Visited
<1> QED BY <1>1, <1>3 DEF ToSet

\* What validation accepts is sound.
LEMMA ValidIsSound ==
  ASSUME EpTypeOK, Valid
  PROVE  Sound
<1>1. ~search.cycle BY DEF Valid, GraphErrors
<1>2. \A k \in Keys : DepsOf(k) = ToSet(TaskOf(k).dependsOn) BY DEF Valid, GraphErrors, DepsOf
<1>3. \A k, l \in ParallelKeys : k # l /\ ~Ordered(k, l) => ~RivalsOf(k, l) BY DEF Valid, ScopeErrors, RivalsOf
<1> QED BY <1>1, <1>2, <1>3 DEF Sound

LEMMA ValidatePlanStep == ASSUME EpInv, ValidatePlan PROVE EpInv'
<1>1. Keys' = Keys /\ \A x : TaskOf(x)' = TaskOf(x) /\ DepsOf(x)' = DepsOf(x) BY SamePlan DEF ValidatePlan
<1>2. Sound' = Sound BY SameSound DEF ValidatePlan
<1>3. step' = "validated" => Sound BY ValidIsSound DEF EpInv, ValidatePlan
<1>4. EpTypeOK' BY <1>1 DEF EpInv, EpTypeOK, ValidatePlan
<1>5. Acyclic => Acyclic' BY SameSearch DEF ValidatePlan
<1>6. step = "written" /\ step' \in {"validated", "invalid"} /\ UNCHANGED <<search, rows, plans, told>> /\ Searched
  BY DEF ValidatePlan
<1>7. Searched' BY <1>6 DEF Searched, Calls, ValidatePlan
<1> QED BY <1>2, <1>3, <1>4, <1>5, <1>6, <1>7 DEF EpInv

\* A sound plan whose search is over has each task after its dependencies.
LEMMA PlanResolved ==
  ASSUME EpTypeOK, Searched, Acyclic, Sound
  PROVE  ~Unresolved(search.order)
<1> SUFFICES ASSUME NEW i \in DOMAIN search.order, NEW d \in ToSet(TaskOf(search.order[i]).dependsOn)
             PROVE  \E j \in 1..(i - 1) : search.order[j] = d
  BY DEF Unresolved
<1>1. PICK k : k = search.order[i] OBVIOUS
<1>2. k \in Keys BY <1>1 DEF EpTypeOK
<1>3. d \in DepsOf(k) BY <1>1, <1>2 DEF Sound
<1> QED BY <1>1, <1>2, <1>3 DEF Acyclic, AfterDeps

LEMMA ApplyPlanStep == ASSUME EpInv, ApplyPlan PROVE EpInv'
<1>0. plan' = plan /\ search' = search /\ source' = source BY DEF ApplyPlan
<1>1. Keys' = Keys /\ \A x : TaskOf(x)' = TaskOf(x) /\ DepsOf(x)' = DepsOf(x) BY <1>0, SamePlan
<1>2. Sound' = Sound BY <1>0, SameSound
<1>3. step = "validated" /\ Searched /\ Sound /\ Acyclic /\ EpTypeOK BY DEF EpInv, ApplyPlan, Sound
<1>4. ToSet(search.order) = Keys /\ ~Unresolved(search.order) BY <1>3, AllFound, PlanResolved
<1>5. Acyclic => Acyclic' BY <1>0, SameSearch
<1>6. Searched' BY <1>0, <1>3 DEF Searched, Calls
<1>7. \A k : CreateRefuses(k)' = CreateRefuses(k) BY <1>0, <1>1 DEF CreateRefuses
<1>8. CASE \E k \in Keys : CreateRefuses(k)
  <2>1. step' = "refused" /\ UNCHANGED <<rows, plans, told>> BY <1>4, <1>8 DEF ApplyPlan
  <2>2. EpTypeOK' BY <1>0, <1>1, <1>3, <2>1 DEF EpTypeOK
  <2>3. rows' = <<>> /\ told' = -1 /\ Len(plans') <= Earlier BY <1>3, <2>1 DEF EpInv
  <2>4. \E k \in Keys' : CreateRefuses(k)' BY <1>1, <1>7, <1>8
  <2> QED BY <1>2, <1>3, <1>5, <1>6, <2>1, <2>2, <2>3, <2>4 DEF EpInv
<1>9. CASE ~\E k \in Keys : CreateRefuses(k)
  <2>1. step' = "applied" /\ rows' = Created(search.order) /\ plans' = RecordedPlans /\ told' = ReportedPlan
    BY <1>4, <1>9 DEF ApplyPlan
  <2>2. /\ DOMAIN rows' = Keys
        /\ \A k \in Keys : rows'[k] = [dependsOn |-> DepsOf(k), state |-> "QUEUED"]
    BY <1>3, <1>4, <2>1 DEF Created, Sound
  <2>3. \A k \in Keys : DepsOf(k) \subseteq Keys BY DEF DepsOf
  <2>4. plans \in Seq(0..Earlier + 1) /\ Len(plans) \in 0..Earlier /\ Earlier \in Nat
    BY <1>3, PlansAssumption DEF EpInv, EpTypeOK
  <2>5. plans' \in Seq(0..Earlier + 1) /\ told' \in 0..Earlier + 1
    <3>1. <<Len(plans)>> \in Seq(0..Earlier + 1) BY <2>4
    <3>2. RecordedPlans \in Seq(0..Earlier + 1) /\ Len(RecordedPlans) = Len(plans) + 1
      BY <2>4, <3>1, ConcatProperties DEF RecordedPlans
    <3>3. Last(RecordedPlans) \in 0..Earlier + 1 BY <2>4, <3>2 DEF Last
    <3>4. Len(plans) \in 0..Earlier + 1 BY <2>4
    <3>5. ReportedPlan \in 0..Earlier + 1 BY <3>3, <3>4 DEF ReportedPlan
    <3> QED BY <2>1, <3>2, <3>5
  <2>6. EpTypeOK'
    <3>1. \A k \in DOMAIN rows' : rows'[k].state \in {"QUEUED", "RUNNING", "DONE"} /\ rows'[k].dependsOn \subseteq DOMAIN rows'
      BY <2>2, <2>3
    <3>2. DOMAIN rows' \subseteq Keys /\ step' = "applied" BY <2>1, <2>2
    <3> QED BY <1>0, <1>1, <1>3, <2>5, <3>1, <3>2 DEF EpTypeOK
  <2>7. InState("RUNNING")' = {} BY <2>2 DEF InState
  <2>8. Applied' BY <1>1, <2>2, <2>3, <2>7 DEF Applied, RowOf
  <2> QED BY <1>2, <1>3, <1>5, <1>6, <2>1, <2>6, <2>8 DEF EpInv
<1> QED BY <1>8, <1>9

LEMMA OverlapBothWays == \A S, T : scopesOverlap(S, T) = scopesOverlap(T, S)
BY DEF scopesOverlap

LEMMA RefusedBothWays == \A k, l : RefusedBy(k, l) = RefusedBy(l, k)
BY OverlapBothWays DEF RefusedBy

\* A step of the tasks of an applied plan.
LEMMA TaskStep ==
  ASSUME EpInv, UNCHANGED <<plan, source, search, step, plans, told>>,
         NEW k \in DOMAIN rows, NEW s \in {"RUNNING", "DONE"}, rows' = [rows EXCEPT ![k].state = s],
         s = "RUNNING" => \A l \in InState("RUNNING") : ~RefusedBy(k, l)
  PROVE  EpInv'
<1>1. Keys' = Keys /\ \A x : TaskOf(x)' = TaskOf(x) /\ DepsOf(x)' = DepsOf(x) BY SamePlan
<1>2. Sound' = Sound /\ \A x, y : RefusedBy(x, y)' = RefusedBy(x, y) BY SameSound
<1>3. step = "applied" /\ Applied /\ Searched /\ Sound /\ Acyclic /\ EpTypeOK
  <2>1. DOMAIN <<>> = {} OBVIOUS
  <2>2. step = "applied" BY <2>1 DEF EpInv
  <2> QED BY <2>2 DEF EpInv, Sound
<1>4. Acyclic => Acyclic' BY SameSearch
<1>5. Searched' BY <1>3 DEF Searched, Calls
<1>6. /\ DOMAIN rows' = Keys
      /\ \A x \in Keys : rows'[x] \in RowOf /\ rows'[x].dependsOn = DepsOf(x)
      /\ rows'[k].state = s
      /\ \A x \in Keys : x # k => rows'[x] = rows[x]
  <2>1. DOMAIN rows = Keys /\ \A x \in Keys : rows[x] \in RowOf /\ rows[x].dependsOn = DepsOf(x) BY <1>3 DEF Applied
  <2>2. DOMAIN rows' = Keys /\ \A x \in Keys : x # k => rows'[x] = rows[x] BY <2>1
  <2>3. rows'[k] = [rows[k] EXCEPT !.state = s] BY <2>1
  <2>4. rows'[k] \in RowOf /\ rows'[k].dependsOn = rows[k].dependsOn /\ rows'[k].state = s
    BY <2>1, <2>3 DEF RowOf
  <2> QED BY <2>1, <2>2, <2>4
<1>7. \A x \in Keys : DepsOf(x) \subseteq Keys BY DEF DepsOf
<1>8. EpTypeOK' BY <1>1, <1>3, <1>6, <1>7 DEF EpTypeOK, RowOf
<1>9. ASSUME NEW x \in InState("RUNNING")', NEW y \in InState("RUNNING")', x # y
      PROVE  ~RefusedBy(x, y)
  <2>1. x \in Keys /\ y \in Keys /\ k \in Keys /\ DOMAIN rows = Keys BY <1>3, <1>6 DEF InState, Applied
  <2>2. x = k \/ x \in InState("RUNNING") BY <1>6, <2>1 DEF InState
  <2>3. y = k \/ y \in InState("RUNNING") BY <1>6, <2>1 DEF InState
  <2>4. x = k \/ y = k => s = "RUNNING" BY <1>6 DEF InState
  <2>5. CASE x \in InState("RUNNING") /\ y \in InState("RUNNING") BY <1>3, <1>9, <2>5 DEF Applied
  <2>6. CASE x = k BY <1>9, <2>3, <2>4, <2>6
  <2>7. CASE y = k
    <3>1. ~RefusedBy(k, x) BY <1>9, <2>2, <2>4, <2>7
    <3> QED BY <2>7, <3>1, RefusedBothWays
  <2> QED BY <2>2, <2>3, <2>5, <2>6, <2>7
<1>10. Applied'
  <2>1. RowOf' = RowOf BY <1>1 DEF RowOf
  <2>2. \A x, y \in InState("RUNNING")' : x # y => ~RefusedBy(x, y)' BY <1>2, <1>9
  <2> QED BY <1>1, <1>6, <2>1, <2>2 DEF Applied
<1> QED BY <1>2, <1>3, <1>4, <1>5, <1>8, <1>10 DEF EpInv

LEMMA EpInvStep == EpInv /\ [EpNext]_epVars => EpInv'
<1> SUFFICES ASSUME EpInv, [EpNext]_epVars PROVE EpInv' OBVIOUS
<1>1. CASE SearchGraph
  BY <1>1, VisitRootStep, VisitDependencyStep, VisitReturnsStep DEF SearchGraph
<1>2. CASE ValidatePlan BY <1>2, ValidatePlanStep
<1>3. CASE ApplyPlan BY <1>3, ApplyPlanStep
<1>4. ASSUME NEW k \in DOMAIN rows, StartTask(k) PROVE EpInv'
  <2>1. UNCHANGED <<plan, source, search, step, plans, told>> /\ rows' = [rows EXCEPT ![k].state = "RUNNING"]
        /\ \A l \in InState("RUNNING") : ~RefusedBy(k, l)
    BY <1>4 DEF StartTask, CanStart
  <2> QED BY <2>1, TaskStep
<1>5. ASSUME NEW k \in DOMAIN rows, FinishTask(k) PROVE EpInv'
  <2>1. UNCHANGED <<plan, source, search, step, plans, told>> /\ rows' = [rows EXCEPT ![k].state = "DONE"]
    BY <1>5 DEF FinishTask
  <2> QED BY <2>1, TaskStep
<1>6. CASE UNCHANGED epVars
  <2>1. UNCHANGED <<plan, source, search, step, rows, plans, told>> BY <1>6 DEF epVars
  <2>2. Keys' = Keys /\ \A x : TaskOf(x)' = TaskOf(x) /\ DepsOf(x)' = DepsOf(x) BY <2>1, SamePlan
  <2>3. Sound' = Sound /\ \A x, y : RefusedBy(x, y)' = RefusedBy(x, y) BY <2>1, SameSound
  <2>9. Acyclic => Acyclic' BY <2>1, SameSearch
  <2>10. Searched' = Searched /\ EpTypeOK' = EpTypeOK BY <2>1, <2>2 DEF Searched, Calls, EpTypeOK
  <2>11. \A k : CreateRefuses(k)' = CreateRefuses(k) BY <2>1, <2>2 DEF CreateRefuses
  <2>12. Applied => Applied'
    <3>1. InState("RUNNING")' = InState("RUNNING") /\ Keys' = Keys BY <2>1, <2>2 DEF InState
    <3> SUFFICES ASSUME Applied PROVE Applied' OBVIOUS
    <3>2. DOMAIN rows' = Keys /\ \A k \in Keys : rows'[k] \in RowOf /\ rows'[k].dependsOn = DepsOf(k) BY <2>1 DEF Applied
    <3>3. RowOf' = RowOf BY <3>1 DEF RowOf
    <3>4. \A k, l \in InState("RUNNING") : k # l => ~RefusedBy(k, l)' BY <2>3 DEF Applied
    <3> QED BY <2>2, <3>1, <3>2, <3>3, <3>4 DEF Applied
  <2> QED BY <2>1, <2>2, <2>3, <2>9, <2>10, <2>11, <2>12 DEF EpInv
<1> QED BY <1>1, <1>2, <1>3, <1>4, <1>5, <1>6 DEF EpNext

\* Two scopes that may write the same have one that holds the other.
LEMMA MeetOverlap ==
  ASSUME NEW S \in SUBSET Scopes, NEW T \in SUBSET Scopes, Meet(S, T)
  PROVE  scopesOverlap(S, T)
<1>1. CASE S = {} \/ T = {} BY <1>1 DEF scopesOverlap
<1>2. CASE \E a \in S, b \in T : \A i \in DOMAIN a.path \intersect DOMAIN b.path : a.path[i] = b.path[i]
  <2>1. PICK a \in S, b \in T : \A i \in DOMAIN a.path \intersect DOMAIN b.path : a.path[i] = b.path[i] BY <1>2
  <2>2. PICK p, q : p = a.path /\ q = b.path OBVIOUS
  <2>3. p \in Seq(STRING) /\ q \in Seq(STRING) BY <2>2 DEF Scopes
  <2>4. Len(p) \in Nat /\ Len(q) \in Nat /\ DOMAIN p = 1..Len(p) /\ DOMAIN q = 1..Len(q) BY <2>3
  <2>5. \A i \in 1..Len(p) : i \in 1..Len(q) => p[i] = q[i] BY <2>1, <2>2, <2>4
  <2>6. ASSUME NEW u \in Seq(STRING), NEW v \in Seq(STRING), Len(u) <= Len(v), \A i \in 1..Len(u) : u[i] = v[i]
        PROVE  IsPrefix(u, v)
    BY <2>6 DEF IsPrefix
  <2>7. IsPrefix(p, q) \/ IsPrefix(q, p)
    <3>1. CASE Len(p) <= Len(q)
      <4>1. \A i \in 1..Len(p) : p[i] = q[i] BY <2>4, <2>5, <3>1
      <4> QED BY <2>3, <2>6, <3>1, <4>1
    <3>2. CASE ~(Len(p) <= Len(q))
      <4>1. Len(q) <= Len(p) BY <2>4, <3>2
      <4>2. \A i \in 1..Len(q) : q[i] = p[i] BY <2>4, <2>5, <4>1
      <4> QED BY <2>3, <2>6, <4>1, <4>2
    <3> QED BY <3>1, <3>2
  <2> QED BY <2>2, <2>7 DEF scopesOverlap, normalizeScope
<1> QED BY <1>1, <1>2 DEF Meet

LEMMA EpInvHolds == EpInv => PlansHold
<1> SUFFICES ASSUME EpInv PROVE PlansHold OBVIOUS
<1>1. EpTypeOK BY DEF EpInv
<1>2. ASSUME step = "applied" PROVE Searched /\ Sound /\ Acyclic /\ Applied /\ ToSet(search.order) = Keys
  <2>1. Searched /\ Sound /\ Acyclic /\ Applied BY <1>2 DEF EpInv, Sound
  <2> QED BY <1>1, <2>1, AllFound
<1>3. PlanApplies
  BY <1>2 DEF PlanApplies, EpInv, Applied, Sound
<1>4. PlanRuns
  <2> SUFFICES ASSUME step = "applied" PROVE PlanRuns BY DEF PlanRuns
  <2>1. ASSUME InState("QUEUED") # {}, InState("RUNNING") = {} PROVE \E k \in InState("QUEUED") : CanStart(k)
    <3> DEFINE Q == {i \in DOMAIN search.order : search.order[i] \in InState("QUEUED")}
    <3>1. search.order \in Seq(Keys) /\ DOMAIN search.order \subseteq Nat BY <1>1 DEF EpTypeOK
    <3>2. Q # {}
      <4>1. PICK k \in Keys : k \in InState("QUEUED") BY <1>2, <2>1 DEF InState, Applied
      <4>2. PICK i \in DOMAIN search.order : search.order[i] = k BY <1>2 DEF ToSet
      <4> QED BY <4>1, <4>2
    <3>3. PICK m \in Q : \A y \in Q : m <= y
      <4>1. Q \in SUBSET Nat BY <3>1
      <4> HIDE DEF Q
      <4> QED BY <3>2, <4>1, LeastNumber
    <3>4. PICK k \in Keys : search.order[m] = k BY <3>1
    <3>5. k \in InState("QUEUED") BY <3>3, <3>4
    <3>6. ASSUME NEW d \in rows[k].dependsOn PROVE rows[d].state = "DONE"
      <4>1. d \in DepsOf(k) /\ d \in Keys BY <1>2, <3>6 DEF Applied, DepsOf
      <4>2. PICK j \in 1..(m - 1) : search.order[j] = d BY <1>2, <3>3, <3>4, <4>1 DEF Acyclic, AfterDeps
      <4>3. j \in DOMAIN search.order /\ ~(m <= j) BY <3>1, <3>3, <4>2
      <4>4. d \notin InState("QUEUED") /\ d \notin InState("RUNNING") BY <2>1, <3>3, <4>2, <4>3
      <4>5. rows[d].state \in {"QUEUED", "RUNNING", "DONE"} /\ d \in DOMAIN rows BY <1>2, <4>1 DEF Applied, RowOf
      <4> QED BY <4>4, <4>5 DEF InState
    <3>7. CanStart(k) BY <2>1, <3>5, <3>6 DEF CanStart, InState
    <3> QED BY <3>5, <3>7
  <2>2. ASSUME NEW k \in InState("RUNNING"), NEW l \in InState("RUNNING"), k # l
        PROVE  ~Meet(TaskOf(k).scope, TaskOf(l).scope)
    <3>1. ~RefusedBy(k, l) BY <1>2, <2>2 DEF Applied
    <3>2. ~scopesOverlap(TaskOf(k).scope, TaskOf(l).scope) BY <3>1 DEF RefusedBy
    <3>3. k \in Keys /\ l \in Keys BY <1>2 DEF InState, Applied
    <3>4. TaskOf(k) \in PlannedTasks /\ TaskOf(l) \in PlannedTasks BY <1>1, <3>3, TaskFound DEF EpTypeOK
    <3>5. TaskOf(k).scope \in SUBSET Scopes /\ TaskOf(l).scope \in SUBSET Scopes BY <3>4 DEF PlannedTasks
    <3> QED BY <3>2, <3>5, MeetOverlap
  <2>3. ASSUME NEW k \in Keys, NEW l \in Keys, k # l, ~Ordered(k, l), {ModeOf(k), ModeOf(l)} = {"parallel"}
        PROVE  ~RefusedBy(k, l)
    <3>1. ModeOf(k) = "parallel" /\ ModeOf(l) = "parallel" BY <2>3
    <3>2. k \in ParallelKeys /\ l \in ParallelKeys BY <3>1 DEF ParallelKeys, ModeOf
    <3>3. ~RivalsOf(k, l) BY <1>2, <2>3, <3>2 DEF Sound
    <3> QED BY <3>1, <3>3 DEF RefusedBy, RivalsOf, ExclusiveMode
  <2> QED BY <2>1, <2>2, <2>3 DEF PlanRuns
<1> QED BY <1>3, <1>4 DEF PlansHold

\* Whatever plan is submitted: a valid one becomes all its tasks or is refused for a
\* resource or an owner, its tasks never come to rest before all are done, and what runs at
\* once writes nothing in common.
THEOREM PlansAreKept == EpSpec => []PlansHold
<1>1. EpInit => EpInv BY EpInvInit
<1>2. EpInv /\ [EpNext]_epVars => EpInv' BY EpInvStep
<1>3. EpInv => PlansHold BY EpInvHolds
<1> QED BY <1>1, <1>2, <1>3, PTL DEF EpSpec
-----------------------------------------------------------------------------
\* Versions and questions are counted within their bounds; a governance is of a version.
Dated(its) == \A i \in DOMAIN its : its[i].at <= MaxEdits
QCounts ==
  /\ Len(items) <= MaxItems /\ Dated(items)
  /\ paper.version \in 1..MaxEdits /\ paper.gov <= paper.version
  /\ reader # Nothing => reader.gov <= MaxEdits
  /\ teller \in {"away", "accepted", "listed"}

LEMMA SyncedDated ==
  ASSUME NEW its \in Seq(Item), NEW p \in Paper, Dated(its), p.gov <= MaxEdits
  PROVE  Dated(Synced(its, p))
<1> DEFINE kept == Withdrawn(its, p)
<1>1. kept \in Seq(Item) BY WithdrawnKeeps
<1>2. Dated(kept)
  <2>1. \A i \in DOMAIN its : its[i] \in Item BY ItemAt
  <2>2. \A i \in DOMAIN its : kept[i].at = its[i].at BY <2>1 DEF Withdrawn, Item
  <2> QED BY <2>2 DEF Dated, Withdrawn
<1>3. \/ Synced(its, p) = kept
      \/ \E f \in GovFields : Synced(its, p) = Asked(kept, f, p.gov)
  BY DEF Synced, GovFields
<1> HIDE DEF kept
<1>4. ASSUME NEW f \in GovFields PROVE Dated(Asked(kept, f, p.gov))
  <2>1. \A i \in DOMAIN Asked(kept, f, p.gov) :
           (i \in DOMAIN kept /\ Asked(kept, f, p.gov)[i] = kept[i]) \/ Asked(kept, f, p.gov)[i].at = p.gov
    <3>1. p.gov \in Nat /\ f \in GovFields \union {"stack"} BY DEF Paper
    <3>2. /\ Asked(kept, f, p.gov) \in Seq(Item)
          /\ \A i \in DOMAIN Asked(kept, f, p.gov) :
               \/ i \in DOMAIN kept /\ Asked(kept, f, p.gov)[i] = kept[i]
               \/ Asked(kept, f, p.gov)[i].field = f /\ Asked(kept, f, p.gov)[i].at = p.gov
          /\ OpenFor(Asked(kept, f, p.gov), f, p.gov)
      BY <1>1, <3>1, AskedOnce
    <3> QED BY <3>2
  <2> QED BY <1>2, <2>1 DEF Dated
<1> QED BY <1>2, <1>3, <1>4

LEMMA ResolvedDated ==
  ASSUME NEW its \in Seq(Item), Dated(its), NEW i, NEW said, NEW guess
  PROVE  Dated(Resolved(its, i, said, guess)) /\ Len(Resolved(its, i, said, guess)) = Len(its)
<1> DEFINE row == [its[i] EXCEPT !.state = IF guess THEN "assumed" ELSE "answered", !.said = said]
<1>1. Resolved(its, i, said, guess) = [its EXCEPT ![i] = row] BY DEF Resolved
<1>2. i \in DOMAIN its => row.at = its[i].at
  <2>1. i \in DOMAIN its => its[i] \in Item BY ItemAt
  <2> QED BY <2>1 DEF Item
<1> HIDE DEF row
<1> QED BY <1>1, <1>2, LenProperties DEF Dated

\* A revision stays within the versions, and so does its governance.
LEMMA EditedCounts ==
  ASSUME QRows, QCounts, paper.version < MaxEdits, NEW patch
  PROVE  Edited(patch).version \in 1..MaxEdits /\ Edited(patch).gov <= Edited(patch).version /\ Edited(patch).gov <= MaxEdits
<1>1. paper \in Paper /\ MaxEdits \in Nat BY QuestionsAssumption DEF QRows
<1>2. CASE patch = OtherField
  <2>1. Edited(patch).version = paper.version + 1 /\ Edited(patch).gov = paper.gov BY <1>1, <1>2 DEF Edited, Paper
  <2>2. paper.gov \in Nat /\ paper.version \in Nat BY <1>1 DEF Paper
  <2> QED BY <1>1, <2>1, <2>2 DEF QCounts
<1>3. CASE patch # OtherField
  <2>1. Edited(patch).version = paper.version + 1 /\ Edited(patch).gov \in {paper.gov, paper.gov + 1}
    <3>1. paper.gov \in Nat BY <1>1 DEF Paper
    <3> QED BY <1>3, <3>1 DEF Edited
  <2>2. paper.gov \in Nat /\ paper.version \in Nat BY <1>1 DEF Paper
  <2> QED BY <1>1, <2>1, <2>2 DEF QCounts
<1> QED BY <1>2, <1>3

LEMMA QCountsInit == QInit => QCounts
<1> SUFFICES ASSUME QInit PROVE QCounts OBVIOUS
<1>1. PICK known \in {{}, {"type"}} : paper = [version |-> 1, known |-> known, gov |-> 0] /\ items = Synced(<<>>, paper)
  BY DEF QInit
<1>2. MaxEdits \in Nat \ {0} /\ MaxItems \in Nat \ {0} BY QuestionsAssumption
<1>3. paper \in Paper /\ paper.gov = 0 /\ paper.version = 1
  <2>1. known \in SUBSET GovFields BY DEF GovFields
  <2> QED BY <1>1, <2>1 DEF Paper
<1>4. PICK its : its = <<>> OBVIOUS
<1>5. Dated(items)
  <2>1. its \in Seq(Item) /\ DOMAIN its = {} BY <1>4
  <2>2. Dated(its) BY <2>1 DEF Dated
  <2>3. PICK p \in Paper : p = paper BY <1>3
  <2>5. p.gov <= MaxEdits BY <1>2, <1>3, <2>3
  <2>4. Dated(Synced(its, p)) BY <2>1, <2>2, <2>5, SyncedDated
  <2> QED BY <1>1, <1>4, <2>3, <2>4
<1>6. Len(items) <= 1
  <2>1. DOMAIN its = {} /\ Len(its) = 0 /\ \A r : Len(Append(its, r)) = 1 BY <1>4
  <2>2. Withdrawn(its, paper) = its BY <1>4, <2>1 DEF Withdrawn
  <2>3. items = its \/ \E f \in GovFields : items = Asked(its, f, 0)
    BY <1>1, <1>3, <1>4, <2>2 DEF Synced, GovFields
  <2>4. \A f : ~OpenFor(its, f, 0) BY <2>1 DEF OpenFor
  <2>5. \A f : Asked(its, f, 0) = Append(its, [field |-> f, at |-> 0, state |-> "open", said |-> ""])
    BY <2>4 DEF Asked
  <2>6. \A f : Len(Asked(its, f, 0)) = 1 BY <2>1, <2>5
  <2>7. CASE items = its BY <2>1, <2>7
  <2>8. CASE \E f \in GovFields : items = Asked(its, f, 0)
    <3>1. PICK f \in GovFields : items = Asked(its, f, 0) BY <2>8
    <3>2. Len(items) = 1 BY <2>6, <3>1, Zenon
    <3> QED BY <3>2
  <2> QED BY <2>3, <2>7, <2>8
<1>7. Len(items) <= MaxItems
  <2>1. items \in Seq(Item)
    <3>1. its \in Seq(Item) BY <1>4
    <3> QED BY <1>1, <1>3, <1>4, <3>1, SyncedAsks
  <2>2. Len(items) \in Nat BY <2>1, LenProperties
  <2> QED BY <1>2, <1>6, <2>2
<1>8. 1 \in 1..MaxEdits /\ 0 <= 1 BY <1>2
<1>9. reader = Nothing /\ teller = "away" BY DEF QInit
<1> QED BY <1>3, <1>5, <1>7, <1>8, <1>9 DEF QCounts

LEMMA ClarCounts == QInv /\ QCounts /\ ClarNext => QCounts'
<1> SUFFICES ASSUME QInv, QCounts, ClarNext PROVE QCounts' OBVIOUS
<1>1. /\ items \in Seq(Item) /\ paper \in Paper /\ reader \in Paper \union {Nothing} /\ QRows
      /\ sent \in [Callers -> RequestRow \union {Nothing}] /\ MaxEdits \in Nat /\ MaxItems \in Nat
      /\ paper.version \in 1..MaxEdits /\ paper.gov <= paper.version /\ paper.gov \in Nat /\ Dated(items) /\ Len(items) \in Nat
  BY LenProperties, QuestionsAssumption DEF QInv, QRows, QCounts, Paper
<1>2. teller' = teller
  BY DEF ClarNext, AskPlanning, BeginSync, EndSync, Update, Answer, Tell, Replay, Refuse, Resolve, feedbackVars
<1>3. CASE UNCHANGED <<items, paper>> /\ (reader' = reader \/ reader' = paper)
  BY <1>1, <1>2, <1>3 DEF QCounts, Dated
<1>4. CASE AskPlanning
  <2> DEFINE row == [field |-> "stack", at |-> 0, state |-> "open", said |-> ""]
  <2>1. items' = Append(items, row) /\ row.at = 0 BY <1>4 DEF AskPlanning, Asked
  <2> HIDE DEF row
  <2>2. /\ Len(items') = Len(items) + 1 /\ DOMAIN items' = 1..(Len(items) + 1)
        /\ items'[Len(items) + 1].at = 0 /\ \A i \in 1..Len(items) : items'[i] = items[i]
    BY <1>1, <2>1
  <2>3. Dated(items') BY <1>1, <2>2, LenProperties DEF Dated
  <2>4. Len(items') <= MaxItems /\ UNCHANGED <<paper, reader>> BY <1>1, <1>4, <2>2 DEF AskPlanning
  <2> QED BY <1>1, <1>2, <2>3, <2>4 DEF QCounts, Dated
<1>5. CASE EndSync
  <2>1. reader \in Paper /\ reader.gov <= MaxEdits /\ items' = Synced(items, reader) BY <1>1, <1>5 DEF EndSync, QCounts
  <2>2. Dated(items') BY <1>1, <2>1, SyncedDated
  <2> QED BY <1>1, <1>2, <1>5, <2>2 DEF EndSync, QCounts, Dated
<1>6. ASSUME NEW patch \in Patches, Update(patch) PROVE QCounts'
  <2>1. "none" \notin patch BY DEF Patches, OtherField, GovFields
  <2>2. paper' \in Paper /\ paper' = Edited(patch) /\ items' = Synced(items, paper') BY <1>1, <1>6, <2>1, EditedKeeps DEF Update, NoEdit
  <2>3. paper'.version \in 1..MaxEdits /\ paper'.gov <= paper'.version /\ paper'.gov <= MaxEdits
    BY <1>1, <1>6, <2>2, EditedCounts DEF Update
  <2>4. PICK p \in Paper : p = paper' BY <2>2
  <2>5. Dated(items') BY <1>1, <2>2, <2>3, <2>4, SyncedDated
  <2> QED BY <1>1, <1>2, <1>6, <2>3, <2>5 DEF Update, QCounts, Dated
<1>7. ASSUME NEW i \in DOMAIN items, NEW said \in Sayings, NEW guess \in BOOLEAN, Answer(i, said, guess) PROVE QCounts'
  <2>1. Dated(items') /\ Len(items') = Len(items) BY <1>1, <1>7, ResolvedDated DEF Answer
  <2> QED BY <1>1, <1>2, <1>7, <2>1 DEF Answer, QCounts, Dated
<1>8. ASSUME NEW c \in Callers, Resolve(c) PROVE QCounts'
  <2> DEFINE r    == sent[c]
             heard == IF Unchanged(r) THEN items ELSE Resolved(items, r.item, r.said, r.guess)
  <2>1. r \in RequestRow BY <1>1, <1>8 DEF Resolve
  <2>2. heard \in Seq(Item) /\ Dated(heard) BY <1>1, <2>1, ResolvedKeeps, ResolvedDated DEF RequestRow
  <2>3. /\ paper' = (IF r.patch = NoEdit THEN paper ELSE Edited(r.patch))
        /\ items' = (IF r.patch = NoEdit THEN heard ELSE Synced(heard, paper'))
        /\ Len(items') <= MaxItems /\ reader' = reader /\ (r.patch # NoEdit => paper.version < MaxEdits)
    BY <1>8 DEF Resolve
  <2>4. r.patch = NoEdit \/ r.patch \in Patches \ {NoEdit} BY <2>1 DEF RequestRow, Patches
  <2> HIDE DEF r, heard
  <2>5. CASE r.patch = NoEdit BY <1>1, <1>2, <2>2, <2>3, <2>5 DEF QCounts, Dated
  <2>6. CASE r.patch # NoEdit
    <3>1. paper' \in Paper /\ paper' = Edited(r.patch) /\ items' = Synced(heard, paper') BY <1>1, <2>3, <2>4, <2>6, EditedKeeps
    <3>2. paper'.version \in 1..MaxEdits /\ paper'.gov <= paper'.version /\ paper'.gov <= MaxEdits
      BY <1>1, <2>3, <2>6, <3>1, EditedCounts
    <3>3. PICK p \in Paper : p = paper' BY <3>1
    <3>4. Dated(items') BY <2>2, <3>1, <3>2, <3>3, SyncedDated
    <3> QED BY <1>1, <1>2, <2>3, <3>2, <3>4 DEF QCounts, Dated
  <2> QED BY <2>5, <2>6
<1>9. CASE BeginSync BY <1>3, <1>9 DEF BeginSync
<1>10. ASSUME NEW c \in Callers, Replay(c) \/ Refuse(c) PROVE QCounts'
  BY <1>3, <1>10 DEF Replay, Refuse
<1>11. ASSUME NEW c \in Callers, NEW i \in DOMAIN items, NEW said \in Sayings, NEW guess \in BOOLEAN,
              NEW patch \in {NoEdit, GovFields}, NEW revise \in BOOLEAN, Tell(c, i, said, guess, patch, revise)
       PROVE  QCounts'
  BY <1>3, <1>11 DEF Tell
<1> QED BY <1>4, <1>5, <1>6, <1>7, <1>8, <1>9, <1>10, <1>11 DEF ClarNext

LEMMA QCountsStep == QInv /\ QCounts /\ [QNext]_qVars => QCounts'
<1> SUFFICES ASSUME QInv, QCounts, [QNext]_qVars PROVE QCounts' OBVIOUS
<1>1. CASE UNCHANGED qVars BY <1>1 DEF qVars, QCounts, Dated
<1>2. CASE FbNext
  <2>1. UNCHANGED clarVars BY <1>2, FbStep
  <2>2. teller' \in {"away", "accepted", "listed"}
    BY <1>2 DEF FbNext, SubmitFeedback, AnswerFeedback, AcceptAnswer, ListPending, CompleteFeedback, TellerDies,
                AnswererMoves, RetryAnswerer, QCounts
  <2> QED BY <2>1, <2>2 DEF clarVars, QCounts, Dated
<1> QED BY <1>1, <1>2, ClarCounts DEF QNext

LEMMA QTyped == QInv /\ QCounts => QTypeOK
<1> SUFFICES ASSUME QInv, QCounts PROVE QTypeOK OBVIOUS
<1>1. items \in Seq(Item) /\ paper \in Paper /\ MaxEdits \in Nat BY QuestionsAssumption DEF QInv, QRows
<1>2. \A i \in DOMAIN items : items[i] \in Item /\ items[i].at <= MaxEdits BY <1>1, ItemAt DEF QCounts, Dated
<1>3. \A i \in DOMAIN items :
       items[i] \in [field : GovFields \union {"stack"}, at : 0..MaxEdits, state : WithWords \union {"open", "withdrawn"},
                     said : Sayings \union {""}]
  <2> SUFFICES ASSUME NEW i \in DOMAIN items
               PROVE items[i] \in [field : GovFields \union {"stack"}, at : 0..MaxEdits,
                                   state : WithWords \union {"open", "withdrawn"}, said : Sayings \union {""}]
    OBVIOUS
  <2>0. items[i] \in Item /\ items[i].at <= MaxEdits BY <1>2
  <2>1. items[i].at \in Nat BY <2>0 DEF Item
  <2>2. items[i].at \in 0..MaxEdits BY <1>1, <2>0, <2>1
  <2> QED BY <2>0, <2>2 DEF Item
<1>4. paper \in [version : 1..MaxEdits, known : SUBSET GovFields, gov : 0..MaxEdits]
  <2>1. paper.version \in 1..MaxEdits /\ paper.gov \in 0..MaxEdits BY <1>1 DEF QCounts, Paper
  <2> QED BY <1>1, <2>1 DEF Paper
<1> QED BY <1>3, <1>4 DEF QTypeOK, QCounts, QInv, QRows
-----------------------------------------------------------------------------
\* Repairs are counted within their limit, and a provider's capacity is one of three.
RtCounts ==
  /\ \A t \in RtTasks : job[t].repairs \in 0..RtRepairLimit
  /\ capacity \in [Providers -> {"available", "cooldown", "unavailable"}]

LEMMA RtCountsInit == RtInit => RtCounts
<1>1. 0 \in 0..RtRepairLimit BY RoutingAssumption
<1> QED BY <1>1 DEF RtInit, RtCounts

\* A launch keeps the count of the row it is given.
LEMMA LaunchCounts ==
  ASSUME RtInv, NEW A, NEW t \in RtTasks, NEW j \in Jobs, NEW kind, NEW sel, Launch(A, j, t, kind, sel)
  PROVE  \E h : job' = [job EXCEPT ![t] = h] /\ h.repairs = j.repairs
<1> DEFINE run == [j EXCEPT !.state = "running", !.parked = "none"]
<1>1. run.repairs = j.repairs BY DEF Jobs
<1>2. ParkedAs(A, j, t, kind).repairs = j.repairs BY DEF ParkedAs, Jobs
<1>3. \A class : BlockedAs(j, class).repairs = j.repairs BY DEF BlockedAs, Jobs
<1>4. \/ job' = [job EXCEPT ![t] = run] \/ job' = [job EXCEPT ![t] = ParkedAs(A, j, t, kind)]
      \/ \E class : job' = [job EXCEPT ![t] = BlockedAs(j, class)]
  <2> HIDE DEF run
  <2> QED BY Zenon DEF Launch, run
<1> HIDE DEF run
<1> QED BY <1>1, <1>2, <1>3, <1>4

LEMMA CapacityKept ==
  ASSUME RtCounts, NEW p, NEW class
  PROVE  CapacityAfter(p, class) \in [Providers -> {"available", "cooldown", "unavailable"}]
BY DEF RtCounts, CapacityAfter

LEMMA RtCountsStep == RtInv /\ RtCounts /\ [RtNext]_rtVars => RtCounts'
<1> SUFFICES ASSUME RtInv, RtCounts, [RtNext]_rtVars PROVE RtCounts' OBVIOUS
<1>1. job \in [RtTasks -> Jobs] /\ RtRepairLimit \in Nat /\ \A t \in RtTasks : job[t].repairs \in 0..RtRepairLimit
  BY RoutingAssumption DEF RtInv, RtCounts
<1>2. capacity \in [Providers -> {"available", "cooldown", "unavailable"}] BY DEF RtCounts
<1>3. ASSUME NEW t \in RtTasks, NEW h, job' = [job EXCEPT ![t] = h], h.repairs \in 0..RtRepairLimit,
             capacity' \in [Providers -> {"available", "cooldown", "unavailable"}]
      PROVE  RtCounts'
  BY <1>1, <1>3 DEF RtCounts
<1>4. ASSUME NEW t \in RtTasks, NEW A, NEW j \in Jobs, j.repairs \in 0..RtRepairLimit, NEW kind, NEW sel,
             Launch(A, j, t, kind, sel), capacity' \in [Providers -> {"available", "cooldown", "unavailable"}]
      PROVE  RtCounts'
  BY <1>3, <1>4, LaunchCounts
<1>5. ASSUME NEW t \in RtTasks PROVE Fresh(job[t]) \in Jobs /\ Fresh(job[t]).repairs = job[t].repairs
  BY <1>1 DEF Fresh, Jobs
<1>6. ASSUME NEW t \in RtTasks, NEW j \in Jobs, j.repairs = job[t].repairs
      PROVE  /\ \A class : BlockedAs(j, class).repairs = job[t].repairs
             /\ \A class : [j EXCEPT !.state = "ready", !.failure = class].repairs = job[t].repairs
             /\ \A class : [j EXCEPT !.state = "failed", !.failure = class].repairs = job[t].repairs
             /\ j.repairs < RtRepairLimit => [j EXCEPT !.repairs = @ + 1] \in Jobs /\ [j EXCEPT !.repairs = @ + 1].repairs \in 0..RtRepairLimit
  BY <1>1, <1>6 DEF BlockedAs, Jobs
<1>7. ASSUME NEW t \in RtTasks, Dispatch(t) \/ ResumeLaunch(t) PROVE RtCounts'
  <2>1. \/ \E kind, sel : Launch(att, job[t], t, kind, sel)
        \/ \E class : job' = [job EXCEPT ![t] = BlockedAs(job[t], class)]
    <3>1. CASE Dispatch(t)
      <4>1. [job EXCEPT ![t] = BlockedAs(@, BlockClass)] = [job EXCEPT ![t] = BlockedAs(job[t], BlockClass)] OBVIOUS
      <4> QED BY <3>1, <4>1, Zenon DEF Dispatch
    <3>2. CASE ResumeLaunch(t) BY <3>2, Zenon DEF ResumeLaunch
    <3> QED BY <1>7, <3>1, <3>2
  <2>2. capacity' = capacity BY <1>7 DEF Dispatch, ResumeLaunch
  <2>3. job[t] \in Jobs /\ job[t].repairs \in 0..RtRepairLimit BY <1>1
  <2>4. CASE \E kind, sel : Launch(att, job[t], t, kind, sel) BY <1>2, <1>4, <2>2, <2>3, <2>4
  <2>5. CASE \E class : job' = [job EXCEPT ![t] = BlockedAs(job[t], class)]
    <3>1. PICK class : job' = [job EXCEPT ![t] = BlockedAs(job[t], class)] BY <2>5
    <3>2. BlockedAs(job[t], class).repairs = job[t].repairs BY <2>3 DEF BlockedAs, Jobs
    <3> QED BY <1>2, <1>3, <2>2, <2>3, <3>1, <3>2
  <2> QED BY <2>1, <2>4, <2>5
<1>8. ASSUME NEW t \in RtTasks, NEW class \in Classes, ProviderFails(t, class) PROVE RtCounts'
  <2>1. capacity' \in [Providers -> {"available", "cooldown", "unavailable"}] BY <1>8, CapacityKept DEF ProviderFails
  <2>2. \/ \E A, sel : Launch(A, Fresh(job[t]), t, "reroute", sel)
        \/ job' = [job EXCEPT ![t] = [Fresh(job[t]) EXCEPT !.state = "ready", !.failure = class]]
        \/ job' = [job EXCEPT ![t] = BlockedAs(Fresh(job[t]), class)]
    BY <1>8, Zenon DEF ProviderFails
  <2>3. Fresh(job[t]) \in Jobs /\ Fresh(job[t]).repairs = job[t].repairs /\ job[t].repairs \in 0..RtRepairLimit BY <1>1, <1>5
  <2>4. ASSUME NEW h \in {[Fresh(job[t]) EXCEPT !.state = "ready", !.failure = class], BlockedAs(Fresh(job[t]), class)},
               job' = [job EXCEPT ![t] = h]
        PROVE  RtCounts'
    <3>1. h.repairs = job[t].repairs BY <2>3, <2>4 DEF BlockedAs, Jobs
    <3> QED BY <1>3, <2>1, <2>3, <2>4, <3>1
  <2>5. CASE \E A, sel : Launch(A, Fresh(job[t]), t, "reroute", sel) BY <1>4, <2>1, <2>3, <2>5
  <2> QED BY <2>2, <2>4, <2>5
<1>9. ASSUME NEW t \in RtTasks, NEW class \in Classes, WorkerFails(t, class) PROVE RtCounts'
  <2>1. \/ Fresh(job[t]).repairs < RtRepairLimit /\ \E A, sel : Launch(A, [Fresh(job[t]) EXCEPT !.repairs = @ + 1], t, "repair", sel)
        \/ job' = [job EXCEPT ![t] = [Fresh(job[t]) EXCEPT !.state = "failed", !.failure = class]]
        \/ job' = [job EXCEPT ![t] = BlockedAs(Fresh(job[t]), class)]
    BY <1>9, Zenon DEF WorkerFails
  <2>2. capacity' = capacity BY <1>9 DEF WorkerFails
  <2>3. Fresh(job[t]) \in Jobs /\ Fresh(job[t]).repairs = job[t].repairs /\ job[t].repairs \in 0..RtRepairLimit BY <1>1, <1>5
  <2>4. ASSUME NEW h \in {[Fresh(job[t]) EXCEPT !.state = "failed", !.failure = class], BlockedAs(Fresh(job[t]), class)},
               job' = [job EXCEPT ![t] = h]
        PROVE  RtCounts'
    <3>1. h.repairs = job[t].repairs BY <2>3, <2>4 DEF BlockedAs, Jobs
    <3> QED BY <1>2, <1>3, <2>2, <2>3, <2>4, <3>1
  <2>5. ASSUME NEW A, NEW sel, Fresh(job[t]).repairs < RtRepairLimit,
               Launch(A, [Fresh(job[t]) EXCEPT !.repairs = @ + 1], t, "repair", sel)
        PROVE  RtCounts'
    <3>1. PICK j : j = [Fresh(job[t]) EXCEPT !.repairs = @ + 1] OBVIOUS
    <3>2. j \in Jobs /\ j.repairs \in 0..RtRepairLimit BY <1>6, <2>3, <2>5, <3>1
    <3> QED BY <1>2, <1>4, <2>2, <2>5, <3>1, <3>2
  <2> QED BY <2>1, <2>4, <2>5
<1>10. ASSUME NEW t \in RtTasks, WorkerSucceeds(t) \/ RetryTask(t) PROVE RtCounts'
  <2>1. PICK h : job' = [job EXCEPT ![t] = h] /\ h.repairs = job[t].repairs
    <3>1. [Fresh(job[t]) EXCEPT !.state = "checking", !.failure = "none"].repairs = job[t].repairs BY <1>5 DEF Jobs
    <3>2. [job[t] EXCEPT !.state = "ready", !.failure = "none", !.parked = "none", !.retried = TRUE].repairs = job[t].repairs
      BY <1>1 DEF Jobs
    <3> QED BY <1>1, <1>10, <3>1, <3>2 DEF WorkerSucceeds, RetryTask
  <2> QED BY <1>1, <1>2, <1>3, <1>10, <2>1 DEF WorkerSucceeds, RetryTask
<1>11. ASSUME NEW t \in RtTasks, ChecksFinish(t) PROVE RtCounts'
  <2>1. [job[t] EXCEPT !.state = "done"].repairs = job[t].repairs
        /\ [job[t] EXCEPT !.state = "failed", !.failure = "CODE"].repairs = job[t].repairs
    BY <1>1 DEF Jobs
  <2>2. capacity' = capacity BY <1>11 DEF ChecksFinish
  <2>3. \/ job' = [job EXCEPT ![t] = [job[t] EXCEPT !.state = "done"]]
        \/ job' = [job EXCEPT ![t] = [job[t] EXCEPT !.state = "failed", !.failure = "CODE"]]
        \/ job[t].repairs < RtRepairLimit /\ \E sel : Launch(att, [job[t] EXCEPT !.repairs = @ + 1], t, "repair", sel)
    BY <1>1, <1>11 DEF ChecksFinish
  <2> QED BY <1>1, <1>2, <1>3, <1>4, <1>6, <2>1, <2>2, <2>3
<1>12. ASSUME NEW p \in Providers, CooldownExpires(p) \/ ResetProvider(p) \/ VerifyEntitlement(p) PROVE RtCounts'
  BY <1>1, <1>2, <1>12 DEF RtCounts, CooldownExpires, ResetProvider, VerifyEntitlement
<1>13. CASE UNCHANGED rtVars BY <1>13 DEF rtVars, RtCounts
<1> QED BY <1>7, <1>8, <1>9, <1>10, <1>11, <1>12, <1>13 DEF RtNext

LEMMA RtTyped == RtInv /\ RtCounts => RtTypeOK
<1> SUFFICES ASSUME RtInv, RtCounts PROVE RtTypeOK OBVIOUS
<1>1. job \in [RtTasks -> Jobs] /\ att \in [RtTasks -> Seq(Attempts)] /\ setup \in Setups /\ proven \subseteq setup.installed
  BY DEF RtInv
<1>2. setup.installed \subseteq Providers BY <1>1, RoutingAssumption
<1>3. \A t \in RtTasks : \A i \in DOMAIN att[t] : att[t][i] \in Attempts
  BY <1>1, LenProperties, ElementOfSeq
<1>4. \A t \in RtTasks : job[t] \in [state : {"ready", "running", "parked", "checking", "blocked", "failed", "done"},
                          failure : Classes \union {"none"}, parked : {"none", "repair", "reroute", "initial"},
                          repairs : 0..RtRepairLimit, retried : BOOLEAN]
  BY <1>1 DEF Jobs, RtCounts
<1> QED BY <1>1, <1>2, <1>3, <1>4 DEF RtTypeOK, RtCounts, Attempts
=============================================================================
