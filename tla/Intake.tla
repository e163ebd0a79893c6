-------------------------------- MODULE Intake --------------------------------
(***************************************************************************)
(* From a product brief to queued work: briefs, proposals and acceptances  *)
(* (src/intake/store.ts, src/intake/service.ts), the start of accepted     *)
(* work (src/intake/start.ts) and the bootstrap of its project             *)
(* (src/bootstrap/service.ts).                                             *)
(*                                                                         *)
(* One brief, one target directory. A start or a bootstrap is a sequence   *)
(* of reads, transactions and effects in files that ends anywhere when its *)
(* process dies. A command that reads before its transaction (a proposal,  *)
(* an acceptance, a submission, a change of state outside a transaction)   *)
(* is two steps, with the other commands between them. Bounds: one start   *)
(* or bootstrap at a time, one acceptance and one submission of a plan. A  *)
(* brief's governance changes only with its version and is not kept apart; *)
(* plans are valid, the project's governance agrees with the brief's.      *)
(***************************************************************************)
EXTENDS Integers, Sequences, FiniteSets

CONSTANTS MaxVersion, MaxProps,   \* bounds
          AtOnce   \* how many commands are under way at once

ASSUME IntakeAssumption == MaxVersion \in Nat \ {0} /\ MaxProps \in Nat /\ AtOnce \in Nat \ {0}

VARIABLES
  brief,       \* product_briefs: state and version
  props,       \* proposal_versions; one in state "accepted" has an active acceptance
  accepted,    \* the proposal of the last acceptance, 0 when none is active
  submissions, \* the "plan.submitted" events: proposal, and whether its tasks wait for the controller
  accepts,     \* acceptances that are checked and not recorded yet: what each saw
  submits,     \* submissions that are looked up and not written yet: what each saw
  boot,        \* bootstrap_runs: state and the steps done
  projects,    \* how many projects are registered for the directory
  request,     \* intake_requests of kind "start", one id for each proposal
  call         \* the start or bootstrap that runs

\* What a start or a bootstrap leaves alone.
planVars == <<props, accepted, accepts, submits>>
\* Proposals with an active acceptance; activeAcceptance gives the last of them.
Active == {i \in DOMAIN props : props[i].state = "accepted"}

inVars == <<brief, planVars, submissions, boot, projects, request, call>>

BriefStates == {"DRAFT", "CLARIFYING", "PROPOSED", "ACCEPTED", "BOOTSTRAPPING", "REGISTERED"}
NoLook == [plan |-> 0]
Idle   == [by |-> "none", proposal |-> 0, look |-> NoLook, at |-> "none"]
\* Project and checks, after the files up to the initial commit; plan_linkage.
Steps == 2

InTypeOK ==
  /\ brief \in [state : BriefStates, version : 1..MaxVersion]
  /\ Len(props) <= MaxProps
  /\ \A i \in DOMAIN props : props[i] \in [version : 1..MaxVersion, late : BOOLEAN,
                               state : {"presented", "superseded", "accepted", "invalidated"}]
  /\ accepted \in {0} \union Active /\ \A look \in accepts \union submits : look.plan \in DOMAIN props
  /\ \A i \in DOMAIN submissions : submissions[i] \in
       [proposal : DOMAIN props, late : BOOLEAN, queued : BOOLEAN]
  /\ boot \in [state : {"none", "running", "failed", "completed"}, done : 0..Steps]
  /\ projects \in 0..2
  /\ request \in [1..MaxProps -> [state : {"none", "in_progress", "failed", "completed"},
                                  submitted : BOOLEAN, target : {"directory", "project"}]]
  /\ call.look = NoLook \/ call.look.plan \in DOMAIN props
  /\ call.by \in {"none", "start", "bootstrap"} /\ call.proposal \in 0..MaxProps
  /\ call.at \in {"none", "claimed", "boot", "move", "mark", "operate", "record", "undo", "booted", "submit",
                  "apply", "finish"}

InInit ==
  /\ brief = [state |-> "DRAFT", version |-> 1] /\ props = <<>> /\ submissions = <<>>
  /\ accepted = 0 /\ accepts = {} /\ submits = {}
  /\ boot = [state |-> "none", done |-> 0] /\ projects = 0 /\ call = Idle
  /\ request = [i \in 1..MaxProps |-> [state |-> "none", submitted |-> FALSE, target |-> "directory"]]
-----------------------------------------------------------------------------
(* Briefs.                                                                 *)

\* BRIEF_TRANSITIONS
Transitions ==
  [DRAFT |-> {"CLARIFYING", "PROPOSED"}, CLARIFYING |-> {"PROPOSED", "DRAFT"},
   PROPOSED |-> {"CLARIFYING", "ACCEPTED"},
   ACCEPTED |-> {"CLARIFYING", "PROPOSED", "BOOTSTRAPPING", "REGISTERED"},
   BOOTSTRAPPING |-> {"REGISTERED", "ACCEPTED", "CLARIFYING"},
   REGISTERED |-> {"CLARIFYING", "PROPOSED", "BOOTSTRAPPING"}]

\* setBriefState: it throws, and its transaction with it, unless the brief may get there.
CanBecome(s) == brief.state = s \/ s \in Transitions[brief.state]
In(s)        == [brief EXCEPT !.state = s]

\* Another command may begin.
Free == Cardinality(accepts) + Cardinality(submits) + (IF call = Idle THEN 0 ELSE 1) < AtOnce

\* askClarifications: an acceptance stands.
Ask == /\ Free /\ brief.state # "CLARIFYING" /\ CanBecome("CLARIFYING") /\ brief' = In("CLARIFYING")
       /\ UNCHANGED <<planVars, submissions, boot, projects, request, call>>

\* invalidateAcceptance
TakenBack == Active

\* updateBrief, also of resolveIntake: work of the old plan that has not started is
\* cancelled.
Revise ==
  /\ Free /\ brief.version < MaxVersion
  /\ brief' = [version |-> brief.version + 1,
               state |-> IF TakenBack # {} /\ brief.state \in {"ACCEPTED", "REGISTERED", "BOOTSTRAPPING"}
                         THEN "CLARIFYING" ELSE brief.state]
  /\ props' = [i \in DOMAIN props |-> IF i \in TakenBack THEN [props[i] EXCEPT !.state = "invalidated"]
                                      ELSE props[i]]
  /\ submissions' = [j \in DOMAIN submissions |->
       IF submissions[j].proposal \in TakenBack
       THEN [submissions[j] EXCEPT !.queued = FALSE] ELSE submissions[j]]
  /\ accepted' = IF accepted \in TakenBack THEN 0 ELSE accepted
  /\ UNCHANGED <<accepts, submits, boot, projects, request, call>>

\* proposePlan, insertProposal: for the version that was read, the present one or an earlier.
Propose(version) ==
  /\ Free /\ Len(props) < MaxProps /\ CanBecome("PROPOSED") /\ brief' = In("PROPOSED")
  /\ props' = Append([i \in DOMAIN props |-> IF props[i].state = "presented"
                                              THEN [props[i] EXCEPT !.state = "superseded"] ELSE props[i]],
                     [version |-> version, state |-> "presented", late |-> FALSE])
  /\ UNCHANGED <<accepted, accepts, submits, submissions, boot, projects, request, call>>

PriorSubmission(i) == \E j \in DOMAIN submissions : submissions[j].proposal = i

\* What a command has seen of proposal i, and whether it is so still: no other command has
\* overtaken it.
Look(i)     == [plan |-> i, version |-> brief.version, state |-> props[i].state, last |-> accepted,
                prior |-> PriorSubmission(i)]
Still(look) == look = Look(look.plan)

\* acceptPlan, before its transaction: the fingerprint is that of the brief as it is now.
Acceptable(i) == props[i].state = "presented" /\ props[i].version = brief.version /\ accepted = 0

CheckAccept(i) ==
  /\ Free /\ (\A look \in accepts : look.plan # i) /\ Acceptable(i) /\ accepts' = accepts \union {Look(i)}
  /\ UNCHANGED <<brief, props, accepted, submits, submissions, boot, projects, request, call>>

\* The transaction: only the brief's state is looked at again.
RecordAccept(look) ==
  /\ accepts' = accepts \ {look}
  /\ IF CanBecome("ACCEPTED")
     THEN /\ brief' = In("ACCEPTED") /\ accepted' = look.plan
          /\ props' = [props EXCEPT ![look.plan].state = "accepted", ![look.plan].late = ~Still(look)]
     ELSE UNCHANGED <<brief, accepted, props>>
  /\ UNCHANGED <<submits, submissions, boot, projects, request, call>>
-----------------------------------------------------------------------------
(* submitAcceptedPlan                                                      *)

\* Read before the transaction; a plan already submitted gives its tasks again.
CanSubmit(i) == i # 0 /\ i = accepted /\ props[i].version = brief.version /\ projects > 0

\* The transaction: only the brief's state is looked at again.
Writes(look) ==
  /\ CanBecome("REGISTERED") /\ brief' = In("REGISTERED")
  /\ submissions' = Append(submissions, [proposal |-> look.plan, queued |-> TRUE, late |-> ~Still(look)])

LookUpPlan == /\ Free /\ CanSubmit(accepted) /\ ~PriorSubmission(accepted) /\ \A look \in submits : look.plan # accepted
              /\ submits' = submits \union {Look(accepted)}
              /\ UNCHANGED <<brief, props, accepted, accepts, submissions, boot, projects, request, call>>
WritePlan(look) == /\ submits' = submits \ {look}
                   /\ Writes(look) \/ (~CanBecome("REGISTERED") /\ UNCHANGED <<brief, submissions>>)
                   /\ UNCHANGED <<props, accepted, accepts, boot, projects, request, call>>

\* The controller takes up a queued task.
StartTasks == \E j \in DOMAIN submissions :
  /\ submissions[j].queued /\ submissions' = [submissions EXCEPT ![j].queued = FALSE]
  /\ UNCHANGED <<brief, planVars, boot, projects, request, call>>
-----------------------------------------------------------------------------
(* bootstrapProject, by itself or within a start.                          *)

At(p)  == call' = [call EXCEPT !.at = p]
\* startAcceptedWork: its catch records the failure.
Failed == /\ call' = Idle
          /\ request' = IF call.by = "start" THEN [request EXCEPT ![call.proposal].state = "failed"]
                        ELSE request

BootstrapCommand == /\ call = Idle /\ Free /\ call' = [Idle EXCEPT !.by = "bootstrap", !.at = "boot"]
                    /\ UNCHANGED <<brief, planVars, submissions, boot, projects, request>>

\* Whatever plan is accepted, the completed run of this directory is handed back.
BootAdmitted == /\ call.at = "boot" /\ accepted # 0 /\ At(IF boot.state = "completed" THEN "booted" ELSE "move")
                /\ UNCHANGED <<brief, planVars, submissions, boot, projects, request>>
\* setBriefState outside a transaction: the state is read and judged, then written.
BootReads == /\ call.at = "move" /\ CanBecome("BOOTSTRAPPING")
             /\ At(IF brief.state = "BOOTSTRAPPING" THEN "operate" ELSE "mark")
             /\ UNCHANGED <<brief, planVars, submissions, boot, projects, request>>
BootBegins == /\ call.at = "mark" /\ brief' = In("BOOTSTRAPPING") /\ At("operate")
              /\ UNCHANGED <<planVars, submissions, boot, projects, request>>
BootRefused == /\ \/ call.at = "boot" /\ accepted = 0 /\ boot' = boot
                  \/ call.at = "move" /\ ~CanBecome("BOOTSTRAPPING") /\ boot' = [boot EXCEPT !.state = "failed"]
               /\ Failed /\ UNCHANGED <<brief, planVars, submissions, projects>>

\* Mutant: the run knows its project, or has none.
RunOnly == boot.done >= 1

\* projectForRun: the run's project, or the one of the same name and path.
ProjectFound == projects > 0

\* runStep: what a step does is seen before the step is recorded as done.
Operate ==
  /\ call.at = "operate" /\ boot.done # 1 /\ At("record") /\ boot' = [boot EXCEPT !.state = "running"]
  /\ projects' = IF boot.done # 0 \/ ProjectFound THEN projects ELSE projects + 1
  /\ UNCHANGED <<brief, planVars, submissions, request>>
Record ==
  /\ call.at = "record"
  /\ LET done == IF boot.done < Steps THEN boot.done + 1 ELSE Steps
     IN boot' = [state |-> IF done = Steps THEN "completed" ELSE "running", done |-> done]
  /\ At(IF boot'.state = "completed" THEN "booted" ELSE "operate")
  /\ UNCHANGED <<brief, planVars, submissions, projects, request>>

\* plan_linkage and a start for a registered project submit the accepted plan.
Linking    == call.at = "operate" /\ boot.done = 1
AfterPlan  == IF call.by = "start" /\ request[call.proposal].target = "project" THEN "booted" ELSE "record"
CallLooksUp ==
  /\ call.at = "submit" \/ Linking
  /\ CanSubmit(accepted)
  /\ call' = IF PriorSubmission(accepted) THEN [call EXCEPT !.at = AfterPlan]
             ELSE [call EXCEPT !.at = "apply", !.look = Look(accepted)]
  /\ boot' = IF Linking THEN [boot EXCEPT !.state = "running"] ELSE boot
  /\ UNCHANGED <<brief, planVars, submissions, projects, request>>
CallWrites ==
  /\ call.at = "apply" /\ Writes(call.look) /\ call' = [call EXCEPT !.at = AfterPlan, !.look = NoLook]
  /\ UNCHANGED <<planVars, boot, projects, request>>

\* git, a scaffold or the linkage fails: the run can be resumed. The brief goes back, again
\* read first and then written.
StepFails ==
  /\ call.at = "operate" \/ (call.at = "apply" /\ AfterPlan = "record")
  /\ boot' = [boot EXCEPT !.state = "failed"]
  /\ IF brief.state = "BOOTSTRAPPING" THEN call' = [call EXCEPT !.at = "undo", !.look = NoLook] /\ UNCHANGED request
     ELSE Failed
  /\ UNCHANGED <<brief, planVars, submissions, projects>>
Undo == /\ call.at = "undo" /\ brief' = In("ACCEPTED") /\ Failed
        /\ UNCHANGED <<planVars, submissions, boot, projects>>
BootDone == /\ call.at = "booted" /\ call.by = "bootstrap" /\ call' = Idle
            /\ UNCHANGED <<brief, planVars, submissions, boot, projects, request>>
-----------------------------------------------------------------------------
(* startAcceptedWork                                                       *)

\* requireExactAcceptance
Exact(i) == i = accepted

\* The request id is claimed, or found with its progress. A completed one is replayed.
Start(i, target) ==
  /\ call = Idle /\ Free /\ request[i].state # "completed"
  /\ IF request[i].state = "none"
     THEN /\ Exact(i)
          /\ request' = [request EXCEPT ![i] = [state |-> "in_progress", submitted |-> FALSE, target |-> target]]
     ELSE target = request[i].target /\ UNCHANGED request
  /\ call' = [Idle EXCEPT !.by = "start", !.proposal = i, !.at = "claimed"]
  /\ UNCHANGED <<brief, planVars, submissions, boot, projects>>

\* A retry must still be the work that was accepted; it throws outside of the catch.
StartChecks ==
  /\ call.at = "claimed"
  /\ LET r == request[call.proposal]
     IN IF r.submitted THEN At("finish")
        ELSE IF ~Exact(call.proposal) THEN call' = Idle
        ELSE At(IF r.target = "directory" THEN "boot" ELSE "submit")
  /\ UNCHANGED <<brief, planVars, submissions, boot, projects, request>>

SubmitFails  == /\ \/ call.at = "submit" /\ ~CanSubmit(accepted)
                   \/ call.at = "apply" /\ AfterPlan = "booted" /\ ~CanBecome("REGISTERED")
                /\ Failed /\ UNCHANGED <<brief, planVars, submissions, boot, projects>>
\* checkpoint, and later the result
Checkpoint == /\ call.at = "booted" /\ call.by = "start" /\ At("finish")
              /\ request' = [request EXCEPT ![call.proposal].submitted = TRUE,
                                            ![call.proposal].state = "in_progress"]
              /\ UNCHANGED <<brief, planVars, submissions, boot, projects>>
Finish == /\ call.at = "finish" /\ call' = Idle
          /\ request' = [request EXCEPT ![call.proposal].state = "completed"]
          /\ UNCHANGED <<brief, planVars, submissions, boot, projects>>
Crash == /\ call # Idle /\ call' = Idle
         /\ UNCHANGED <<brief, planVars, submissions, boot, projects, request>>

InNext ==
  \/ Ask \/ Revise \/ LookUpPlan \/ StartTasks
  \/ \E version \in 1..brief.version : Propose(version)
  \/ \E look \in accepts : RecordAccept(look)
  \/ \E look \in submits : WritePlan(look)
  \/ \E i \in DOMAIN props : \/ CheckAccept(i)
                             \/ \E target \in {"directory", "project"} : Start(i, target)
  \/ BootstrapCommand \/ BootAdmitted \/ BootReads \/ BootBegins \/ BootRefused \/ Operate \/ Record
  \/ CallLooksUp \/ CallWrites \/ StepFails \/ Undo \/ BootDone
  \/ StartChecks \/ SubmitFails \/ Checkpoint \/ Finish \/ Crash

InSpec == InInit /\ [][InNext]_inVars
-----------------------------------------------------------------------------
\* An acceptance that nothing overtook between its check and its record is of the brief as it
\* stands, and the only such, whoever revises the brief while work is starting.
InTime == {i \in Active : ~props[i].late}
AcceptanceCurrent == \A i, j \in InTime : props[i].version = brief.version /\ i = j

\* What waits to be started is work of a plan that is accepted: a revision stops the rest of
\* the work of what it takes back, unless its submission was overtaken.
RevisionStops ==
  \A j \in DOMAIN submissions :
    submissions[j].queued /\ ~submissions[j].late => submissions[j].proposal \in Active

\* However often a start or a bootstrap dies and is repeated, no second project is registered
\* and no plan is submitted twice, unless another submission of it overtook this one.
StartedOnce ==
  /\ projects <= 1
  /\ \A j, k \in DOMAIN submissions :
       submissions[j].proposal = submissions[k].proposal /\ ~submissions[j].late /\ ~submissions[k].late => j = k

\* Acceptance is of the current brief, and what was accepted is started once.
IntakeHolds == AcceptanceCurrent /\ RevisionStops /\ StartedOnce

\* "a stale proposal cannot be accepted after a revision" (src/intake/service.ts:450): not so
\* when the revision, or another acceptance, comes between the check and the record.
AcceptedIsCurrent == \A i, j \in Active : props[i].version = brief.version /\ i = j

\* A plan is submitted once: not when two submissions look before either of them writes.
SubmittedOnce ==
  \A j, k \in DOMAIN submissions : submissions[j].proposal = submissions[k].proposal => j = k

\* "Start the accepted plan in one resumable step: bootstrap a new directory and link the
\* plan" (docs/commands.md:139): a start that reports completion has submitted its plan.
StartSubmitsPlan ==
  \A i \in DOMAIN props : request[i].state = "completed" => PriorSubmission(i)

\* A brief whose bootstrap is completed is out of BOOTSTRAPPING. Not after a crash between
\* the linkage and its record: the repeated linkage leaves the state alone.
BootstrapLeaves == boot.state = "completed" /\ call = Idle => brief.state # "BOOTSTRAPPING"
=============================================================================
