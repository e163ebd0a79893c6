------------------------------ MODULE MCPlatform ------------------------------
(* Instances of what surrounds the controller's passes, for TLC: reviews,   *)
(* approvals and what is done under them, maintenance, intake. The parts do *)
(* not share variables, but for the approvals of the two that build on      *)
(* them: each behaviour is one of one part, the others stay as they are.    *)
EXTENDS ReviewRounds, Operations, Curator, Maintenance, Intake, Routing, MCPlans, MCIncidents, MCExperiments,
        Questions

CONSTANTS r1, r2, pa, pb, pc

VARIABLE part   \* the part that runs

MCParts == {"review", "approvals", "operations", "curator", "maintenance", "intake", "routing", "plan", "incidents",
            "experiment", "questions", "feedback"}

\* The quota domains of three providers, and the controllers and trials to route under.
TwoDomains  == pa :> "x" @@ pb :> "x" @@ pc :> "y"
OneEach     == pa :> 1 @@ pb :> 1 @@ pc :> 1
InOrder     == <<pa, pb, pc>>
Unpinned    == [mode |-> "policy", adapter |-> NoProvider, capacity |-> "allow", override |-> NoProvider,
                trial |-> r1 :> NoProvider @@ r2 :> NoProvider, attempts |-> r1 :> 2 @@ r2 :> 1,
                installed |-> {pa, pb, pc}, unproven |-> {}]
Two         == [Unpinned EXCEPT !.installed = {pa, pc}, !.attempts[r1] = 3]
SetupsUsed  == {Unpinned,
                [Two EXCEPT !.mode = "pinned", !.adapter = pa, !.capacity = "wait", !.override = pc],
                [Two EXCEPT !.mode = "preferred", !.adapter = pc, !.capacity = "wait", !.override = pa, !.unproven = {pa}, !.attempts[r1] = 2],
                [Two EXCEPT !.override = pc, !.trial[r1] = pa]}

apRest == <<ops, edits, calls, opRuns, proposals, evals, applies, busy>>
cuRest == <<proposals, evals, applies, busy>>
opRest == <<ops, edits, calls, opRuns>>
govVars == <<apVars, apRest>>
restVars == <<rtVars, epVars, icVars, exVars, qVars>>

MCInit == /\ part \in MCParts
          /\ RvInit /\ OpInit /\ CuInit /\ MaintInit /\ InInit /\ RtInit
          /\ part = "review" \/ policy = "pending"   \* the policy matters to reviews only
          /\ part = "routing" \/ setup = Unpinned
          /\ EpInit /\ (part = "plan" \/ (plan = Base3 /\ source = "cli"))
          /\ IcInit /\ MCExInit
          /\ QInit /\ (part = "questions" \/ paper.known = {})

\* Bounds of one part: configurations of the project, revisions of its task.
Within(configs, revs) == project'.config <= configs /\ task'.next <= revs

\* The first plan is started in a new directory, the second there or in a project.
InWithin == request'[1].target = "directory"

MCNext ==
  /\ UNCHANGED part
  /\ \/ part = "review" /\ RvNext /\ UNCHANGED <<govVars, maintVars, inVars, restVars>>
     \/ part = "approvals" /\ ApNext /\ Within(2, 2) /\ UNCHANGED <<rvVars, apRest, maintVars, inVars, restVars>>
     \/ part = "operations" /\ OpNext /\ Within(2, 0) /\ UNCHANGED <<rvVars, cuRest, maintVars, inVars, restVars>>
     \/ part = "curator" /\ CuNext /\ Within(2, 0) /\ UNCHANGED <<rvVars, opRest, maintVars, inVars, restVars>>
     \/ part = "maintenance" /\ MaintNext /\ UNCHANGED <<rvVars, govVars, inVars, restVars>>
     \/ part = "intake" /\ InNext /\ InWithin /\ UNCHANGED <<rvVars, govVars, maintVars, restVars>>
     \/ part = "routing" /\ RtNext /\ UNCHANGED <<rvVars, govVars, maintVars, inVars, epVars, icVars, exVars, qVars>>
     \/ part = "plan" /\ EpNext /\ UNCHANGED <<rvVars, govVars, maintVars, inVars, rtVars, icVars, exVars, qVars>>
     \/ part = "incidents" /\ IcNext /\ IcWithin /\ UNCHANGED <<rvVars, govVars, maintVars, inVars, rtVars, epVars, exVars, qVars>>
     \/ part = "experiment" /\ ExNext /\ ExWithin /\ UNCHANGED <<rvVars, govVars, maintVars, inVars, rtVars, epVars, icVars, qVars>>
     \/ part = "questions" /\ ClarNext /\ UNCHANGED <<rvVars, govVars, maintVars, inVars, rtVars, epVars, icVars, exVars>>
     \/ part = "feedback" /\ FbNext /\ UNCHANGED <<rvVars, govVars, maintVars, inVars, rtVars, epVars, icVars, exVars>>

MCVars == <<part, rvVars, govVars, maintVars, inVars, restVars>>

\* The fairness of the reviews, for their behaviours.
MCFairness == /\ WF_rvVars(part = "review" /\ RvTick)
              /\ WF_rvVars(part = "review" /\ ReviewerReports)
              /\ SF_rvVars(part = "review" /\ ResumePendingReview)

MCSpec == MCInit /\ [][MCNext]_MCVars /\ MCFairness

\* The state of the part that runs keeps its type.
TypesOK ==
  CASE part = "review" -> RvTypeOK           [] part = "approvals" -> ApTypeOK
    [] part = "operations" -> OpTypeOK       [] part = "curator" -> CuTypeOK
    [] part = "maintenance" -> MaintTypeOK   [] part = "intake" -> InTypeOK
    [] part = "routing" -> RtTypeOK          [] part = "plan" -> EpTypeOK
    [] part = "incidents" -> IcTypeOK        [] part = "experiment" -> ExTypeOK
    [] part = "questions" -> QTypeOK         [] part = "feedback" -> QTypeOK

\* A deferred review is taken up, in the behaviours of that part.
ReviewsResume == part = "review" => PendingReviewed
=============================================================================
