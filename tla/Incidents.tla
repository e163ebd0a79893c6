------------------------------ MODULE Incidents ------------------------------
(***************************************************************************)
(* What a failure is taken for, and what is learnt from it: diagnoseFailure*)
(* of src/core/failure.ts as collectAttempt, launchAttempt and the checks  *)
(* of src/controller/controller.ts use it, and the incidents that          *)
(* src/incidents/ projects from the recorded failures into the rows of     *)
(* src/store/records.ts, with the incident commands of src/cli.ts.         *)
(*                                                                         *)
(* A text is the set of patterns it matches; the first line that becomes   *)
(* the symptom is the same for every failure of a category and layer. No   *)
(* caller passes diagnoseFailure a readiness, a decision or an envelope.   *)
(***************************************************************************)
EXTENDS Integers, Sequences, FiniteSets

CONSTANTS Observed,     \* the observations to consider
          IcRepairLimit, MaxFailures, MaxTime, MaxVerified  \* bounds

ASSUME IncidentsAssumption == {IcRepairLimit, MaxFailures, MaxTime, MaxVerified} \subseteq Nat

VARIABLES
  fails,     \* failures recorded, oldest first
  charged,   \* repairs used
  now,       \* the clock
  incidents, \* incidents rows, by signature
  found,     \* incident_occurrences: signature and source key
  queue,     \* an import's projected occurrences still to record
  verified   \* incident verify commands so far

icVars == <<fails, charged, now, incidents, found, queue, verified>>

Signs      == {"quota", "auth", "permission", "tool missing", "config", "infra", "product"}
Sources    == {"worker", "review", "contract", "gate", "controller"}
Categories == {"provider_capacity", "provider_auth", "environment", "host_runtime", "controller",
               "worker_contract", "product_code", "unknown"}
Layers     == {"worker", "review", "check", "controller"}
Signature  == [category : Categories, layer : Layers]
Exits      == {"zero", "error", "unrunnable", "none"}   \* unrunnable: 126 and 127

Observations == [source : {"worker", "review", "gate"}, signs : SUBSET Signs, exit : Exits,
                 timedOut : BOOLEAN, signal : BOOLEAN]

ASSUME ObservedAssumption == Observed \subseteq Observations

NewIncident == [lifecycle |-> "open", verified |-> FALSE, updated |-> now, since |-> {}]

IcTypeOK ==
  /\ \A i \in DOMAIN fails : /\ fails[i].kind \in {"attempt", "contract", "launch", "gate", "stage"}
                             /\ fails[i].category \in Categories /\ fails[i].at \in 0..now
  /\ charged \in 0..IcRepairLimit /\ now \in 0..MaxTime /\ verified \in 0..MaxVerified
  /\ DOMAIN incidents \subseteq Signature
  /\ \A s \in DOMAIN incidents :
       incidents[s] \in [lifecycle : {"open", "investigating", "resolved", "superseded"},
                        verified : BOOLEAN, updated : 0..MaxTime, since : SUBSET (1..MaxFailures)]
  /\ \A f \in found : f.sig \in Signature

IcInit ==
  /\ fails = <<>> /\ charged = 0 /\ now = 0 /\ found = {} /\ queue = {} /\ verified = 0
  /\ incidents = <<>>
-----------------------------------------------------------------------------
(* Diagnosis.                                                              *)

\* The command's executable resolved in the workspace; told for checks only.
ToolResolved(o) == o.source = "gate" /\ o.exit # "unrunnable"

\* Mutant: a verdict in the text counts before how the command ended.
DiagnoseByText(source, o) == IF source # "contract" /\ "product" \in o.signs THEN "product_code" ELSE "unknown"

\* diagnoseFailure: contract and controller by their source; of providers only what talks
\* to one; structured signals before prose, and a check's verdict before the other prose.
Diagnose(source, o) ==
  LET provider == source \in {"worker", "review"}
  IN IF source = "contract" THEN "worker_contract"
     ELSE IF source = "controller" THEN "controller"
     ELSE IF provider /\ "quota" \in o.signs THEN "provider_capacity"
     ELSE IF provider /\ "auth" \in o.signs THEN "provider_auth"
     ELSE IF o.exit = "unrunnable" THEN "environment"
     ELSE IF source = "gate" /\ ToolResolved(o) /\ "product" \in o.signs THEN "product_code"
     ELSE IF o.signs \intersect {"permission", "tool missing"} # {} THEN "environment"
     ELSE IF o.timedOut \/ o.signal THEN "host_runtime"
     ELSE IF "config" \in o.signs THEN "environment"
     ELSE IF "infra" \in o.signs THEN "host_runtime"
     ELSE IF "product" \in o.signs /\ o.exit # "none" THEN "product_code" ELSE "unknown"

\* failureClassForCategory
FailureClass(c) ==
  CASE c = "provider_capacity" -> "QUOTA"   [] c = "provider_auth" -> "AUTH"
    [] c = "environment" -> "CONFIG"        [] c = "worker_contract" -> "CONTRACT"
    [] c = "product_code" -> "CODE"         [] c \in {"host_runtime", "controller", "unknown"} -> "INFRA"
-----------------------------------------------------------------------------
(* Failures, as they are recorded.                                         *)

Failure(kind, o, category) == [kind |-> kind, obs |-> o, category |-> category, at |-> now]

\* handleFailure and completeChecks charge a repair for CODE while one is left.
Charge(category) == charged' = IF FailureClass(category) = "CODE" /\ charged < IcRepairLimit THEN charged + 1 ELSE charged

Fails(kind, source, o) ==
  /\ fails' = Append(fails, Failure(kind, o, Diagnose(source, o)))
  /\ IF source = "review" THEN UNCHANGED charged ELSE Charge(Diagnose(source, o))
  /\ UNCHANGED <<now, incidents, found, queue, verified>>

\* collectAttempt: by its own word or exit, or for an envelope that is no valid contract.
AttemptFails(o)  == o.source \in {"worker", "review"} /\ ~o.signal /\ Fails("attempt", o.source, o)
ContractFails(o) == o.source \in {"worker", "review"} /\ ~o.signal /\ Fails("contract", "contract", o)
\* launchAttempt: adapter.start throws; the attempt and its stage both end failed.
LaunchFails(o)   == /\ o.source \in {"worker", "review"} /\ o.exit = "none" /\ ~o.timedOut /\ ~o.signal
                    /\ Fails("launch", o.source, o)
\* collectGateJob, for a required check
CheckFails(o)    == o.source = "gate" /\ (o.exit # "zero" \/ o.timedOut) /\ Fails("gate", "gate", o)
\* recoverLaunches: a reservation whose launch nobody can tell.
StageLost(o)     == o.signs = {} /\ o.source = "worker" /\ Fails("stage", "controller", o)
-----------------------------------------------------------------------------
(* The projection.                                                         *)

Systemic == Categories \ {"product_code"}
LayerOf(f) == IF f.kind = "gate" THEN "check" ELSE f.obs.source

\* Neither a timeout nor the contract verdict is kept with an attempt: its text is diagnosed again.
Rediagnosed(f) == IF f.kind = "gate" THEN f.category ELSE Diagnose(f.obs.source, [f.obs EXCEPT !.timedOut = FALSE])

\* The occurrences of failure i. A stage that has no attempt of its own yet comes besides.
Occurrences(i) ==
  LET own  == [sig |-> [category |-> Rediagnosed(fails[i]), layer |-> LayerOf(fails[i])], key |-> i, row |-> "own"]
      side == [sig |-> [category |-> "controller", layer |-> "controller"], key |-> i, row |-> "stage"]
  IN {o \in {own} : fails[i].kind # "stage" /\ o.sig.category \in Systemic}
     \union {o \in {side} : fails[i].kind \in {"stage", "launch"}}

\* projectIncidents
Projection == UNION {Occurrences(i) : i \in DOMAIN fails}

\* Its order: by the time observed, then by the kind of record.
Precedes(o, p) == \/ fails[o.key].at < fails[p.key].at
                  \/ fails[o.key].at = fails[p.key].at /\ (o.row = "own" \/ p.row = "stage")

\* importIncidentHistory of one project; its dry run writes nothing.
StartImport ==
  /\ queue = {} /\ Projection # {} /\ queue' = Projection
  /\ UNCHANGED <<fails, charged, now, incidents, found, verified>>

\* Mutant: a recurrence reopens the incident but leaves its lesson verified.
ReopenedOnly(row, k) ==
  IF row.lifecycle = "resolved" /\ fails[k].at >= row.updated
  THEN [row EXCEPT !.lifecycle = "open", !.updated = now, !.since = {}] ELSE row

\* An occurrence observed at or after the fix was recorded is a recurrence.
Reopened(row, k) ==
  IF row.lifecycle = "resolved" /\ fails[k].at >= row.updated
  THEN [row EXCEPT !.lifecycle = "open", !.verified = FALSE, !.updated = now, !.since = {}] ELSE row

\* recordIncidentOccurrence: one source is one occurrence, however often it is imported.
RecordOccurrence ==
  /\ UNCHANGED <<fails, charged, now, verified>>
  /\ \E o \in queue :
       /\ \A p \in queue : Precedes(o, p)
       /\ queue' = queue \ {o}
       /\ LET row == IF o.sig \in DOMAIN incidents THEN incidents[o.sig] ELSE NewIncident
              new == [Reopened(row, o.key) EXCEPT !.since = @ \union {o.key}]
          IN IF o \in found THEN UNCHANGED <<incidents, found>>
             ELSE /\ found' = found \union {o}
                  /\ incidents' = [s \in DOMAIN incidents \union {o.sig} |->
                                    IF s = o.sig THEN new ELSE incidents[s]]
-----------------------------------------------------------------------------
(* The operator.                                                           *)

\* updateIncident; since: the occurrences recorded after it.
Updated(s, lifecycle, lesson) ==
  incidents' = [incidents EXCEPT ![s] = [lifecycle |-> lifecycle, verified |-> lesson, updated |-> now, since |-> {}]]

OthersStay == UNCHANGED <<fails, charged, now, found, queue>>

Hypothesize(s) == OthersStay /\ incidents[s].lifecycle # "investigating"
                  /\ Updated(s, "investigating", FALSE) /\ UNCHANGED verified
\* With a cause, a fix and a test.
Verify(s)      == /\ OthersStay /\ verified < MaxVerified /\ verified' = verified + 1
                  /\ Updated(s, "resolved", TRUE)
Supersede(s)   == /\ OthersStay /\ incidents[s].lifecycle # "superseded" /\ Updated(s, "superseded", incidents[s].verified)
                  /\ UNCHANGED verified

IcClock == now < MaxTime /\ now' = now + 1 /\ UNCHANGED <<fails, charged, incidents, found, queue, verified>>

IcNext ==
  \/ /\ Len(fails) < MaxFailures
     /\ \E o \in Observed : AttemptFails(o) \/ ContractFails(o) \/ LaunchFails(o) \/ CheckFails(o) \/ StageLost(o)
  \/ StartImport \/ RecordOccurrence \/ IcClock
  \/ \E s \in DOMAIN incidents : Hypothesize(s) \/ Verify(s) \/ Supersede(s)

IcSpec == IcInit /\ [][IcNext]_icVars
-----------------------------------------------------------------------------
\* "Only code-repair cycles consume this budget": a repair is spent on a failure only when
\* a tool judged the code and nothing it could not have judged explains the failure, and
\* what a check prints never closes a provider.
Judged(f) ==
  /\ "product" \in f.obs.signs /\ f.kind # "contract" /\ f.obs.exit # "unrunnable"
  /\ f.kind # "gate" => f.obs.exit # "none" /\ ~f.obs.timedOut /\ f.obs.signs = {"product"}
RepairsEarned ==
  /\ \A i \in DOMAIN fails :
       /\ FailureClass(fails[i].category) = "CODE" => Judged(fails[i])
       /\ fails[i].kind = "gate" => FailureClass(fails[i].category) \notin {"QUOTA", "AUTH"}
  /\ charged <= Cardinality({i \in DOMAIN fails : Judged(fails[i])})

\* The lessons workers are told (lessonsForTask): not superseded, verified or a hypothesis.
ToldVerified(s) == incidents[s].lifecycle # "superseded" /\ incidents[s].verified

\* "so a guess is never presented as fact": a lesson is told as verified only while no
\* failure observed since its fix has been imported, in whatever order failures, imports
\* and the operator's commands come; and no task's own defect becomes an incident.
LessonsHold ==
  /\ \A s \in DOMAIN incidents : ToldVerified(s) => \A k \in incidents[s].since : fails[k].at < incidents[s].updated
  /\ \A o \in found : fails[o.key].kind = "gate" => fails[o.key].category # "product_code"

\* "reading the same failure copied into several checkpoints, can never multiply an
\* incident": violated by a launch that fails, counted as its attempt and as its stage.
OneFailureOnce == \A o, p \in found : o.key = p.key => o = p

\* An incident is of the category its failure was handled as: violated, attempts are
\* diagnosed again without their contract verdict and timeout.
IncidentAgrees == \A o \in found : o.row = "own" => o.sig.category = fails[o.key].category

\* TIMEOUT uses no code repair (docs/architecture/recovery-and-failures.md:67): violated by
\* a check that prints failures and then times out.
TimeoutsUncharged == \A i \in DOMAIN fails : fails[i].obs.timedOut => FailureClass(fails[i].category) # "CODE"
=============================================================================
