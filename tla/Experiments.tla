----------------------------- MODULE Experiments -----------------------------
(***************************************************************************)
(* A live experiment of src/optimization/experiments.ts: the authorization *)
(* of one manifest, trial tasks bound to its slots, the refusal that guards*)
(* every launch of theirs in src/controller/controller.ts, the recording of*)
(* trials and of manual measurements, the comparison and its end.          *)
(*                                                                         *)
(* Commands read and check, and write in a transaction or a statement of   *)
(* their own that looks at nothing again; the controller asks for a refusal*)
(* and starts the attempt later. What comes between is any other step.     *)
(*                                                                         *)
(* A manifest's fingerprint is the environment it was derived in, a value  *)
(* of Manifests: the definition of the experiment is fixed. A trial's route*)
(* is Routing's. The primary metric is repairs; tokens are the metric with *)
(* a tolerance, which is zero. No caller records policy replays.           *)
(***************************************************************************)
EXTENDS Integers, Sequences, FiniteSets, SequencesExt

CONSTANTS
  Cases,      \* the cases of the protocol, in order
  Repeats,    \* repeats of each case
  Manifests,  \* what the manifest may be derived as
  Unfit,      \* those with an ineligible variant or another blocker
  NoManifest,
  Terminals,  \* where commands run: bounds those under way at once
  Tools,      \* versions of the check tool, which the manifest does not name
  Tokens,     \* reported input tokens of a trial
  MaxElapsed, MaxTrialAttempts, TokenWarning, ExRepairLimit,
  ExMaxTime   \* bound on the clock

ASSUME ExperimentsAssumption ==
  /\ Unfit \subseteq Manifests /\ NoManifest \notin Manifests
  /\ MaxTrialAttempts \in Nat \ {0} /\ Repeats \in Nat \ {0} /\ ExRepairLimit \in Nat /\ ExMaxTime \in Nat

VARIABLES
  status,   \* "draft", "running" or "completed"
  auth,     \* run_authorization: its fingerprint and when
  derived,  \* the manifest as it would be derived now
  tool,     \* the installed check tool
  clock,
  trial,    \* the trial task of each slot
  measured, \* optimization_measurements, one for a slot at most
  cmd       \* the command of each terminal, between its checks and its write

exVars == <<status, auth, derived, tool, clock, trial, measured, cmd>>

Unknown  == -1
Variants == {"baseline", "candidate"}
Pairs    == {<<c, r>> : c \in ToSet(Cases), r \in 0..(Repeats - 1)}
Slots    == Pairs \X Variants

NoTrial == [state |-> "none", bound |-> NoManifest, attempts |-> 0, repairs |-> 0, retries |-> 0,
            staged |-> FALSE, going |-> FALSE, tools |-> <<>>, strayed |-> FALSE]
NotMeasured == [source |-> "none"]
NoCmd == [op |-> "none", stale |-> FALSE]

Resting == {"done", "failed", "cancelled", "blocked", "parked"}

ExTypeOK ==
  /\ status \in {"draft", "running", "completed"}
  /\ auth \in [by : Manifests \union {NoManifest}, at : 0..ExMaxTime]
  /\ derived \in Manifests /\ tool \in Tools /\ clock \in 0..ExMaxTime
  /\ DOMAIN trial = Slots
  /\ \A s \in Slots : /\ trial[s].state \in Resting \union {"none", "ready", "running"}
                      /\ trial[s].attempts \in 0..MaxTrialAttempts /\ trial[s].repairs \in 0..ExRepairLimit
                      /\ ToSet(trial[s].tools) \subseteq Tools
  /\ \A s \in Slots : measured[s].source \in {"none", "manual", "live_trial"}
  /\ \A k \in Terminals : cmd[k].op \in {"none", "authorize", "start", "insert", "complete"} /\ cmd[k].stale \in BOOLEAN

ExInit ==
  /\ status = "draft" /\ auth = [by |-> NoManifest, at |-> 0]
  /\ derived \in Manifests \ Unfit /\ tool \in Tools /\ clock = 0
  /\ trial = [s \in Slots |-> NoTrial] /\ measured = [s \in Slots |-> NotMeasured]
  /\ cmd = [k \in Terminals |-> NoCmd]
-----------------------------------------------------------------------------
(* A command's checks, and its write or its end without one.               *)

Checks(k, c) == /\ cmd[k] = NoCmd /\ cmd' = [cmd EXCEPT ![k] = c]
                /\ UNCHANGED <<status, auth, derived, tool, clock, trial, measured>>
CmdEnds(k)   == cmd' = [cmd EXCEPT ![k] = NoCmd]

\* Killed, or refused by a key that is taken: a slot has one trial and one measurement.
CommandFails(k) == cmd[k] # NoCmd /\ CmdEnds(k) /\ UNCHANGED <<status, auth, derived, tool, clock, trial, measured>>
-----------------------------------------------------------------------------
(* The manifest and its authorization.                                     *)

\* buildManifest: counterbalanced, the variant that runs first alternates across pairs.
Trials ==
  LET n     == Len(Cases) * Repeats
      Case(i)   == (i - 1) \div Repeats
      Repeat(i) == (i - 1) % Repeats
      First(i)  == IF (Case(i) + Repeat(i)) % 2 = 0 THEN <<"baseline", "candidate">> ELSE <<"candidate", "baseline">>
      Pair(i)   == [k \in 1..2 |-> <<<<Cases[Case(i) + 1], Repeat(i)>>, First(i)[k]>>]
  IN FlattenSeq([i \in 1..n |-> Pair(i)])

\* A sum over the slots of f, in that order.
SumOf(f) == FoldLeft(LAMBDA sum, s : sum + (IF s \in DOMAIN f THEN f[s] ELSE 0), 0, Trials)

Bound == {s \in Slots : trial[s].state # "none"}

\* buildManifest: every variant is eligible, and nothing blocks a live run.
Fit == derived \notin Unfit

\* authorizeRun: the same manifest again keeps its clock; with a trial bound, no other.
CheckAuthorize(k) ==
  /\ Fit /\ auth.by # derived /\ (auth.by = NoManifest \/ Bound = {})
  /\ Checks(k, [op |-> "authorize", to |-> derived, stale |-> FALSE])
WriteAuthorize(k) ==
  /\ cmd[k].op = "authorize" /\ CmdEnds(k)
  /\ auth' = [by |-> cmd[k].to, at |-> clock]
  /\ UNCHANGED <<status, derived, tool, clock, trial, measured>>

\* authorizedManifest
Authorized == auth.by # NoManifest /\ derived = auth.by

\* experimentBudgetState
ElapsedExceeded == auth.by # NoManifest /\ clock - auth.at >= MaxElapsed
LiveTrials            == {s \in Slots : measured[s].source = "live_trial"}
UsedTokens      == SumOf([s \in {u \in LiveTrials : measured[u].tokens # Unknown} |-> measured[s].tokens])
BudgetBreached  == \/ \E s \in LiveTrials : measured[s].at > auth.at + MaxElapsed
                   \/ UsedTokens > TokenWarning
                   \/ \E s \in Bound : trial[s].attempts > MaxTrialAttempts

\* startTrial: the next slot of the manifest, bound to the authorization that was read.
CheckStart(k) ==
  /\ status # "completed" /\ Authorized /\ ~ElapsedExceeded /\ Bound # Slots
  /\ Checks(k, [op |-> "start", slot |-> Trials[Cardinality(Bound) + 1], under |-> auth.by, stale |-> FALSE])
WriteStart(k) ==
  /\ cmd[k].op = "start" /\ trial[cmd[k].slot].state = "none" /\ CmdEnds(k)
  /\ trial' = [trial EXCEPT ![cmd[k].slot] = [NoTrial EXCEPT !.state = "ready", !.bound = cmd[k].under]]
  /\ UNCHANGED <<status, auth, derived, tool, clock, measured>>
-----------------------------------------------------------------------------
(* The controller, on the trial tasks.                                     *)

\* Mutant: the manifest is looked at when the trial starts only.
RefusalByBinding(s) ==
  status = "completed" \/ auth.by # trial[s].bound \/ ElapsedExceeded \/ trial[s].attempts >= MaxTrialAttempts

\* trialLaunchRefusal
LaunchRefused(s) ==
  status = "completed" \/ auth.by # trial[s].bound \/ ~Authorized \/ ElapsedExceeded \/ trial[s].attempts >= MaxTrialAttempts

\* The route is busy: nothing else is looked at. Then the refusal, then admission and the
\* reservation of the stage, which a task that changed meanwhile does not get.
Launched(t, s) ==
  {[t EXCEPT !.state = "parked"]} \union
  (IF LaunchRefused(s) THEN {[t EXCEPT !.state = "blocked"]}
   ELSE {[t EXCEPT !.state = "running", !.going = TRUE, !.strayed = @ \/ derived # auth.by \/ ElapsedExceeded]})

\* dispatchReadyTasks reserves the workspace stage before the launch; resumeAdmissionPending.
LaunchTrial(s) ==
  /\ trial[s].state \in {"ready", "parked"}
  /\ \E t \in Launched([trial[s] EXCEPT !.staged = TRUE], s) : t # trial[s] /\ trial' = [trial EXCEPT ![s] = t]
  /\ UNCHANGED <<status, auth, derived, tool, clock, measured, cmd>>

\* launchAttempt goes on from its reservation, whatever happened meanwhile: the attempt
\* starts, or its packet cannot be built.
StartAttempt(s) ==
  /\ trial[s].going
  /\ trial' \in {[trial EXCEPT ![s].going = FALSE, ![s].attempts = @ + 1],
                  [trial EXCEPT ![s].going = FALSE, ![s].state = IF @ = "running" THEN "blocked" ELSE @]}
  /\ UNCHANGED <<status, auth, derived, tool, clock, measured, cmd>>

\* recordGate: the versions in a task's rows after one more run; of each only the last row counts.
Rerun(versions, v) ==
  Append(IF v \in ToSet(versions) THEN RemoveAt(versions, CHOOSE i \in DOMAIN versions : versions[i] = v) ELSE versions, v)

\* The attempt ends and its checks run: accepted; a defect, repaired in the same pass while
\* a repair is left; or a failure that blocks.
EndAttempt(s) ==
  LET t == [trial[s] EXCEPT !.tools = Rerun(@, tool)]
  IN /\ trial[s].state = "running" /\ ~trial[s].going
     /\ \E next \in {[t EXCEPT !.state = "done"], [trial[s] EXCEPT !.state = "blocked"]}
                    \union (IF t.repairs < ExRepairLimit THEN Launched([t EXCEPT !.repairs = @ + 1], s)
                            ELSE {[t EXCEPT !.state = "failed"]}) :
          trial' = [trial EXCEPT ![s] = next]
     /\ UNCHANGED <<status, auth, derived, tool, clock, measured, cmd>>

\* The operator: task retry and task cancel.
RetryTrial(s) ==
  /\ trial[s].state \in {"parked", "blocked", "failed"} /\ trial[s].retries = 0   \* bound: one retry
  /\ trial' = [trial EXCEPT ![s].state = "ready", ![s].retries = 1]
  /\ UNCHANGED <<status, auth, derived, tool, clock, measured, cmd>>

CancelTrial(s) ==
  /\ trial[s].state \in {"ready", "running", "parked", "blocked"}
  /\ trial' = [trial EXCEPT ![s].state = "cancelled"]
  /\ UNCHANGED <<status, auth, derived, tool, clock, measured, cmd>>
-----------------------------------------------------------------------------
(* Measurements.                                                           *)

\* insertMeasurement: a completed experiment takes none, as it reads it; a command for a
\* slot that is measured comes to nothing in any case.
CheckInsert(k, s, m) ==
  /\ status # "completed" /\ measured[s] = NotMeasured
  /\ Checks(k, [op |-> "insert", slot |-> s, row |-> m, stale |-> FALSE])
WriteInsert(k) ==
  /\ cmd[k].op = "insert" /\ measured[cmd[k].slot] = NotMeasured /\ CmdEnds(k)
  /\ measured' = [measured EXCEPT ![cmd[k].slot] = [cmd[k].row EXCEPT !.at = clock]]
  /\ status' = "running"
  /\ UNCHANGED <<auth, derived, tool, clock, trial>>

\* recordMeasurement; the command has no repeat.
RecordMeasurement(k, s) ==
  /\ s[1][2] = 0
  /\ \E accepted \in BOOLEAN :
       CheckInsert(k, s, [source |-> "manual", accepted |-> accepted, repairs |-> 0, retries |-> 0,
                          tokens |-> Unknown, at |-> 0, tools |-> <<>>])

\* The versions the recorded trials' checks ran; the last in the listed order counts.
SeenTools == LET run(s) == IF s \in LiveTrials THEN trial[s].tools ELSE <<>>
             IN FlattenSeq([i \in DOMAIN Trials |-> run(Trials[i])])

\* recordTrialFromTask
RecordTrial(k, s) ==
  /\ auth.by # NoManifest /\ trial[s].bound = auth.by
  /\ trial[s].state \in Resting /\ trial[s].staged
  /\ SeenTools # <<>> => ToSet(trial[s].tools) \subseteq {Last(SeenTools)}
  /\ \E tokens \in Tokens \union {Unknown} :
       CheckInsert(k, s, [source |-> "live_trial", accepted |-> trial[s].state = "done",
                          repairs |-> trial[s].repairs, retries |-> trial[s].retries,
                          tokens |-> IF trial[s].attempts = 0 THEN 0 ELSE tokens, at |-> 0, tools |-> trial[s].tools])
-----------------------------------------------------------------------------
(* The comparison.                                                         *)

Of(v)      == {s \in Slots : s[2] = v}
Complete   == \A s \in Slots : measured[s] # NotMeasured
Retries(S) == SumOf([s \in S |-> measured[s].retries])
Repaired(v) == SumOf([s \in Of(v) |-> measured[s].repairs])
TokensOf(v) == IF \E s \in Of(v) : measured[s].tokens = Unknown THEN Unknown ELSE SumOf([s \in Of(v) |-> measured[s].tokens])
AcceptedIn(S) == Cardinality({s \in S : measured[s].accepted})

\* Case by case: no fewer accepted, no more interventions.
Regressed(c) ==
  LET at(v) == {s \in Of(v) : s[1][1] = c}
  IN \/ AcceptedIn(at("candidate")) < AcceptedIn(at("baseline"))
     \/ Retries(at("candidate")) > Retries(at("baseline"))

\* compareExperiment under strict missing data: the result is "improved".
Improved ==
  /\ Complete
  /\ Repaired("candidate") < Repaired("baseline")
  /\ \A v \in Variants : TokensOf(v) # Unknown
  /\ TokensOf("candidate") <= TokensOf("baseline")
  /\ \A c \in ToSet(Cases) : ~Regressed(c)

\* liveEvidence: every measurement is a trial's, bound to the current authorization.
LiveEvidence == \A s \in Slots : measured[s] # NotMeasured => measured[s].source = "live_trial" /\ trial[s].bound = auth.by

SupportsProposal == Improved /\ LiveEvidence /\ ~(auth.by # NoManifest /\ BudgetBreached)

\* completeExperiment: it compares, and then writes; whoever read before reads no more.
CheckComplete(k) ==
  /\ status # "completed" /\ \E s \in Slots : measured[s] # NotMeasured
  /\ Checks(k, [op |-> "complete", stale |-> FALSE])
WriteComplete(k) ==
  /\ cmd[k].op = "complete" /\ status' = "completed"
  /\ cmd' = [j \in Terminals |-> IF j = k \/ cmd[j] = NoCmd THEN NoCmd ELSE [cmd[j] EXCEPT !.stale = TRUE]]
  /\ UNCHANGED <<auth, derived, tool, clock, trial, measured>>
-----------------------------------------------------------------------------
\* The project, the runtime or a provider's CLI changes.
Drifts ==
  /\ \E f \in Manifests : f # derived /\ derived' = f
  /\ UNCHANGED <<status, auth, tool, clock, trial, measured, cmd>>
ToolChanges ==
  /\ \E v \in Tools : v # tool /\ tool' = v
  /\ UNCHANGED <<status, auth, derived, clock, trial, measured, cmd>>
ExClock ==
  /\ clock < ExMaxTime /\ clock' = clock + 1
  /\ UNCHANGED <<status, auth, derived, tool, trial, measured, cmd>>

Command(k) ==
  \/ CheckAuthorize(k) \/ WriteAuthorize(k) \/ CheckStart(k) \/ WriteStart(k) \/ WriteInsert(k)
  \/ CheckComplete(k) \/ WriteComplete(k) \/ CommandFails(k)
  \/ \E s \in Slots : RecordMeasurement(k, s) \/ RecordTrial(k, s)

ExNext ==
  \/ Drifts \/ ToolChanges \/ ExClock \/ \E k \in Terminals : Command(k)
  \/ \E s \in Slots : LaunchTrial(s) \/ StartAttempt(s) \/ EndAttempt(s) \/ RetryTrial(s) \/ CancelTrial(s)

ExSpec == ExInit /\ [][ExNext]_exVars
-----------------------------------------------------------------------------
\* "Only live trials that the controller executed under the authorized manifest are
\* evidence enough": whatever the operator, the clock and the environment do between the
\* steps, a completed experiment that supports a proposal has measured every declared slot
\* by its own trial, none of whose launches was let through under another manifest or after
\* the deadline, and no case of the candidate is worse.
SupportIsEarned ==
  status = "completed" /\ SupportsProposal =>
    \A s \in Slots :
      /\ measured[s].source = "live_trial" /\ trial[s].bound = auth.by /\ ~trial[s].strayed
      /\ ~(measured[s].at > auth.at + MaxElapsed) /\ trial[s].attempts <= MaxTrialAttempts
      /\ s[2] = "baseline" /\ Repeats = 1 /\ measured[s].accepted => measured[<<s[1], "candidate">>].accepted

\* No command that looked at the experiment before it was completed has still to write.
NoLeftover == \A k \in Terminals : ~cmd[k].stale

\* Once those commands have ended a completed experiment stays, in what was measured and in
\* what it supports: no later command, no trial's task, authorization or environment moves it.
CompletedStays ==
  status = "completed" /\ NoLeftover
    => status' = "completed" /\ measured' = measured /\ SupportsProposal' = SupportsProposal

\* Both, of every step: support is earned, and stays what it was.
ExperimentsHold == [][SupportIsEarned' /\ CompletedStays]_exVars

\* "Completed experiments are immutable" (optimization/experiments.ts:287): violated, a
\* measurement whose command checked before the completion is inserted after it and sets the
\* experiment running again.
CompletedImmutable == [][status = "completed" => status' = "completed" /\ measured' = measured]_exVars

\* "Once a trial is bound a different manifest would mix evidence" (616): violated, the
\* authorization is replaced by one that looked for trials before the first was bound.
BoundKeepsManifest == [][Bound # {} => auth'.by = auth.by]_exVars

\* "A trial's authorization and budgets hold at every launch" (controller/controller.ts:2545):
\* violated, the manifest changes, the deadline passes or the experiment is completed between
\* the refusal that is asked for and the attempt's start.
StartsAuthorized ==
  [][\A s \in Slots : trial'[s].attempts > trial[s].attempts => status # "completed" /\ Authorized /\ ~ElapsedExceeded]_exVars

\* "a trial is recorded once it comes to rest" (optimization/experiments.ts:827): violated,
\* BLOCKED counts as rest when the task waits for admission and resumes by itself.
RecordedAtRest ==
  [][\A s \in Slots : measured[s] = NotMeasured /\ measured'[s] # NotMeasured /\ measured'[s].source = "live_trial"
                        => trial[s].state # "parked"]_exVars

\* "Counterbalancing only holds if trials start in manifest order" (764): violated, the
\* tasks are created in that order and launched in any.
LaunchedInOrder ==
  \A i, j \in DOMAIN Trials : (i < j /\ trial[Trials[j]].attempts > 0) => trial[Trials[i]].attempts > 0 \/ trial[Trials[i]].state \in Resting

\* A trial whose checks ran another tool version "is confounded" and refused (845): violated
\* when a recorded trial that is blocked is retried and its checks run the other version.
SameTool == \A s, u \in LiveTrials : measured[s].tools # <<>> /\ measured[u].tools # <<>>
                                 => Last(measured[s].tools) = Last(measured[u].tools)
=============================================================================
