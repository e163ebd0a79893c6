------------------------------- MODULE Questions -------------------------------
(***************************************************************************)
(* Questions and their answers: the clarifications of a product brief and  *)
(* the requests that resolve them (src/intake/store.ts, service.ts,        *)
(* requests.ts), and the feedback question a response task answers         *)
(* (src/store/records.ts).                                                 *)
(*                                                                         *)
(* One brief whose governance misses its type, its review choice, or both; *)
(* the type of a client, which settles the choice, and the standing        *)
(* preference are Governance's. A caller of resolveIntake may lose the     *)
(* result and send its request again. Each command is a process of its     *)
(* own: planning reads the brief before it writes its questions, and the   *)
(* controller reads the pending feedback before it answers it.             *)
(***************************************************************************)
EXTENDS Integers, Sequences, FiniteSets

CONSTANTS Callers,    \* each with one request id of its own
          Sayings,    \* what is said; an assumption is one of them
          MaxItems, MaxEdits   \* bounds: clarifications; versions of the brief

ASSUME QuestionsAssumption == MaxItems \in Nat \ {0} /\ MaxEdits \in Nat \ {0}

VARIABLES
  items,   \* clarification_items: field, the governance version it is asked for, state, said
  paper,   \* the brief: version, the governance fields it has, governance_version
  used,    \* intake_requests of kind "resolve"
  sent,    \* the request a caller has sent and has no result of
  reader,  \* the brief as a planning command read it
  fb,      \* the feedback question: state, and by whom it was answered
  answerer, \* its response task: state, and whether it was retried
  teller   \* the controller between the acceptance of that task and the answer

qVars == <<items, paper, used, sent, reader, fb, answerer, teller>>

Nothing == [none |-> TRUE]
GovFields == {"type", "choice"}
WithWords == {"answered", "assumed"}

QTypeOK ==
  /\ Len(items) <= MaxItems
  /\ \A i \in DOMAIN items :
       items[i] \in [field : GovFields \union {"stack"}, at : 0..MaxEdits, state : WithWords \union {"open", "withdrawn"},
                     said : Sayings \union {""}]
  /\ paper \in [version : 1..MaxEdits, known : SUBSET GovFields, gov : 0..MaxEdits]
  /\ used \subseteq Callers
  /\ fb \in [state : {"none", "pending", "answered"}, by : {"", "person", "task"}]
  /\ answerer \in [state : {"none", "queued", "running", "stuck", "cancelled", "done"}, again : BOOLEAN]
  /\ teller \in {"away", "accepted", "listed"}
-----------------------------------------------------------------------------
(* Clarifications.                                                         *)

OpenFor(its, f, at) == \E i \in DOMAIN its : its[i].field = f /\ its[i].at = at /\ its[i].state = "open"

\* addClarification: one open question for a field.
Asked(its, f, at) ==
  IF OpenFor(its, f, at) THEN its ELSE Append(its, [field |-> f, at |-> at, state |-> "open", said |-> ""])

\* evaluateProjectReadiness, of the brief p: the type is asked for before the choice.
AskedOf(p) == IF "type" \in p.known THEN GovFields \ p.known ELSE {"type"}

\* syncGovernanceClarifications: what is not wanted is withdrawn, what is wanted is asked.
Wanted(p, item)   == item.field \in AskedOf(p) /\ item.at = p.gov
Withdrawn(its, p) == [i \in DOMAIN its |->
                        IF its[i].state = "open" /\ its[i].field \in GovFields /\ ~Wanted(p, its[i])
                        THEN [its[i] EXCEPT !.state = "withdrawn"] ELSE its[i]]
Synced(its, p) ==
  LET kept == Withdrawn(its, p)
  IN  IF "type" \notin p.known THEN Asked(kept, "type", p.gov)
      ELSE IF "choice" \notin p.known THEN Asked(kept, "choice", p.gov) ELSE kept

\* createBrief
QInit ==
  /\ \E known \in {{}, {"type"}} :
       /\ paper = [version |-> 1, known |-> known, gov |-> 0]
       /\ items = Synced(<<>>, paper)
  /\ used = {} /\ sent = [c \in Callers |-> Nothing] /\ reader = Nothing
  /\ fb = [state |-> "none", by |-> ""] /\ answerer = [state |-> "none", again |-> FALSE] /\ teller = "away"

feedbackVars == <<fb, answerer, teller>>

\* askClarifications
AskPlanning == /\ Len(items) < MaxItems /\ items' = Asked(items, "stack", 0) /\ items' # items
       /\ UNCHANGED <<paper, used, sent, reader, feedbackVars>>

\* resolveClarification: whatever the state of the question.
Resolved(its, i, said, guess) == [its EXCEPT ![i].state = IF guess THEN "assumed" ELSE "answered", ![i].said = said]

\* answerClarification
Answer(i, said, guess) == /\ items' = Resolved(items, i, said, guess)
                          /\ UNCHANGED <<paper, used, sent, reader, feedbackVars>>

\* updateBrief: a patch is the governance fields the brief then has, or of another field only;
\* the decision is recorded when both are there.
OtherField == {"title"}
NoEdit == {"none"}
Edited(patch) ==
  IF patch = OtherField THEN [paper EXCEPT !.version = @ + 1]
  ELSE [version |-> paper.version + 1, known |-> patch, gov |-> paper.gov + IF patch = GovFields THEN 1 ELSE 0]
Patches == (SUBSET GovFields) \union {OtherField}
Update(patch) ==
  /\ paper.version < MaxEdits /\ paper' = Edited(patch)
  /\ items' = Synced(items, paper') /\ Len(items') <= MaxItems
  /\ UNCHANGED <<used, sent, reader, feedbackVars>>

\* The sync of proposePlan and acceptPlan is in no transaction: it asks for what it read.
BeginSync == /\ reader = Nothing /\ reader' = paper
             /\ UNCHANGED <<items, paper, used, sent, feedbackVars>>
EndSync == /\ reader # Nothing /\ reader' = Nothing
           /\ items' = Synced(items, reader) /\ Len(items') <= MaxItems
           /\ UNCHANGED <<paper, used, sent, feedbackVars>>
-----------------------------------------------------------------------------
(* resolveIntake: an answer or an assumption, with or without an edit.     *)

\* A caller words its request for the version it has read.
Tell(c, i, said, guess, patch, revise) ==
  /\ c \notin used /\ sent[c] = Nothing
  /\ sent' = [sent EXCEPT ![c] = [version |-> paper.version, item |-> i, said |-> said, guess |-> guess,
                                  patch |-> patch, revise |-> revise]]
  /\ UNCHANGED <<items, paper, used, reader, feedbackVars>>

\* Mutant: a request is not looked up.
NeverMatched(c) == FALSE

\* matchIntakeRequest: the same id with the same request.
Matched(c) == c \in used

Unchanged(r) == /\ items[r.item].state \in WithWords /\ items[r.item].said = r.said
                /\ (items[r.item].state = "assumed") = r.guess
Refused(r) == \/ r.version # paper.version
              \/ items[r.item].state = "withdrawn"
              \/ items[r.item].state \in WithWords /\ ~Unchanged(r) /\ ~r.revise

\* The result arrives or is lost; a refusal ends the request.
Heard(c) == sent' = [sent EXCEPT ![c] = Nothing]
Replay(c) == /\ sent[c] # Nothing /\ Matched(c) /\ Heard(c)
             /\ UNCHANGED <<items, paper, used, reader, feedbackVars>>
Refuse(c) == /\ sent[c] # Nothing /\ ~Matched(c) /\ Refused(sent[c]) /\ Heard(c)
             /\ UNCHANGED <<items, paper, used, reader, feedbackVars>>
Resolve(c) ==
  /\ sent[c] # Nothing /\ ~Matched(c) /\ ~Refused(sent[c])
  /\ LET r == sent[c]
         said == IF Unchanged(r) THEN items ELSE Resolved(items, r.item, r.said, r.guess)
     IN  /\ r.patch # NoEdit => paper.version < MaxEdits
         /\ paper' = IF r.patch = NoEdit THEN paper ELSE Edited(r.patch)
         /\ items' = IF r.patch = NoEdit THEN said ELSE Synced(said, paper')
         /\ Len(items') <= MaxItems
  /\ used' = used \union {c}
  /\ (sent' = sent \/ Heard(c))
  /\ UNCHANGED <<reader, feedbackVars>>
-----------------------------------------------------------------------------
(* A feedback question and its response task.                              *)

clarVars == <<items, paper, used, sent, reader>>

\* submitFeedback: the task is created with it.
SubmitFeedback == /\ fb.state = "none" /\ fb' = [fb EXCEPT !.state = "pending"]
                  /\ answerer' = [answerer EXCEPT !.state = "queued"]
                  /\ UNCHANGED <<clarVars, teller>>

\* answerFeedback, by a person.
AnswerFeedback ==
  /\ fb.state = "pending" /\ fb' = [state |-> "answered", by |-> "person"]
  /\ answerer' = IF answerer.state = "queued" THEN [answerer EXCEPT !.state = "cancelled"] ELSE answerer
  /\ UNCHANGED <<clarVars, teller>>

\* The response task starts, fails, is cancelled or is retried.
AnswererMoves(from, to) == /\ answerer.state \in from /\ answerer' = [answerer EXCEPT !.state = to]
                           /\ UNCHANGED <<clarVars, fb, teller>>
RetryAnswerer == /\ answerer.state = "stuck" /\ answerer' = [state |-> "queued", again |-> TRUE]
                 /\ UNCHANGED <<clarVars, fb, teller>>
\* acceptTask, then completeFeedbackForTask: its list, its transaction.
AcceptAnswer == /\ answerer.state = "running" /\ teller' = "accepted"
                /\ answerer' = [answerer EXCEPT !.state = "done"]
                /\ UNCHANGED <<clarVars, fb>>
ListPending == /\ teller = "accepted"
               /\ teller' = IF fb.state = "pending" THEN "listed" ELSE "away"
               /\ UNCHANGED <<clarVars, fb, answerer>>
CompleteFeedback == /\ teller = "listed" /\ teller' = "away" /\ fb' = [state |-> "answered", by |-> "task"]
                    /\ UNCHANGED <<clarVars, answerer>>
TellerDies == /\ teller # "away" /\ teller' = "away" /\ UNCHANGED <<clarVars, fb, answerer>>

ClarNext ==
  \/ AskPlanning \/ BeginSync \/ EndSync
  \/ \E patch \in Patches : Update(patch)
  \/ \E i \in DOMAIN items, said \in Sayings, guess \in BOOLEAN :
       \/ Answer(i, said, guess)
       \/ \E c \in Callers, patch \in {NoEdit, GovFields}, revise \in BOOLEAN :
            Tell(c, i, said, guess, patch, revise)
  \/ \E c \in Callers : Replay(c) \/ Refuse(c) \/ Resolve(c)

FbNext ==
  \/ SubmitFeedback \/ AnswerFeedback \/ AcceptAnswer \/ ListPending \/ CompleteFeedback \/ TellerDies
  \/ AnswererMoves({"queued"}, "running") \/ AnswererMoves({"running"}, "stuck")
  \/ AnswererMoves({"queued", "running", "stuck"}, "cancelled") \/ RetryAnswerer

QNext == ClarNext \/ FbNext

QSpec == QInit /\ [][QNext]_qVars
-----------------------------------------------------------------------------
\* "an identical retry returns the recorded result" (ResolveIntakeInput): however late a
\* caller sends its request again, and whatever was revised in between, only its first
\* arrival changes an answer or the brief.
RetryKeepsAnswers ==
  \A c \in used : sent[c] # Nothing /\ sent'[c] # sent[c] => UNCHANGED <<items, paper>>

\* Every revision of the brief leaves its governance questions those of its governance:
\* none open for another version or for what is known, and what it is to be asked for next
\* asked or answered in words (syncGovernanceClarifications inside updateBrief).
QuestionsCurrent ==
  /\ \A i \in DOMAIN items : items[i].state = "open" /\ items[i].field \in GovFields => Wanted(paper, items[i])
  /\ \A f \in AskedOf(paper) :
       \E i \in DOMAIN items : items[i].field = f /\ items[i].at = paper.gov /\ items[i].state # "withdrawn"
RevisionAsks == paper' # paper => QuestionsCurrent'

\* "a manual answer cancels the response task when it has not started"
\* (docs/phases/phase-3-summary.md:37): nobody works on a question somebody has answered, unless the
\* operator retried its task.
AnsweredIsNotWorked ==
  answerer.state = "queued" /\ answerer'.state = "running" => fb.state = "pending" \/ answerer.again

ConversationHolds == [][RetryKeepsAnswers /\ RevisionAsks /\ AnsweredIsNotWorked]_qVars

\* Not so: an open governance question is one the brief needs answered. Between the reading
\* of the brief by acceptPlan or proposePlan and its writes (service.ts:371, 460) a decision
\* may be recorded; a question for the old version is then opened again.
OpenIsWanted ==
  \A i \in DOMAIN items : items[i].state = "open" /\ items[i].field \in GovFields => Wanted(paper, items[i])

\* Not so: an answer stays. completeFeedbackForTask lists the pending questions before its
\* transaction and writes without looking again (records.ts:3565).
AnswerStands == [][fb.state = "answered" => UNCHANGED fb]_qVars

\* Not so: "Its result summary resolves the feedback record" (docs/phases/phase-3-summary.md:37). The
\* controller that dies between the acceptance and the answer leaves the question pending
\* for ever: no pass looks for it.
DoneIsAnswered == answerer.state = "done" /\ teller = "away" => fb.state = "answered"
=============================================================================
