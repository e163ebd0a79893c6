----------------------------- MODULE ReviewPolicy -----------------------------
(***************************************************************************)
(* Review policies and the governance they are read under:                 *)
(* src/review/policy.ts, src/domain/project-policy.ts.                     *)
(*                                                                         *)
(* A change shows signs of risk; a risk rule looks for one of them, the    *)
(* rule "always" for nothing. Preset names, scope and cadence decide       *)
(* nothing here and are left out, and so is the mode, which follows from   *)
(* the trigger. A stored policy may have fields that are missing.          *)
(***************************************************************************)
EXTENDS Integers

Triggers   == {"off", "manual", "risk", "required"}
Severities == {"critical", "major", "minor"}
Classes    == {"mechanical", "coding"}
Signs      == {"level", "class", "path", "diff"}  \* the declared risk and class; the change
\* DEFAULT_RISK_RULES: one rule for every sign.
DefaultRules  == Signs
DefaultSkips  == {"mechanical"}
DefaultBlocks == {"critical", "major"}

Policies == [trigger : Triggers, rules : SUBSET (Signs \union {"always"}), skips : SUBSET Classes,
             blocks : (SUBSET Severities) \ {{}}, quality : 0..2,
             route : {"independent", "same"}, capacity : {"pending", "blocked"}]

\* presetPolicy; quality counts advisory, configured_checks and acceptance_and_gates.
Experiment == [trigger |-> "off", rules |-> {}, skips |-> DefaultSkips, blocks |-> DefaultBlocks,
               quality |-> 0, route |-> "independent", capacity |-> "pending"]
Personal   == [Experiment EXCEPT !.trigger = "risk", !.rules = DefaultRules, !.quality = 1]
Client     == [Personal EXCEPT !.trigger = "required", !.skips = {}, !.quality = 2, !.capacity = "blocked"]
\* DEFAULT_REVIEW_POLICY: of a project nobody has decided about.
Unclassified == [Experiment EXCEPT !.quality = 1]

\* reviewPolicyForGovernance
ForChoice(choice) ==
  CASE choice = "off" -> Unclassified [] choice = "risk" -> Personal [] choice = "required" -> Client

\* triggerForMode, migrateLegacyReviewPolicy: what the first version stored.
TriggerOf(mode) == IF mode = "none" THEN "off" ELSE IF mode = "required" THEN "required" ELSE "risk"
Migrated(old) ==
  LET base == IF old.mode = "none" THEN Unclassified
              ELSE IF old.mode = "required" THEN Client ELSE [Personal EXCEPT !.rules = {"always"}]
  IN  [base EXCEPT !.trigger = TriggerOf(old.mode), !.skips = IF old.mode = "required" THEN {} ELSE old.skips]

\* normalizeReviewPolicy, of what a row or a command holds.
Normalized(p) ==
  IF "mode" \in DOMAIN p THEN Migrated(p)
  ELSE LET whole == [f \in DOMAIN Unclassified |-> IF f \in DOMAIN p THEN p[f] ELSE Unclassified[f]]
       IN  [whole EXCEPT !.skips = IF whole.trigger = "required" THEN {} ELSE @,
                         !.blocks = IF @ = {} THEN DefaultBlocks ELSE @]

\* validateReviewPolicy, of a whole policy.
Valid(p) == /\ "critical" \in p.blocks
            /\ p.trigger = "risk" => p.rules # {}
            /\ p.trigger = "required" => p.skips = {}

\* weakensReview: what a change has to be acknowledged for.
Strength(trigger) == CASE trigger = "off" -> 0 [] trigger = "manual" -> 1 [] trigger = "risk" -> 2 [] OTHER -> 3
Weakens(from, to) == \/ Strength(to.trigger) < Strength(from.trigger)
                     \/ to.skips \ from.skips # {}
                     \/ from.blocks \ to.blocks # {}
                     \/ to.quality < from.quality

\* matchRule
Matches(rule, signs) == rule = "always" \/ rule \in signs

\* evaluateReviewPolicy, of an implementer's change; requested: by a person.
Reviews(p, class, signs, requested) ==
  \/ requested
  \/ /\ p.trigger \in {"risk", "required"} /\ class \notin p.skips
     /\ p.trigger = "required" \/ \E rule \in p.rules : Matches(rule, signs)
-----------------------------------------------------------------------------
(* Governance: the type of a project and the review chosen for it.         *)

Unset   == "none"
Types   == {"personal", "client", "other"}   \* PROJECT_TYPES
ReviewChoices == {"off", "risk", "required"}

\* assertGovernanceDecision
MayDecide(type, choice) == type = "client" => choice = "required"

\* evaluateProjectReadiness: what is missing, and what conflicts.
Missing(g) == g.type = Unset \/ g.choice = Unset \/ ~g.decided
Conflicts(g, p) == /\ g.choice # Unset
                   /\ \/ g.type = "client" /\ g.choice = "off"
                      \/ p.trigger # g.choice
                      \/ g.choice = "required" /\ p.skips # {}
                      \/ g.type = "client" /\ (p.route # "independent" \/ p.capacity # "blocked")
Ready(g, p) == ~Missing(g) /\ ~Conflicts(g, p)
\* A brief has no policy of its own yet.
BriefReady(g) == ~Missing(g) /\ ~(g.type = "client" /\ g.choice = "off")
=============================================================================
