---------------------------- MODULE MCExperiments ----------------------------
(* Instances of Experiments for TLC.                                        *)
EXTENDS Experiments

CONSTANTS Begins,  \* the manifest an experiment begins with
          Second   \* a terminal

OneCase  == <<"x">>
TwoCases == <<"x", "y">>

\* Bounds. Beside a command only those of the other terminal go on: one completes, the other
\* starts trials and measures, by hand only baselines without a trial. Time passes while a trial
\* runs; the manifest changes once, then or before the first trial that is being started is
\* bound, and no start fails. Baselines are repaired (a candidate that is repaired is not better
\* than a baseline repaired once at most) and retried, candidates are cancelled as they are
\* launched.
ExWithin ==
  /\ \A k \in Terminals :
       /\ IF k = Second THEN cmd'[k].op \in {"none", "authorize", "complete"} ELSE cmd'[k].op # "complete"
       /\ cmd[k].op # "none" => cmd' # cmd \/ (cmd[k].op = "start" /\ Bound = {} /\ derived' # derived)
       /\ cmd[k].op = "start" => cmd'[k] = cmd[k] \/ trial' # trial
       /\ cmd'[k].op = "insert" /\ cmd'[k].row.source = "manual" =>
            cmd'[k].slot[2] = "baseline" /\ trial[cmd'[k].slot].state = "none"
  /\ clock' # clock => status # "completed" /\ \E s \in Slots : trial[s].state = "running"
  /\ derived' # derived => /\ status # "completed" /\ derived' # Begins
                           /\ \/ \E s \in Slots : trial[s].state = "running"
                              \/ Bound = {} /\ \E k \in Terminals : cmd[k].op = "start"
  /\ \A s \in Slots :
       /\ trial'[s].retries > 0 => s[2] = "baseline"
       /\ trial'[s].repairs > 0 => s[2] = "baseline"
       /\ trial'[s].state = "cancelled" => trial[s].state = "cancelled" \/ (trial[s].going /\ s[2] = "candidate")
MCExInit == ExInit /\ derived = Begins
MCExSpec == MCExInit /\ [][ExNext /\ ExWithin]_exVars
=============================================================================
