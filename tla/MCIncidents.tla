---------------------------- MODULE MCIncidents ----------------------------
(* Instances of Incidents for TLC.                                          *)
EXTENDS Incidents

\* Texts with at most two patterns, and the failures that come again.
TwoSigns  == {o \in Observations : Cardinality(o.signs) <= 2}
Recurring == {[source |-> s, signs |-> {}, exit |-> "none", timedOut |-> t, signal |-> FALSE] :
                s \in {"worker", "gate"}, t \in BOOLEAN}

\* Bound: two failures, alike but for the time and the way; the other failures stand alone
\* and are not imported.
IcWithin == IF \A i \in DOMAIN fails' : fails'[i].obs \in Recurring
            THEN \A i \in DOMAIN fails' : fails'[i].obs = fails'[1].obs
            ELSE Len(fails') = 1 /\ queue' = {} /\ now' = 0
MCIcSpec == IcInit /\ [][IcNext /\ IcWithin]_icVars
=============================================================================
