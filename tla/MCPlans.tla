------------------------------- MODULE MCPlans -------------------------------
(* Instances of ExecutionPlans for TLC: three tasks.                        *)
EXTENDS ExecutionPlans

ThreeKeys == <<"a", "b", "c">>
Under(path)  == {[path |-> path, spelled |-> "prefix"]}

\* A plan of the tasks a, b and c from their dependencies, scopes and modes.
PlanOf(deps, scope, mode, whole) ==
  [mode |-> whole,
   tasks |-> [i \in 1..3 |-> LET k == ThreeKeys[i]
                              IN [key |-> k, dependsOn |-> SetToSeq(deps[k]), scope |-> scope[k], mode |-> mode[k],
                                  resource |-> "plain", owns |-> {}]]]

Three   == {"a", "b", "c"}
Apart   == [k \in Three |-> Under(<<k>>)]
All(v)  == [k \in Three |-> v]

\* Every dependency relation of three tasks that run in parallel where it lets them.
Graphs3 == {PlanOf(deps, Apart, All("parallel"), "parallel") : deps \in [Three -> SUBSET Three]}

\* Every scope and mode, on three relations.
Scopes3 ==
  {PlanOf(deps, scope, mode @@ "c" :> "mixed", "mixed") :
     deps  \in {All({}), "a" :> {} @@ "b" :> {"a"} @@ "c" :> {}, "a" :> {} @@ "b" :> {"a"} @@ "c" :> {"b"}},
     scope \in [Three -> {{}, Under(<<"src">>), Under(<<"src", "x">>), Under(<<"lib">>)}],
     mode  \in [{"a", "b"} -> {"parallel", "sequential"}]}

\* What validation refuses besides, and what only createTask does.
Base3 == PlanOf(All({}), Apart, All("parallel"), "parallel")
Odd3  == {[Base3 EXCEPT !.tasks[2].key = "a"], [Base3 EXCEPT !.tasks[2].dependsOn = <<"ghost">>],
          [Base3 EXCEPT !.tasks[1].scope = {[path |-> <<"a">>, spelled |-> "glob"]}],
          [Base3 EXCEPT !.tasks[1].resource = "odd"], [Base3 EXCEPT !.tasks[1].owns = {"R1"}],
          [Base3 EXCEPT !.tasks[1].owns = {"R1"}, !.tasks[2].owns = {"R2"}], [Base3 EXCEPT !.tasks[1].owns = {"R9"}],
          [Base3 EXCEPT !.tasks = <<>>]}

PlansUsed == Graphs3 \union Scopes3 \union Odd3
=============================================================================
