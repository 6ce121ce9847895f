-------------------------- MODULE EvaluationValues --------------------------
(* Run profiles, cases and evaluator replies for the instances of          *)
(* Evaluation.                                                             *)
EXTENDS Integers, Sequences

Numeric(v) == [kind |-> "numeric", value |-> v, unit |-> "ms", finite |-> TRUE]
Measured(v) == [kind |-> "completed", measurement |-> Numeric(v)]

Linear == [method |-> "linear", min |-> 0, max |-> 4, higher |-> TRUE, unit |-> "ms"]
Curve == [method |-> "piecewise", unit |-> "ms",
          points |-> <<[value |-> 0, score |-> 0], [value |-> 1, score |-> 2],
                       [value |-> 3, score |-> 1]>>]
Steps == [method |-> "thresholds", min |-> 0, max |-> 4, unit |-> "ms",
          cutpoints |-> <<1, 3>>, scores |-> <<0, 1, 2>>]
BadSteps == [Steps EXCEPT !.cutpoints = <<3, 1>>]

Binding(id, policy, dim, weight) ==
  [id |-> id, ref |-> "e1", required |-> TRUE, dimension |-> dim, blocking |-> FALSE,
   weight |-> weight, policy |-> policy, threshold |-> 1]
Policy(method, weight) == [method |-> method, blocking |-> FALSE, weight |-> weight]
NoDims == [d \in {} |-> 0]
Group(id, any, bindings, dims) ==
  [id |-> id, task |-> "t", any |-> any, all |-> {}, bindings |-> bindings, dims |-> dims]
Gate(id, dim, binding, group, tags, limits) ==
  [id |-> id, dimension |-> dim, binding |-> binding, group |-> group, tags |-> tags,
   limits |-> limits]
Coverage == [x \in {"min_coverage"} |-> 2]
PassRate == [x \in {"score_threshold", "min_pass_rate"} |-> 1]
Base(groups, gates, summary) ==
  [groups |-> groups, gates |-> gates, minScore |-> 1, failOnBlocking |-> TRUE,
   summary |-> summary, agentIsSound |-> TRUE]

(* An optional evaluator, a gate on a tag, a gate on a binding.            *)
Plain ==
  Base(<<Group(<<"a">>, {}, <<Binding(1, Steps, "q", 1),
                              [Binding(2, Linear, "q", 0) EXCEPT !.required = FALSE]>>, NoDims)>>,
       <<Gate("g1", "q", 0, <<>>, {"x"}, Coverage), Gate("g2", "q", 1, <<"a">>, {}, PassRate)>>,
       TRUE)
Single ==
  Base(<<Group(<<"a">>, {}, <<Binding(1, Steps, "q", 1)>>, NoDims)>>,
       <<Gate("g1", "q", 0, <<>>, {"x"}, Coverage)>>, TRUE)
(* Two groups that share a binding and have their own.                     *)
Shared ==
  Base(<<Group(<<"a">>, {}, <<Binding(1, Curve, "q", 1)>>, [d \in {"q"} |-> Policy("min_score", 1)]),
         Group(<<"b">>, {"x"}, <<Binding(1, Curve, "q", 1),
                                 [Binding(2, Steps, "r", 2) EXCEPT !.blocking = TRUE]>>, NoDims)>>,
       <<Gate("g1", "r", 0, <<"b">>, {}, PassRate)>>, FALSE)
(* Ids with a comma in them: a gate on such a group, beside one on a group *)
(* it does not name, and a gate on what is a piece of another id.          *)
Joined(gates) ==
  Base(<<Group(<<"a">>, {"x"}, <<Binding(1, Steps, "q", 1)>>, NoDims),
         Group(<<"a", "b">>, {"y"}, <<Binding(1, Steps, "q", 1)>>, NoDims),
         Group(<<"c">>, {"x"}, <<Binding(1, Steps, "q", 1)>>, NoDims)>>, gates, FALSE)
JoinedGate == Joined(<<Gate("g1", "q", 0, <<"a", "b">>, {}, Coverage),
                       Gate("g2", "q", 0, <<"c">>, {}, PassRate)>>)
PieceGate == Joined(<<Gate("g1", "q", 0, <<"a">>, {}, Coverage)>>)
Broken == Base(<<Group(<<"a">>, {}, <<Binding(1, BadSteps, "q", 1)>>, NoDims)>>, <<>>, FALSE)

Case(tags) == [task |-> "t", group |-> <<>>, tags |-> tags]
Draft(p, dataset) == [profile |-> p, cases |-> dataset]
Drafts == {Draft(Single, <<Case({"x"}), Case({"y"}), Case({"x"})>>),
           Draft(Plain, <<Case({"x"}), Case({"y"})>>),
           Draft(Shared, <<Case({"x"}), Case({"y"})>>),
           Draft(JoinedGate, <<Case({"x"}), Case({"y"})>>),
           Draft(PieceGate, <<Case({"x"}), Case({"y"})>>),
           Draft(Broken, <<Case({"x"})>>)}
Registered == [r \in {"e1"} |-> "yanked"]
Replies == {Measured(1), Measured(5), [kind |-> "abstained"]}
=============================================================================
