------------------------------- MODULE Scoring -------------------------------
(***************************************************************************)
(* What turns an evaluator's answer into a run's verdict: the host's       *)
(* normalization of a raw measurement (contracts/normalization.rs), the    *)
(* aggregation of one case's results (contracts/aggregation.rs) and the    *)
(* statistics of a scorecard gate, accumulated over chunks, merged over    *)
(* shards and then judged (contracts/scorecard.rs).  These are pure        *)
(* functions; Evaluation.tla runs them over a run's life.                  *)
(*                                                                         *)
(* A score is a rational <<n, d>>: the code divides doubles, and nothing   *)
(* here depends on their rounding.  NoScore is the code's None.  A score   *)
(* written in a profile is a whole number of 1/Unit parts.                 *)
(***************************************************************************)
EXTENDS Integers, Sequences, FiniteSets, SequencesExt

CONSTANT Unit       \* the parts a configured score or rate is a multiple of

NoScore == <<>>
Zero == <<0, 1>>
Parts(n) == <<n, Unit>>

Less(p, q) == p[1] * q[2] < q[1] * p[2]
Same(p, q) == p[1] * q[2] = q[1] * p[2]
Plus(p, q) == IF p[2] = q[2] THEN <<p[1] + q[1], p[2]>>
              ELSE <<p[1] * q[2] + q[1] * p[2], p[2] * q[2]>>
Times(p, n) == <<p[1] * n, p[2]>>
Over(p, n) == <<p[1], p[2] * n>>
Lower(p, q) == IF Less(q, p) THEN q ELSE p
Higher(p, q) == IF Less(p, q) THEN q ELSE p

-----------------------------------------------------------------------------
(* Normalization.                                                          *)

ValidScore(s) == s \in 0..Unit

ValidDomain(min, max) == min < max

ValidPoints(points) ==
  /\ Len(points) >= 2
  /\ \A i \in 1..Len(points) : ValidScore(points[i].score)
  /\ \A i \in 2..Len(points) : points[i].value > points[i - 1].value

(* The limits on the number of entries and on the bytes of a label or a    *)
(* unit are left out: a policy here is small and its labels are names.     *)
ValidPolicy(policy) ==
  CASE policy.method = "binary" -> ValidScore(policy.false) /\ ValidScore(policy.true)
    [] policy.method = "linear" -> ValidDomain(policy.min, policy.max)
    [] policy.method = "piecewise" -> ValidPoints(policy.points)
    [] policy.method = "thresholds" ->
         /\ ValidDomain(policy.min, policy.max)
         /\ Len(policy.scores) = Len(policy.cutpoints) + 1
         /\ \A i \in 1..Len(policy.scores) : ValidScore(policy.scores[i])
         /\ \A i \in 1..Len(policy.cutpoints) :
              policy.min < policy.cutpoints[i] /\ policy.cutpoints[i] < policy.max
         /\ \A i \in 2..Len(policy.cutpoints) :
              policy.cutpoints[i] > policy.cutpoints[i - 1]
    [] policy.method = "ordinal" ->
         /\ policy.values # <<>>
         /\ \A label \in DOMAIN policy.values : ValidScore(policy.values[label])

(* The measurement kind a policy accepts.                                  *)
KindOf(policy) ==
  IF policy.method \in {"binary", "ordinal"} THEN policy.method ELSE "numeric"

(* slice::partition_point: how many leading elements satisfy a test, given *)
(* what the test says of each.                                             *)
PartitionPoint(holds) == Cardinality({i \in DOMAIN holds : \A j \in 1..i : holds[j]})

NormalizeLinear(policy, value) ==
  LET width == policy.max - policy.min
  IN  IF value < policy.min \/ value > policy.max THEN NoScore
      ELSE IF policy.higher THEN <<value - policy.min, width>>
      ELSE <<policy.max - value, width>>

NormalizePiecewise(policy, value) ==
  LET points == policy.points
      upper == PartitionPoint([i \in DOMAIN points |-> points[i].value < value]) + 1
      left == points[upper - 1]
      right == points[upper]
      width == right.value - left.value
  IN  IF value < points[1].value \/ value > points[Len(points)].value THEN NoScore
      ELSE IF right.value = value THEN Parts(right.score)
      ELSE <<left.score * width + (value - left.value) * (right.score - left.score),
             Unit * width>>

(* mutant: a value on a cutpoint falls into the interval below it          *)
NormalizeThresholdsBelow(policy, value) ==
  IF value < policy.min \/ value > policy.max THEN NoScore
  ELSE Parts(policy.scores[PartitionPoint([i \in DOMAIN policy.cutpoints |->
                                        value > policy.cutpoints[i]]) + 1])

NormalizeThresholds(policy, value) ==
  IF value < policy.min \/ value > policy.max THEN NoScore
  ELSE Parts(policy.scores[PartitionPoint([i \in DOMAIN policy.cutpoints |->
                                        value >= policy.cutpoints[i]]) + 1])

(* NoScore is an error: the row is recorded as an invalid measurement.     *)
NormalizeMeasurement(policy, m) ==
  IF ~ValidPolicy(policy) \/ m.kind # KindOf(policy) THEN NoScore
  ELSE CASE policy.method = "binary" -> Parts(IF m.value = 1 THEN policy.true ELSE policy.false)
         [] policy.method = "ordinal" ->
              IF m.value \in DOMAIN policy.values THEN Parts(policy.values[m.value]) ELSE NoScore
         [] OTHER ->
              IF m.unit # policy.unit \/ ~m.finite THEN NoScore
              ELSE CASE policy.method = "linear" -> NormalizeLinear(policy, m.value)
                     [] policy.method = "piecewise" -> NormalizePiecewise(policy, m.value)
                     [] policy.method = "thresholds" -> NormalizeThresholds(policy, m.value)

-----------------------------------------------------------------------------
(* Aggregation of one case.  A result is [binding, status, score], with    *)
(* the binding it answers.                                                 *)

Scoreable(r) == r.status \in {"passed", "failed"}
ValidNormalizedScore(r) == Scoreable(r) /\ r.score # NoScore

RequiredIds(bindings) == {b.id : b \in {x \in ToSet(bindings) : x.required}}

(* mutant: an evaluator that abstained leaves the case complete            *)
CompleteAbstained(bindings, results) ==
  LET ids == RequiredIds(bindings)
      of(id) == {i \in 1..Len(results) : results[i].binding.id = id}
  IN  /\ ids # {}
      /\ \A id \in ids : /\ Cardinality(of(id)) = 1
                         /\ \A i \in of(id) : results[i].status # "error"

(* Every required binding has exactly one result and that one is scored;   *)
(* nothing is duplicated and nothing answers an unknown binding.           *)
Complete(bindings, results) ==
  LET ids == RequiredIds(bindings)
      of(id) == {i \in 1..Len(results) : results[i].binding.id = id}
  IN  /\ ids # {}
      /\ \A i, j \in 1..Len(bindings) : bindings[i].id = bindings[j].id => i = j
      /\ \A i, j \in 1..Len(results) : results[i].binding.id = results[j].binding.id => i = j
      /\ \A i \in 1..Len(results) : \E b \in ToSet(bindings) : b.id = results[i].binding.id
      /\ \A id \in ids : of(id) # {} /\ \A i \in of(id) : ValidNormalizedScore(results[i])

DefaultPolicy == [method |-> "weighted_mean", blocking |-> FALSE, weight |-> 1]

PolicyOf(settings, dimension) ==
  IF dimension \in DOMAIN settings THEN settings[dimension] ELSE DefaultPolicy

(* The weighted mean of a function; weightless members are skipped.        *)
WeightedMean(scores, weights) ==
  LET counted == {i \in DOMAIN scores : weights[i] > 0}
      weight == FoldSet(LAMBDA i, acc : acc + weights[i], 0, counted)
      total == FoldSet(LAMBDA i, acc : Plus(acc, Times(scores[i], weights[i])), Zero, counted)
  IN  IF counted = {} THEN NoScore ELSE Over(total, weight)

DimensionScore(policy, results, indices) ==
  LET scored == {i \in indices : ValidNormalizedScore(results[i])}
  IN  IF scored = {} THEN NoScore
      ELSE IF policy.method = "min_score"
           THEN FoldSet(LAMBDA i, acc : Lower(acc, results[i].score), <<1, 1>>, scored)
           ELSE WeightedMean([i \in scored |-> results[i].score],
                             [i \in scored |-> results[i].binding.weight])

(* Optional bindings take no part in the scores or in the blocking         *)
(* failures, though an unscored required one voids them all.               *)
AggregateResults(profile, settings, bindings, results) ==
  LET complete == Complete(bindings, results)
      counted == {i \in 1..Len(results) : results[i].binding.id \in RequiredIds(bindings)}
      within(d) == {i \in counted : results[i].binding.dimension = d}
      scores == [d \in {results[i].binding.dimension : i \in counted} |->
                   IF complete THEN DimensionScore(PolicyOf(settings, d), results, within(d))
                   ELSE NoScore]
      dims == [d \in {e \in DOMAIN scores : scores[e] # NoScore} |-> scores[d]]
      score == WeightedMean(dims, [d \in DOMAIN dims |-> PolicyOf(settings, d).weight])
      blocking == {i \in counted :
                     /\ \/ results[i].binding.blocking
                        \/ PolicyOf(settings, results[i].binding.dimension).blocking
                     /\ results[i].status \in {"failed", "error"}}
      status == IF ~complete THEN "error"
                ELSE IF profile.failOnBlocking /\ blocking # {} THEN "failed"
                ELSE IF score = NoScore THEN "error"
                ELSE IF Less(score, Parts(profile.minScore)) THEN "failed"
                ELSE "passed"
  IN  [status |-> status, score |-> score, dims |-> dims, blocking |-> Cardinality(blocking)]

-----------------------------------------------------------------------------
(* Scorecard entries.  A gate carries the thresholds it sets in `limits`,  *)
(* a function from their names; score_threshold and min_pass_rate come     *)
(* together.                                                               *)

ValidLimits(gate) ==
  /\ \A name \in DOMAIN gate.limits : ValidScore(gate.limits[name])
  /\ ("score_threshold" \in DOMAIN gate.limits) = ("min_pass_rate" \in DOMAIN gate.limits)
  /\ DOMAIN gate.limits # {}

ValidEntry(e) ==
  /\ ValidLimits(e.gate)
  /\ e.scored <= e.expected /\ e.passed <= e.scored
  /\ e.error <= e.expected /\ e.abstained <= e.expected
  /\ ~Less(e.sum, Zero) /\ ~Less(<<e.scored, 1>>, e.sum)
  /\ (e.scored = 0) = (e.min = NoScore) /\ (e.scored = 0) = (e.max = NoScore)
  /\ e.min # NoScore => /\ ~Less(e.max, e.min)
                        /\ ~Less(e.min, Zero) /\ ~Less(<<1, 1>>, e.max)

(* mutant: the extremes of the later entry replace those merged so far     *)
MergeEntryLast(e, f) ==
  [gate |-> e.gate, expected |-> e.expected + f.expected, scored |-> e.scored + f.scored,
   passed |-> e.passed + f.passed, error |-> e.error + f.error,
   abstained |-> e.abstained + f.abstained, sum |-> Plus(e.sum, f.sum),
   min |-> f.min, max |-> f.max]

MergeEntry(e, f) ==
  [gate |-> e.gate, expected |-> e.expected + f.expected, scored |-> e.scored + f.scored,
   passed |-> e.passed + f.passed, error |-> e.error + f.error,
   abstained |-> e.abstained + f.abstained, sum |-> Plus(e.sum, f.sum),
   min |-> IF e.min # NoScore /\ f.min # NoScore THEN Lower(e.min, f.min)
           ELSE IF e.min # NoScore THEN e.min ELSE f.min,
   max |-> IF e.max # NoScore /\ f.max # NoScore THEN Higher(e.max, f.max)
           ELSE IF e.max # NoScore THEN e.max ELSE f.max]

Rate(n, d) == IF d > 0 THEN <<n, d>> ELSE NoScore

(* A threshold whose statistic does not exist is a failure.                *)
Below(e, name, actual) ==
  name \in DOMAIN e.gate.limits /\ (actual = NoScore \/ Less(actual, Parts(e.gate.limits[name])))
Above(e, name, actual) ==
  name \in DOMAIN e.gate.limits /\ (actual = NoScore \/ Less(Parts(e.gate.limits[name]), actual))

(* The result of a gate: whether it passed, its counts and its extremes.   *)
EvaluateEntry(e) ==
  [passed |->
     ~ \/ e.expected = 0
       \/ Below(e, "min_mean_score", IF e.scored > 0 THEN Over(e.sum, e.scored) ELSE NoScore)
       \/ Below(e, "min_coverage", Rate(e.scored, e.expected))
       \/ Below(e, "min_pass_rate", Rate(e.passed, e.scored))
       \/ Above(e, "max_error_rate", Rate(e.error, e.expected))
       \/ Above(e, "max_abstention_rate", Rate(e.abstained, e.expected)),
   expected |-> e.expected, scored |-> e.scored, passing |-> e.passed, error |-> e.error,
   abstained |-> e.abstained, min |-> e.min, max |-> e.max]
=============================================================================
