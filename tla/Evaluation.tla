----------------------------- MODULE Evaluation -----------------------------
(***************************************************************************)
(* How a profile judges a run: validation before anything is planned       *)
(* (run_profile_validation.rs, run_planning/accumulator.rs), the           *)
(* evaluation plan a worker derives for each case and the evaluators it    *)
(* runs (execution_processing.rs), the receipt of a settled chunk          *)
(* (run_shard_summary/receipt.sql), the fold of receipts into a shard's    *)
(* summary (run_shard_summary/aggregation.rs) and the verdict              *)
(* (run_finalize.rs).  Leases, retries, paging and fencing are in          *)
(* ChunkExecution and ShardSummary: here a case has the one attempt that   *)
(* decides it, and what matters is which numbers reach the verdict.        *)
(*                                                                         *)
(* A group id is the sequence of its comma-separated parts, since an       *)
(* execution row stores the ids of its groups joined by commas; <<>> is no *)
(* group.  Binding ids are numbers, in the order of the code's BTreeMap.   *)
(***************************************************************************)
EXTENDS Scoring

CONSTANTS
  Drafts,           \* the profiles and the sequences of cases a run may have
  Registry,         \* evaluator reference -> published state
  Replies,          \* what an evaluator's component may return
  Values,           \* numeric measurements the policies are tried on
  Workers,          \* chunks processed at a time
  ChunkCases,       \* cases of a chunk
  ShardCount        \* shards chunks are dealt to

VARIABLES
  profile,          \* the run's profile
  cases,            \* its dataset
  phase,            \* "draft", "rejected", "running", "finalized"
  planned,          \* shard -> gate -> cases counted when the run was planned
  chunks,           \* chunk -> status
  execs,            \* case -> its execution row, or NoRow
  work,             \* case -> binding index -> reply, while it is evaluated
  receipts,         \* chunk -> its settlement receipt, or NoRow
  summaries,        \* shard -> its sealed summary, or NoRow
  verdict           \* the finalized scorecard and gate status, or NoRow

evalVars == <<profile, cases, phase, planned, chunks, execs, work, receipts, summaries, verdict>>

NoRow == [none |-> TRUE]

CasesOf(k) == {c \in 1..Len(cases) : ((c - 1) \div ChunkCases) + 1 = k}
Chunks == 1..((Len(cases) + ChunkCases - 1) \div ChunkCases)
ShardOf(k) == ((k - 1) % ShardCount) + 1
Shards == {ShardOf(k) : k \in Chunks}
GateIds == 1..Len(profile.gates)

-----------------------------------------------------------------------------
(* Matching cases with groups and gates.                                   *)

(* An explicit group bypasses the predicate of the groups.                 *)
Matches(group, case) ==
  IF case.group # <<>> THEN group.id = case.group
  ELSE /\ group.task = case.task
       /\ group.any = {} \/ group.any \cap case.tags # {}
       /\ group.all \subseteq case.tags

MatchingGroups(case) == SelectSeq(profile.groups, LAMBDA g : Matches(g, case))

BindingsOf(groups) == UNION {ToSet(groups[i].bindings) : i \in 1..Len(groups)}

Targets(gate, b) ==
  b.required /\ b.dimension = gate.dimension /\ (gate.binding = 0 \/ b.id = gate.binding)

CaseMatchesGate(case, gate) ==
  LET groups == MatchingGroups(case)
  IN  /\ gate.group = <<>> \/ \E i \in 1..Len(groups) : groups[i].id = gate.group
      /\ gate.tags \subseteq case.tags
      /\ \E b \in BindingsOf(groups) : Targets(gate, b)

-----------------------------------------------------------------------------
(* Validation.                                                             *)

RunnableState(state) == state \in {"active", "deprecated", "yanked"}

Runnable(ref) == ref \in DOMAIN Registry /\ RunnableState(Registry[ref])

GateIsSound(g) ==
  LET gate == profile.gates[g]
      candidates == {i \in 1..Len(profile.groups) :
                       gate.group = <<>> \/ profile.groups[i].id = gate.group}
  IN  /\ \A h \in GateIds : profile.gates[h].id = gate.id => h = g
      /\ ValidLimits(gate)
      /\ gate.group # <<>> => candidates # {}
      /\ \E i \in candidates : \E b \in ToSet(profile.groups[i].bindings) : Targets(gate, b)
      /\ gate.binding = 0 =>
           Cardinality({profile.groups[i].dims[gate.dimension].method :
             i \in {j \in candidates : gate.dimension \in DOMAIN profile.groups[j].dims}}) <= 1

GroupIsSound(group) ==
  /\ \A i, j \in 1..Len(group.bindings) : group.bindings[i].id = group.bindings[j].id => i = j
  /\ \A b \in ToSet(group.bindings) :
       /\ b.weight >= 0 /\ ValidScore(b.threshold) /\ ValidPolicy(b.policy)
       /\ ~b.required => ~b.blocking /\ b.weight = 0
  /\ \A d \in DOMAIN group.dims : group.dims[d].weight >= 0
  /\ group.bindings # <<>> => \E b \in ToSet(group.bindings) : b.required

(* Every issue the code collects about the profile alone.  The agent's     *)
(* URL, method and limits are one flag.                                    *)
ProfileIsSound ==
  /\ profile.agentIsSound /\ ValidScore(profile.minScore)
  /\ \A g \in GateIds : GateIsSound(g)
  /\ \A i \in 1..Len(profile.groups) : GroupIsSound(profile.groups[i])

Resolved == \A b \in BindingsOf(profile.groups) : Runnable(b.ref)

CaseIsRunnable(case) == BindingsOf(MatchingGroups(case)) # {}

GateCount(g, S) == Cardinality({c \in S : CaseMatchesGate(cases[c], profile.gates[g])})

Accepts ==
  /\ ProfileIsSound /\ Resolved
  /\ \A c \in 1..Len(cases) : CaseIsRunnable(cases[c])
  /\ \A g \in GateIds : GateCount(g, 1..Len(cases)) > 0

(* The run is created: its denominators are fixed for every shard.         *)
CreateRun ==
  /\ phase = "draft" /\ Accepts
  /\ phase' = "running"
  /\ planned' = [s \in Shards |-> [g \in GateIds |->
                   GateCount(g, UNION {CasesOf(k) : k \in {j \in Chunks : ShardOf(j) = s}})]]
  /\ UNCHANGED <<profile, cases, chunks, execs, work, receipts, summaries, verdict>>

Reject ==
  /\ phase = "draft" /\ ~Accepts
  /\ phase' = "rejected"
  /\ UNCHANGED <<profile, cases, planned, chunks, execs, work, receipts, summaries, verdict>>

-----------------------------------------------------------------------------
(* A worker's chunk.                                                       *)

Equivalent(b, c) == b = c

(* Two matching groups give one dimension different policies.              *)
PoliciesConflict(groups) ==
  \E i, j \in 1..Len(groups) : \E d \in DOMAIN groups[i].dims \cap DOMAIN groups[j].dims :
    groups[i].dims[d] # groups[j].dims[d]

MergedSettings(groups) ==
  [d \in UNION {DOMAIN groups[i].dims : i \in 1..Len(groups)} |->
     groups[CHOOSE i \in 1..Len(groups) : d \in DOMAIN groups[i].dims].dims[d]]

BindingsConflict(groups) ==
  \E b, c \in BindingsOf(groups) : b.id = c.id /\ ~Equivalent(b, c)

HasPlan(case) ==
  LET groups == MatchingGroups(case)
  IN  ~PoliciesConflict(groups) /\ ~BindingsConflict(groups) /\ BindingsOf(groups) # {}

(* The evaluators of a case, each binding id once, in the order of ids.    *)
PlanBindings(case) ==
  SetToSortSeq(BindingsOf(MatchingGroups(case)), LAMBDA b, c : b.id < c.id)

(* mutant: summary mode drops every tag of the case                        *)
PersistedTagsNone(tags) == IF profile.summary THEN {} ELSE tags

(* Summary mode keeps only the tags some gate selects by.                  *)
PersistedTags(tags) ==
  IF profile.summary
  THEN tags \cap UNION {profile.gates[g].tags : g \in GateIds}
  ELSE tags

(* A manifest keeps what a gate needs of each binding in either mode.      *)
PersistedManifest(bindings) ==
  [i \in 1..Len(bindings) |-> [id |-> bindings[i].id, required |-> bindings[i].required,
                               dimension |-> bindings[i].dimension]]

PersistedGroups(case) ==
  LET groups == MatchingGroups(case)
  IN  FoldLeft(LAMBDA acc, g : acc \o g.id, <<>>, groups)

NewRow(case) ==
  [groups |-> PersistedGroups(case), tags |-> PersistedTags(case.tags),
   manifest |-> PersistedManifest(PlanBindings(case)), status |-> "running",
   aggregate |-> NoRow, results |-> <<>>]

(* A claimed chunk: a case without a plan fails the batch before any row   *)
(* is allocated, otherwise every case gets its row and attempt.            *)
StartChunk(k) ==
  /\ phase = "running" /\ chunks[k] = "pending"
  /\ Cardinality({j \in Chunks : chunks[j] = "leased"}) < Workers
  /\ \A c \in CasesOf(k) : HasPlan(cases[c])
  /\ chunks' = [chunks EXCEPT ![k] = "leased"]
  /\ execs' = [c \in DOMAIN execs |-> IF c \in CasesOf(k) THEN NewRow(cases[c]) ELSE execs[c]]
  /\ UNCHANGED <<profile, cases, phase, planned, work, receipts, summaries, verdict>>

Running(c) == execs[c] # NoRow /\ execs[c].status = "running"

(* One evaluator task of a case ends; they end in any order.               *)
EvaluatorReplies(c, i, reply) ==
  /\ Running(c) /\ i \in 1..Len(PlanBindings(cases[c])) /\ i \notin DOMAIN work[c]
  /\ work' = [work EXCEPT ![c] = [j \in DOMAIN @ \cup {i} |-> IF j = i THEN reply ELSE @[j]]]
  /\ UNCHANGED <<profile, cases, phase, planned, chunks, execs, receipts, summaries, verdict>>

(* The agent fails, or a task of the case cannot run its component, for    *)
(* the last time: the execution ends with an aggregate of its own.         *)
CaseFails(c) ==
  /\ Running(c)
  /\ execs' = [execs EXCEPT ![c].status = "failed",
                  ![c].aggregate = [status |-> "error", score |-> NoScore, dims |-> <<>>,
                                    blocking |-> 1]]
  /\ work' = [work EXCEPT ![c] = <<>>]
  /\ UNCHANGED <<profile, cases, phase, planned, chunks, receipts, summaries, verdict>>

InterpretMeasurement(b, m) ==
  LET score == NormalizeMeasurement(b.policy, m)
  IN  IF score = NoScore THEN [status |-> "error", score |-> NoScore]
      ELSE [status |-> IF Less(score, Parts(b.threshold)) THEN "failed" ELSE "passed",
            score |-> score]

(* An answer under another identity than the pinned one is an error.       *)
ResultOf(b, reply) ==
  LET judged == CASE reply.kind = "completed" -> InterpretMeasurement(b, reply.measurement)
                  [] reply.kind = "abstained" -> [status |-> "abstained", score |-> NoScore]
                  [] OTHER -> [status |-> "error", score |-> NoScore]
  IN  [binding |-> b, status |-> judged.status, score |-> judged.score]

(* All evaluators have answered: the results are ordered by binding, not   *)
(* by arrival, aggregated and persisted with the completed execution.      *)
CaseCompletes(c) ==
  LET bindings == PlanBindings(cases[c])
      results == [i \in 1..Len(bindings) |-> ResultOf(bindings[i], work[c][i])]
      settings == MergedSettings(MatchingGroups(cases[c]))
  IN  /\ Running(c) /\ DOMAIN work[c] = 1..Len(bindings)
      /\ execs' = [execs EXCEPT ![c].status = "completed", ![c].results = results,
                     ![c].aggregate = AggregateResults(profile, settings, bindings, results)]
      /\ work' = [work EXCEPT ![c] = <<>>]
      /\ UNCHANGED <<profile, cases, phase, planned, chunks, receipts, summaries, verdict>>

-----------------------------------------------------------------------------
(* Settlement.                                                             *)

(* mutant: the receipt selects a gate's cases without looking at its tags  *)
RowMatchesGateAnyTags(row, gate) ==
  /\ gate.group = <<>> \/ (Len(gate.group) = 1 /\ gate.group[1] \in ToSet(row.groups))
  /\ \E i \in 1..Len(row.manifest) : Targets(gate, row.manifest[i])

(* The receipt splits the stored group ids at every comma.                 *)
RowMatchesGate(row, gate) ==
  /\ gate.group = <<>> \/ (Len(gate.group) = 1 /\ gate.group[1] \in ToSet(row.groups))
  /\ gate.tags \subseteq row.tags
  /\ \E i \in 1..Len(row.manifest) : Targets(gate, row.manifest[i])

(* A gate's score of one execution: the dimension's, or the binding's.     *)
TargetScore(row, gate) ==
  IF row.aggregate = NoRow THEN NoScore
  ELSE IF gate.binding = 0
  THEN IF gate.dimension \in DOMAIN row.aggregate.dims THEN row.aggregate.dims[gate.dimension]
       ELSE NoScore
  ELSE LET of == {i \in 1..Len(row.results) : row.results[i].binding.id = gate.binding}
       IN  IF of = {} THEN NoScore ELSE row.results[CHOOSE i \in of : TRUE].score

TargetHas(row, gate, status) ==
  /\ row.aggregate # NoRow
  /\ \E i \in 1..Len(row.results) :
       Targets(gate, row.results[i].binding) /\ row.results[i].status = status

(* Statistics of a gate over the executions it targets.                    *)
Statistics(gate, targets) ==
  LET scored == {c \in targets : TargetScore(execs[c], gate) # NoScore}
      reaches(c) == /\ "score_threshold" \in DOMAIN gate.limits
                    /\ ~Less(TargetScore(execs[c], gate), Parts(gate.limits["score_threshold"]))
  IN  [gate |-> gate, expected |-> Cardinality(targets), scored |-> Cardinality(scored),
       passed |-> Cardinality({c \in scored : reaches(c)}),
       error |-> Cardinality({c \in targets : TargetHas(execs[c], gate, "error")}),
       abstained |-> Cardinality({c \in targets : TargetHas(execs[c], gate, "abstained")}),
       sum |-> FoldSet(LAMBDA c, acc : Plus(acc, TargetScore(execs[c], gate)), Zero, scored),
       min |-> FoldSet(LAMBDA c, acc : IF acc = NoScore THEN TargetScore(execs[c], gate)
                                       ELSE Lower(acc, TargetScore(execs[c], gate)),
                       NoScore, scored),
       max |-> FoldSet(LAMBDA c, acc : IF acc = NoScore THEN TargetScore(execs[c], gate)
                                       ELSE Higher(acc, TargetScore(execs[c], gate)),
                       NoScore, scored)]

Entry(gate, rows) == Statistics(gate, {c \in rows : RowMatchesGate(execs[c], gate)})

Judged(rows, status) ==
  Cardinality({c \in rows : execs[c].aggregate # NoRow /\ execs[c].aggregate.status = status})

Receipt(k, disposition) ==
  LET rows == {c \in CasesOf(k) : execs[c] # NoRow}
      resolved == {c \in rows : execs[c].aggregate # NoRow}
  IN  [expected |-> Cardinality(CasesOf(k)), executions |-> Cardinality(rows),
       passed |-> Judged(rows, "passed"), failed |-> Judged(rows, "failed"),
       errored |-> Judged(rows, "error"),
       missing |-> Cardinality(CasesOf(k) \ rows), unresolved |-> Cardinality(rows \ resolved),
       failedChunks |-> IF disposition = "failed" THEN 1 ELSE 0,
       cancelledChunks |-> IF disposition = "cancelled" THEN 1 ELSE 0,
       entries |-> [g \in GateIds |-> Entry(profile.gates[g], rows)]]

(* The chunk ends, completed by its worker once nothing is open, or failed *)
(* or cancelled at any moment before: what is still open is retired.       *)
SettleChunk(k, disposition) ==
  /\ phase = "running" /\ chunks[k] \in {"pending", "leased"}
  /\ disposition = "completed" => chunks[k] = "leased" /\ \A c \in CasesOf(k) : ~Running(c)
  /\ chunks' = [chunks EXCEPT ![k] = disposition]
  /\ execs' = [c \in DOMAIN execs |->
                 IF c \in CasesOf(k) /\ Running(c)
                 THEN [execs[c] EXCEPT !.status = IF disposition = "cancelled"
                                                  THEN "cancelled" ELSE "failed"]
                 ELSE execs[c]]
  /\ work' = [c \in DOMAIN work |-> IF c \in CasesOf(k) THEN <<>> ELSE work[c]]
  /\ receipts' = [receipts EXCEPT ![k] = Receipt(k, disposition)]
  /\ UNCHANGED <<profile, cases, phase, planned, summaries, verdict>>

-----------------------------------------------------------------------------
(* A shard's summary.                                                      *)

Fold(sum, r) ==
  [expected |-> sum.expected + r.expected, executions |-> sum.executions + r.executions,
   passed |-> sum.passed + r.passed, failed |-> sum.failed + r.failed,
   errored |-> sum.errored + r.errored, missing |-> sum.missing + r.missing,
   unresolved |-> sum.unresolved + r.unresolved,
   failedChunks |-> sum.failedChunks + r.failedChunks,
   cancelledChunks |-> sum.cancelledChunks + r.cancelledChunks,
   entries |-> [g \in GateIds |-> MergeEntry(sum.entries[g], r.entries[g])]]

(* mutant: the denominators are those of the rows that exist               *)
ApplyGateCountsFound(sum, s) == sum

(* The planned denominators replace those inferred from execution rows.    *)
ApplyGateCounts(sum, s) ==
  [sum EXCEPT !.entries = [g \in GateIds |-> [@[g] EXCEPT !.expected = planned[s][g]]]]

ChunksOf(s) == SetToSortSeq({k \in Chunks : ShardOf(k) = s}, <)

Summary(s) ==
  LET ks == ChunksOf(s)
      sum == FoldLeft(LAMBDA acc, k : Fold(acc, receipts[k]), receipts[ks[1]], Tail(ks))
  IN  ApplyGateCounts(sum, s)

AllSettled(s) == \A k \in Chunks : ShardOf(k) = s => receipts[k] # NoRow

(* What folding checks of every receipt, and of the result.                *)
Merges(s) ==
  /\ \A k \in Chunks : ShardOf(k) = s =>
       \A g \in GateIds : ValidEntry(receipts[k].entries[g])
  /\ \A g \in GateIds : ValidEntry(Summary(s).entries[g])

SealShard(s) ==
  /\ phase = "running" /\ summaries[s] = NoRow
  /\ AllSettled(s) /\ Merges(s)
  /\ summaries' = [summaries EXCEPT ![s] = Summary(s)]
  /\ UNCHANGED <<profile, cases, phase, planned, chunks, execs, work, receipts, verdict>>

-----------------------------------------------------------------------------
(* The verdict.                                                            *)

Total(field) == FoldSet(LAMBDA s, acc : acc + summaries[s][field], 0, Shards)

(* mutant: the merged scorecard keeps the first shard's entries only       *)
MergedFirst(g) == summaries[CHOOSE s \in Shards : TRUE].entries[g]

(* The shards' entries of a gate, merged in the order of the shards.       *)
Merged(g) ==
  LET order == SetToSortSeq(Shards, <)
  IN  FoldLeft(LAMBDA acc, s : MergeEntry(acc, summaries[s].entries[g]),
               summaries[order[1]].entries[g], Tail(order))

(* A sealed summary accounts for every case of its shard.                  *)
Consistent(s) ==
  /\ summaries[s].executions + summaries[s].missing = summaries[s].expected
  /\ summaries[s].passed + summaries[s].failed + summaries[s].errored
       <= summaries[s].executions - summaries[s].unresolved

Passes(results) ==
  /\ \A field \in {"failedChunks", "cancelledChunks", "failed", "errored", "missing",
                    "unresolved"} : Total(field) = 0
  /\ \A g \in GateIds : results[g].passed

Finalize ==
  LET results == [g \in GateIds |-> EvaluateEntry(Merged(g))]
  IN  /\ phase = "running" /\ \A s \in Shards : summaries[s] # NoRow /\ Consistent(s)
      /\ phase' = "finalized"
      /\ verdict' = [gates |-> results, status |-> IF Passes(results) THEN "pass" ELSE "fail"]
      /\ UNCHANGED <<profile, cases, planned, chunks, execs, work, receipts, summaries>>

-----------------------------------------------------------------------------
Init ==
  /\ \E d \in Drafts : profile = d.profile /\ cases = d.cases
  /\ phase = "draft" /\ planned = <<>>
  /\ chunks = [k \in Chunks |-> "pending"]
  /\ execs = [c \in 1..Len(cases) |-> NoRow]
  /\ work = [c \in 1..Len(cases) |-> <<>>]
  /\ receipts = [k \in Chunks |-> NoRow]
  /\ summaries = [s \in Shards |-> NoRow]
  /\ verdict = NoRow

Next ==
  \/ CreateRun
  \/ Reject
  \/ \E k \in Chunks : StartChunk(k)
  \/ \E c \in 1..Len(cases), i \in 1..3, reply \in Replies : EvaluatorReplies(c, i, reply)
  \/ \E c \in 1..Len(cases) : CaseFails(c)
  \/ \E c \in 1..Len(cases) : CaseCompletes(c)
  \/ \E k \in Chunks, d \in {"completed", "failed", "cancelled"} : SettleChunk(k, d)
  \/ \E s \in Shards : SealShard(s)
  \/ Finalize

Spec == Init /\ [][Next]_evalVars

-----------------------------------------------------------------------------
TypeOK ==
  /\ [profile |-> profile, cases |-> cases] \in Drafts
  /\ phase \in {"draft", "rejected", "running", "finalized"}
  /\ \A k \in Chunks : chunks[k] \in {"pending", "leased", "completed", "failed", "cancelled"}
  /\ \A c \in 1..Len(cases) : execs[c] # NoRow =>
       execs[c].status \in {"running", "completed", "failed", "cancelled"}

(* The statistics of a gate taken straight from the cases, without chunks, *)
(* shards or denominators fixed at planning.                               *)
Direct(gate) ==
  LET matching == {c \in 1..Len(cases) : CaseMatchesGate(cases[c], gate)}
      found == Statistics(gate, {c \in matching : execs[c] # NoRow})
  IN  EvaluateEntry([found EXCEPT !.expected = Cardinality(matching)])

SameResult(r, q) ==
  /\ r.passed = q.passed /\ r.expected = q.expected /\ r.scored = q.scored
  /\ r.passing = q.passing /\ r.error = q.error /\ r.abstained = q.abstained
  /\ (r.min = NoScore) = (q.min = NoScore)
  /\ r.min # NoScore => Same(r.min, q.min) /\ Same(r.max, q.max)

(* A gate on a case group finds the rows of exactly that group when its id *)
(* is in one piece and is no piece of another id.  Nothing validates that: *)
(* a group may be called "a,b", and the receipt, which splits what the     *)
(* worker joined, finds none of its rows for a gate on "a,b" and all of    *)
(* them for a gate on "a".                                                 *)
Addressable(gate) ==
  \/ gate.group = <<>>
  \/ /\ Len(gate.group) = 1
     /\ \A i \in 1..Len(profile.groups) :
          Len(profile.groups[i].id) > 1 => gate.group[1] \notin ToSet(profile.groups[i].id)

(* Every addressable gate of a finalized run has the result it has when it *)
(* is judged over all the cases it matches at once: chunk receipts, their  *)
(* fold into shards, the denominators fixed at planning, the redaction of  *)
(* summary mode and the merge at finalization change nothing, and a case   *)
(* without an execution still counts.  A gate on a group whose id has a    *)
(* comma in it is judged over none of its cases, against all of them.      *)
VerdictIsDirect ==
  phase = "finalized" =>
    \A g \in GateIds :
      LET gate == profile.gates[g] IN
      /\ Addressable(gate) => SameResult(verdict.gates[g], Direct(gate))
      /\ Len(gate.group) > 1 => /\ verdict.gates[g].scored = 0
                                /\ verdict.gates[g].expected = Direct(gate).expected

(* A run passes only if every case of its dataset completed, every         *)
(* required evaluator of every case answered with a measurement its policy *)
(* maps to a score, and none of them is a blocking failure.                *)
PassIsEarned ==
  phase = "finalized" /\ verdict.status = "pass" =>
    \A c \in 1..Len(cases) :
      /\ execs[c] # NoRow /\ execs[c].status = "completed"
      /\ \A b \in {x \in BindingsOf(MatchingGroups(cases[c])) : x.required} :
           \E i \in 1..Len(execs[c].results) :
             /\ execs[c].results[i].binding = b
             /\ execs[c].results[i].score # NoScore
             /\ profile.failOnBlocking /\ b.blocking => execs[c].results[i].status = "passed"

(* The receipts of a shard whose chunks have all settled always fold: no   *)
(* outcome of the evaluators, and no chunk given up halfway, leaves        *)
(* numbers that the checks of the fold or of the planned denominators      *)
(* refuse, which would keep the shard from sealing and the run from        *)
(* ending.  The one exception is a gate on a group whose id is a piece of  *)
(* another's: it may score more cases than were planned for it.            *)
SettledFolds ==
  phase = "running" /\ (\A g \in GateIds :
                          Len(profile.gates[g].group) > 1 \/ Addressable(profile.gates[g])) =>
    \A s \in Shards : AllSettled(s) => Merges(s)

(* A recorded score is the one its policy states: a threshold's interval   *)
(* begins at its cutpoint, a curve passes through its points and runs      *)
(* between its neighbours, and every score is between 0 and 1.             *)
ScoreIsLawful ==
  phase = "running" => \A b \in BindingsOf(profile.groups), v \in Values :
    KindOf(b.policy) = "numeric" =>
      LET policy == b.policy
          score == NormalizeMeasurement(policy, [kind |-> "numeric", value |-> v,
                                                 unit |-> policy.unit, finite |-> TRUE])
      IN  score # NoScore =>
            /\ ~Less(score, Zero) /\ ~Less(<<1, 1>>, score)
            /\ policy.method = "thresholds" =>
                 \E j \in 1..Len(policy.scores) :
                   /\ Same(score, Parts(policy.scores[j]))
                   /\ j > 1 => policy.cutpoints[j - 1] <= v
                   /\ j < Len(policy.scores) => v < policy.cutpoints[j]
            /\ policy.method = "piecewise" =>
                 \E j \in 2..Len(policy.points) :
                   /\ policy.points[j - 1].value <= v /\ v <= policy.points[j].value
                   /\ ~Less(score, Lower(Parts(policy.points[j - 1].score),
                                         Parts(policy.points[j].score)))
                   /\ ~Less(Higher(Parts(policy.points[j - 1].score),
                                   Parts(policy.points[j].score)), score)
=============================================================================
