------------------------------ MODULE CasePlan ------------------------------
(***************************************************************************)
(* A run's plan over a published dataset, and the workers that read it.    *)
(* run_planning.rs walks the dataset's interval tree once, cuts the cases  *)
(* into chunks, folds each shard's totals and gate denominators, and       *)
(* writes chunk pages, their index, the gate chains and the manifest.      *)
(* Nobody stores which cases a chunk has: run_admission.rs and             *)
(* case_reader.rs recompute it from the counts, and each worker proves the *)
(* membership of the chunk it claimed from the immutable files.            *)
(***************************************************************************)
EXTENDS CaseFiles

CONSTANTS ChunkCases,     \* the 100 cases of an execution chunk
          ShardCount,     \* RUN_SHARD_COUNT
          Aliases,        \* shard-capable placements, the default first
          Gates,          \* the profile's gates, in identifier order
          MaxResident,    \* bytes of index pages a traversal keeps (4 MiB)
          ResidentBytes   \* limits.resident_batch_bytes

VARIABLES acc,       \* the planner: cursor, accumulator and chunk buffer
          written,   \* run_plan_objects: chunk pages acknowledged so far
          plan,      \* the published run-plan manifest
          worker     \* the reader of one claimed chunk

planVars == <<acc, written, plan, worker>>

-----------------------------------------------------------------------------
(* Traversal of an interval tree                                           *)

Cursor(root, start, end) ==
  [root |-> root, stack |-> <<>>, resident |-> 0, start |-> start, end |-> end]

Frame(page) == [page |-> page, index |-> 1, size |-> page.bytes]

Overlaps(entry, cursor) == ~(entry.end <= cursor.start \/ entry.start >= cursor.end)

(* mutant: a page that is left stays charged *)
PopKept(cursor) == [cursor EXCEPT !.stack = Front(@)]

Pop(cursor) == [cursor EXCEPT !.stack = Front(@), !.resident = @ - Last(cursor.stack).size]

(* The next leaf entry, depth first: [ok, entry, cursor].  An exhausted    *)
(* traversal gives no entry, a page that is not what its parent advertised *)
(* or a working set above the bound gives ok = FALSE.                      *)
RECURSIVE Advance(_, _)
Advance(cursor, kind) ==
  IF cursor.root # None
  THEN LET page == cursor.root.object IN
       IF page.bytes > MaxResident \/ ~PageMatches(cursor.root, page, kind)
       THEN [ok |-> FALSE, entry |-> None, cursor |-> cursor]
       ELSE Advance([cursor EXCEPT !.root = None, !.stack = <<Frame(page)>>,
                                   !.resident = page.bytes], kind)
  ELSE IF cursor.stack = <<>>
  THEN [ok |-> TRUE, entry |-> None, cursor |-> cursor]
  ELSE LET top  == Last(cursor.stack)
           rest == Front(cursor.stack)
       IN IF top.index > Len(top.page.entries)
          THEN Advance(Pop(cursor), kind)
          ELSE LET entry == top.page.entries[top.index]
                   moved == [cursor EXCEPT !.stack = Append(rest, [top EXCEPT !.index = @ + 1])]
               IN IF ~Overlaps(entry, cursor) THEN Advance(moved, kind)
                  ELSE IF top.page.level = 0
                  THEN [ok |-> TRUE, entry |-> entry, cursor |-> moved]
                  ELSE IF cursor.resident + entry.object.bytes > MaxResident
                          \/ ~ChildMatches(top.page, top.index, entry.object)
                  THEN [ok |-> FALSE, entry |-> None, cursor |-> moved]
                  ELSE Advance([moved EXCEPT !.stack = Append(@, Frame(entry.object)),
                                             !.resident = @ + entry.object.bytes], kind)

-----------------------------------------------------------------------------
(* Placement and accumulation                                              *)

ShardOf(index) == index % ShardCount

(* assign_run_shards_to_aliases: the used shards in order, round robin.    *)
Assignments(shards) ==
  LET order == SetToSortSeq(shards, LAMBDA a, b : a < b)
      idx(s) == (CHOOSE i \in DOMAIN order : order[i] = s) - 1
  IN [s \in shards |-> Aliases[(idx(s) % Len(Aliases)) + 1]]

UsedShards(cases) == {ShardOf(i) : i \in 0..((cases + ChunkCases - 1) \div ChunkCases) - 1}

NewShard == [chunks |-> 0, cases |-> 0, hash |-> <<>>, last |-> None,
             gates |-> [g \in ToSet(Gates) |-> 0]]

NewAccumulator(m) ==
  [phase |-> "walk", cursor |-> Cursor(m.batches, 0, m.cases), next |-> 0, ordinal |-> 0,
   start |-> 0, chunks |-> 0, hash |-> <<>>, shards |-> << >>, page |-> <<>>,
   aliases |-> Assignments(UsedShards(m.cases)), identity |-> IdentityBuilder(source.fields)]

(* Manifest::push                                                          *)
ShardPush(shard, chunk) ==
  [shard EXCEPT !.chunks = @ + 1, !.cases = @ + chunk.end - chunk.start,
                !.hash = Append(@, chunk), !.last = chunk]

ChunkIdentity(index, start, end) ==
  [id |-> index, shard |-> ShardOf(index), start |-> start, end |-> end]

(* push_chunk starts a new page when the buffer is full.  Chunks are of    *)
(* one size here, so that the limit on bytes is one on entries.            *)
PushChunk(a, chunk) ==
  IF Len(a.page) > 0 /\ Len(Last(a.page)) < PageEntries
  THEN [a EXCEPT !.page = Append(Front(@), Append(Last(@), chunk))]
  ELSE [a EXCEPT !.page = Append(@, <<chunk>>)]

FinishChunk(a) ==
  IF a.ordinal = a.start THEN a
  ELSE LET chunk == ChunkIdentity(a.chunks, a.start, a.ordinal) IN
       PushChunk([a EXCEPT !.shards = [@ EXCEPT ![chunk.shard] = ShardPush(@, chunk)],
                           !.chunks = @ + 1, !.start = a.ordinal, !.hash = <<>>],
                 [chunk |-> chunk, hash |-> a.hash])

PushCase(a, record) ==
  LET shard   == ShardOf(a.chunks)
      before  == IF shard \in DOMAIN a.shards THEN a.shards
                 ELSE [s \in DOMAIN a.shards \cup {shard} |->
                         IF s = shard THEN NewShard ELSE a.shards[s]]
      counted == [before EXCEPT ![shard].gates =
                    [g \in DOMAIN @ |-> @[g] + (IF g \in record.case.gates THEN 1 ELSE 0)]]
      pushed  == [a EXCEPT !.shards = counted, !.hash = Append(@, <<record.ordinal, record.hash>>),
                           !.ordinal = @ + 1]
  IN IF pushed.ordinal - pushed.start = ChunkCases THEN FinishChunk(pushed) ELSE pushed

(* validate_complete: every case planned, every placement used, and no     *)
(* gate without a case.                                                    *)
Complete(a, count) ==
  /\ count > 0 /\ a.ordinal = count /\ a.start = count
  /\ DOMAIN a.aliases = DOMAIN a.shards
  /\ \A g \in ToSet(Gates) : \E s \in DOMAIN a.shards : a.shards[s].gates[g] > 0

-----------------------------------------------------------------------------
(* The written files                                                       *)

ChunkPage(chunks) ==
  [schema |-> "run-chunks", start |-> chunks[1].chunk.id, end |-> Last(chunks).chunk.id + 1,
   chunks |-> chunks, bytes |-> Len(chunks)]

ChunkPageValid(page) ==
  /\ Ranges(page.start, page.end)
  /\ Len(page.chunks) \in 1..PageEntries
  /\ page.end - page.start = Len(page.chunks)
  /\ \A i \in DOMAIN page.chunks :
       LET c == page.chunks[i].chunk IN
       /\ c.id = page.start + i - 1
       /\ Ranges(c.start, c.end) /\ c.end - c.start <= ChunkCases
       /\ (i > 1 => page.chunks[i - 1].chunk.end = c.start)
       /\ c.shard \in 0..ShardCount - 1

(* write_gates builds the chain from its last page to its first.  (A page  *)
(* too large to encode is shortened entry by entry; counts are of one size *)
(* here.)                                                                  *)
RECURSIVE WriteGates(_, _, _, _)
WriteGates(entries, end, next, pages) ==
  IF end = 0 THEN [first |-> next, pages |-> pages, entries |-> Len(entries)]
  ELSE LET start == IF end > PageEntries THEN end - PageEntries ELSE 0 IN
       WriteGates(entries, start, [entries |-> SubSeq(entries, start + 1, end), next |-> next],
                  pages + 1)

GateDescriptor(shard) ==
  LET entries == [i \in DOMAIN Gates |-> [gate |-> i, count |-> shard.gates[Gates[i]]]]
  IN WriteGates(entries, Len(entries), None, 0)

(* GateCountDescriptor::validate: the counts can belong to one chain.      *)
DescriptorPossible(d) ==
  /\ (d.pages = 0) = (d.entries = 0)
  /\ (d.first = None) = (d.pages = 0)
  /\ d.pages <= d.entries
  /\ d.entries <= d.pages * PageEntries

(* GateCountChainValidator: follow the chain while every page fits what    *)
(* the descriptor promised; the counts read, or <<>> for a refusal.        *)
RECURSIVE FollowGates(_, _, _, _, _)
FollowGates(page, pages, entries, cases, read) ==
  IF page = None THEN IF pages = 0 /\ entries = 0 THEN read ELSE <<>>
  ELSE LET left == entries - Len(page.entries) IN
       IF /\ Len(page.entries) \in 1..PageEntries
          /\ \A i \in 2..Len(page.entries) : page.entries[i - 1].gate < page.entries[i].gate
          /\ (read = <<>> \/ Last(read).gate < page.entries[1].gate)
          /\ \A i \in DOMAIN page.entries : page.entries[i].count \in 0..cases
          /\ pages >= 1 /\ left >= 0
          /\ (pages = 1) = (page.next = None)
          /\ (pages = 1) = (left = 0)
       THEN FollowGates(page.next, pages - 1, left, cases, read \o page.entries)
       ELSE <<>>

PlanShard(s, shard) == [shard |-> s, cases |-> shard.cases, chunks |-> shard.chunks,
                        hash |-> shard.hash, gates |-> GateDescriptor(shard)]

(* RunPlanManifest::validate                                               *)
PlanValid(p) ==
  /\ p.count > 0 /\ p.chunks.start = 0 /\ p.chunks.end = p.count
  /\ DescriptorValid(p.chunks)
  /\ Len(p.shards) \in 1..ShardCount
  /\ \A i \in DOMAIN p.shards :
       /\ (i > 1 => p.shards[i - 1].shard < p.shards[i].shard)
       /\ p.shards[i].cases > 0 /\ p.shards[i].chunks > 0
       /\ p.shards[i].chunks <= p.shards[i].cases
       /\ p.shards[i].cases <= p.shards[i].chunks * ChunkCases
       /\ DescriptorPossible(p.shards[i].gates)
  /\ FoldLeft(LAMBDA n, s : n + s.chunks, 0, p.shards) = p.count

(* The configuration snapshot the planner stores beside the plan, and what *)
(* RunConfiguration::validate asks of it.                                  *)
Configuration(a) ==
  [chunk_size |-> ChunkCases, dataset |-> manifest.hash, cases |-> manifest.cases,
   executions |-> a.ordinal]

ConfigurationValid(c) == /\ c.chunk_size \in 1..ChunkCases
                         /\ c.cases > 0
                         /\ c.executions = c.cases

(* FormatLimits::validate: the limits a command was given are consistent.  *)
LimitsValid == /\ MaxCases >= 1 /\ PageEntries >= 1 /\ IndexHeight >= 1
               /\ MaxBytes <= ResidentBytes

-----------------------------------------------------------------------------
(* Planning                                                                *)

RefusePlan == /\ acc' = [acc EXCEPT !.phase = "refused"]
              /\ UNCHANGED <<filesVars, written, plan, worker>>

StartPlan ==
  /\ phase = "published"
  /\ acc = None
  /\ LimitsValid
  /\ acc' = NewAccumulator(manifest)
  /\ UNCHANGED <<filesVars, written, plan, worker>>

(* One batch of the dataset: its records are identified once more and      *)
(* pushed in order, and a full page of chunks is written.                  *)
Identified(identity, records) ==
  \A i \in DOMAIN records : IdentityAccepts([identity EXCEPT !.ordinal = @ + i - 1], records[i])

PlanBatch ==
  /\ acc # None /\ acc.phase = "walk"
  /\ LET step == Advance(acc.cursor, "dataset-batches")
         file == step.entry.object
     IN IF ~step.ok THEN RefusePlan
        ELSE IF step.entry = None
        THEN /\ acc' = IF acc.next = manifest.cases
                       THEN [FinishChunk(acc) EXCEPT !.phase = "write", !.cursor = None]
                       ELSE [acc EXCEPT !.phase = "refused"]
             /\ UNCHANGED <<filesVars, written, plan, worker>>
        ELSE IF /\ step.entry.start = acc.next
                /\ BatchValid(file) /\ ReaderYieldsAll(file)
                /\ file.start = step.entry.start /\ file.end = step.entry.end
                /\ Identified(acc.identity, file.records)
        THEN /\ acc' = FoldLeft(PushCase,
                                [acc EXCEPT !.cursor = step.cursor, !.next = file.end,
                                   !.identity = FoldLeft(IdentityPush, @, file.records)],
                                file.records)
             /\ UNCHANGED <<filesVars, written, plan, worker>>
        ELSE RefusePlan

WriteChunks ==
  /\ acc # None /\ acc.phase = "write"
  /\ acc.page # <<>>
  /\ LET file == ChunkPage(acc.page[1]) IN
     /\ written' = written \cup {Acknowledged("chunks", 0, file)}
     /\ acc' = [acc EXCEPT !.page = Tail(@)]
  /\ UNCHANGED <<filesVars, plan, worker>>

(* The manifest: the index of the chunks and, per shard, its totals, the   *)
(* hash over its chunks and its gate counts.                               *)
PlanManifest(index) ==
  LET order == SetToSortSeq(DOMAIN acc.shards, LAMBDA a, b : a < b)
  IN [count |-> acc.chunks, chunks |-> index, configuration |-> Configuration(acc),
      shards |-> [i \in DOMAIN order |-> PlanShard(order[i], acc.shards[order[i]])]]

(* ledger::publish, behind the checks that every document passes.          *)
PublishBuilt(built) ==
  IF \/ ~IdentityVerified(acc.identity, manifest)
     \/ built.chunks = None \/ ~Complete(acc, manifest.cases)
     \/ ~PlanValid(built) \/ ~ConfigurationValid(built.configuration)
  THEN RefusePlan
  ELSE /\ plan' = built
       /\ acc' = [acc EXCEPT !.phase = "published"]
       /\ UNCHANGED <<filesVars, written, worker>>

PublishPlan ==
  /\ acc # None /\ acc.phase = "write"
  /\ acc.page = <<>>
  /\ PublishBuilt(PlanManifest(BuildIndex(written, "run-chunks", "chunks")))

-----------------------------------------------------------------------------
(* Reading                                                                 *)

(* open_inner recomputes every shard's totals from the number of cases.    *)
(* mutant: a short last chunk is not expected *)
ExpectedTotalsFull(shard, cases) ==
  LET chunks == (cases + ChunkCases - 1) \div ChunkCases
      count  == (chunks - 1 - shard) \div ShardCount + 1
  IN [chunks |-> count, cases |-> count * ChunkCases]

ExpectedTotals(shard, cases) ==
  LET chunks == (cases + ChunkCases - 1) \div ChunkCases
      count  == (chunks - 1 - shard) \div ShardCount + 1
      last   == shard + (count - 1) * ShardCount
      final  == IF last = chunks - 1 THEN cases - last * ChunkCases ELSE ChunkCases
  IN [chunks |-> count, cases |-> (count - 1) * ChunkCases + final]

OpenAccepts(p, cases) ==
  /\ PlanValid(p) /\ ConfigurationValid(p.configuration)
  /\ p.configuration.chunk_size = ChunkCases /\ p.configuration.cases = cases
  /\ p.configuration.dataset = manifest.hash
  /\ FoldLeft(LAMBDA n, s : n + s.cases, 0, p.shards) = cases
  /\ p.count = (cases + ChunkCases - 1) \div ChunkCases
  /\ \A i \in DOMAIN p.shards :
       /\ p.shards[i].shard < p.count
       /\ [chunks |-> p.shards[i].chunks, cases |-> p.shards[i].cases] =
            ExpectedTotals(p.shards[i].shard, cases)

(* Admission rebuilds the identity of a shard's last chunk.                *)
LastChunk(shard, cases) ==
  LET index == shard.shard + (shard.chunks - 1) * ShardCount
  IN ChunkIdentity(index, index * ChunkCases, Min({(index + 1) * ChunkCases, cases}))

(* The chunk row a worker claims, as the shard's seeding created it.       *)
Claimed(index, cases) ==
  ChunkIdentity(index, index * ChunkCases, Min({(index + 1) * ChunkCases, cases}))

Assigned(file, chunk) ==
  SelectSeq(file.records, LAMBDA r : r.ordinal >= chunk.start /\ r.ordinal < chunk.end)

Idle == [phase |-> "idle"]

OpenRun ==
  /\ plan # None
  /\ worker = Idle
  /\ \E index \in 0..plan.count - 1 :
       LET chunk == Claimed(index, manifest.cases)
           found == Advance(Cursor(plan.chunks, chunk.start \div ChunkCases,
                                   chunk.start \div ChunkCases + 1), "run-chunks")
           page  == found.entry.object
           at    == {i \in DOMAIN page.chunks : page.chunks[i].chunk.id = index}
       IN worker' = IF /\ OpenAccepts(plan, manifest.cases)
                       /\ found.ok /\ found.entry # None
                       /\ ChunkPageValid(page)
                       /\ page.start = found.entry.start /\ page.end = found.entry.end
                       /\ \E i \in at : page.chunks[i].chunk = chunk
                    THEN [phase |-> "prove", chunk |-> chunk, retained |-> 0, cached |-> TRUE,
                          cases |-> <<>>, seen |-> <<>>,
                          hash |-> page.chunks[CHOOSE i \in at : TRUE].hash,
                          cursor |-> Cursor(manifest.batches, chunk.start, chunk.end)]
                    ELSE [phase |-> "failed", chunk |-> chunk]
  /\ UNCHANGED <<filesVars, acc, written, plan>>

(* Records are kept while they fit beside one batch being read; the first  *)
(* that does not empties the vector, and the batches are read again later. *)
(* mutant: the vector is closed but what it holds is kept *)
RetainKeeping(w, record) ==
  IF w.cached /\ w.retained + RecordBytes(record) <= ResidentBytes - MaxBytes
  THEN [w EXCEPT !.retained = @ + RecordBytes(record), !.cases = Append(@, record.case)]
  ELSE [w EXCEPT !.cached = FALSE]

Retain(w, record) ==
  IF w.cached /\ w.retained + RecordBytes(record) <= ResidentBytes - MaxBytes
  THEN [w EXCEPT !.retained = @ + RecordBytes(record), !.cases = Append(@, record.case)]
  ELSE [w EXCEPT !.cached = FALSE, !.cases = <<>>]

Prove(w, record) ==
  [Retain(w, record) EXCEPT !.seen = Append(@, <<record.ordinal, record.hash>>)]

ProveBatch ==
  /\ worker.phase = "prove"
  /\ LET step == Advance(worker.cursor, "dataset-batches")
         file == step.entry.object
     IN worker' =
          IF ~step.ok THEN [phase |-> "failed", chunk |-> worker.chunk]
          ELSE IF step.entry # None
          THEN IF BatchValid(file) /\ ReaderYieldsAll(file)
               THEN FoldLeft(Prove, [worker EXCEPT !.cursor = step.cursor],
                             Assigned(file, worker.chunk))
               ELSE [phase |-> "failed", chunk |-> worker.chunk]
          ELSE IF Len(worker.seen) # worker.chunk.end - worker.chunk.start
                  \/ worker.seen # worker.hash
          THEN [phase |-> "failed", chunk |-> worker.chunk]
          ELSE [worker EXCEPT !.phase = IF worker.cached THEN "done" ELSE "stream",
                              !.cursor = Cursor(manifest.batches, worker.chunk.start,
                                                worker.chunk.end)]
  /\ UNCHANGED <<filesVars, acc, written, plan>>

StreamBatch ==
  /\ worker.phase = "stream"
  /\ LET step == Advance(worker.cursor, "dataset-batches")
         file == step.entry.object
     IN worker' =
          IF ~step.ok THEN [phase |-> "failed", chunk |-> worker.chunk]
          ELSE IF step.entry = None THEN [worker EXCEPT !.phase = "done"]
          ELSE IF Assigned(file, worker.chunk) = <<>>
          THEN [phase |-> "failed", chunk |-> worker.chunk]
          ELSE [worker EXCEPT !.cursor = step.cursor,
                              !.cases = @ \o [i \in DOMAIN Assigned(file, worker.chunk) |->
                                                Assigned(file, worker.chunk)[i].case]]
  /\ UNCHANGED <<filesVars, acc, written, plan>>

-----------------------------------------------------------------------------
PlanInit == /\ Init
            /\ acc = None
            /\ written = {}
            /\ plan = None
            /\ worker = Idle

FilesStep == Next /\ UNCHANGED planVars

PlanNext == \/ FilesStep
            \/ StartPlan \/ PlanBatch \/ WriteChunks \/ PublishPlan
            \/ OpenRun \/ ProveBatch \/ StreamBatch

caseVars == <<filesVars, planVars>>

PlanSpec == PlanInit /\ [][PlanNext]_caseVars

-----------------------------------------------------------------------------
PlanTypeOK ==
  /\ acc = None \/ acc.phase \in {"walk", "write", "published", "refused"}
  /\ acc # None => acc.ordinal \in 0..Len(prep.records)
  /\ worker.phase \in {"idle", "prove", "stream", "done", "failed"}

(* What the planner publishes every reader accepts: the shard totals that  *)
(* open_inner recomputes from the case count, the last chunk that          *)
(* admission rebuilds, the gate chain and the chunk pages agree with what  *)
(* the accumulator folded, for every number of cases around the            *)
(* boundaries; and shards are dealt evenly over the placements.            *)
PlanIsReadable ==
  /\ worker.phase # "failed"
  /\ plan # None =>
       /\ \A i \in DOMAIN plan.shards :
            LET s == plan.shards[i] IN
            /\ acc.shards[s.shard].last = LastChunk(s, manifest.cases)
            /\ FollowGates(s.gates.first, s.gates.pages, s.gates.entries, s.cases, <<>>) =
                 [g \in DOMAIN Gates |-> [gate |-> g, count |-> acc.shards[s.shard].gates[Gates[g]]]]
       /\ \A a, b \in DOMAIN Aliases :
            LET load(x) == Cardinality({s \in DOMAIN acc.aliases : acc.aliases[s] = Aliases[x]})
            IN load(a) - load(b) <= 1

(* A worker executes exactly its chunk: whether the cases were retained or *)
(* read again, what is handed over is the source's cases of the chunk's    *)
(* range, in order and once, and the chunks tile the dataset.              *)
ChunkIsItsCases ==
  /\ worker.phase = "done" =>
       worker.cases = SubSeq(SourceCases, worker.chunk.start + 1, worker.chunk.end)
  /\ plan # None => FlattenSeq([i \in 1..plan.count |->
                      LET c == Claimed(i - 1, manifest.cases)
                      IN [k \in 1..c.end - c.start |-> c.start + k]])
                    = [k \in 1..Len(SourceCases) |-> k]

(* Memory stays bounded however large the dataset: the pages a traversal   *)
(* keeps are within its bound and are exactly the ones on its stack, and   *)
(* retained cases leave room for the batch being read.                     *)
ResidentIsBounded ==
  /\ acc # None /\ acc.phase = "walk" =>
       /\ acc.cursor.resident <= MaxResident
       /\ acc.cursor.resident = FoldLeft(LAMBDA n, f : n + f.size, 0, acc.cursor.stack)
  /\ worker.phase \in {"prove", "stream"} =>
       /\ worker.cursor.resident = FoldLeft(LAMBDA n, f : n + f.size, 0, worker.cursor.stack)
       /\ worker.retained <= ResidentBytes - MaxBytes
=============================================================================
