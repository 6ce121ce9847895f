----------------------------- MODULE CaseFiles -----------------------------
(***************************************************************************)
(* From a dataset file to its published immutable form: the preparation    *)
(* of the input (dataset_ingestion/input.rs), its packing into case        *)
(* batches (contracts/case_storage/codec.rs), the interval tree over them  *)
(* (dataset_ingestion.rs) and the checks every reader of a stored file     *)
(* makes (contracts/case_storage/formats.rs, identity.rs).                 *)
(*                                                                         *)
(* A stored object is modelled by its content: a reference carries a       *)
(* digest of the bytes, so two references are equal exactly when what they *)
(* name is.  Hashes are therefore the hashed value.  Sizes are small       *)
(* numbers; the production limits are the constants of this module.        *)
(***************************************************************************)
EXTENDS Integers, Sequences, SequencesExt, FiniteSets, FiniteSetsExt

CONSTANTS Sources,       \* the dataset files considered
          MaxCases,      \* limits.batch.max_cases
          MaxBytes,      \* limits.batch.max_bytes
          HeaderBytes,   \* the encoded header of a case batch
          Envelope,      \* what a stored record adds to its source
          PageEntries,   \* limits.page_entries
          PageBytes,     \* limits.page_bytes
          PageHeader,    \* the 256 bytes assumed for an empty index page
          EntryBytes,    \* one encoded index entry
          IndexHeight,   \* limits.index_height
          RowPage,       \* rows one ledger query returns
          RunIds,        \* identifiers sorted in memory (65536)
          FanIn,         \* files merged at once (32)
          IdBytes,       \* bytes of one identifier (16)
          SpoolCap,      \* SPOOL_CAP
          DocumentCap,   \* DOCUMENT_CAP
          YamlBudget,    \* bytes an expanded YAML value may take
          NodeBytes,     \* what every YAML value costs (64)
          YamlDepth      \* nesting a YAML value may have (128)

VARIABLES source,    \* the input file
          phase,     \* the step the preparation or the upload has reached
          prep,      \* records, identity and quota of prepare_sync
          runs,      \* the sorted identifier files of the current merge level
          builder,   \* the case batch being packed
          ledger,    \* dataset_upload_objects: the files acknowledged so far
          manifest   \* the published dataset manifest

filesVars == <<source, phase, prep, runs, builder, ledger, manifest>>

None == [none |-> TRUE]

Ranges(start, end) == start >= 0 /\ end > start

-----------------------------------------------------------------------------
(* Parsing                                                                 *)

Distinct(keys) == \A i, j \in DOMAIN keys : keys[i] = keys[j] => i = j

(* A value of the input: a scalar, a text of some length, or a sequence or *)
(* map of values.  What remains of the budget after reading it, -1 when it *)
(* does not fit.                                                           *)
RECURSIVE Limited(_, _, _)
Limited(value, depth, remaining) ==
  IF remaining < 0 \/ depth >= YamlDepth \/ remaining < NodeBytes THEN -1
  ELSE LET left == remaining - NodeBytes IN
       CASE value.kind = "scalar" -> left
         [] value.kind = "text" -> IF value.bytes > left THEN -1 ELSE left - value.bytes
         [] value.kind = "seq" ->
              FoldLeft(LAMBDA r, item : Limited(item, depth + 1, r), left, value.items)
         [] value.kind = "map" ->
              IF ~Distinct(value.keys) THEN -1
              ELSE FoldLeft(LAMBDA r, i :
                              IF r < value.keys[i] THEN -1
                              ELSE Limited(value.items[i], depth + 1, r - value.keys[i]),
                            left, [i \in DOMAIN value.keys |-> i])

Yaml(value) == Limited(value, 0, YamlBudget) >= 0

StrictJson(keys) == Distinct(keys)

(* `line`: at most cap bytes, ended by LF, and not the LF alone.           *)
LineFits(line, cap) == line.bytes <= cap /\ line.lf /\ line.bytes # 1

-----------------------------------------------------------------------------
(* Identity                                                                *)

(* canonical_json sorts the keys of an object; here keys are numbers.      *)
CanonicalJson(keys) == SetToSortSeq(ToSet(keys), LAMBDA a, b : a < b)

CasesKey == 2

NormalizedCasePayload(case) == [body |-> case.bytes,
                                tags |-> SortSeq(case.tags, LAMBDA a, b : a < b)]

CaseHash(case) == NormalizedCasePayload(case)

Record(ordinal, case) == [ordinal |-> ordinal, hash |-> CaseHash(case), case |-> case]

RecordValid(record) == /\ record.ordinal >= 0
                       /\ CaseHash(record.case) = record.hash

RecordBytes(record) == record.case.bytes + Envelope

(* DatasetIdentityBuilder::new writes the fields that sort before `cases`, *)
(* opens the array, and keeps the remaining fields for the end.            *)
(* mutant: the comma between the fields and the array is forgotten *)
IdentityBuilderUnseparated(fields) ==
  LET keys == CanonicalJson(fields)
  IN [text    |-> <<"{">> \o FlattenSeq([i \in 1..Len(SelectSeq(keys, LAMBDA k : k < CasesKey)) |->
                                           (IF i > 1 THEN <<",">> ELSE <<>>) \o <<keys[i]>>])
                  \o <<"cases[">>,
      suffix  |-> FlattenSeq([i \in 1..Len(SelectSeq(keys, LAMBDA k : k > CasesKey)) |->
                                <<",", SelectSeq(keys, LAMBDA k : k > CasesKey)[i]>>]) \o <<"}">>,
      ordinal |-> 0]

IdentityBuilder(fields) ==
  LET keys   == CanonicalJson(fields)
      before == SelectSeq(keys, LAMBDA k : k < CasesKey)
      after  == SelectSeq(keys, LAMBDA k : k > CasesKey)
  IN [text    |-> <<"{">>
                  \o FlattenSeq([i \in DOMAIN before |->
                                   (IF i > 1 THEN <<",">> ELSE <<>>) \o <<before[i]>>])
                  \o (IF before = <<>> THEN <<>> ELSE <<",">>) \o <<"cases[">>,
      suffix  |-> FlattenSeq([i \in DOMAIN after |-> <<",", after[i]>>]) \o <<"}">>,
      ordinal |-> 0]

IdentityAccepts(identity, record) ==
  /\ record.ordinal = identity.ordinal
  /\ RecordBytes(record) <= MaxBytes
  /\ RecordValid(record)

IdentityPush(identity, record) ==
  [identity EXCEPT !.text = @ \o (IF identity.ordinal > 0 THEN <<",">> ELSE <<>>)
                              \o <<record.case>>,
                   !.ordinal = @ + 1]

IdentityFinish(identity) ==
  [hash |-> Append(identity.text, "]") \o identity.suffix, count |-> identity.ordinal]

-----------------------------------------------------------------------------
(* prepare_sync: one record at a time                                      *)

(* The bytes prepare_sync has on disk: the spooled records and the files   *)
(* of identifiers.                                                         *)
QuotaAdd(used, bytes) == used + bytes

(* mutant: the identifier file is deleted but still charged *)
SourceIdBytesKept == 0

SourceIdBytes == Len(prep.records) * IdBytes

FileBytes(files) == FoldLeft(LAMBDA n, f : n + Len(f) * IdBytes, 0, files)

Refuse(reason) == /\ phase' = "refused"
                  /\ prep' = [prep EXCEPT !.reason = reason]
                  /\ UNCHANGED <<source, runs, builder, ledger, manifest>>

(* The header line or the document.  A line that is not framed, fields     *)
(* that do not encode within the limits or name another schema, and a      *)
(* version that is too long are refused like fields that do not parse.     *)
HeaderFits == CASE source.format = "jsonl" -> StrictJson(source.fields)
                [] source.format = "json" -> /\ source.bytes <= DocumentCap
                                             /\ StrictJson(source.fields)
                [] source.format = "yaml" -> /\ source.bytes <= DocumentCap
                                             /\ Yaml(source.tree)

Open ==
  /\ phase = "start"
  /\ IF HeaderFits
     THEN /\ phase' = "read"
          /\ prep' = [prep EXCEPT !.identity = IdentityBuilder(source.fields)]
          /\ UNCHANGED <<source, runs, builder, ledger, manifest>>
     ELSE Refuse("header")

(* mutant: an unterminated last line ends the input *)
ReadRecordTruncating ==
  /\ phase = "read"
  /\ LET next == Len(prep.records) + 1 IN
     IF next > Len(source.lines) \/ ~source.lines[next].lf
     THEN /\ phase' = "sort"
          /\ UNCHANGED <<source, prep, runs, builder, ledger, manifest>>
     ELSE LET record == Record(Len(prep.records), source.lines[next].case) IN
          /\ IdentityAccepts(prep.identity, record)
          /\ prep' = [prep EXCEPT !.records = Append(@, record),
                                  !.ids = Append(@, record.case.id),
                                  !.identity = IdentityPush(@, record),
                                  !.used = QuotaAdd(@, RecordBytes(record) + 1 + IdBytes)]
          /\ UNCHANGED <<source, phase, runs, builder, ledger, manifest>>

ReadRecord ==
  /\ phase = "read"
  /\ LET next == Len(prep.records) + 1 IN
     IF next > Len(source.lines)
     THEN /\ phase' = "sort"
          /\ UNCHANGED <<source, prep, runs, builder, ledger, manifest>>
     ELSE LET line   == source.lines[next]
              record == Record(Len(prep.records), line.case)
              used   == QuotaAdd(prep.used, RecordBytes(record) + 1 + IdBytes)
          IN IF source.format = "jsonl" /\ ~(LineFits(line, MaxBytes) /\ StrictJson(line.keys))
             THEN Refuse("line")
             ELSE IF ~IdentityAccepts(prep.identity, record) \/ RecordBytes(record) >= MaxBytes
             THEN Refuse("record")
             ELSE IF used > SpoolCap
             THEN Refuse("spool")
             ELSE /\ prep' = [prep EXCEPT !.records = Append(@, record),
                                          !.ids = Append(@, record.case.id),
                                          !.identity = IdentityPush(@, record),
                                          !.used = used]
                  /\ UNCHANGED <<source, phase, runs, builder, ledger, manifest>>

(* unique_ids, first half: a bounded number of identifiers is sorted in    *)
(* memory, looked through for neighbours that agree, and written out.      *)
SortRun ==
  /\ phase = "sort"
  /\ LET chunk  == SubSeq(prep.ids, 1, Min({RunIds, Len(prep.ids)}))
         sorted == SortSeq(chunk, LAMBDA a, b : a < b)
         used   == QuotaAdd(prep.used, Len(chunk) * IdBytes)
     IN IF chunk = <<>>
        THEN /\ phase' = "merge"
             /\ prep' = [prep EXCEPT !.used = @ - SourceIdBytes, !.level = <<>>]
             /\ UNCHANGED <<source, runs, builder, ledger, manifest>>
        ELSE IF \E i \in 1..Len(sorted) - 1 : sorted[i] = sorted[i + 1]
        THEN Refuse("duplicate")
        ELSE IF used > SpoolCap
        THEN Refuse("spool")
        ELSE /\ runs' = Append(runs, sorted)
             /\ prep' = [prep EXCEPT !.ids = SubSeq(@, Len(chunk) + 1, Len(@)), !.used = used]
             /\ UNCHANGED <<source, phase, builder, ledger, manifest>>

(* The merge takes the smallest head of its files until all are empty; a   *)
(* head equal to the one before it is a duplicate: no result.              *)
RECURSIVE MergeHeads(_, _)
MergeHeads(files, merged) ==
  LET open == {i \in DOMAIN files : files[i] # <<>>} IN
  IF open = {} THEN merged
  ELSE LET least == CHOOSE i \in open : \A j \in open :
                      \/ files[i][1] < files[j][1]
                      \/ (files[i][1] = files[j][1] /\ i <= j)
       IN IF merged # <<>> /\ Last(merged) = files[least][1] THEN <<>>
          ELSE MergeHeads([files EXCEPT ![least] = Tail(@)], Append(merged, files[least][1]))

GroupOf(files) == SubSeq(files, 1, Min({FanIn, Len(files)}))

MergeGroup ==
  /\ phase = "merge"
  /\ IF runs = <<>> /\ Len(prep.level) > 1
     THEN /\ runs' = prep.level
          /\ prep' = [prep EXCEPT !.level = <<>>]
          /\ UNCHANGED <<source, phase, builder, ledger, manifest>>
     ELSE IF (prep.level = <<>> /\ Len(runs) <= 1) \/ runs = <<>>
     THEN IF prep.identity.ordinal = 0 THEN Refuse("empty")
          ELSE /\ phase' = "pack"
               /\ UNCHANGED <<source, prep, runs, builder, ledger, manifest>>
     ELSE LET group  == GroupOf(runs)
              merged == MergeHeads(group, <<>>)
          IN IF merged = <<>> THEN Refuse("duplicate")
             ELSE IF QuotaAdd(prep.used, Len(merged) * IdBytes) > SpoolCap THEN Refuse("spool")
             ELSE /\ runs' = SubSeq(runs, Len(group) + 1, Len(runs))
                  /\ prep' = [prep EXCEPT !.level = Append(@, merged),
                                !.used = QuotaAdd(@, Len(merged) * IdBytes) - FileBytes(group)]
                  /\ UNCHANGED <<source, phase, builder, ledger, manifest>>

-----------------------------------------------------------------------------
(* Packing records into case batches                                       *)

NewBatch(start) == [start |-> start, end |-> start, bytes |-> 0, records |-> <<>>]

(* try_push leaves the candidate to the caller when the batch is full.     *)
Full(batch, record) ==
  \/ Len(batch.records) = MaxCases
  \/ HeaderBytes + 1 + batch.bytes + RecordBytes(record) + 1 > MaxBytes

TryPush(batch, record) ==
  [batch EXCEPT !.end = @ + 1, !.bytes = @ + RecordBytes(record) + 1,
                !.records = Append(@, record)]

BatchFile(batch) == [schema |-> "case-batch", start |-> batch.start, end |-> batch.end,
                     records |-> batch.records, bytes |-> HeaderBytes + 1 + batch.bytes]

Acknowledged(kind, level, file) ==
  [kind |-> kind, level |-> level, start |-> file.start, end |-> file.end, object |-> file]

(* mutant: the record that did not fit is left out of the next batch *)
PackCaseSkipping ==
  /\ phase = "pack"
  /\ LET record == prep.records[builder.end + 1] IN
     IF builder.end = Len(prep.records)
     THEN /\ ledger' = ledger \cup {Acknowledged("batch", 0, BatchFile(builder))}
          /\ phase' = "verify"
          /\ UNCHANGED <<source, prep, runs, builder, manifest>>
     ELSE IF Full(builder, record)
     THEN /\ ledger' = ledger \cup {Acknowledged("batch", 0, BatchFile(builder))}
          /\ builder' = NewBatch(builder.end + 1)
          /\ UNCHANGED <<source, phase, prep, runs, manifest>>
     ELSE /\ builder' = TryPush(builder, record)
          /\ UNCHANGED <<source, phase, prep, runs, ledger, manifest>>

PackCase ==
  /\ phase = "pack"
  /\ IF builder.end = Len(prep.records)
     THEN /\ ledger' = ledger \cup {Acknowledged("batch", 0, BatchFile(builder))}
          /\ phase' = "verify"
          /\ prep' = [prep EXCEPT !.identity = IdentityBuilder(source.fields)]
          /\ UNCHANGED <<source, runs, builder, manifest>>
     ELSE LET record == prep.records[builder.end + 1] IN
          IF ~Full(builder, record)
          THEN /\ builder' = TryPush(builder, record)
               /\ UNCHANGED <<source, phase, prep, runs, ledger, manifest>>
          ELSE IF builder.records = <<>> \/ Full(NewBatch(builder.end), record)
          THEN Refuse("batch")
          ELSE /\ ledger' = ledger \cup {Acknowledged("batch", 0, BatchFile(builder))}
               /\ builder' = TryPush(NewBatch(builder.end), record)
               /\ UNCHANGED <<source, phase, prep, runs, manifest>>

-----------------------------------------------------------------------------
(* What every reader checks of a stored file                               *)

BatchValid(file) ==
  /\ file.schema = "case-batch"
  /\ file.bytes <= MaxBytes
  /\ Ranges(file.start, file.end)
  /\ file.end - file.start <= MaxCases

(* CaseBatchReader: as many records as the header says, in ordinal order,  *)
(* and no identifier twice.                                                *)
ReaderYieldsAll(file) ==
  /\ Len(file.records) = file.end - file.start
  /\ \A i \in DOMAIN file.records : /\ file.records[i].ordinal = file.start + i - 1
                                    /\ RecordValid(file.records[i])
  /\ Distinct([i \in DOMAIN file.records |-> file.records[i].case.id])

LeafSchema(kind) == IF kind = "dataset-batches" THEN "case-batch" ELSE "run-chunks"

PageValid(page) ==
  /\ page.schema = "ordinal-index"
  /\ Ranges(page.start, page.end)
  /\ page.level < IndexHeight
  /\ Len(page.entries) \in 1..PageEntries
  /\ page.bytes <= PageBytes
  /\ page.entries[1].start = page.start
  /\ Last(page.entries).end = page.end
  /\ \A i \in DOMAIN page.entries :
       /\ Ranges(page.entries[i].start, page.entries[i].end)
       /\ (i > 1 => page.entries[i].start = page.entries[i - 1].end)
       /\ page.entries[i].object.schema =
            (IF page.level = 0 THEN LeafSchema(page.index) ELSE "ordinal-index")

DescriptorValid(root) ==
  /\ Ranges(root.start, root.end)
  /\ root.level < IndexHeight
  /\ root.object.schema = "ordinal-index"

(* validate_page: the child is the page its parent advertised.             *)
PageMatches(root, page, kind) ==
  /\ DescriptorValid(root)
  /\ PageValid(page)
  /\ page.level = root.level
  /\ page.index = kind
  /\ page.start = root.start
  /\ page.end = root.end

ChildMatches(page, i, child) ==
  /\ page.level > 0
  /\ PageMatches([level |-> page.level - 1, start |-> page.entries[i].start,
                  end |-> page.entries[i].end, object |-> page.entries[i].object],
                 child, page.index)

-----------------------------------------------------------------------------
(* The interval tree                                                       *)

(* ledger::objects: the rows of one kind and level after an ordinal, in    *)
(* order, at most a page of them.                                          *)
Rows(rows, kind, level, after) ==
  LET found == SetToSortSeq({r \in rows : r.kind = kind /\ r.level = level /\ r.start > after},
                            LAMBDA a, b : a.start < b.start)
  IN SubSeq(found, 1, Min({RowPage, Len(found)}))

RECURSIVE AllRows(_, _, _, _)
AllRows(rows, kind, level, after) ==
  LET page == Rows(rows, kind, level, after) IN
  IF page = <<>> THEN <<>> ELSE page \o AllRows(rows, kind, level, Last(page).start)

EntryFits(entries) == /\ Len(entries) # PageEntries
                      /\ PageHeader + (Len(entries) + 1) * EntryBytes <= PageBytes

(* Entries fill a page until the next one does not fit.                    *)
PackPages(entries) ==
  FoldLeft(LAMBDA pages, entry :
             IF pages = <<>> \/ ~EntryFits(Last(pages)) THEN Append(pages, <<entry>>)
             ELSE Append(Front(pages), Append(Last(pages), entry)),
           <<>>, entries)

IndexPageOf(kind, level, entries) ==
  [schema |-> "ordinal-index", index |-> kind, level |-> level,
   start |-> entries[1].start, end |-> Last(entries).end, entries |-> entries,
   bytes |-> PageHeader + Len(entries) * EntryBytes]

Entry(row) == [start |-> row.start, end |-> row.end, object |-> row.object]

(* The pages of one level: of the leaves, or of the level below.           *)
LevelPages(rows, kind, level) ==
  LET found == AllRows(rows, kind, IF level = 0 THEN 0 ELSE level - 1, -1)
  IN PackPages([i \in DOMAIN found |-> Entry(found[i])])

RECURSIVE BuildIndexFrom(_, _, _, _)
RECURSIVE BuildLevel(_, _, _, _, _)
BuildLevel(rows, kind, leaf, level, files) ==
  IF files = <<>> \/ PageHeader + EntryBytes > PageBytes THEN None
  ELSE IF \E i \in DOMAIN files : ~PageValid(files[i]) THEN None
  ELSE IF Len(files) = 1
  THEN [level |-> level, start |-> files[1].start, end |-> files[1].end, object |-> files[1]]
  ELSE BuildIndexFrom(rows \cup {Acknowledged("index", level, f) : f \in ToSet(files)},
                      kind, leaf, level + 1)

BuildIndexFrom(rows, kind, leaf, level) ==
  IF level = IndexHeight THEN None
  ELSE LET pages == LevelPages(rows, IF level = 0 THEN leaf ELSE "index", level)
       IN BuildLevel(rows, kind, leaf, level,
                     [i \in DOMAIN pages |-> IndexPageOf(kind, level, pages[i])])

BuildIndex(rows, kind, leaf) == BuildIndexFrom(rows, kind, leaf, 0)

-----------------------------------------------------------------------------
(* ingest after the batches: every stored batch is read back in order, its *)
(* records are identified again, and the tree and the manifest are written *)

ManifestValid(m) ==
  /\ m.cases > 0
  /\ m.batches.start = 0
  /\ m.batches.end = m.cases
  /\ DescriptorValid(m.batches)

IdentityVerified(identity, m) == IdentityFinish(identity) = [hash |-> m.hash, count |-> m.cases]

VerifyBatch ==
  /\ phase = "verify"
  /\ LET next == prep.identity.ordinal
         rows == Rows(ledger, "batch", 0, next - 1)
     IN /\ rows # <<>>
        /\ LET file == rows[1].object IN
           IF rows[1].start = next /\ BatchValid(file) /\ ReaderYieldsAll(file)
           THEN /\ prep' = [prep EXCEPT !.identity = FoldLeft(IdentityPush, @, file.records)]
                /\ UNCHANGED <<source, phase, runs, builder, ledger, manifest>>
           ELSE Refuse("membership")

Manifest(batches) == [cases |-> prep.identity.ordinal, batches |-> batches,
                      hash |-> IdentityFinish(prep.identity).hash]

PublishManifest(built) ==
  IF prep.identity.ordinal # Len(prep.records) THEN Refuse("membership")
  ELSE IF built.batches = None THEN Refuse("height")
  ELSE IF ~ManifestValid(built) \/ ~IdentityVerified(prep.identity, built)
  THEN Refuse("manifest")
  ELSE /\ manifest' = built
       /\ phase' = "published"
       /\ UNCHANGED <<source, prep, runs, builder, ledger>>

Publish ==
  /\ phase = "verify"
  /\ Rows(ledger, "batch", 0, prep.identity.ordinal - 1) = <<>>
  /\ PublishManifest(Manifest(BuildIndex(ledger, "dataset-batches", "batch")))

-----------------------------------------------------------------------------
Init ==
  /\ source \in Sources
  /\ phase = "start"
  /\ prep = [records |-> <<>>, ids |-> <<>>, level |-> <<>>, used |-> 0, reason |-> "",
             identity |-> [text |-> <<>>, suffix |-> <<>>, ordinal |-> 0]]
  /\ runs = <<>>
  /\ builder = NewBatch(0)
  /\ ledger = {}
  /\ manifest = None

Next == Open \/ ReadRecord \/ SortRun \/ MergeGroup \/ PackCase \/ VerifyBatch \/ Publish

Spec == Init /\ [][Next]_filesVars

-----------------------------------------------------------------------------
(* Reference definitions                                                   *)

RECURSIVE Weight(_)
Weight(value) ==
  NodeBytes
  + (IF value.kind = "text" THEN value.bytes ELSE 0)
  + (IF value.kind = "map" THEN FoldLeft(+, 0, value.keys) ELSE 0)
  + (IF value.kind \in {"seq", "map"}
     THEN FoldLeft(+, 0, [i \in DOMAIN value.items |-> Weight(value.items[i])]) ELSE 0)

RECURSIVE WellFormed(_, _)
WellFormed(value, depth) ==
  /\ depth < YamlDepth
  /\ (value.kind = "map" => Distinct(value.keys))
  /\ (value.kind \in {"seq", "map"} =>
        \A i \in DOMAIN value.items : WellFormed(value.items[i], depth + 1))

Canonical(fields, cases) ==
  LET keys == CanonicalJson(fields \o <<CasesKey>>)
      item(k) == IF k = CasesKey
                 THEN <<"cases[">>
                      \o FlattenSeq([i \in DOMAIN cases |->
                            (IF i > 1 THEN <<",">> ELSE <<>>) \o <<cases[i]>>])
                      \o <<"]">>
                 ELSE <<k>>
  IN <<"{">> \o FlattenSeq([i \in DOMAIN keys |->
                              (IF i > 1 THEN <<",">> ELSE <<>>) \o item(keys[i])]) \o <<"}">>

SourceCases == [i \in DOMAIN source.lines |-> source.lines[i].case]

SourceIds == [i \in DOMAIN source.lines |-> source.lines[i].case.id]

TypeOK ==
  /\ phase \in {"start", "read", "sort", "merge", "pack", "verify", "published", "refused"}
  /\ prep.reason \in {"", "header", "line", "record", "spool", "duplicate", "empty", "batch",
                      "membership", "height", "manifest"}
  /\ prep.used \in 0..SpoolCap
  /\ builder.end \in 0..Len(prep.records)

(* An input is accepted exactly when it may be: the external sort          *)
(* (unique_ids) lets no identifier pass twice and never accuses distinct   *)
(* ones, an unterminated or oversized line is never taken for the end of   *)
(* the file (`line`), and an accepted YAML value, expanded, is within the  *)
(* budget of `yaml`.                                                       *)
PreparedIsWhole ==
  /\ phase \in {"pack", "verify", "published"} =>
       /\ [i \in DOMAIN prep.records |-> prep.records[i].case] = SourceCases
       /\ Distinct(SourceIds)
       /\ (source.format = "yaml" => /\ Weight(source.tree) <= YamlBudget
                                     /\ WellFormed(source.tree, 0))
  /\ prep.reason = "duplicate" => ~Distinct(SourceIds)
  /\ prep.reason = "header" /\ source.format = "yaml" =>
       \/ source.bytes > DocumentCap
       \/ Weight(source.tree) > YamlBudget
       \/ ~WellFormed(source.tree, 0)

(* The spool quota of unique_ids is the bytes really on disk: no file is   *)
(* charged twice or given back twice, so the subtraction of unsigned       *)
(* counters never wraps and the 8 GiB bound is the real one.               *)
SpoolAccounted ==
  phase # "refused" =>
    prep.used = FoldLeft(LAMBDA n, r : n + RecordBytes(r) + 1, 0, prep.records)
                + FileBytes(runs) + FileBytes(prep.level)
                + (IF phase \in {"read", "sort"} THEN Len(prep.records) * IdBytes ELSE 0)

(* A published dataset is the source, whole: the batches' ranges tile the  *)
(* cases in order, no packed file exceeds its limits, and the identity     *)
(* hashed record by record is that of the canonical document, so it does   *)
(* not depend on how the input was split.                                  *)
PublishedIsSource ==
  phase = "published" =>
    LET files == [i \in DOMAIN AllRows(ledger, "batch", 0, -1) |->
                    AllRows(ledger, "batch", 0, -1)[i].object]
    IN /\ FlattenSeq([i \in DOMAIN files |->
                        [j \in DOMAIN files[i].records |-> files[i].records[j].case]])
            = SourceCases
       /\ \A i \in DOMAIN files : BatchValid(files[i])
       /\ manifest.hash = Canonical(source.fields, SourceCases)

(* Nothing acceptable is refused late: a prepared input that fits the      *)
(* limits is never turned away by the packing, the read-back or the tree,  *)
(* except for a tree higher than admitted or a record that no batch holds. *)
NoLateRefusal == prep.reason \notin {"membership", "manifest"}
=============================================================================
