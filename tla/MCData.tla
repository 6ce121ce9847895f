------------------------------- MODULE MCData -------------------------------
(***************************************************************************)
(* The components that store, evaluate, execute, report and measure, each  *)
(* on a small instance. A behaviour is one of the component that part      *)
(* names; the components share the variables v1 to v11, in the order of    *)
(* their declaration, and leave alone those they do not use. The           *)
(* properties are those of the modules, under their part.                  *)
(***************************************************************************)
EXTENDS Integers, Sequences, TLC

CONSTANTS
    none, s1, s2, c1, c2, r1, r2, p1, q1, q2, b1, b2, k1, u1, u2, d1, t1,
    t2, x1, m1, m2, m3, e1, e2   \* names of processes, shards, keys, ...

VARIABLES
    part, v1, v2, v3, v4, v5, v6, v7, v8, v9, v10, v11

all == <<part, v1, v2, v3, v4, v5, v6, v7, v8, v9, v10, v11>>

(* What a part leaves alone, by the number of variables it has.            *)
Free3 == v4 = 0 /\ v5 = 0 /\ v6 = 0 /\ v7 = 0 /\ v8 = 0 /\ v9 = 0 /\ v10 = 0 /\ v11 = 0
Free5 == v6 = 0 /\ v7 = 0 /\ v8 = 0 /\ v9 = 0 /\ v10 = 0 /\ v11 = 0
Free6 == v7 = 0 /\ v8 = 0 /\ v9 = 0 /\ v10 = 0 /\ v11 = 0
Free7 == v8 = 0 /\ v9 = 0 /\ v10 = 0 /\ v11 = 0
Free9 == v10 = 0 /\ v11 = 0
Free10 == v11 = 0

Rest3 == UNCHANGED <<part, v4, v5, v6, v7, v8, v9, v10, v11>>
Rest5 == UNCHANGED <<part, v6, v7, v8, v9, v10, v11>>
Rest6 == UNCHANGED <<part, v7, v8, v9, v10, v11>>
Rest7 == UNCHANGED <<part, v8, v9, v10, v11>>
Rest9 == UNCHANGED <<part, v10, v11>>
Rest10 == UNCHANGED <<part, v11>>
Rest11 == UNCHANGED part

Cases == INSTANCE CaseValues
Evaluations == INSTANCE EvaluationValues
Packages == INSTANCE RegistryValues
Agents == INSTANCE AgentValues

(* Files of every kind, well-formed or not, into a published dataset.      *)
Files == INSTANCE CaseFiles WITH
    Sources <- Cases!Sources, MaxCases <- 2, MaxBytes <- 14, HeaderBytes <- 2,
    Envelope <- 1, PageEntries <- 2, PageBytes <- 11, PageHeader <- 2, EntryBytes <- 3,
    IndexHeight <- 2, RowPage <- 2, RunIds <- 2, FanIn <- 2, IdBytes <- 2, SpoolCap <- 52,
    DocumentCap <- 8, YamlBudget <- 16, NodeBytes <- 2, YamlDepth <- 4, source <- v1,
    phase <- v2, prep <- v3, runs <- v4, builder <- v5, ledger <- v6, manifest <- v7

(* Up to six cases of two sizes, planned, published and read back by a     *)
(* worker.                                                                 *)
Plan == INSTANCE CasePlan WITH
    Sources <- Cases!BySize(6), MaxCases <- 2, MaxBytes <- 14, HeaderBytes <- 2,
    Envelope <- 1, PageEntries <- 2, PageBytes <- 11, PageHeader <- 2, EntryBytes <- 3,
    IndexHeight <- 3, RowPage <- 2, RunIds <- 2, FanIn <- 2, IdBytes <- 2, SpoolCap <- 80,
    DocumentCap <- 8, YamlBudget <- 16, NodeBytes <- 2, YamlDepth <- 4, ChunkCases <- 2,
    ShardCount <- 3, Aliases <- <<"x", "y">>, Gates <- <<"g1", "g2", "g3">>,
    MaxResident <- 28, ResidentBytes <- 20, source <- v1, phase <- v2, prep <- v3,
    runs <- v4, builder <- v5, ledger <- v6, manifest <- v7, acc <- v8, written <- v9,
    plan <- v10, worker <- v11

(* Two readers over five files, one of which is too large.                 *)
Cache == INSTANCE ReadCache WITH
    Reader <- {r1, r2}, File <- 1..5, Charge <- <<2, 3, 4, 1, 1>>, TooLarge <- {5},
    Capacity <- 6, MaxEntries <- 2, entries <- v1, charged <- v2, reading <- v3

(* Two clients of one bucket, a create whose answer may be lost.           *)
Blobs == INSTANCE BlobStorage WITH
    Client <- {b1, b2}, Key <- {k1}, Probe <- (b1 :> q1) @@ (b2 :> q2), Concurrency <- 2,
    Capacity <- 1, Requests <- 3, MaxOps <- 5, store <- v1, conditional <- v2, ops <- v3,
    connected <- v4, held <- v5, created <- v6, started <- v7

(* Two uploaders, of which one resumes late, and a cleaner.                *)
Upload == INSTANCE DatasetUpload WITH
    Uploader <- {u1, u2}, Cleaner <- {d1}, Nobody <- none, Batches <- 2, Group <- 2,
    CleanupLimit <- 6, LeaseTime <- 3, RequestTime <- 1, AdmissionTime <- 2,
    Quarantine <- 1, MaxGeneration <- 3, MaxFaults <- 0, Punctual <- FALSE, upload <- v1,
    objects <- v2, cleaned <- v3, blobs <- v4, catalog <- v5, procs <- v6, faults <- v7

(* Profiles with shared bindings, tags, gates and an unsound policy; every *)
(* reply.                                                                  *)
Scores == INSTANCE Evaluation WITH
    Unit <- 2, Drafts <- Evaluations!Drafts, Registry <- Evaluations!Registered,
    Replies <- Evaluations!Replies, Values <- 0..5, Workers <- 1, ChunkCases <- 1,
    ShardCount <- 2, profile <- v1, cases <- v2, phase <- v3, planned <- v4, chunks <- v5,
    execs <- v6, work <- v7, receipts <- v8, summaries <- v9, verdict <- v10

(* A publisher and an installer over packages that agree and disagree.     *)
Publish == INSTANCE EvaluatorRegistry WITH
    Publisher <- {p1}, Installer <- {q1}, Task <- {}, Run <- {r1},
    Sources <- Packages!Sources, Releases <- Packages!Releases, Adapter <- Packages!Adapter,
    Supports <- Packages!Supports({p1, q1}), Links <- Packages!Links,
    Reports <- Packages!Reports, Permits <- 1, Fuel <- 1, TimeoutMs <- 15, TickMs <- 10,
    MaxStates <- 0, MaxFaults <- 1, rows <- v1, procs <- v2, files <- v3, plans <- v4,
    cells <- v5, cache <- v6, loading <- v7, tasks <- v8, results <- v9, states <- v10,
    faults <- v11

(* A task that evaluates with two pinned evaluators.                       *)
Pinned == INSTANCE EvaluatorRegistry WITH
    Publisher <- {p1}, Installer <- {}, Task <- {t1}, Run <- {r1},
    Sources <- Packages!TwoSources, Releases <- {}, Adapter <- Packages!Adapter,
    Supports <- Packages!Supports({p1, q1}), Links <- Packages!Links,
    Reports <- Packages!Reports, Permits <- 1, Fuel <- 1, TimeoutMs <- 10, TickMs <- 10,
    MaxStates <- 0, MaxFaults <- 0, rows <- v1, procs <- v2, files <- v3, plans <- v4,
    cells <- v5, cache <- v6, loading <- v7, tasks <- v8, results <- v9, states <- v10,
    faults <- v11

(* Two tasks that share a load and a permit; one may be dropped, an        *)
(* operator changes states.                                                *)
Runtime == INSTANCE EvaluatorRegistry WITH
    Publisher <- {p1}, Installer <- {}, Task <- {t1, t2}, Run <- {r1},
    Sources <- Packages!OneSource, Releases <- {}, Adapter <- Packages!Adapter,
    Supports <- Packages!Supports({p1, q1}), Links <- Packages!Links,
    Reports <- Packages!Reports, Permits <- 1, Fuel <- 1, TimeoutMs <- 10, TickMs <- 10,
    MaxStates <- 2, MaxFaults <- 1, rows <- v1, procs <- v2, files <- v3, plans <- v4,
    cells <- v5, cache <- v6, loading <- v7, tasks <- v8, results <- v9, states <- v10,
    faults <- v11

(* One execution, every profile, input, clock and answer.                  *)
Agent == INSTANCE AgentClient WITH
    Execution <- {x1}, Profiles <- Agents!Profiles, Inputs <- Agents!Inputs,
    Replies <- Agents!Replies, Ceiling <- Agents!Ceiling, Envelope <- 1, DefaultAfter <- 3,
    LimitAfter <- 10, Base <- 1, Cap <- 2, Skews <- {-2, 0, 2}, Parallelism <- 1,
    MaxFaults <- 1, profile <- v1, input <- v2, skew <- v3, execs <- v4, calls <- v5,
    advice <- v6, faults <- v7

(* Three messages, one of them broken, and the three services.             *)
Service == INSTANCE WorkerService WITH
    Message <- {m1, m2, m3}, Broken <- {m3}, Modes <- {"worker", "once", "coordinator"},
    Slot <- {s1, s2}, MaxDelay <- 2, StopTime <- 2, MaxFaults <- 2, mode <- v1, queue <- v2,
    pc <- v3, tasks <- v4, delay <- v5, fresh <- v6, signal <- v7, waited <- v8, exit <- v9,
    dropped <- v10, faults <- v11

(* Two executions on two shards, read by every command.                    *)
Report == INSTANCE RunReporting WITH
    Exec <- {1, 2}, Shard <- {1, 2}, ShardOf <- <<2, 1>>, Placed <- <<2, 1>>, Alias <- {1,
    2}, MaxAttempts <- 1, BatchSize <- 1, Commands <- {"results", "export"}, Timeout <- 0,
    Interval <- 1, MaxMoves <- 0, MaxFaults <- 0, run <- v1, route <- v2, rows <- v3,
    reader <- v4, moves <- v5, faults <- v6, target <- v7

(* One execution that is retried on a shard that moves, and moves back,    *)
(* while it is read.                                                       *)
Moving == INSTANCE RunReporting WITH
    Exec <- {1}, Shard <- {1}, ShardOf <- <<1>>, Placed <- <<1>>, Alias <- {1, 2},
    MaxAttempts <- 2, BatchSize <- 1, Commands <- {"status", "watch"}, Timeout <- 0,
    Interval <- 1, MaxMoves <- 2, MaxFaults <- 0, run <- v1, route <- v2, rows <- v3,
    reader <- v4, moves <- v5, faults <- v6, target <- v7

(* One execution, exported while its shard moves, and moves back.          *)
Exported == INSTANCE RunReporting WITH
    Exec <- {1}, Shard <- {1}, ShardOf <- <<1>>, Placed <- <<1>>, Alias <- {1, 2},
    MaxAttempts <- 1, BatchSize <- 1, Commands <- {"results", "export"}, Timeout <- 0,
    Interval <- 1, MaxMoves <- 2, MaxFaults <- 1, run <- v1, route <- v2, rows <- v3,
    reader <- v4, moves <- v5, faults <- v6, target <- v7

(* Two campaigns on one host over two builds, one slower.                  *)
Campaign == INSTANCE PerfCampaign WITH
    Campaign <- {c1, c2}, Nobody <- none, Build <- {"b1"}, Slower <- [b \in {"b1", "base"}
    |-> IF b = "b1" THEN 3 ELSE 0], Seed <- {1, 2}, FirstIsAbba <- <<TRUE, FALSE>>,
    Modes <- {"single", "reliability", "compare", "gate"}, Workloads <- 1, Blocks <- 2,
    Drifts <- {2}, Noise <- {0, 5}, Budget <- 4, Residual <- 12, Overlap <- 1, MaxFaults <- 1,
    lock <- v1, camps <- v2, dirs <- v3, disk <- v4, faults <- v5

(* Two samples of two requests, a topology that may have foreign           *)
(* resources.                                                              *)
Harness == INSTANCE PerfHarness WITH
    Component <- {e1, e2}, Foreign <- {TRUE, FALSE}, Samples <- 2, Requests <- 2,
    MaxFaults <- 2, topology <- v1, server <- v2, tracked <- v3, runner <- v4, procs <- v5,
    requests <- v6, counted <- v7, measured <- v8, faults <- v9

-----------------------------------------------------------------------------
Init ==
    \/ part = "files" /\ Files!Init /\ Free7
    \/ part = "plan" /\ Plan!PlanInit
    \/ part = "cache" /\ Cache!Init /\ Free3
    \/ part = "blobs" /\ Blobs!Init /\ Free7
    \/ part = "upload" /\ Upload!Init /\ Free7
    \/ part = "scores" /\ Scores!Init /\ Free10
    \/ part = "publish" /\ Publish!Init
    \/ part = "pinned" /\ Pinned!Init
    \/ part = "runtime" /\ Runtime!Init
    \/ part = "agent" /\ Agent!Init /\ Free7
    \/ part = "service" /\ Service!Init
    \/ part = "report" /\ Report!Init /\ Free7
    \/ part = "moving" /\ Moving!Init /\ Free7
    \/ part = "exported" /\ Exported!Init /\ Free7
    \/ part = "campaign" /\ Campaign!Init /\ Free5
    \/ part = "harness" /\ Harness!Init /\ Free9

Next ==
    \/ part = "files" /\ Files!Next /\ Rest7
    \/ part = "plan" /\ Plan!PlanNext /\ Rest11
    \/ part = "cache" /\ Cache!Next /\ Rest3
    \/ part = "blobs" /\ Blobs!Next /\ Rest7
    \/ part = "upload" /\ Upload!Next /\ Rest7
    \/ part = "scores" /\ Scores!Next /\ Rest10
    \/ part = "publish" /\ Publish!Next /\ Rest11
    \/ part = "pinned" /\ Pinned!Next /\ Rest11
    \/ part = "runtime" /\ Runtime!Next /\ Rest11
    \/ part = "agent" /\ Agent!Next /\ Rest7
    \/ part = "service" /\ Service!Next /\ Rest11
    \/ part = "report" /\ Report!Next /\ Rest7
    \/ part = "moving" /\ Moving!Next /\ Rest7
    \/ part = "exported" /\ Exported!Next /\ Rest7
    \/ part = "campaign" /\ Campaign!Next /\ Rest5
    \/ part = "harness" /\ Harness!Next /\ Rest9

Spec == Init /\ [][Next]_all

-----------------------------------------------------------------------------
(* Every variable has its type, and counters of slots, spool bytes,        *)
(* requests, attempts and pages stay within their limits.                  *)
DataTypeOK ==
    /\ part = "files" => Files!TypeOK
    /\ part = "plan" => Plan!PlanTypeOK
    /\ part = "cache" => Cache!TypeOK
    /\ part = "blobs" => Blobs!TypeOK
    /\ part = "upload" => Upload!TypeOK
    /\ part = "scores" => Scores!TypeOK
    /\ part = "publish" => Publish!TypeOK
    /\ part = "pinned" => Pinned!TypeOK
    /\ part = "runtime" => Runtime!TypeOK
    /\ part = "agent" => Agent!TypeOK
    /\ part = "service" => Service!TypeOK
    /\ part = "report" => Report!TypeOK
    /\ part = "moving" => Moving!TypeOK
    /\ part = "exported" => Exported!TypeOK
    /\ part = "campaign" => Campaign!TypeOK
    /\ part = "harness" => Harness!TypeOK

(* What is stored is the source, whole and readable: a prepared and a      *)
(* published dataset has every case once, a plan can be read back by its   *)
(* readers, caches and residents stay within their budgets, only verified  *)
(* bytes are used, an acknowledged upload is stored, a stale uploader      *)
(* writes nothing, and nothing is left of what was cleaned.                *)
StoredIsWhole ==
    /\ part = "files" =>
           /\ Files!PreparedIsWhole /\ Files!SpoolAccounted /\ Files!PublishedIsSource
           /\ Files!NoLateRefusal
    /\ part = "plan" => Plan!PlanIsReadable /\ Plan!ChunkIsItsCases /\ Plan!ResidentIsBounded
    /\ part = "cache" => Cache!CacheIsExact
    /\ part = "blobs" => Blobs!OnlyVerifiedBytes
    /\ part = "upload" =>
           /\ Upload!NoStaleWrite /\ Upload!AcknowledgedIsStored /\ Upload!CleanedIsGone

(* The verdict of a run is the one computed directly from its executions,  *)
(* however the cases were split into chunks and shards; a pass was earned  *)
(* by scored evaluations, and scores keep to their policy.                 *)
VerdictIsSound ==
    /\ part = "scores" =>
           /\ Scores!VerdictIsDirect /\ Scores!PassIsEarned /\ Scores!SettledFolds
           /\ Scores!ScoreIsLawful

(* A worker evaluates with the artifact and adapter that were pinned,      *)
(* whatever was published, cached, evicted or dropped meanwhile; a version *)
(* is published once, an installed collection is its catalog, a package is *)
(* portable, and evaluations keep to the permits.                          *)
RunsWhatWasPinned ==
    /\ part = "publish" =>
           /\ Publish!RunsWhatWasPinned /\ Publish!PublishedOnce /\ Publish!InstalledIsCatalog
           /\ Publish!PackagedIsPortable /\ Publish!EvaluationsBounded
    /\ part = "pinned" =>
           /\ Pinned!RunsWhatWasPinned /\ Pinned!PublishedOnce /\ Pinned!InstalledIsCatalog
           /\ Pinned!PackagedIsPortable /\ Pinned!EvaluationsBounded
    /\ part = "runtime" =>
           /\ Runtime!RunsWhatWasPinned /\ Runtime!PublishedOnce /\ Runtime!InstalledIsCatalog
           /\ Runtime!PackagedIsPortable /\ Runtime!EvaluationsBounded

(* A retry is planned within the horizon and an answer is kept within its  *)
(* limit; a delivery the broker counts as held has a live task, and a      *)
(* service that stops cleanly has dropped nothing.                         *)
WorkersKeepLimits ==
    /\ part = "agent" => Agent!RetryWithinHorizon /\ Agent!AnswersBounded
    /\ part = "service" => Service!CleanStopDrops /\ Service!HeldHasTask

(* What a command reports of a completed run is final and whole:           *)
(* authoritative rows, exports and reports do not depend on when shards    *)
(* were read, where they are or in which order, as long as no shard moved  *)
(* back to a database the command still reads; a report that has a summary *)
(* of every shard is final even then.                                      *)
ReportsAreFinal ==
    /\ part = "report" =>
           /\ Report!AuthoritativeIsFinal /\ Report!CompletedExportIsWhole
           /\ Report!CompletedReportIsFinal
    /\ part = "moving" =>
           /\ Moving!AuthoritativeIsFinal /\ Moving!CompletedExportIsWhole
           /\ Moving!CompletedReportIsFinal
    /\ part = "exported" =>
           /\ Exported!AuthoritativeIsFinal /\ Exported!CompletedExportIsWhole
           /\ Exported!CompletedReportIsFinal

(* A measurement is of what it claims: steady drift cancels, a regression  *)
(* is confirmed by an independent campaign, a pass was measured on the     *)
(* unchanged executable, journals agree after a crash, and a sample starts *)
(* quiet and counts its own requests.                                      *)
MeasuredIsSound ==
    /\ part = "campaign" =>
           /\ Campaign!DriftCancels /\ Campaign!RegressionIsConfirmed
           /\ Campaign!PassIsMeasured /\ Campaign!JournalsAgree
    /\ part = "harness" =>
           /\ Harness!SampleIsQuiet /\ Harness!MeasuredIsOwn

(* Steps that would take back what others rely on do not happen: a stored  *)
(* object is not overwritten, a published evaluator is not changed, a      *)
(* watch does not go back, and a retry is not sent before the server asked *)
(* for it.                                                                 *)
NeverTakenBack ==
    [][/\ part = "blobs" => Blobs!StoredIsImmutableStep
       /\ part = "publish" => Publish!PublishedIsImmutableStep
       /\ part = "pinned" => Pinned!PublishedIsImmutableStep
       /\ part = "runtime" => Runtime!PublishedIsImmutableStep
       /\ part = "agent" => Agent!RetriesObeyServerStep
       /\ part = "moving" => Moving!WatchNeverGoesBackStep]_all
=============================================================================
