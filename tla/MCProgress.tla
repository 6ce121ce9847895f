----------------------------- MODULE MCProgress -----------------------------
(***************************************************************************)
(* What must happen in the end, for the components that promise it.  Each  *)
(* behaviour is one of the component that "part" names, on an instance     *)
(* small enough for TLC to search its fair behaviours; the components      *)
(* share the variables v1 to v11, in the order of their declaration, and   *)
(* leave alone those they do not use.  Every component keeps the fairness  *)
(* of its own module, restated here under its part.                        *)
(***************************************************************************)
EXTENDS Integers, Sequences, TLC

CONSTANTS
    none, s1, s2, c1, d1, r1, r2, p1, u1, w1, a1, a2, b1, b2, k1, q1, q2,
    t1, t2, x1, m1, m2, m3, e1, e2   \* names of processes, shards, keys, ...

VARIABLES part, v1, v2, v3, v4, v5, v6, v7, v8, v9, v10, v11

all == <<part, v1, v2, v3, v4, v5, v6, v7, v8, v9, v10, v11>>

(* The variables a part of 6, 7, 8 or 9 variables does not use.            *)
Free6 == v7 = 0 /\ v8 = 0 /\ v9 = 0 /\ v10 = 0 /\ v11 = 0
Free7 == v8 = 0 /\ v9 = 0 /\ v10 = 0 /\ v11 = 0
Free8 == v9 = 0 /\ v10 = 0 /\ v11 = 0
Free9 == v10 = 0 /\ v11 = 0

Rest6 == UNCHANGED <<part, v7, v8, v9, v10, v11>>
Rest7 == UNCHANGED <<part, v8, v9, v10, v11>>
Rest8 == UNCHANGED <<part, v9, v10, v11>>
Rest9 == UNCHANGED <<part, v10, v11>>
Rest11 == UNCHANGED part

Registry == INSTANCE RegistryValues
Agents == INSTANCE AgentValues

-----------------------------------------------------------------------------
(* Two shards, one whose receipts cannot be read.                          *)
Summary == INSTANCE ShardSummary WITH
    Shard <- {s1, s2}, Chunks <- 1, Coordinator <- {c1}, Nobody <- none, Poison <- {s2},
    PageRows <- 1, MaxPages <- 1, Parallelism <- 1, MaxFaults <- 1, MaxEpoch <- 2,
    admission <- v1, receipts <- v2, consumed <- v3, summaries <- v4, order <- v5,
    lock <- v6, passes <- v7, faults <- v8

SummaryFair ==
    /\ \A s \in {s1, s2} :
        /\ WF_all(part = "summary" /\ Summary!Prepare(s) /\ Rest8)
        /\ WF_all(part = "summary" /\ Summary!OpenMoved(s) /\ Rest8)
        /\ \A k \in Summary!Chunk :
             WF_all(part = "summary" /\ (\E r \in Summary!Result : Summary!Settle(s, k, r)) /\ Rest8)
        /\ WF_all(part = "summary" /\ Summary!ReadPage(c1, s) /\ Rest8)
        /\ WF_all(part = "summary" /\ Summary!ReadFails(c1, s) /\ Rest8)
        /\ WF_all(part = "summary" /\ Summary!StorePage(c1, s) /\ Rest8)
        /\ WF_all(part = "summary" /\ Summary!EmptyPage(c1, s) /\ Rest8)
        /\ WF_all(part = "summary" /\ Summary!Rotate(c1, s) /\ Rest8)
    /\ WF_all(part = "summary" /\ Summary!Discover(c1) /\ Rest8)
    /\ WF_all(part = "summary" /\ Summary!StartPage(c1) /\ Rest8)
    /\ WF_all(part = "summary" /\ Summary!EndPass(c1) /\ Rest8)

-----------------------------------------------------------------------------
(* Two runs, the first of which cannot be finalized.                       *)
Lifecycle == INSTANCE RunLifecycle WITH
    Run <- {r1, r2}, Shard <- {s1}, Database <- {d1}, Home <- s1 :> d1, Chunks <- 1,
    Window <- 1, Coordinator <- {c1}, Canceller <- {}, Nobody <- none, Poison <- {r1},
    MaxDispatch <- 2, MaxFinalize <- 1, MaxFaults <- 1, MaxEpoch <- 1, runs <- v1,
    cursors <- v2, beat <- v3, shards <- v4, outbox <- v5, coords <- v6, cancels <- v7,
    failures <- v8

LifecycleFair ==
    /\ WF_all(part = "lifecycle" /\ Lifecycle!Cycle(c1) /\ Rest8)
    /\ \A r \in {r1, r2} :
        /\ WF_all(part = "lifecycle" /\ Lifecycle!LeaseExpires(r) /\ Rest8)
        /\ WF_all(part = "lifecycle" /\ Lifecycle!SettleChunk(r, s1) /\ Rest8)
        /\ WF_all(part = "lifecycle" /\ Lifecycle!Seal(r, s1) /\ Rest8)

-----------------------------------------------------------------------------
(* A creator that may crash, a coordinator that recovers its plan.         *)
Admission == INSTANCE RunAdmission WITH
    Creator <- {p1}, Coordinator <- {c1}, Alias <- {a1, a2}, Control <- a1, Pages <- 2,
    Files <- 3, Group <- 2, PageBudget <- 1, Drainable <- {}, MaxGeneration <- 5,
    MaxFaults <- 1, run <- v1, plan <- v2, objects <- v3, probes <- v4, blobs <- v5,
    local <- v6, drained <- v7, routes <- v8, procs <- v9, cancel <- v10, faults <- v11

AdmissionFair ==
    /\ WF_all(part = "admission" /\ Admission!Recover(c1) /\ Rest11)
    /\ \A p \in {p1, c1} : WF_all(part = "admission" /\ Admission!Step(p) /\ Rest11)
    /\ WF_all(part = "admission" /\ Admission!Gone /\ Admission!LeaseExpires /\ Rest11)

-----------------------------------------------------------------------------
(* Two clients that share slots and spool bytes.                           *)
Blobs == INSTANCE BlobStorage WITH
    Client <- {b1, b2}, Key <- {k1}, Probe <- (b1 :> q1) @@ (b2 :> q2), Concurrency <- 2,
    Capacity <- 1, Requests <- 3, MaxOps <- 5, store <- v1, conditional <- v2, ops <- v3,
    connected <- v4, held <- v5, created <- v6, started <- v7

BlobsFair ==
    \A c \in {b1, b2} :
        /\ WF_all(part = "blobs" /\ Blobs!Interrupt(c) /\ Rest7)
        /\ WF_all(part = "blobs" /\ Blobs!ProbeCleanup(c) /\ Rest7)

-----------------------------------------------------------------------------
(* One uploader and a cleaner that removes one object at a time.           *)
Upload == INSTANCE DatasetUpload WITH
    Uploader <- {u1}, Cleaner <- {d1}, Nobody <- none, Batches <- 1, Group <- 2,
    CleanupLimit <- 1, LeaseTime <- 3, RequestTime <- 1, AdmissionTime <- 2,
    Quarantine <- 1, MaxGeneration <- 9, MaxFaults <- 1, Punctual <- TRUE, upload <- v1,
    objects <- v2, cleaned <- v3, blobs <- v4, catalog <- v5, procs <- v6, faults <- v7

UploadFair ==
    /\ \A p \in {u1, d1} :
        /\ WF_all(part = "upload" /\ Upload!Step(p) /\ Rest7)
        /\ WF_all(part = "upload" /\ Upload!CannotProceed(p) /\ Upload!Fail(p) /\ Rest7)
    /\ WF_all(part = "upload" /\ Upload!Claim(d1) /\ Rest7)
    /\ WF_all(part = "upload" /\ Upload!Tick /\ Rest7)

-----------------------------------------------------------------------------
(* Two chunks behind a window of one, and two workers whose connections    *)
(* drop.                                                                   *)
Windows == INSTANCE WorkDelivery WITH
    Chunk <- {1, 2}, Task <- {t1}, Coordinator <- {k1}, NoTask <- none,
    NoCoordinator <- none, NoMessage <- 0, WindowSize <- 1, MaxRecoveries <- 1,
    MaxRetries <- 0, MayDisconnect <- FALSE, MaxWaits <- 0, MaxFaults <- 1, DropFaults <- 1,
    cursor <- v1, dispatcher <- v2, chunks <- v3, outbox <- v4, claims <- v5, ready <- v6,
    delayed <- v7, tasks <- v8, faults <- v9

Disconnect == INSTANCE WorkDelivery WITH
    Chunk <- {1}, Task <- {t1, t2}, Coordinator <- {k1}, NoTask <- none,
    NoCoordinator <- none, NoMessage <- 0, WindowSize <- 1, MaxRecoveries <- 1,
    MaxRetries <- 1, MayDisconnect <- TRUE, MaxWaits <- 1, MaxFaults <- 1, DropFaults <- 1,
    cursor <- v1, dispatcher <- v2, chunks <- v3, outbox <- v4, claims <- v5, ready <- v6,
    delayed <- v7, tasks <- v8, faults <- v9

InWindows    == part = "windows" /\ Rest9
InDisconnect == part = "disconnect" /\ Rest9

WindowsFair ==
    /\ WF_all(InWindows /\ Windows!WorkerStep(t1))
    /\ WF_all(InWindows /\ (Windows!DispatchWindow(k1) \/ Windows!CommitCursor(k1)))
    /\ WF_all(InWindows /\ Windows!PublisherStep(k1))
    /\ \A c \in {1, 2} : /\ WF_all(InWindows /\ Windows!Recover(c))
                         /\ WF_all(InWindows /\ Windows!LeaseEnds(c))
    /\ \A e \in Windows!Event : WF_all(InWindows /\ Windows!BecomesAvailable(e))
    /\ \A m \in Windows!Message : WF_all(InWindows /\ Windows!DelayEnds(m))

DisconnectFair ==
    /\ \A t \in {t1, t2} : WF_all(InDisconnect /\ Disconnect!WorkerStep(t))
    /\ WF_all(InDisconnect /\ (Disconnect!DispatchWindow(k1) \/ Disconnect!CommitCursor(k1)))
    /\ WF_all(InDisconnect /\ Disconnect!PublisherStep(k1))
    /\ WF_all(InDisconnect /\ Disconnect!Recover(1))
    /\ WF_all(InDisconnect /\ Disconnect!LeaseEnds(1))
    /\ \A e \in Disconnect!Event : WF_all(InDisconnect /\ Disconnect!BecomesAvailable(e))
    /\ \A m \in Disconnect!Message : WF_all(InDisconnect /\ Disconnect!DelayEnds(m))

-----------------------------------------------------------------------------
(* One worker, two moves and two outages.                                  *)
Routing == INSTANCE DatabaseRouting WITH
    Worker <- {w1}, Dispatcher <- {}, Alias <- {a1, a2}, Control <- a1, Started <- {a1},
    Nobody <- none, Threshold <- 1, InitialOpen <- 1, MaxOpen <- 2, MaxMoves <- 2,
    MaxFaults <- 2, entries <- v1, route <- v2, local <- v3, registered <- v4,
    statics <- v5, dynamic <- v6, cache <- v7, callers <- v8, mover <- v9, down <- v10,
    faults <- v11

RoutingFair ==
    /\ WF_all(part = "routing" /\ Routing!Deliver(w1) /\ Rest11)
    /\ WF_all(part = "routing" /\ Routing!ClaimHinted(w1) /\ Rest11)
    /\ WF_all(part = "routing" /\ Routing!Step(w1) /\ Rest11)
    /\ \A a \in {a1, a2} :
        /\ WF_all(part = "routing" /\ Routing!Tick(a) /\ Rest11)
        /\ WF_all(part = "routing" /\ Routing!Restore(a) /\ Rest11)
    /\ WF_all(part = "routing" /\ Routing!Close /\ Rest11)
    /\ WF_all(part = "routing" /\ Routing!Activate /\ Rest11)
    /\ WF_all(part = "routing" /\ Routing!OpenTarget /\ Rest11)
    /\ WF_all(part = "routing" /\ Routing!CacheExpires /\ Rest11)

-----------------------------------------------------------------------------
(* Two evaluations that share one permit.                                  *)
Runtime == INSTANCE EvaluatorRegistry WITH
    Publisher <- {p1}, Installer <- {}, Task <- {t1, t2}, Run <- {r1},
    Sources <- Registry!OneSource, Releases <- {}, Adapter <- Registry!Adapter,
    Supports <- Registry!Supports({p1}), Links <- Registry!Links,
    Reports <- Registry!Reports, Permits <- 1, Fuel <- 1, TimeoutMs <- 10, TickMs <- 10,
    MaxStates <- 0, MaxFaults <- 0, rows <- v1, procs <- v2, files <- v3, plans <- v4,
    cells <- v5, cache <- v6, loading <- v7, tasks <- v8, results <- v9, states <- v10,
    faults <- v11

RuntimeFair ==
    /\ \A t \in {t1, t2} :
        /\ WF_all(part = "runtime" /\ Runtime!Proceed(t) /\ Rest11)
        /\ SF_all(part = "runtime" /\ Runtime!AcquirePermit(t) /\ Rest11)
    /\ WF_all(part = "runtime" /\ Runtime!Tick /\ Rest11)

-----------------------------------------------------------------------------
(* One execution, every profile, input, clock and answer.                  *)
Agent == INSTANCE AgentClient WITH
    Execution <- {x1}, Profiles <- Agents!Profiles, Inputs <- Agents!Inputs,
    Replies <- Agents!Replies, Ceiling <- Agents!Ceiling, Envelope <- 1, DefaultAfter <- 3,
    LimitAfter <- 10, Base <- 1, Cap <- 2, Skews <- {-2, 0, 2}, Parallelism <- 1,
    MaxFaults <- 1, profile <- v1, input <- v2, skew <- v3, execs <- v4, calls <- v5,
    advice <- v6, faults <- v7

AgentFair ==
    /\ WF_all(part = "agent" /\ Agent!Allocate /\ Rest7)
    /\ WF_all(part = "agent" /\ Agent!Persist /\ Rest7)
    /\ WF_all(part = "agent" /\ Agent!Send(x1) /\ Rest7)
    /\ WF_all(part = "agent" /\ Agent!TimesOut(x1) /\ Rest7)
    /\ WF_all(part = "agent" /\ Agent!Tick /\ Rest7)

-----------------------------------------------------------------------------
(* Three messages, one of them broken, and the three services.             *)
Service == INSTANCE WorkerService WITH
    Message <- {m1, m2, m3}, Broken <- {m3}, Modes <- {"worker", "once", "coordinator"},
    Slot <- {s1, s2}, MaxDelay <- 2, StopTime <- 2, MaxFaults <- 2, mode <- v1, queue <- v2,
    pc <- v3, tasks <- v4, delay <- v5, fresh <- v6, signal <- v7, waited <- v8, exit <- v9,
    dropped <- v10, faults <- v11

ServiceFair ==
    /\ WF_all(part = "service" /\ Service!Progress /\ Rest11)
    /\ WF_all(part = "service" /\ (Service!Clock \/ Service!TimesOut) /\ Rest11)

-----------------------------------------------------------------------------
(* A watch with a deadline.                                                *)
Reporting == INSTANCE RunReporting WITH
    Exec <- {1}, Shard <- {1}, ShardOf <- 1 :> 1, Placed <- 1 :> 1, Alias <- {1, 2},
    MaxAttempts <- 1, BatchSize <- 1, Commands <- {"watch"}, Timeout <- 2, Interval <- 1,
    MaxMoves <- 1, MaxFaults <- 1, run <- v1, route <- v2, rows <- v3, reader <- v4,
    moves <- v5, faults <- v6, target <- v7

ReportingFair ==
    WF_all(part = "reporting" /\ Reporting!Command /\ Rest7)

-----------------------------------------------------------------------------
(* Two samples of two requests.                                            *)
Harness == INSTANCE PerfHarness WITH
    Component <- {e1, e2}, Foreign <- {TRUE, FALSE}, Samples <- 2, Requests <- 2,
    MaxFaults <- 2, topology <- v1, server <- v2, tracked <- v3, runner <- v4, procs <- v5,
    requests <- v6, counted <- v7, measured <- v8, faults <- v9

HarnessFair ==
    WF_all(part = "harness" /\ Harness!Campaign /\ Rest9)

-----------------------------------------------------------------------------
Init ==
    \/ part = "summary" /\ Summary!Init /\ Free8
    \/ part = "lifecycle" /\ Lifecycle!Init /\ Free8
    \/ part = "admission" /\ Admission!Init
    \/ part = "blobs" /\ Blobs!Init /\ Free7
    \/ part = "upload" /\ Upload!Init /\ Free7
    \/ part = "windows" /\ Windows!Init /\ Free9
    \/ part = "disconnect" /\ Disconnect!Init /\ Free9
    \/ part = "routing" /\ Routing!Init
    \/ part = "runtime" /\ Runtime!Init
    \/ part = "agent" /\ Agent!Init /\ Free7
    \/ part = "service" /\ Service!Init
    \/ part = "reporting" /\ Reporting!Init /\ Free7
    \/ part = "harness" /\ Harness!Init /\ Free9

Next ==
    \/ part = "summary" /\ Summary!Next /\ Rest8
    \/ part = "lifecycle" /\ Lifecycle!Next /\ Rest8
    \/ part = "admission" /\ Admission!Next /\ Rest11
    \/ part = "blobs" /\ Blobs!Next /\ Rest7
    \/ part = "upload" /\ Upload!Next /\ Rest7
    \/ InWindows /\ Windows!Next
    \/ InDisconnect /\ Disconnect!Next
    \/ part = "routing" /\ Routing!Next /\ Rest11
    \/ part = "runtime" /\ Runtime!Next /\ Rest11
    \/ part = "agent" /\ Agent!Next /\ Rest7
    \/ part = "service" /\ Service!Next /\ Rest11
    \/ part = "reporting" /\ Reporting!Next /\ Rest7
    \/ part = "harness" /\ Harness!Next /\ Rest9

Fairness ==
    /\ SummaryFair /\ LifecycleFair /\ AdmissionFair /\ BlobsFair
    /\ UploadFair /\ WindowsFair /\ DisconnectFair /\ RoutingFair
    /\ RuntimeFair /\ AgentFair /\ ServiceFair /\ ReportingFair /\ HarnessFair

Spec == Init /\ [][Next]_all /\ Fairness

-----------------------------------------------------------------------------
(* Every shard whose receipts can be read is sealed, every run that can be *)
(* finalized ends, and a requested run leaves creation: beside shards and  *)
(* runs that fail on every visit, and whatever crashes or loses its lease. *)
RunsEnd ==
    (\/ part = "summary"
     \/ part = "lifecycle"
     \/ part = "admission" /\ Admission!Requested)
    ~> (\/ part = "summary" /\ Summary!Sealed(s1)
        \/ part = "lifecycle" /\ Lifecycle!Ended(r2)
        \/ part = "admission" /\ Admission!Settled)

(* Every storage operation ends although clients wait for slots and spool  *)
(* bytes that others hold while they wait themselves (the clients are      *)
(* interchangeable), and an upload that was given up is cleaned by the     *)
(* cleaner, one page at a time.                                            *)
UploadsEnd ==
    (\/ part = "blobs" /\ ~Blobs!Resting(b1)
     \/ part = "upload" /\ Upload!Dead)
    ~> (\/ part = "blobs" /\ Blobs!Resting(b1)
        \/ part = "upload" /\ Upload!Cleaned)

(* Every worker claims at the owner of its shard in the end, past open     *)
(* circuits, dropped probes, moves and outages, every delivery is settled  *)
(* or quarantined unless the service was told to stop, and once every      *)
(* chunk is settled the dispatcher, the outbox, the queues and the workers *)
(* come to rest for good: WorkDrains of WorkDelivery.                      *)
MessagesSettle ==
    /\ (\/ part = "routing"
        \/ part = "service")
       ~> (\/ part = "routing" /\ Routing!Claimed(w1)
           \/ part = "service" /\ (\A m \in {m1, m2, m3} : Service!Settled(m)))
    /\ <>[](/\ part = "windows" => Windows!Quiet
            /\ part = "disconnect" => Disconnect!Quiet)

(* What was begun comes to an end.  Every evaluation and every execution   *)
(* does (the evaluating tasks are interchangeable): no permit, shared      *)
(* load, trap, endless or silent answer holds one for ever.  And so does   *)
(* what an operator waits for: a service that was signalled stops, a watch *)
(* with a timeout returns and a measurement campaign is over, whatever the *)
(* run, the broker and the child processes do.                             *)
CommandsEnd ==
    (\/ part = "runtime" /\ ~Runtime!Resting(t1)
     \/ part = "agent"
     \/ part = "service" /\ Service!Signalled
     \/ part = "reporting" /\ Reporting!WatchTimed
     \/ part = "harness")
    ~> (\/ part = "runtime" /\ Runtime!Resting(t1)
        \/ part = "agent" /\ Agent!Ended(x1)
        \/ part = "service" /\ Service!Stopped
        \/ part = "reporting" /\ Reporting!Reported
        \/ part = "harness" /\ Harness!Ended)
=============================================================================
