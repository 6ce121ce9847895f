----------------------------- MODULE MCControl ------------------------------
(***************************************************************************)
(* The components around the control database, each on a small instance. A *)
(* behaviour is one of the component that part names; the components share *)
(* the variables v1 to v12, in the order of their declaration, and leave   *)
(* alone those they do not use. The properties are those of the modules,   *)
(* under their part.                                                       *)
(***************************************************************************)
EXTENDS Integers, Sequences, TLC

CONSTANTS
    none, s1, s2, c1, c2, r1, p1, a1, a2, k1, m1, m2, w1, w2, d1
    \* names of processes, shards, keys, ...

VARIABLES
    part, v1, v2, v3, v4, v5, v6, v7, v8, v9, v10, v11, v12

all == <<part, v1, v2, v3, v4, v5, v6, v7, v8, v9, v10, v11, v12>>

(* What a part leaves alone, by the number of variables it has.            *)
Free8 == v9 = 0 /\ v10 = 0 /\ v11 = 0 /\ v12 = 0
Free10 == v11 = 0 /\ v12 = 0
Free11 == v12 = 0

Rest8 == UNCHANGED <<part, v9, v10, v11, v12>>
Rest10 == UNCHANGED <<part, v11, v12>>
Rest11 == UNCHANGED <<part, v12>>
Rest12 == UNCHANGED part

(* Two coordinators over the receipts of one shard that may move.          *)
Summary == INSTANCE ShardSummary WITH
    Shard <- {s1}, Chunks <- 2, Coordinator <- {c1, c2}, Nobody <- none, Poison <- {},
    PageRows <- 1, MaxPages <- 2, Parallelism <- 1, MaxFaults <- 1, MaxEpoch <- 2,
    admission <- v1, receipts <- v2, consumed <- v3, summaries <- v4, order <- v5,
    lock <- v6, passes <- v7, faults <- v8

(* A run on two shards in two databases, one of which fails.               *)
Split == INSTANCE RunLifecycle WITH
    Run <- {r1}, Shard <- {s1, s2}, Database <- {a1, a2}, Home <- (s1 :> a1) @@ (s2 :> a2),
    Chunks <- 1, Window <- 1, Coordinator <- {c1}, Canceller <- {k1}, Nobody <- none,
    Poison <- {}, MaxDispatch <- 1, MaxFinalize <- 1, MaxFaults <- 1, MaxEpoch <- 1,
    runs <- v1, cursors <- v2, beat <- v3, shards <- v4, outbox <- v5, coords <- v6,
    cancels <- v7, failures <- v8

(* A creator and a coordinator admit a run of three files while a database *)
(* may be drained.                                                         *)
Admission == INSTANCE RunAdmission WITH
    Creator <- {p1}, Coordinator <- {c1}, Alias <- {a1, a2}, Control <- a1, Pages <- 2,
    Files <- 3, Group <- 2, PageBudget <- 1, Drainable <- {a2}, MaxGeneration <- 5,
    MaxFaults <- 1, run <- v1, plan <- v2, objects <- v3, probes <- v4, blobs <- v5,
    local <- v6, drained <- v7, routes <- v8, procs <- v9, cancel <- v10, faults <- v11

(* A move that crashes once and is retried, rows written all along.        *)
Move == INSTANCE ShardMove WITH
    Alias <- {a1, a2}, Physical <- (a1 :> a1) @@ (a2 :> a2), Control <- a1, Keys <- 1,
    Mover <- {m1}, Aborter <- p1, Nobody <- none, OnlineBatches <- 1, FinalKeyLimit <- 1,
    MaxMoves <- 1, MaxClaims <- 2, MaxAborts <- 0, MaxFaults <- 1, route <- v1, ops <- v2,
    admission <- v3, rows <- v4, capture <- v5, dirty <- v6, truth <- v7, fence <- v8,
    movers <- v9, aborter <- v10, aborts <- v11, faults <- v12

(* Two movers of one shard, of which one takes over the claim; no rows.    *)
Race == INSTANCE ShardMove WITH
    Alias <- {a1, a2}, Physical <- (a1 :> a1) @@ (a2 :> a2), Control <- a1, Keys <- 0,
    Mover <- {m1, m2}, Aborter <- p1, Nobody <- none, OnlineBatches <- 1,
    FinalKeyLimit <- 1, MaxMoves <- 1, MaxClaims <- 2, MaxAborts <- 0, MaxFaults <- 0,
    route <- v1, ops <- v2, admission <- v3, rows <- v4, capture <- v5, dirty <- v6,
    truth <- v7, fence <- v8, movers <- v9, aborter <- v10, aborts <- v11, faults <- v12

(* A move that is aborted and tried again; the commands may stop anywhere. *)
Abort == INSTANCE ShardMove WITH
    Alias <- {a1, a2}, Physical <- (a1 :> a1) @@ (a2 :> a2), Control <- a1, Keys <- 0,
    Mover <- {m1}, Aborter <- p1, Nobody <- none, OnlineBatches <- 1, FinalKeyLimit <- 1,
    MaxMoves <- 1, MaxClaims <- 2, MaxAborts <- 1, MaxFaults <- 1, route <- v1, ops <- v2,
    admission <- v3, rows <- v4, capture <- v5, dirty <- v6, truth <- v7, fence <- v8,
    movers <- v9, aborter <- v10, aborts <- v11, faults <- v12

(* The same between two names of one database.                             *)
Rename == INSTANCE ShardMove WITH
    Alias <- {a1, a2}, Physical <- (a1 :> a1) @@ (a2 :> a1), Control <- a1, Keys <- 0,
    Mover <- {m1}, Aborter <- p1, Nobody <- none, OnlineBatches <- 1, FinalKeyLimit <- 1,
    MaxMoves <- 1, MaxClaims <- 2, MaxAborts <- 1, MaxFaults <- 1, route <- v1, ops <- v2,
    admission <- v3, rows <- v4, capture <- v5, dirty <- v6, truth <- v7, fence <- v8,
    movers <- v9, aborter <- v10, aborts <- v11, faults <- v12

(* A mover that dies, an abort that may die too, and a second move.        *)
Rescue == INSTANCE ShardMove WITH
    Alias <- {a1, a2}, Physical <- (a1 :> a1) @@ (a2 :> a2), Control <- a1, Keys <- 0,
    Mover <- {m1}, Aborter <- p1, Nobody <- none, OnlineBatches <- 1, FinalKeyLimit <- 1,
    MaxMoves <- 2, MaxClaims <- 2, MaxAborts <- 1, MaxFaults <- 2, route <- v1, ops <- v2,
    admission <- v3, rows <- v4, capture <- v5, dirty <- v6, truth <- v7, fence <- v8,
    movers <- v9, aborter <- v10, aborts <- v11, faults <- v12

(* An administrator and a rebalance worker over two databases.             *)
Topology == INSTANCE Topology WITH
    Alias <- {a1, a2}, Control <- a1, Rank <- (a1 :> 1) @@ (a2 :> 2), Shards <- 1,
    Admin <- {p1}, Worker <- {w1}, Nobody <- none, MaxItems <- 1, MaxVersion <- 6,
    MaxClaims <- 2, MaxFaults <- 1, dbs <- v1, routes <- v2, local <- v3, rows <- v4,
    outbox <- v5, op <- v6, items <- v7, admins <- v8, workers <- v9, faults <- v10

(* Two rebalance workers, of which one may take over the item of the       *)
(* other.                                                                  *)
Rebalance == INSTANCE Topology WITH
    Alias <- {a1, a2}, Control <- a1, Rank <- (a1 :> 1) @@ (a2 :> 2), Shards <- 1,
    Admin <- {p1}, Worker <- {w1, w2}, Nobody <- none, MaxItems <- 1, MaxVersion <- 4,
    MaxClaims <- 2, MaxFaults <- 0, dbs <- v1, routes <- v2, local <- v3, rows <- v4,
    outbox <- v5, op <- v6, items <- v7, admins <- v8, workers <- v9, faults <- v10

(* A worker and a dispatcher follow a shard that moves while its databases *)
(* fail.                                                                   *)
Routing == INSTANCE DatabaseRouting WITH
    Worker <- {w1}, Dispatcher <- {d1}, Alias <- {a1, a2}, Control <- a1, Started <- {a1},
    Nobody <- none, Threshold <- 1, InitialOpen <- 1, MaxOpen <- 2, MaxMoves <- 1,
    MaxFaults <- 2, entries <- v1, route <- v2, local <- v3, registered <- v4,
    statics <- v5, dynamic <- v6, cache <- v7, callers <- v8, mover <- v9, down <- v10,
    faults <- v11

-----------------------------------------------------------------------------
Init ==
    \/ part = "summary" /\ Summary!Init /\ Free8
    \/ part = "split" /\ Split!Init /\ Free8
    \/ part = "admission" /\ Admission!Init /\ Free11
    \/ part = "move" /\ Move!Init
    \/ part = "race" /\ Race!Init
    \/ part = "abort" /\ Abort!Init
    \/ part = "rescue" /\ Rescue!Init
    \/ part = "rename" /\ Rename!Init
    \/ part = "topology" /\ Topology!Init /\ Free10
    \/ part = "rebalance" /\ Rebalance!Init /\ Free10
    \/ part = "routing" /\ Routing!Init /\ Free11

Next ==
    \/ part = "summary" /\ Summary!Next /\ Rest8
    \/ part = "split" /\ Split!Next /\ Rest8
    \/ part = "admission" /\ Admission!Next /\ Rest11
    \/ part = "move" /\ Move!Next /\ Rest12
    \/ part = "race" /\ Race!Next /\ Rest12
    \/ part = "abort" /\ Abort!Next /\ Rest12
    \/ part = "rescue" /\ Rescue!Next /\ Rescue!QuietAborts /\ Rest12
    \/ part = "rename" /\ Rename!Next /\ Rest12
    \/ part = "topology" /\ Topology!Next /\ Rest10
    \/ part = "rebalance" /\ Rebalance!Next /\ Rest10
    \/ part = "routing" /\ Routing!Next /\ Rest11

Spec == Init /\ [][Next]_all

-----------------------------------------------------------------------------
(* Every row and every process has its type, and no pass takes more pages, *)
(* no cycle more candidates and no operation more claims than its budget.  *)
ControlTypeOK ==
    /\ part = "summary" => Summary!TypeOK
    /\ part = "split" => Split!TypeOK
    /\ part = "admission" => Admission!TypeOK
    /\ part = "move" => Move!TypeOK
    /\ part = "race" => Race!TypeOK
    /\ part = "abort" => Abort!TypeOK
    /\ part = "rescue" => Rescue!TypeOK
    /\ part = "rename" => Rename!TypeOK
    /\ part = "topology" => Topology!TypeOK
    /\ part = "rebalance" => Rebalance!TypeOK
    /\ part = "routing" => Routing!TypeOK

(* A shard summary counts every receipt that was consumed once, and a      *)
(* sealed one is the canonical fold of all receipts of the shard, although *)
(* coordinators race, die and the shard moves.                             *)
SummariesAreExact ==
    /\ part = "summary" => Summary!CountsConsumed /\ Summary!SealedIsCanonical

(* A run begins and ends whole.  A published plan has all its files, an    *)
(* activated run is seeded everywhere, and an admission that was cancelled *)
(* has left nothing on its databases, however often it crashed or lost its *)
(* lease.  A run on two databases, one of which fails, completes from all  *)
(* its chunks, is cleaned up on both when it is cancelled, and leaves no   *)
(* chunk of a drained shard undispatched.                                  *)
RunsAreWhole ==
    /\ part = "split" =>
           /\ Split!CompletedIsWhole /\ Split!CancelledIsClean /\ Split!NoChunkForgotten
    /\ part = "admission" =>
           /\ Admission!PublishedIsWhole /\ Admission!ActivatedIsSeeded
           /\ Admission!CancelledIsEmpty

(* A shard is open at one database at a time, which is the one its route   *)
(* names; a move that stopped can be retried and its owner serves, also    *)
(* after an abort that met no mover at work; a database that owns or       *)
(* receives shards is not taken out of service, nor one with undelivered   *)
(* events, and an operation that ended has no item left.                   *)
OwnersServe ==
    /\ part = "move" => Move!OneOpenOwner /\ Move!RetryIsResumable /\ Move!ActiveRouteReopens
    /\ part = "race" => Race!OneOpenOwner /\ Race!RetryIsResumable /\ Race!ActiveRouteReopens
    /\ part = "abort" => Abort!OneOpenOwner
    /\ part = "rename" => Rename!OneOpenOwner
    /\ part = "rescue" =>
           Rescue!OneOpenOwner /\ Rescue!RetryIsResumable /\ Rescue!ActiveRouteReopens
    /\ part = "topology" =>
           /\ Topology!OwnerServes /\ Topology!NoStrandedOutbox /\ Topology!EndedIsWhole
    /\ part = "rebalance" =>
           /\ Rebalance!OwnerServes /\ Rebalance!NoStrandedOutbox /\ Rebalance!EndedIsWhole

(* The owner of a shard has the last committed version of every row,       *)
(* through online copying, capture, replay, cutover and a mover that dies  *)
(* and is retried.                                                         *)
MovesLoseNothing ==
    /\ part = "move" => Move!NothingLost

(* Steps that take back what was decided do not happen: a finished run     *)
(* does not change its outcome or announce a second one, an admitted run   *)
(* is not failed, a summary does not lose receipts, a rebalance item is    *)
(* settled only by the worker that holds its claim.                        *)
NothingUndone ==
    [][/\ part = "summary" => Summary!ProgressNeverLostStep
       /\ part = "split" => Split!EndsOnceStep
       /\ part = "admission" => Admission!DecidedOnceStep
       /\ part = "rebalance" => Rebalance!FencedSettlementStep]_all

(* Aggregation writes only where and while the shard is admitted, a worker *)
(* claims only at the owner of its shard whatever route it has cached, and *)
(* a circuit is closed only by its current probe.                          *)
WritesAreRouted ==
    [][/\ part = "summary" => Summary!WritesOnlyAdmittedStep
       /\ part = "routing" => Routing!WritesAtOwnerStep /\ Routing!OnlyProbeClosesStep]_all
=============================================================================
