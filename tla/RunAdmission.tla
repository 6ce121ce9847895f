---------------------------- MODULE RunAdmission ----------------------------
(***************************************************************************)
(* The creation of one run: its plan is prepared as immutable files in     *)
(* blob storage, published, and admitted to the execution databases; only  *)
(* the activation makes it dispatchable.                                   *)
(*                                                                         *)
(* A creation lease on the run row, with a generation that only grows,     *)
(* fences every write to the control database: each one renews the lease   *)
(* first and changes nothing when it is gone (Guarded).  The files and the *)
(* rows of the execution databases are not fenced: they are written so     *)
(* that a repetition changes nothing.  The creator of the command line and *)
(* the coordinators race one another, crash, and lose their lease.         *)
(***************************************************************************)
EXTENDS Integers, FiniteSets

CONSTANTS
    Creator,      \* run create commands
    Coordinator,  \* coordinators that recover requested admissions
    Alias,        \* databases the shards of the run are assigned to
    Control,      \* the control database, if it is one of them
    Pages,        \* pages of chunks in the plan
    Files,        \* files of the plan: the pages, then index to manifest
    Group,        \* files registered in one checkpoint
    Drainable,    \* databases that may be drained meanwhile
    PageBudget,   \* pages one admission may seed
    MaxGeneration,\* bound: claims of the creation lease
    MaxFaults     \* bound: crashes

VARIABLES
    run,     \* the row of runs in the control database
    plan,    \* run_plans
    objects, \* run_plan_objects
    probes,  \* the capability probes that are registered and not removed
    blobs,   \* the files in blob storage
    local,   \* the run's rows in every execution database
    drained, \* databases that accept no new shards any more
    routes,  \* shard_placements and dispatch cursors exist
    procs,   \* the commands and coordinators
    cancel,  \* the run cancel command
    faults   \* crashes so far

admissionVars == <<run, plan, objects, probes, blobs, local, drained, routes,
                   procs, cancel, faults>>

-----------------------------------------------------------------------------
Process == Creator \cup Coordinator
File == 1 .. Files
Page == 1 .. Pages

Idle == [at |-> "idle", generation |-> 0, first |-> 1, end |-> 1,
         cursor |-> 0, state |-> 0, seeded |-> 0, left |-> {}]

Init ==
    /\ run = [status |-> "none", owner |-> 0, live |-> FALSE]
    /\ plan = [status |-> "none", generation |-> 0, requested |-> FALSE,
               chunks |-> 0, admitted |-> 0, state |-> 0]
    /\ objects = [f \in File |-> "none"]
    /\ probes = {}
    /\ blobs = {}
    /\ local = [a \in Alias |-> [admission |-> "none", run |-> "none",
                                 chunks |-> [g \in Page |-> "none"]]]
    /\ drained = {}
    /\ routes = FALSE
    /\ procs = [p \in Process |-> Idle]
    /\ cancel = [at |-> "idle", left |-> {}]
    /\ faults = 0

Goto(p, at) == procs' = [procs EXCEPT ![p].at = at]
Ends(p)     == procs' = [procs EXCEPT ![p] = Idle]

-----------------------------------------------------------------------------
(* begin: the run and its plan in one commit, or the replay of a creation  *)
(* with the same inputs.                                                   *)
Begin(p, execute) ==
    /\ procs[p] = Idle
    /\ run.status # "cancelled"
    /\ run' = IF run.status = "none" THEN [run EXCEPT !.status = "creating"]
              ELSE run
    /\ plan' = IF run.status = "none"
               THEN [plan EXCEPT !.status = "preparing", !.requested = execute]
               ELSE [plan EXCEPT !.requested =
                        @ \/ (execute /\ run.status = "creating")]
    /\ Goto(p, IF plan.status # "ready" THEN "claim"
               ELSE IF execute /\ run.status = "creating" THEN "admit"
               ELSE "idle")
    /\ UNCHANGED <<objects, probes, blobs, local, drained, routes, cancel,
                   faults>>

(* mutant: an expired lease is not free.                                   *)
FreeUnexpired == run.owner = 0

Free == run.owner = 0 \/ ~run.live

(* CLAIM_RUN and NEXT_GENERATION; the owner is a new identifier, here the  *)
(* generation.                                                             *)
Claim(p, status, at) ==
    LET won == run.status = "creating" /\ Free /\ plan.status = status
    IN IF won
       THEN /\ plan.generation < MaxGeneration                   \* bound
            /\ run' = [run EXCEPT !.owner = plan.generation + 1, !.live = TRUE]
            /\ plan' = [plan EXCEPT !.generation = @ + 1]
            /\ procs' = [procs EXCEPT ![p] = [Idle EXCEPT !.at = at,
                             !.generation = plan.generation + 1]]
       ELSE Ends(p) /\ UNCHANGED <<run, plan>>

(* guard and RENEW_RUN.                                                    *)
Holds(p, status) ==
    /\ run.status = "creating"
    /\ plan.status = status
    /\ run.live
    /\ run.owner = procs[p].generation
    /\ plan.generation = procs[p].generation

(* A write under the guard, or the error that makes the caller release.    *)
Guarded(p, status, Write) ==
    IF Holds(p, status) THEN Write
    ELSE Goto(p, "release") /\ UNCHANGED <<run, plan, objects, probes,
                                           routes>>

-----------------------------------------------------------------------------
(* The preparation of the plan.                                            *)

ClaimPlan(p) ==
    /\ procs[p].at = "claim"
    /\ Claim(p, "preparing", "probe")
    /\ UNCHANGED <<objects, probes, blobs, local, drained, routes, cancel,
                   faults>>

(* connect: a probe is registered before the store opens, and the probes   *)
(* that other processes left behind are removed.                           *)
RegisterProbe(p) ==
    /\ procs[p].at = "probe"
    /\ Guarded(p, "preparing",
          /\ probes' = probes \cup {procs[p].generation}
          /\ Goto(p, "connect")
          /\ UNCHANGED <<run, plan, objects, routes>>)
    /\ UNCHANGED <<blobs, local, drained, cancel, faults>>

Connect(p) ==
    /\ procs[p].at = "connect"
    /\ Guarded(p, "preparing",
          /\ probes' = {}
          /\ Goto(p, "files")
          /\ UNCHANGED <<run, plan, objects, routes>>)
    /\ UNCHANGED <<blobs, local, drained, cancel, faults>>

Last(p) == IF procs[p].first + Group - 1 < Files THEN procs[p].first + Group - 1
           ELSE Files

(* batches::plan: every file of the group is registered before one is      *)
(* written.                                                                *)
RegisterFiles(p) ==
    /\ procs[p].at = "files"
    /\ procs[p].first <= Files
    /\ Guarded(p, "preparing",
          /\ objects' = [f \in File |->
                IF f \in procs[p].first .. Last(p) /\ objects[f] = "none"
                THEN "planned" ELSE objects[f]]
          /\ procs' = [procs EXCEPT ![p].at = "put", ![p].end = procs[p].first]
          /\ UNCHANGED <<run, plan, probes, routes>>)
    /\ UNCHANGED <<blobs, local, drained, cancel, faults>>

(* flush: a file that was acknowledged is read and verified, any other one *)
(* is created; a file that is there with the same bytes is accepted.       *)
PutFile(p) ==
    LET f == procs[p].end
    IN /\ procs[p].at = "put"
       /\ f <= Last(p)
       /\ \/ /\ objects[f] # "acked" \/ f \in blobs
             /\ blobs' = blobs \cup {f}
             /\ procs' = [procs EXCEPT ![p].end = f + 1]
          \/ /\ objects[f] = "acked" /\ f \notin blobs
             /\ Goto(p, "release")
             /\ UNCHANGED blobs
       /\ UNCHANGED <<run, plan, objects, probes, local, drained, routes,
                      cancel, faults>>

(* mutant: the whole group is acknowledged at a checkpoint.                *)
CheckpointGroup(p) == Last(p) + 1

(* The files before this one are verified.                                 *)
Checkpoint(p) == procs[p].end

(* The chunk pages of a group have to continue the acknowledged ones.      *)
Contiguous(S) == \A f \in S : (f \in Page /\ objects[f] # "acked") =>
                     /\ \A g \in 1 .. f - 1 : objects[g] = "acked" \/ g \in S

(* batches::acknowledge, at the end of the group or 30 seconds after its   *)
(* start.                                                                  *)
Acknowledge(p) ==
    LET S == procs[p].first .. Checkpoint(p) - 1
    IN /\ procs[p].at = "put"
       /\ procs[p].end > procs[p].first
       /\ Guarded(p, "preparing",
             IF Contiguous(S)
             THEN /\ objects' = [f \in File |-> IF f \in S THEN "acked"
                                                ELSE objects[f]]
                  /\ plan' = [plan EXCEPT !.chunks =
                        Cardinality({f \in Page : objects'[f] = "acked"})]
                  /\ procs' = [procs EXCEPT ![p].at = "files",
                                            ![p].first = Checkpoint(p)]
                  /\ UNCHANGED <<run, probes, routes>>
             ELSE Goto(p, "release")
                  /\ UNCHANGED <<run, plan, objects, probes, routes>>)
       /\ UNCHANGED <<blobs, local, drained, cancel, faults>>

(* SELECT_PUBLICATION_CHECKS and the coverage of the chunks.               *)
Covers == /\ \A f \in File : objects[f] = "acked"
          /\ probes = {}
          /\ plan.chunks = Pages

(* publish: it gives the lease back in the same commit.                    *)
Publish(p) ==
    /\ procs[p].at = "files"
    /\ procs[p].first > Files
    /\ Guarded(p, "preparing",
          IF Covers
          THEN /\ plan' = [plan EXCEPT !.status = "ready"]
               /\ run' = [run EXCEPT !.owner = 0, !.live = FALSE]
               /\ procs' = [procs EXCEPT ![p] =
                     [Idle EXCEPT !.at = IF plan.requested THEN "admit"
                                         ELSE "idle"]]
               /\ UNCHANGED <<objects, probes, routes>>
          ELSE Goto(p, "release")
               /\ UNCHANGED <<run, plan, objects, probes, routes>>)
    /\ UNCHANGED <<blobs, local, drained, cancel, faults>>

-----------------------------------------------------------------------------
(* The admission of the published plan.                                    *)

(* recover: the coordinators take up requested plans whose lease is free.  *)
Recover(p) ==
    /\ procs[p] = Idle
    /\ run.status = "creating" /\ plan.status = "ready" /\ plan.requested
    /\ Free
    /\ Goto(p, "admit")
    /\ UNCHANGED <<run, plan, objects, probes, blobs, local, drained, routes,
                   cancel, faults>>

ClaimAdmission(p) ==
    /\ procs[p].at = "admit"
    /\ Claim(p, "ready", "load")
    /\ UNCHANGED <<objects, probes, blobs, local, drained, routes, cancel,
                   faults>>

(* admit: it goes on from the checkpoint it reads.                         *)
Load(p) ==
    /\ procs[p].at = "load"
    /\ procs' = [procs EXCEPT ![p].cursor = plan.admitted,
                              ![p].state = plan.state,
                              ![p].at = IF plan.admitted < Pages THEN "seed"
                                        ELSE "verify",
                              ![p].left = Alias]
    /\ UNCHANGED <<run, plan, objects, probes, blobs, local, drained, routes,
                   cancel, faults>>

(* open_reader: the roots of the plan cannot be read in time.              *)
OpenFails(p) ==
    /\ procs[p].at = "load"
    /\ faults < MaxFaults                                        \* bound
    /\ faults' = faults + 1
    /\ Goto(p, "release")
    /\ UNCHANGED <<run, plan, objects, probes, blobs, local, drained, routes,
                   cancel>>

(* The run row the seed inserts, or the same one it finds there.           *)
RunMatches(a) == IF a = Control THEN run.status = "creating"
                 ELSE local[a].run \in {"none", "pending"}

(* mutant: a seed that accepts a closed admission.                         *)
AdmissionIgnored(a) == TRUE

(* snapshots: the admission it inserts, or one open at epoch 1.            *)
AdmissionMatches(a) == local[a].admission \in {"none", "open"}

(* bulk_insert_run_chunks: the chunks are new, or pending and undispatched.*)
ChunkMatches(a, page) == local[a].chunks[page] \in {"none", "pending"}

(* Seed::write under the shared fences of the shards.                      *)
MaySeed(a, page) == /\ RunMatches(a)
                    /\ AdmissionMatches(a)
                    /\ ChunkMatches(a, page)

Seed(p, a) ==
    LET page == procs[p].cursor + 1
    IN /\ procs[p].at = "seed"
       /\ a \in procs[p].left
       /\ IF MaySeed(a, page)
          THEN /\ local' = [local EXCEPT ![a] =
                     [admission |-> "open",
                      run |-> IF a = Control THEN "none" ELSE "pending",
                      chunks |-> [local[a].chunks EXCEPT ![page] = "pending"]]]
               /\ procs' = [procs EXCEPT ![p].left = @ \ {a}]
          ELSE Goto(p, "fail") /\ UNCHANGED local
       /\ UNCHANGED <<run, plan, objects, probes, blobs, drained, routes,
                      cancel, faults>>

(* Where the loop over the pages goes after the page of m.                 *)
After(m) == IF m.cursor + 1 = Pages THEN "verify"
            ELSE IF m.seeded + 1 = PageBudget THEN "release" ELSE "seed"

(* acknowledge: the checkpoint moves from the page it was read at.  The    *)
(* budget of pages ends an admission before the end.                       *)
AcknowledgePage(p) ==
    LET m == procs[p]
    IN /\ m.at = "seed"
       /\ m.left = {}
       /\ Guarded(p, "ready",
             IF plan.admitted = m.cursor
             THEN /\ plan' = [plan EXCEPT !.admitted = m.cursor + 1,
                                          !.state = m.state + 1]
                  /\ procs' = [procs EXCEPT ![p] =
                        [m EXCEPT !.cursor = m.cursor + 1, !.state = m.state + 1,
                           !.seeded = m.seeded + 1, !.left = Alias,
                           !.at = After(m)]]
                  /\ UNCHANGED <<run, objects, probes, routes>>
             ELSE Goto(p, "release")
                  /\ UNCHANGED <<run, plan, objects, probes, routes>>)
       /\ UNCHANGED <<blobs, local, drained, cancel, faults>>

(* read_chunks: the local membership is exactly the planned one, open and  *)
(* not dispatched.                                                         *)
Exact(a) == /\ \A page \in Page : local[a].chunks[page] = "pending"
            /\ local[a].admission = "open"

Verify(p, a) ==
    /\ procs[p].at = "verify"
    /\ a \in procs[p].left
    /\ IF Exact(a) /\ procs[p].state = Pages
       THEN procs' = [procs EXCEPT ![p].left = @ \ {a}]
       ELSE Goto(p, "fail")
    /\ UNCHANGED <<run, plan, objects, probes, blobs, local, drained, routes,
                   cancel, faults>>

(* bulk_insert_shard_placements: every database still accepts new shards.  *)
AcceptRoutes == drained = {}

(* activate: routes, cursors and the pending status in one commit, which   *)
(* gives the lease back.                                                   *)
Activate(p) ==
    /\ procs[p].at = "verify"
    /\ procs[p].left = {}
    /\ Guarded(p, "ready",
          IF plan.admitted = Pages /\ plan.state = Pages /\ AcceptRoutes
          THEN /\ routes' = TRUE
               /\ run' = [status |-> "pending", owner |-> 0, live |-> FALSE]
               /\ Ends(p)
               /\ UNCHANGED <<plan, objects, probes>>
          ELSE Goto(p, "release")
               /\ UNCHANGED <<run, plan, objects, probes, routes>>)
    /\ UNCHANGED <<blobs, local, drained, cancel, faults>>

(* mutant: the failure is not fenced.                                      *)
FailUnguarded(p) ==
    /\ procs[p].at = "fail"
    /\ run' = [status |-> "failed", owner |-> 0, live |-> FALSE]
    /\ Goto(p, "release")
    /\ UNCHANGED <<plan, objects, probes, routes, blobs, local, drained,
                   cancel, faults>>

(* fail: a seed that contradicts what is stored ends the run, unless       *)
(* another owner or a cancellation was first.                              *)
Fail(p) ==
    /\ procs[p].at = "fail"
    /\ Guarded(p, "ready",
          /\ run' = [status |-> "failed", owner |-> 0, live |-> FALSE]
          /\ Goto(p, "release")
          /\ UNCHANGED <<plan, objects, probes, routes>>)
    /\ UNCHANGED <<blobs, local, drained, cancel, faults>>

(* release.                                                                *)
Release(p) ==
    /\ procs[p].at = "release"
    /\ run' = IF /\ run.owner = procs[p].generation
                 /\ plan.generation = procs[p].generation
              THEN [run EXCEPT !.owner = 0, !.live = FALSE] ELSE run
    /\ Ends(p)
    /\ UNCHANGED <<plan, objects, probes, blobs, local, drained, routes,
                   cancel, faults>>

-----------------------------------------------------------------------------
(* An operator drains a database (Topology).                               *)
DrainDatabase(a) ==
    /\ a \in Drainable \ drained
    /\ drained' = drained \cup {a}
    /\ UNCHANGED <<run, plan, objects, probes, blobs, local, routes, procs,
                   cancel, faults>>

(* Dispatch of an activated run.                                           *)
Dispatch(a, page) ==
    /\ routes
    /\ run.status = "pending"
    /\ local[a].chunks[page] = "pending"
    /\ local[a].admission = "open"
    /\ local' = [local EXCEPT ![a].chunks[page] = "dispatched"]
    /\ UNCHANGED <<run, plan, objects, probes, blobs, drained, routes, procs,
                   cancel, faults>>

(* mutant: the databases are cleaned before the run is cancelled.          *)
RequestCancelUnmarked ==
    /\ cancel.at = "idle"
    /\ run.status \in {"creating", "pending", "cancelled"}
    /\ cancel' = [at |-> "clean",
                  left |-> IF plan.status = "ready" THEN Alias ELSE {}]
    /\ UNCHANGED <<run, plan, objects, probes, blobs, local, drained, routes,
                   procs, faults>>

(* cancel_run_routed: the control run first; a repetition goes on with the *)
(* databases.                                                              *)
RequestCancel ==
    /\ cancel.at = "idle"
    /\ run.status \in {"creating", "pending", "cancelled"}
    /\ run' = [status |-> "cancelled", owner |-> 0, live |-> FALSE]
    /\ cancel' = [at |-> "clean",
                  left |-> IF plan.status = "ready" THEN Alias ELSE {}]
    /\ UNCHANGED <<plan, objects, probes, blobs, local, drained, routes,
                   procs, faults>>

(* The closed admission refuses a seed that starts after the cancellation: *)
(* cancel_unadmitted_plan, and cancel_execution_targets for routed shards. *)
CleanDatabase(a) ==
    /\ cancel.at = "clean"
    /\ a \in cancel.left
    /\ local' = [local EXCEPT ![a] =
          [admission |-> IF routes THEN @.admission ELSE "closed",
           run |-> IF @.run = "none" THEN "none" ELSE "cancelled",
           chunks |-> [g \in Page |-> IF @.chunks[g] = "none" THEN "none"
                                      ELSE "cancelled"]]]
    /\ cancel' = [cancel EXCEPT !.left = @ \ {a}]
    /\ UNCHANGED <<run, plan, objects, probes, blobs, drained, routes, procs,
                   faults>>

EndCancel ==
    /\ cancel.at = "clean"
    /\ cancel.left = {}
    /\ cancel' = [cancel EXCEPT !.at = "done"]
    /\ UNCHANGED <<run, plan, objects, probes, blobs, local, drained, routes,
                   procs, faults>>

-----------------------------------------------------------------------------
(* 300 seconds pass without a renewal: the owner is gone, or so slow that  *)
(* it counts as a fault.                                                   *)
Gone == \A p \in Process : procs[p].generation # run.owner

LeaseExpires ==
    /\ run.owner # 0 /\ run.live
    /\ \/ Gone /\ UNCHANGED faults
       \/ ~Gone /\ faults < MaxFaults /\ faults' = faults + 1     \* bound
    /\ run' = [run EXCEPT !.live = FALSE]
    /\ UNCHANGED <<plan, objects, probes, blobs, local, drained, routes,
                   procs, cancel>>

Crash ==
    /\ faults < MaxFaults                                        \* bound
    /\ faults' = faults + 1
    /\ \/ \E p \in Process : procs[p] # Idle /\ Ends(p) /\ UNCHANGED cancel
       \/ /\ cancel.at = "clean"
          /\ cancel' = [at |-> "idle", left |-> {}]
          /\ UNCHANGED procs
    /\ UNCHANGED <<run, plan, objects, probes, blobs, local, drained, routes>>

Step(p) ==
    \/ ClaimPlan(p) \/ RegisterProbe(p) \/ Connect(p) \/ RegisterFiles(p)
    \/ PutFile(p) \/ Acknowledge(p) \/ Publish(p) \/ ClaimAdmission(p)
    \/ Load(p) \/ OpenFails(p) \/ AcknowledgePage(p) \/ Activate(p)
    \/ Fail(p) \/ Release(p)
    \/ \E a \in Alias : Seed(p, a) \/ Verify(p, a)

Next ==
    \/ \E p \in Creator : \E execute \in BOOLEAN : Begin(p, execute)
    \/ \E p \in Coordinator : Recover(p)
    \/ \E p \in Process : Step(p)
    \/ \E a \in Alias, page \in Page : Dispatch(a, page)
    \/ RequestCancel \/ EndCancel
    \/ \E a \in Alias : CleanDatabase(a) \/ DrainDatabase(a)
    \/ LeaseExpires
    \/ Crash

(* The coordinators recover in a loop, a process goes on until it ends or  *)
(* crashes, and a lease that nobody renews expires.                        *)
Fairness ==
    /\ \A p \in Coordinator : WF_admissionVars(Recover(p))
    /\ \A p \in Process : WF_admissionVars(Step(p))
    /\ WF_admissionVars(Gone /\ LeaseExpires)

Spec == Init /\ [][Next]_admissionVars /\ Fairness

-----------------------------------------------------------------------------
(* Rows, files and processes are of their types; a checkpoint never runs   *)
(* ahead of the plan.                                                      *)
TypeOK ==
    /\ run.status \in {"none", "creating", "pending", "failed", "cancelled"}
    /\ run.owner \in 0 .. MaxGeneration
    /\ plan.status \in {"none", "preparing", "ready"}
    /\ plan.generation \in 0 .. MaxGeneration
    /\ plan.chunks \in 0 .. Pages
    /\ plan.admitted \in 0 .. plan.chunks
    /\ objects \in [File -> {"none", "planned", "acked"}]
    /\ blobs \subseteq File
    /\ \A a \in Alias : local[a].chunks \in
          [Page -> {"none", "pending", "dispatched", "cancelled"}]

(* A published plan is whole: each of its files is in storage, whichever   *)
(* of the creators wrote it and wherever they stopped (publish).           *)
PublishedIsWhole == plan.status = "ready" => blobs = File /\ plan.chunks = Pages

(* Routes exist only over databases that have every chunk of the run:      *)
(* what an admission verified still holds when it activates (activate).    *)
ActivatedIsSeeded ==
    (routes /\ run.status = "pending") =>
        \A a \in Alias :
            /\ local[a].admission = "open"
            /\ \A g \in Page : local[a].chunks[g] \in {"pending", "dispatched"}

(* After a cancellation no database holds work of the run, although        *)
(* a creator may still be seeding (the closed tombstones of                *)
(* cancel_unadmitted_plan).                                                *)
CancelledIsEmpty ==
    cancel.at = "done" =>
        \A a \in Alias, g \in Page :
            local[a].chunks[g] \notin {"pending", "dispatched"}

(* Who decides the run first decides it: a creator that lost its lease     *)
(* neither fails nor activates nor reopens what another one or the         *)
(* operator settled (guard).                                               *)
DecidedOnceStep ==
    /\ run.status \in {"failed", "cancelled"} => run'.status = run.status
    /\ run.status = "pending" => run'.status \in {"pending", "cancelled"}
    /\ routes => routes'
DecidedOnce == [][DecidedOnceStep]_admissionVars

(* A requested run leaves creation, however often its admission crashes or *)
(* loses its lease, as long as the coordinators run (recover).             *)
Requested == plan.status = "ready" /\ plan.requested
Settled   == run.status # "creating"
RequestedIsSettled == Requested ~> Settled
=============================================================================
