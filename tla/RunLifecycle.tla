---------------------------- MODULE RunLifecycle ----------------------------
(***************************************************************************)
(* A run in the control database, from pending to completed or cancelled.  *)
(*                                                                         *)
(* Coordinators repeat a cycle.  Its dispatch pass claims one cursor of a  *)
(* run shard at a time, keeps that control transaction open while it       *)
(* commits a window of chunks in the shard's execution database, and then  *)
(* commits the cursor.  Its finalization pass inspects candidates in the   *)
(* order of their heartbeats, reads the routed shard summaries, claims the *)
(* run under a lease and writes the outcome.  Cancel commands mark the run *)
(* in the control database, clean up every execution database that owns a  *)
(* shard of it, and clear the pending mark.  Shards move meanwhile.        *)
(*                                                                         *)
(* The chunks of a shard are counted by what has become of them; what      *)
(* workers and aggregation do to them is detailed in ChunkExecution and    *)
(* ShardSummary.                                                           *)
(***************************************************************************)
EXTENDS Integers, Sequences, FiniteSets, FiniteSetsExt, Functions

CONSTANTS
    Run,          \* the runs
    Shard,        \* the planned shards of every run
    Database,     \* aliases of execution databases
    Home,         \* the database that owns a shard at first, per shard
    Chunks,       \* the chunks planned for every shard
    Window,       \* RUN_CHUNK_DISPATCH_WINDOW_SIZE
    Coordinator,  \* coordinator processes
    Canceller,    \* `run cancel` commands
    Nobody,       \* no coordinator
    Poison,       \* runs with a shard summary that never seals
    MaxDispatch,  \* max_dispatch_per_cycle, with the allowance for failures
    MaxFinalize,  \* max_finalize_per_cycle
    MaxFaults,    \* bound: crashes, timeouts and failed statements
    MaxEpoch      \* bound: the highest write epoch

VARIABLES
    runs,     \* runs, with run_scorecards
    cursors,  \* run_shard_dispatch_cursors
    beat,     \* the runs by coordinator_heartbeat_at, oldest first
    shards,   \* shard_placements and what the owner stores for the shard
    outbox,   \* run events of the control outbox, one per dedupe key
    coords,   \* the coordinators' cycles
    cancels,  \* the cancel commands
    failures  \* faults so far

ASSUME LifecycleAssumption ==
    /\ Run # {} /\ Shard # {} /\ Database # {}
    /\ Home \in [Shard -> Database]
    /\ {Chunks, Window, MaxDispatch, MaxFinalize} \subseteq Nat
    /\ MaxEpoch \in Nat \ {0}

lifecycleVars ==
    <<runs, cursors, beat, shards, outbox, coords, cancels, failures>>

-----------------------------------------------------------------------------
Status   == {"pending", "running", "finalizing", "completed", "cancelled"}
Finished == {"completed", "cancelled"}

(* lease abstracts coordinator_leased_until against the clock; result is   *)
(* what finalization stored.                                               *)
RunRow == [status: Status, gate: {"none", "pass", "fail"},
           coordinator: Coordinator \cup {Nobody},
           lease: {"none", "held", "expired"}, cancelling: BOOLEAN,
           result: [settled: Nat, bad: Nat]]

(* todo: pending, not dispatched; out: dispatched; cut: cancelled without  *)
(* a receipt; done: settled, bad of them failed or cancelled.              *)
ShardRow == [alias: Database, placement: {"active", "draining", "moving"},
             epoch: 1 .. MaxEpoch, todo: 0 .. Chunks, out: 0 .. Chunks,
             cut: 0 .. Chunks, done: 0 .. Chunks, bad: 0 .. Chunks,
             summary: {"none", "running", "sealed"}]

Summary == [settled: Nat, bad: Nat, sealed: BOOLEAN]

CycleStep == {"idle", "dispatch", "claimed", "prepared", "written",
              "finalize", "reading", "owner"}

Idle == [at |-> "idle", run |-> CHOOSE r \in Run : TRUE,
         shard |-> CHOOSE s \in Shard : TRUE,
         alias |-> CHOOSE d \in Database : TRUE, epoch |-> 0,
         starts |-> FALSE, more |-> FALSE, skip |-> {}, budget |-> 0,
         seen |-> {}, unread |-> {}, placed |-> <<>>, sums |-> <<>>,
         complete |-> TRUE]

Rest == [at |-> "idle", run |-> CHOOSE r \in Run : TRUE,
         left |-> {}, placed |-> <<>>]

(* Rows hold values of their columns; a shard's chunks are all accounted   *)
(* for; the heartbeats order all runs.                                     *)
TypeOK ==
    /\ runs \in [Run -> RunRow]
    /\ cursors \in [Run -> [Shard -> {"open", "drained"}]]
    /\ beat \in Bijection(1 .. Cardinality(Run), Run)
    /\ shards \in [Run -> [Shard -> ShardRow]]
    /\ \A r \in Run, s \in Shard : LET x == shards[r][s] IN
         x.todo + x.out + x.cut + x.done = Chunks /\ x.bad <= x.done
    /\ outbox \subseteq (Run \X {"started", "completed", "cancelled"})
    /\ \A c \in Coordinator : /\ coords[c].at \in CycleStep
                              /\ coords[c].skip \subseteq Database
                              /\ coords[c].seen \subseteq Run
    /\ \A k \in Canceller :
         cancels[k].at \in {"idle", "locked", "marked", "fanout"}
    /\ failures \in 0 .. MaxFaults

Init ==
    /\ runs = [r \in Run |-> [status |-> "pending", gate |-> "none",
                 coordinator |-> Nobody, lease |-> "none",
                 cancelling |-> FALSE, result |-> [settled |-> 0, bad |-> 0]]]
    /\ cursors = [r \in Run |-> [s \in Shard |-> "open"]]
    /\ beat \in Bijection(1 .. Cardinality(Run), Run)
    /\ shards = [r \in Run |-> [s \in Shard |->
         [alias |-> Home[s], placement |-> "active", epoch |-> 1,
          todo |-> Chunks, out |-> 0, cut |-> 0, done |-> 0, bad |-> 0,
          summary |-> "none"]]]
    /\ outbox = {}
    /\ coords = [c \in Coordinator |-> Idle]
    /\ cancels = [k \in Canceller |-> Rest]
    /\ failures = 0

-----------------------------------------------------------------------------
(* Row locks of open control transactions.  A dispatch transaction holds   *)
(* its cursor from the claim on, and the run row from the prepared         *)
(* snapshot on: exclusively if it starts the run, else shared.             *)

HasCursor(c, r, s) ==
    /\ coords[c].at \in {"claimed", "prepared", "written"}
    /\ coords[c].run = r /\ coords[c].shard = s

HasRun(c, r) ==
    /\ coords[c].at \in {"prepared", "written"}
    /\ coords[c].run = r

CancelHasRun(r) == \E k \in Canceller : cancels[k].at = "locked" /\ cancels[k].run = r

RunUnlocked(r) == ~CancelHasRun(r) /\ \A c \in Coordinator : ~HasRun(c, r)

RunShareable(r) ==
    ~CancelHasRun(r) /\ \A c \in Coordinator : HasRun(c, r) => ~coords[c].starts

Fault == failures < MaxFaults /\ failures' = failures + 1

(* The coordinator goes on with its pass and forgets the item it was at.   *)
Resume(c, pass) == [coords EXCEPT ![c] =
    [Idle EXCEPT !.at = pass, !.budget = coords[c].budget,
                 !.skip = IF pass = "dispatch" THEN coords[c].skip ELSE {},
                 !.seen = coords[c].seen]]
Skip(c) == [Resume(c, "dispatch") EXCEPT ![c].skip = @ \cup {coords[c].alias}]

Behind(r) == Append(SelectSeq(beat, LAMBDA x : x # r), r)

Placed(r) == [s \in Shard |-> [alias |-> shards[r][s].alias,
                               placement |-> shards[r][s].placement,
                               epoch |-> shards[r][s].epoch]]

Settled(x, n, b) == [x EXCEPT !.done = @ + n, !.bad = @ + b]

-----------------------------------------------------------------------------
(* The dispatch pass.                                                      *)

BeginCycle(c) ==
    /\ coords[c].at = "idle"
    /\ coords' = [coords EXCEPT ![c] =
         [Idle EXCEPT !.at = "dispatch", !.budget = MaxDispatch]]
    /\ UNCHANGED <<runs, cursors, beat, shards, outbox, cancels, failures>>

(* The rows claim_next_dispatch_route may lock: SKIP LOCKED passes over    *)
(* the cursors of other transactions.                                      *)
Dispatchable(c, r, s) ==
    /\ cursors[r][s] = "open"
    /\ shards[r][s].placement = "active"
    /\ shards[r][s].alias \notin coords[c].skip
    /\ \/ runs[r].status = "running"
       \/ runs[r].status = "pending" /\ runs[r].lease # "held"
    /\ \A o \in Coordinator : ~HasCursor(o, r, s)

ClaimRoute(c) ==
    /\ coords[c].at = "dispatch" /\ coords[c].budget > 0
    /\ \E r \in Run, s \in Shard :
         /\ Dispatchable(c, r, s)
         /\ coords' = [coords EXCEPT ![c] =
              [@ EXCEPT !.at = "claimed", !.run = r, !.shard = s,
                        !.alias = shards[r][s].alias, !.epoch = shards[r][s].epoch,
                        !.budget = coords[c].budget - 1]]
    /\ UNCHANGED <<runs, cursors, beat, shards, outbox, cancels, failures>>

DispatchEnds(c) ==
    /\ coords[c].at = "dispatch"
    /\ coords[c].budget = 0 \/ \A r \in Run, s \in Shard : ~Dispatchable(c, r, s)
    /\ coords' = [Resume(c, "finalize") EXCEPT ![c].budget = MaxFinalize]
    /\ UNCHANGED <<runs, cursors, beat, shards, outbox, cancels, failures>>

(* prepare_dispatch_run_snapshot_with, in the claim's transaction: start a *)
(* pending run, or share-lock a running one, or give the cursor back.      *)
Prepare(c) == LET r == coords[c].run IN
    /\ coords[c].at = "claimed"
    /\ \/ /\ runs[r].status = "pending" /\ runs[r].lease # "held"
          /\ RunUnlocked(r)
          /\ coords' = [coords EXCEPT ![c].at = "prepared", ![c].starts = TRUE]
       \/ /\ runs[r].status = "running"
          /\ RunShareable(r)
          /\ coords' = [coords EXCEPT ![c].at = "prepared", ![c].starts = FALSE]
       \/ /\ ~(runs[r].status = "pending" /\ runs[r].lease # "held")
          /\ runs[r].status # "running"
          /\ RunShareable(r)
          /\ coords' = Resume(c, "dispatch")
    /\ UNCHANGED <<runs, cursors, beat, shards, outbox, cancels, failures>>

(* begin_execution_admission: the route's epoch is the owner's and the     *)
(* owner is open.                                                          *)
Admitted(c) == LET x == shards[coords[c].run][coords[c].shard] IN
    x.alias = coords[c].alias /\ x.epoch = coords[c].epoch /\ x.placement = "active"

(* The execution transaction of dispatch_routed_run_window_with_transactions. *)
WriteWindow(c) ==
    LET r == coords[c].run
        s == coords[c].shard
        x == shards[r][s]
        n == Min({Window, x.todo})
    IN  /\ coords[c].at = "prepared" /\ Admitted(c)
        /\ shards' = [shards EXCEPT ![r][s] =
             [x EXCEPT !.todo = @ - n, !.out = @ + n,
                       !.summary = IF @ = "none" THEN "running" ELSE @]]
        /\ coords' = [coords EXCEPT ![c].at = "written", ![c].more = x.todo > n]
        /\ UNCHANGED <<runs, cursors, beat, outbox, cancels, failures>>

(* Admission refuses the route: the control transaction rolls back and the *)
(* alias is left alone for the rest of the pass, unless the route cache    *)
(* already showed the new route.                                           *)
WriteRefused(c) ==
    /\ coords[c].at = "prepared" /\ ~Admitted(c)
    /\ coords' \in {Resume(c, "dispatch"), Skip(c)}
    /\ UNCHANGED <<runs, cursors, beat, shards, outbox, cancels, failures>>

(* An open circuit, a failed statement or the deadline of the operation,   *)
(* before or after the execution commit: the control transaction is        *)
(* dropped and the alias is skipped.                                       *)
WriteFails(c) ==
    /\ coords[c].at \in {"prepared", "written"}
    /\ Fault
    /\ coords' = Skip(c)
    /\ UNCHANGED <<runs, cursors, beat, shards, outbox, cancels>>

(* dispatch_cursor_status                                                  *)
CursorStatusAlwaysDrained(more) == "drained"   \* mutant: one window per shard
CursorStatus(more) == IF more THEN "open" ELSE "drained"

(* The control transaction: the cursor, and the run if this started it.    *)
CommitCursor(c) ==
    LET r == coords[c].run
        s == coords[c].shard
    IN  /\ coords[c].at = "written"
        /\ cursors' = [cursors EXCEPT ![r][s] = CursorStatus(coords[c].more)]
        /\ IF coords[c].starts
           THEN /\ runs' = [runs EXCEPT ![r] =
                     [@ EXCEPT !.status = "running", !.coordinator = c,
                               !.lease = "held"]]
                /\ beat' = Behind(r)
                /\ outbox' = outbox \cup {<<r, "started">>}
           ELSE UNCHANGED <<runs, beat, outbox>>
        /\ coords' = Resume(c, "dispatch")
        /\ UNCHANGED <<shards, cancels, failures>>

-----------------------------------------------------------------------------
(* The finalization pass.                                                  *)

Candidate(r) ==
    \/ runs[r].status = "running"
    \/ runs[r].status = "finalizing" /\ runs[r].lease # "held"

Inspectable(c) ==
    {r \in Run : /\ Candidate(r)
                 /\ \A s \in Shard : cursors[r][s] # "open"
                 /\ r \notin coords[c].seen}

(* ORDER BY coordinator_heartbeat_at LIMIT 1                               *)
OldestOf(R, r) ==
    \E i \in DOMAIN beat : beat[i] = r /\ \A j \in 1 .. i - 1 : beat[j] \notin R

(* select_next_finalization_candidate and the placements of the candidate. *)
PickCandidate(c) ==
    /\ coords[c].at = "finalize" /\ coords[c].budget > 0
    /\ \E r \in Inspectable(c) :
         /\ OldestOf(Inspectable(c), r)
         /\ coords' = [coords EXCEPT ![c] =
              [@ EXCEPT !.at = "reading", !.run = r, !.budget = coords[c].budget - 1,
                        !.seen = coords[c].seen \cup {r}, !.placed = Placed(r),
                        !.unread = {shards[r][s].alias : s \in Shard},
                        !.sums = [s \in Shard |-> {}], !.complete = TRUE]]
    /\ UNCHANGED <<runs, cursors, beat, shards, outbox, cancels, failures>>

CycleEnds(c) ==
    /\ coords[c].at = "finalize"
    /\ coords[c].budget = 0 \/ Inspectable(c) = {}
    /\ coords' = [coords EXCEPT ![c] = Idle]
    /\ UNCHANGED <<runs, cursors, beat, shards, outbox, cancels, failures>>

SummaryOf(x) == [settled |-> x.done, bad |-> x.bad, sealed |-> x.summary = "sealed"]

(* Reads the summaries of the shards routed to one database.  A shard that *)
(* left it since the placements were read has no row there, or the one it  *)
(* had: a row that was sealed is the same row.                             *)
ReadSummaries(c, d) ==
    LET r == coords[c].run
        mine == {s \in Shard : coords[c].placed[s].alias = d}
        here == {s \in mine : shards[r][s].alias = d /\ shards[r][s].summary # "none"}
        gone == {s \in mine : shards[r][s].alias # d /\ shards[r][s].summary = "sealed"}
    IN  /\ coords[c].at = "reading" /\ d \in coords[c].unread
        /\ \E left \in SUBSET gone :
             coords' = [coords EXCEPT ![c] =
               IF \E s \in mine : coords[c].placed[s].placement # "active"
               THEN [coords[c] EXCEPT !.unread = @ \ {d}, !.complete = FALSE]
               ELSE [coords[c] EXCEPT
                 !.unread = @ \ {d},
                 !.complete = @ /\ mine \subseteq here \cup left,
                 !.sums = [s \in Shard |-> IF s \in here \cup left
                             THEN {SummaryOf(shards[r][s])} ELSE @[s]]]]
        /\ UNCHANGED <<runs, cursors, beat, shards, outbox, cancels, failures>>

ReadFails(c, d) ==
    /\ coords[c].at = "reading" /\ d \in coords[c].unread
    /\ Fault
    /\ coords' = [coords EXCEPT ![c].unread = @ \ {d}, ![c].complete = FALSE]
    /\ UNCHANGED <<runs, cursors, beat, shards, outbox, cancels>>

(* RunShardSummary::is_terminal                                            *)
IsTerminalUnsealed(sum) ==   \* mutant: a summary counts before it is sealed
    sum.settled > 0
IsTerminal(sum) == sum.sealed /\ sum.settled = Chunks

AllTerminal(c) ==
    /\ coords[c].complete
    /\ \A s \in Shard : \E sum \in coords[c].sums[s] : IsTerminal(sum)

(* A candidate that is not ready goes behind the others.                   *)
MarkUnchecked(c) ==   \* mutant: the inspected candidate keeps its place
    /\ coords[c].at = "reading" /\ coords[c].unread = {}
    /\ ~AllTerminal(c)
    /\ coords' = Resume(c, "finalize")
    /\ UNCHANGED <<runs, cursors, beat, shards, outbox, cancels, failures>>
MarkChecked(c) == LET r == coords[c].run IN
    /\ coords[c].at = "reading" /\ coords[c].unread = {}
    /\ ~AllTerminal(c)
    /\ RunUnlocked(r)
    /\ beat' = IF runs[r].status \in {"running", "finalizing"} THEN Behind(r) ELSE beat
    /\ coords' = Resume(c, "finalize")
    /\ UNCHANGED <<runs, cursors, shards, outbox, cancels, failures>>

(* claim_finalization_candidate: a locked run is passed over.              *)
ClaimRun(c) == LET r == coords[c].run IN
    /\ coords[c].at = "reading" /\ coords[c].unread = {}
    /\ AllTerminal(c)
    /\ IF Candidate(r) /\ RunUnlocked(r)
       THEN /\ runs' = [runs EXCEPT ![r] =
                 [@ EXCEPT !.status = "finalizing", !.coordinator = c,
                           !.lease = "held"]]
            /\ beat' = Behind(r)
            /\ coords' = [coords EXCEPT ![c].at = "owner"]
       ELSE /\ coords' = Resume(c, "finalize")
            /\ UNCHANGED <<runs, beat>>
    /\ UNCHANGED <<cursors, shards, outbox, cancels, failures>>

(* summarize_for_finalization over the summaries that were read.           *)
Result(c) ==
    LET Read(s) == CHOOSE sum \in coords[c].sums[s] : TRUE
    IN  [settled |-> SumFunction([s \in Shard |-> Read(s).settled]),
         bad |-> SumFunction([s \in Shard |-> Read(s).bad])]

(* finalize_claimed_run: nothing is written unless the claim is still this *)
(* coordinator's.                                                          *)
Owner(c, r) ==
    /\ runs[r].status = "finalizing" /\ runs[r].coordinator = c
    /\ runs[r].lease = "held"
    /\ \A s \in Shard : cursors[r][s] = "drained"

FinalizeUnclaimed(c) == LET r == coords[c].run IN   \* mutant: writes without the claim
    /\ coords[c].at = "owner"
    /\ RunUnlocked(r)
    /\ runs' = [runs EXCEPT ![r] =
         [@ EXCEPT !.status = "completed", !.lease = "none",
                   !.gate = IF Result(c).bad = 0 THEN "pass" ELSE "fail",
                   !.result = Result(c)]]
    /\ outbox' = outbox \cup {<<r, "completed">>}
    /\ coords' = Resume(c, "finalize")
    /\ UNCHANGED <<cursors, beat, shards, cancels, failures>>
Finalize(c) == LET r == coords[c].run IN
    /\ coords[c].at = "owner"
    /\ RunUnlocked(r)
    /\ IF Owner(c, r)
       THEN /\ runs' = [runs EXCEPT ![r] =
                 [@ EXCEPT !.status = "completed", !.lease = "none",
                           !.gate = IF Result(c).bad = 0 THEN "pass" ELSE "fail",
                           !.result = Result(c)]]
            /\ outbox' = outbox \cup {<<r, "completed">>}
       ELSE UNCHANGED <<runs, outbox>>
    /\ coords' = Resume(c, "finalize")
    /\ UNCHANGED <<cursors, beat, shards, cancels, failures>>

(* A process dies or a control statement fails: the open transaction rolls *)
(* back and the cycle is over.                                             *)
CycleAborts(c) ==
    /\ coords[c].at # "idle"
    /\ Fault
    /\ coords' = [coords EXCEPT ![c] = Idle]
    /\ UNCHANGED <<runs, cursors, beat, shards, outbox, cancels>>

(* Time passes.  That a lease runs out while its owner is about to write   *)
(* is a fault: the owner must have stalled for the whole lease.            *)
LeaseExpires(r) ==
    /\ runs[r].lease = "held"
    /\ IF \E c \in Coordinator : coords[c].at = "owner" /\ coords[c].run = r
       THEN Fault ELSE UNCHANGED failures
    /\ runs' = [runs EXCEPT ![r].lease = "expired"]
    /\ UNCHANGED <<cursors, beat, shards, outbox, coords, cancels>>

-----------------------------------------------------------------------------
(* Cancellation.                                                           *)

(* mark_control_cancellation_requested locks the run first.                *)
RequestCancel(k, r) ==
    /\ cancels[k].at = "idle"
    /\ RunUnlocked(r)
    /\ runs[r].status # "completed"
    /\ cancels' = [cancels EXCEPT ![k] = [Rest EXCEPT !.at = "locked", !.run = r]]
    /\ UNCHANGED <<runs, cursors, beat, shards, outbox, coords, failures>>

(* ... and then drains its cursors, behind any dispatch that holds one.    *)
MarkCancelled(k) == LET r == cancels[k].run IN
    /\ cancels[k].at = "locked"
    /\ \A c \in Coordinator, s \in Shard : ~HasCursor(c, r, s)
    /\ cursors' = [cursors EXCEPT ![r] = [s \in Shard |-> "drained"]]
    /\ runs' = [runs EXCEPT ![r] = IF @.status = "cancelled" THEN @ ELSE
         [@ EXCEPT !.status = "cancelled", !.gate = "fail", !.cancelling = TRUE,
                   !.coordinator = Nobody, !.lease = "none"]]
    /\ beat' = IF runs[r].status = "cancelled" THEN beat ELSE Behind(r)
    /\ cancels' = [cancels EXCEPT ![k].at = "marked"]
    /\ UNCHANGED <<shards, outbox, coords, failures>>

(* The two lock orders meet: the server aborts one of the transactions.    *)
BreakDeadlock(c, k) ==
    /\ coords[c].at = "claimed" /\ cancels[k].at = "locked"
    /\ coords[c].run = cancels[k].run
    /\ \/ coords' = [coords EXCEPT ![c] = Idle] /\ UNCHANGED cancels
       \/ cancels' = [cancels EXCEPT ![k] = Rest] /\ UNCHANGED coords
    /\ UNCHANGED <<runs, cursors, beat, shards, outbox, failures>>

ReadRoutes(k) == LET r == cancels[k].run IN
    /\ cancels[k].at = "marked"
    /\ cancels' = [cancels EXCEPT ![k] =
         [@ EXCEPT !.at = "fanout", !.placed = Placed(r),
                   !.left = {shards[r][s].alias : s \in Shard}]]
    /\ UNCHANGED <<runs, cursors, beat, shards, outbox, coords, failures>>

(* begin_execution_cleanup_admission for the routes of one database.       *)
CleanupAdmittedAnyEpoch(k, d) ==   \* mutant: the route's epoch is not checked
    \A s \in Shard : cancels[k].placed[s].alias = d =>
      cancels[k].placed[s].placement # "moving"
CleanupAdmitted(k, d) ==
    \A s \in Shard : cancels[k].placed[s].alias = d =>
      /\ cancels[k].placed[s].placement # "moving"
      /\ shards[cancels[k].run][s].alias = d
      /\ shards[cancels[k].run][s].epoch = cancels[k].placed[s].epoch
      /\ shards[cancels[k].run][s].placement \in {"active", "draining"}

(* cancel_execution_target_with_transaction: every chunk the database      *)
(* stores for the run is cancelled; the routed shards are settled and get  *)
(* their summary row.                                                      *)
CancelTarget(k, d) ==
    LET r == cancels[k].run
        Cut(x) == [x EXCEPT !.todo = 0, !.out = 0, !.cut = @ + x.todo + x.out]
        Settle(x) == [Settled(x, x.cut, x.cut) EXCEPT !.cut = 0,
                        !.summary = IF @ = "none" THEN "running" ELSE @]
        After(s) == IF cancels[k].placed[s].alias = d
                    THEN Settle(Cut(shards[r][s])) ELSE Cut(shards[r][s])
    IN  /\ cancels[k].at = "fanout" /\ d \in cancels[k].left
        /\ CleanupAdmitted(k, d)
        /\ shards' = [shards EXCEPT ![r] = [s \in Shard |->
             IF @[s].alias = d THEN After(s) ELSE @[s]]]
        /\ cancels' = [cancels EXCEPT ![k].left = @ \ {d}]
        /\ UNCHANGED <<runs, cursors, beat, outbox, coords, failures>>

(* A target that refuses or fails ends the command with an error; the      *)
(* operator may repeat it.                                                 *)
CancelStops(k) ==
    /\ \/ /\ cancels[k].at = "fanout"
          /\ \E d \in cancels[k].left : ~CleanupAdmitted(k, d)
          /\ UNCHANGED failures
       \/ cancels[k].at # "idle" /\ Fault
    /\ cancels' = [cancels EXCEPT ![k] = Rest]
    /\ UNCHANGED <<runs, cursors, beat, shards, outbox, coords>>

(* finalize_control_cancellation                                           *)
CancelEnds(k) == LET r == cancels[k].run IN
    /\ cancels[k].at = "fanout" /\ cancels[k].left = {}
    /\ RunUnlocked(r)
    /\ runs' = [runs EXCEPT ![r] =
         [@ EXCEPT !.status = "cancelled", !.gate = "fail", !.cancelling = FALSE,
                   !.coordinator = Nobody, !.lease = "none"]]
    /\ beat' = Behind(r)
    /\ outbox' = outbox \cup {<<r, "cancelled">>}
    /\ cancels' = [cancels EXCEPT ![k] = Rest]
    /\ UNCHANGED <<cursors, shards, coords, failures>>

-----------------------------------------------------------------------------
(* What else happens to the shards.                                        *)

(* A worker settles a dispatched chunk; drained shards take settlements.   *)
SettleChunk(r, s) ==
    /\ shards[r][s].out > 0 /\ shards[r][s].placement # "moving"
    /\ \E b \in {0, 1} :
         shards' = [shards EXCEPT ![r][s] =
           [Settled(shards[r][s], 1, b) EXCEPT !.out = @ - 1]]
    /\ UNCHANGED <<runs, cursors, beat, outbox, coords, cancels, failures>>

(* Aggregation seals the summary of a settled shard, draining ones too.    *)
Seal(r, s) ==
    /\ shards[r][s].summary = "running" /\ shards[r][s].done = Chunks
    /\ shards[r][s].placement # "moving" /\ r \notin Poison
    /\ shards' = [shards EXCEPT ![r][s].summary = "sealed"]
    /\ UNCHANGED <<runs, cursors, beat, outbox, coords, cancels, failures>>

(* mark_shard_placement_draining, mark_shard_placement_moving and          *)
(* activate_moved_shard_placement, with the admission they go with.        *)
DrainShard(r, s) ==
    /\ shards[r][s].placement = "active" /\ shards[r][s].epoch < MaxEpoch
    /\ shards' = [shards EXCEPT ![r][s].placement = "draining"]
    /\ UNCHANGED <<runs, cursors, beat, outbox, coords, cancels, failures>>

FreezeShard(r, s) ==
    /\ shards[r][s].placement = "draining"
    /\ shards' = [shards EXCEPT ![r][s].placement = "moving"]
    /\ UNCHANGED <<runs, cursors, beat, outbox, coords, cancels, failures>>

ActivateShard(r, s, d) ==
    /\ shards[r][s].placement = "moving" /\ d # shards[r][s].alias
    /\ shards' = [shards EXCEPT ![r][s] =
         [shards[r][s] EXCEPT !.placement = "active", !.alias = d, !.epoch = @ + 1]]
    /\ UNCHANGED <<runs, cursors, beat, outbox, coords, cancels, failures>>

-----------------------------------------------------------------------------
Cycle(c) ==
    \/ BeginCycle(c) \/ ClaimRoute(c) \/ DispatchEnds(c) \/ Prepare(c)
    \/ WriteWindow(c) \/ WriteRefused(c) \/ CommitCursor(c)
    \/ PickCandidate(c) \/ CycleEnds(c)
    \/ \E d \in Database : ReadSummaries(c, d)
    \/ MarkChecked(c) \/ ClaimRun(c) \/ Finalize(c)

Disturb(c) ==
    \/ WriteFails(c) \/ CycleAborts(c)
    \/ \E d \in Database : ReadFails(c, d)

Cancel(k) ==
    \/ \E r \in Run : RequestCancel(k, r)
    \/ MarkCancelled(k) \/ ReadRoutes(k) \/ CancelStops(k) \/ CancelEnds(k)
    \/ \E d \in Database : CancelTarget(k, d)

Move(r, s) ==
    \/ DrainShard(r, s) \/ FreezeShard(r, s)
    \/ \E d \in Database : ActivateShard(r, s, d)

Next ==
    \/ \E c \in Coordinator : Cycle(c) \/ Disturb(c)
    \/ \E k \in Canceller : Cancel(k)
    \/ \E c \in Coordinator, k \in Canceller : BreakDeadlock(c, k)
    \/ \E r \in Run : LeaseExpires(r)
    \/ \E r \in Run, s \in Shard : SettleChunk(r, s) \/ Seal(r, s) \/ Move(r, s)

(* The coordinator ticks for ever and its statements return; leases run    *)
(* out; workers and aggregation go on (their own modules say why).         *)
Fairness ==
    /\ \A c \in Coordinator : WF_lifecycleVars(Cycle(c))
    /\ \A r \in Run : WF_lifecycleVars(LeaseExpires(r))
    /\ \A r \in Run, s \in Shard :
         WF_lifecycleVars(SettleChunk(r, s)) /\ WF_lifecycleVars(Seal(r, s))

Spec == Init /\ [][Next]_lifecycleVars /\ Fairness

-----------------------------------------------------------------------------
(* A completed run was finalized from every planned chunk: its totals and  *)
(* its gate are those of the settled chunks of all its shards, whichever   *)
(* coordinator wrote them, whatever moved while the summaries were read.   *)
CompletedIsWhole ==
    \A r \in Run : runs[r].status = "completed" =>
      LET settled == SumFunction([s \in Shard |-> shards[r][s].done])
          bad == SumFunction([s \in Shard |-> shards[r][s].bad])
      IN  /\ \A s \in Shard : shards[r][s].done = Chunks
          /\ runs[r].result = [settled |-> settled, bad |-> bad]
          /\ runs[r].gate = IF bad = 0 THEN "pass" ELSE "fail"

(* A run ends once: completed and cancelled runs keep their status and     *)
(* their gate, and only one of the two events is ever enqueued, although   *)
(* finalization and cancellation race and leases expire under a slow       *)
(* coordinator.                                                            *)
EndsOnceStep ==
    \A r \in Run :
      /\ runs[r].status \in Finished =>
           /\ runs'[r].status = runs[r].status
           /\ runs'[r].gate = runs[r].gate
      /\ ~(<<r, "completed">> \in outbox' /\ <<r, "cancelled">> \in outbox')
EndsOnce == [][EndsOnceStep]_lifecycleVars

(* A cancelled run that is no longer pending has no open or unsettled      *)
(* chunk left on any database: cleanup reached every shard at the place    *)
(* where it was, although shards move between the reading of the routes    *)
(* and the cleanup.                                                        *)
CancelledIsClean ==
    \A r \in Run : runs[r].status = "cancelled" /\ ~runs[r].cancelling =>
      \A s \in Shard : shards[r][s].done = Chunks /\ shards[r][s].summary # "none"

(* A drained cursor has nothing left to dispatch, so a chunk cannot be     *)
(* forgotten: the execution database commits the window before the control *)
(* database commits the cursor.                                            *)
NoChunkForgotten ==
    \A r \in Run, s \in Shard :
      cursors[r][s] = "drained" /\ runs[r].status # "cancelled" =>
        shards[r][s].todo = 0

(* Every run whose summaries can seal ends, even when a run that cannot be *)
(* finalized stands before it and a cycle inspects one candidate only.     *)
Ended(r) == runs[r].status \in Finished
EveryRunEnds == \A r \in Run \ Poison : <>Ended(r)
=============================================================================
