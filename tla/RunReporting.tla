---------------------------- MODULE RunReporting ----------------------------
(***************************************************************************)
(* What an operator reads of a run while it executes: vigilo run status,   *)
(* watch, results and export.                                              *)
(*                                                                         *)
(* No command reads under a lock or in one snapshot.  Each takes the       *)
(* control row, the routes, one summary query per database, and an export  *)
(* then five queries per page of executions, all at different moments.     *)
(* The question is what such a report may claim: that a run is complete,   *)
(* that a result is authoritative, that an export is whole.                *)
(*                                                                         *)
(* A command keeps the routes it has listed.  A move leaves the rows of    *)
(* the source where they are, so a reader of the source misses nothing;    *)
(* but a move back begins by emptying its target, and a command that still *)
(* reads there then finds rows missing.  reader.torn records that; it is   *)
(* the history of the command, and no step reads it.                       *)
(*                                                                         *)
(* The rows change under the reader by the transactions that modules       *)
(* ChunkExecution, ShardSummary, RunLifecycle and ShardMove describe; here *)
(* each is one environment step, and every execution is a chunk of its own.*)
(***************************************************************************)
EXTENDS Integers, Sequences, FiniteSets, FiniteSetsExt, SequencesExt

CONSTANTS
    Exec,         \* execution ids, in the order of their UUIDs
    Shard,        \* shard numbers
    ShardOf,      \* the shard of an execution
    Alias,        \* database aliases, in their order
    Placed,       \* the database each shard is seeded in
    MaxAttempts,  \* attempts of an execution
    BatchSize,    \* executions per page of an export
    Commands,     \* what the operator may ask for
    Timeout,      \* a watch's --timeout-seconds, 0 when it has none
    Interval,     \* a watch's --interval-seconds
    MaxMoves,     \* bound: shard moves
    MaxFaults     \* bound: reads that fail

VARIABLES
    run,      \* the control row and the scorecard row
    route,    \* the database of each shard, in the control database
    target,   \* the database each shard is being copied to, NoAlias if none
    rows,     \* per database, the rows of each execution and its settlement
    reader,   \* the command
    moves, faults

reportVars == <<run, route, target, rows, reader, moves, faults>>
world == <<run, route, target, rows, moves>>

NoAlias == 0

AttemptNo == 1 .. MaxAttempts
TerminalRun == {"completed", "failed", "cancelled"}
TerminalExecution == {"completed", "failed", "cancelled"}
FinishedAttempt == {"completed", "failed_agent_call"}

ExecsOf(s) == {e \in Exec : ShardOf[e] = s}
At(e) == route[ShardOf[e]]
RowOf(e) == rows[At(e)][e]

(* planned: the chunk of the execution has its row, and so has the summary *)
(* of its shard.  A database that never had the shard has neither.         *)
Unborn == [planned |-> TRUE, status |-> "absent", attempt |-> 0,
           attempts |-> [n \in AttemptNo |-> "absent"], aggregate |-> 0,
           results |-> {}, settled |-> FALSE, folded |-> FALSE]
Gone == [Unborn EXCEPT !.planned = FALSE]

-----------------------------------------------------------------------------
(* The environment.  A transaction writes the rows of one execution at the *)
(* database that owns its shard.                                           *)
Write(e, row) ==
    /\ rows' = [rows EXCEPT ![At(e)][e] = row]
    /\ UNCHANGED <<run, route, target, reader, moves, faults>>

(* A worker starts the next attempt and supersedes a running one.          *)
Allocate(e) ==
    LET row == RowOf(e) IN
    /\ run.status = "running" /\ ~row.settled
    /\ row.status \notin TerminalExecution /\ row.attempt < MaxAttempts
    /\ Write(e, [row EXCEPT
            !.status = "running",
            !.attempt = row.attempt + 1,
            !.attempts = [n \in AttemptNo |->
                IF n = row.attempt + 1 THEN "running"
                ELSE IF @[n] = "running" THEN "stale" ELSE @[n]]])

(* persist_completed_execution_results_batch: results, diagnostics and     *)
(* aggregate of the running current attempt, in one transaction.  The      *)
(* attempt still runs.                                                     *)
Persist(e) ==
    LET row == RowOf(e) IN
    /\ row.attempt > 0 /\ row.attempts[row.attempt] = "running"
    /\ row.attempt \notin row.results
    /\ Write(e, [row EXCEPT !.aggregate = row.attempt, !.results = @ \cup {row.attempt}])

(* finalize_execution_terminal_transitions: attempt and execution together;*)
(* a failure writes its own aggregate, unless it is to be retried.         *)
Finalize(e) ==
    LET row == RowOf(e)
        End(attempt, execution, aggregate) ==
            Write(e, [row EXCEPT !.attempts[row.attempt] = attempt,
                                 !.status = execution, !.aggregate = aggregate])
    IN  /\ row.attempt > 0 /\ row.attempts[row.attempt] = "running"
        /\ \/ row.aggregate = row.attempt /\ End("completed", "completed", row.aggregate)
           \/ row.attempt < MaxAttempts
                /\ End("failed_agent_call", "retry_scheduled", row.aggregate)
           \/ row.attempt = MaxAttempts /\ End("failed_agent_call", "failed", row.attempt)

(* The chunk ends and is settled: open work is closed and loses its        *)
(* authority.  A chunk that fails or is cancelled before it was executed   *)
(* leaves no execution row at all.                                         *)
SettleChunk(e) ==
    LET row == RowOf(e) IN
    /\ run.status \notin {"creating"} /\ ~row.settled
    /\ Write(e, [row EXCEPT
            !.settled = TRUE,
            !.status = IF @ \in TerminalExecution \cup {"absent"} THEN @
                       ELSE IF run.status = "cancelled" THEN "cancelled" ELSE "failed",
            !.attempts = [n \in AttemptNo |->
                IF @[n] = "running" THEN "stale" ELSE @[n]]])

(* The coordinator folds the receipt into the shard's summary.             *)
FoldReceipt(e) ==
    /\ RowOf(e).settled /\ ~RowOf(e).folded
    /\ Write(e, [RowOf(e) EXCEPT !.folded = TRUE])

Sealed(s) == \A e \in ExecsOf(s) : RowOf(e).folded

(* The run is activated, fails to be created, is finalized with its        *)
(* scorecard in one transaction, or is cancelled.                          *)
Lifecycle ==
    /\ \/ run.status = "creating"
            /\ run' \in {[run EXCEPT !.status = "running", !.started = TRUE],
                         [run EXCEPT !.status = "failed"]}
       \/ run.status = "running" /\ \A s \in Shard : Sealed(s)
            /\ \E gate \in {"pass", "fail"} :
                run' = [run EXCEPT !.status = "completed", !.gate = gate,
                                   !.scorecard = TRUE]
       \/ run.status \in {"creating", "running"} /\ run' = [run EXCEPT !.status = "cancelled"]
    /\ UNCHANGED <<route, target, rows, reader, moves, faults>>

(* A move empties its target of the shard's rows, which a shard that was   *)
(* there before has left behind.  Whoever still reads them there is torn.  *)
BeginMove(s) ==
    /\ moves < MaxMoves /\ run.status # "creating" /\ target[s] = NoAlias
    /\ \E a \in Alias \ {route[s]} :
        /\ rows' = [rows EXCEPT ![a] = [e \in Exec |->
                IF e \in ExecsOf(s) THEN Gone ELSE rows[a][e]]]
        /\ target' = [target EXCEPT ![s] = a]
        /\ reader' = [reader EXCEPT !.torn =
                @ \/ (s \in DOMAIN reader.routes /\ reader.routes[s] = a)]
    /\ moves' = moves + 1
    /\ UNCHANGED <<run, route, faults>>

(* Backfill and replay: rows follow the owner while it is written.         *)
CopyRows(e) ==
    /\ target[ShardOf[e]] # NoAlias
    /\ rows' = [rows EXCEPT ![target[ShardOf[e]]][e] = RowOf(e)]
    /\ UNCHANGED <<run, route, target, reader, moves, faults>>

(* The drained shard's route is switched to the copy.  Nobody writes to    *)
(* the source afterwards, and its rows stay.                               *)
Cutover(s) ==
    /\ target[s] # NoAlias
    /\ \A e \in ExecsOf(s) :
        /\ rows[target[s]][e] = RowOf(e)
        /\ \A n \in AttemptNo : RowOf(e).attempts[n] # "running"
    /\ route' = [route EXCEPT ![s] = target[s]]
    /\ target' = [target EXCEPT ![s] = NoAlias]
    /\ UNCHANGED <<run, rows, reader, moves, faults>>

-----------------------------------------------------------------------------
(* The reports.  A summary row is what the query returns of a shard at a   *)
(* database: which of its executions' chunks it has counted.  A shard      *)
(* without a summary there has no row in the answer.                       *)
SelectSummaries(a, S) ==
    LET there == {s \in S : \E e \in ExecsOf(s) : rows[a][e].planned}
        found == SetToSortSeq(there, <)
    IN [i \in DOMAIN found |->
        LET s == found[i] IN
        [settled |-> Cardinality({e \in ExecsOf(s) : rows[a][e].folded}),
         passed |-> Cardinality({e \in ExecsOf(s) :
                        rows[a][e].folded /\ rows[a][e].status = "completed"}),
         terminal |-> \A e \in ExecsOf(s) : rows[a][e].folded]]

(* combine_run_shard_progress, combine_run_shard_summaries: sums over the  *)
(* shards.                                                                 *)
CombineProgress(found) ==
    [settled |-> FoldSeq(LAMBDA x, n : n + x.settled, 0, found),
     passed  |-> FoldSeq(LAMBDA x, n : n + x.passed, 0, found),
     sealed  |-> Len(SelectSeq(found, LAMBDA x : x.terminal)),
     shards  |-> Len(found)]

(* RunProgressSummary::from_control_run: the counts that finalization and  *)
(* cancellation left in the control row.                                   *)
ControlProgress(r) ==
    [settled |-> IF r.status = "completed" THEN Cardinality(Exec) ELSE 0,
     passed |-> 0, sealed |-> 0, shards |-> 0]

(* The run's shards grouped by database, in the order of the aliases.      *)
Databases(routes) == SetToSortSeq({routes[s] : s \in DOMAIN routes}, <)
ShardsAt(routes, a) == {s \in DOMAIN routes : routes[s] = a}

(* list_shard_placements_for_run: a run in creation has no placements yet. *)
SelectRoutes == IF run.started THEN route ELSE [s \in {} |-> 0]

CreationOwned(r) == r.status = "creating" \/ (r.status = "failed" /\ ~r.started)

NoRun == [status |-> "none", gate |-> "pending", started |-> FALSE, scorecard |-> FALSE]
Blank == [pc |-> "run", run |-> NoRun, routes |-> [s \in {} |-> 0], todo |-> <<>>,
          found |-> <<>>, scorecard |-> FALSE, shards |-> <<>>, cursor |-> 0,
          page |-> <<>>, out |-> <<>>, last |-> <<>>, elapsed |-> 0, exit |-> "none",
          command |-> "none", torn |-> FALSE]

Reading(pc) == reader.pc = pc /\ UNCHANGED world
Step(next) == reader' = next /\ UNCHANGED faults
Polls == reader.command \in {"status", "watch"}

(* The control row.  A status of a run still in creation goes on to its    *)
(* creation progress, every other command to the routes.                   *)
ReadRun ==
    /\ Reading("run")
    /\ Step([reader EXCEPT
            !.run = run, !.found = <<>>,
            !.pc = IF Polls /\ CreationOwned(run) THEN "creation" ELSE "routes"])

(* select_creation_progress: another statement; the run may be active by   *)
(* now.                                                                    *)
ReadCreation ==
    /\ Reading("creation")
    /\ Step([reader EXCEPT !.pc = "emit"])

RoutesOnce ==   \* mutant: the routes of the first poll are kept
    IF reader.routes = [s \in {} |-> 0] THEN SelectRoutes ELSE reader.routes

RoutesNow == SelectRoutes

ReadRoutes ==
    /\ Reading("routes")
    /\ Step([reader EXCEPT !.routes = RoutesNow, !.todo = Databases(RoutesNow),
                           !.pc = "summaries", !.torn = FALSE])

(* One summary query per database.                                         *)
ReadSummaries ==
    /\ Reading("summaries") /\ reader.todo # <<>>
    /\ LET a == Head(reader.todo) IN
       Step([reader EXCEPT !.todo = Tail(@),
                           !.found = @ \o SelectSummaries(a, ShardsAt(reader.routes, a))])

EndSummaries ==
    /\ Reading("summaries") /\ reader.todo = <<>>
    /\ Step([reader EXCEPT !.pc = IF Polls THEN "emit" ELSE "scorecard"])

(* A read fails and the command with it: no command retries.  What JSONL   *)
(* has written stays written.                                              *)
ReadFails ==
    /\ reader.pc \notin {"idle", "emit", "sleep", "done"}
    /\ faults < MaxFaults /\ faults' = faults + 1
    /\ reader' = [Blank EXCEPT !.pc = "done", !.exit = "error",
                               !.command = reader.command, !.out = reader.out,
                               !.torn = reader.torn]
    /\ UNCHANGED world

-----------------------------------------------------------------------------
(* status and watch.                                                       *)
LiveUntilTerminal ==   \* mutant: an ended run is read from its control row
    IF reader.found = <<>> \/ reader.run.status \in TerminalRun
    THEN ControlProgress(reader.run) ELSE CombineProgress(reader.found)

LiveProgress ==
    IF reader.found = <<>> THEN ControlProgress(reader.run) ELSE CombineProgress(reader.found)

ProgressSource ==
    IF CreationOwned(reader.run) THEN "run_creation"
    ELSE IF reader.found # <<>> THEN "execution_shards" ELSE "control_run"

(* live_progress_complete: every route has answered with a summary.        *)
LiveProgressComplete ==
    /\ reader.routes # [s \in {} |-> 0]
    /\ Cardinality(DOMAIN reader.routes) = Len(reader.found)

(* RunWatchSnapshotKey and the payload: what of a status is visible.       *)
Snapshot == <<[status |-> reader.run.status, gate |-> reader.run.gate,
               live |-> LiveProgress, source |-> ProgressSource,
               complete |-> LiveProgressComplete]>>

TerminalFailure(r) == r.status \in {"failed", "cancelled"}
GateFailure(r) == r.status = "completed" /\ r.gate # "pass"

(* A watch writes a snapshot that differs from the last one it wrote, and  *)
(* the terminal one; a terminal run ends it, with an error when the run    *)
(* failed, or its gate did and the watch was not told to ignore that.      *)
EmitWatch ==
    /\ Reading("emit") /\ reader.command = "watch"
    /\ LET written == [reader EXCEPT !.last = Snapshot] IN
       IF reader.run.status \in TerminalRun
       THEN \E failOnGate \in BOOLEAN :
            Step([written EXCEPT !.pc = "done",
                    !.exit = IF \/ TerminalFailure(reader.run)
                                \/ failOnGate /\ GateFailure(reader.run)
                             THEN "error" ELSE "ok"])
       ELSE Step([written EXCEPT !.pc = "sleep"])

EmitStatus ==
    /\ Reading("emit") /\ reader.command = "status"
    /\ Step([reader EXCEPT !.last = Snapshot, !.pc = "done", !.exit = "ok"])

Overdue == Timeout > 0 /\ reader.elapsed >= Timeout
OverdueNever == FALSE   \* mutant: every poll starts a new deadline

(* The watch gives up at its deadline, and otherwise sleeps an interval or *)
(* what is left of its time, and polls again.                              *)
SleepOrGiveUp(overdue) ==
    /\ Reading("sleep")
    /\ IF overdue
       THEN Step([reader EXCEPT !.pc = "done", !.exit = "timeout"])
       ELSE Step([reader EXCEPT !.pc = "run",
                    !.elapsed = IF Timeout = 0 THEN 0 ELSE Min({@ + Interval, Timeout})])

SleepForever == SleepOrGiveUp(OverdueNever)   \* mutant
Sleep == SleepOrGiveUp(Overdue)

-----------------------------------------------------------------------------
(* results and export.                                                     *)
ReadScorecard ==
    /\ Reading("scorecard")
    /\ Step([reader EXCEPT
            !.scorecard = run.scorecard, !.found = <<>>,
            !.pc = IF reader.command = "results" THEN "done" ELSE "export_routes",
            !.exit = IF reader.command = "results" THEN "ok" ELSE @])

(* The export lists the routes again and keeps that list to its end.       *)
ReadExportRoutes ==
    /\ Reading("export_routes")
    /\ Step([reader EXCEPT !.routes = SelectRoutes, !.cursor = 0, !.torn = FALSE,
                           !.shards = SetToSortSeq(DOMAIN SelectRoutes, <), !.pc = "page"])

(* select_executions: the next ids of the shard, at the database of the    *)
(* export's route.                                                         *)
PageAt(a, s) ==
    LET rest == {e \in ExecsOf(s) : e > reader.cursor /\ rows[a][e].status # "absent"}
        ids  == SetToSortSeq(rest, <)
    IN  SubSeq(ids, 1, Min({BatchSize, Len(ids)}))

(* The loop over one shard ends with an empty page.                        *)
NextShardKeeping ==   \* mutant: the cursor is declared outside the loop
    [reader EXCEPT !.shards = Tail(@)]

NextShard == [reader EXCEPT !.shards = Tail(@), !.cursor = 0]

LoadPage ==
    /\ Reading("page") /\ reader.shards # <<>>
    /\ LET s    == Head(reader.shards)
           a    == reader.routes[s]
           page == PageAt(a, s)
       IN  IF page = <<>>
           THEN Step(NextShard)
           ELSE Step([reader EXCEPT
                    !.cursor = Last(page), !.pc = "attempts",
                    !.page = [i \in DOMAIN page |->
                        [Unborn EXCEPT !.status = rows[a][page[i]].status,
                                       !.attempt = rows[a][page[i]].attempt]
                        @@ [id |-> page[i], diagnostics |-> {}]]])

(* The page's attempts, then its aggregates, then the results of the       *)
(* attempts found and the diagnostics of the results found: a query each.  *)
(* Persist writes diagnostics with their results.                          *)
Fill(pc, next, page) ==
    /\ Reading(pc)
    /\ Step([reader EXCEPT !.pc = next, !.page = page])

QueriedRow(g) == rows[reader.routes[Head(reader.shards)]][g.id]

ReadAttempts ==
    Fill("attempts", "aggregates", [i \in DOMAIN reader.page |->
        [reader.page[i] EXCEPT !.attempts = QueriedRow(reader.page[i]).attempts]])

ReadAggregates ==
    Fill("aggregates", "results", [i \in DOMAIN reader.page |->
        [reader.page[i] EXCEPT !.aggregate = QueriedRow(reader.page[i]).aggregate]])

ReadResults ==
    Fill("results", "diagnostics", [i \in DOMAIN reader.page |->
        [reader.page[i] EXCEPT !.results = {n \in QueriedRow(reader.page[i]).results :
                                               reader.page[i].attempts[n] # "absent"}]])

ReadDiagnostics ==
    Fill("diagnostics", "write", [i \in DOMAIN reader.page |->
        [reader.page[i] EXCEPT
            !.diagnostics = reader.page[i].results \cap QueriedRow(reader.page[i]).results]])

(* evidence_state: how the export labels attempt n of a group.             *)
EvidenceOfAttempt(g, n) ==   \* mutant: the execution's status is not looked at
    IF g.attempt # n \/ g.attempts[n] = "stale" THEN "stale"
    ELSE IF g.attempts[n] \in FinishedAttempt /\ g.aggregate = n
    THEN "authoritative" ELSE "partial"

EvidenceState(g, n) ==
    IF g.attempt # n \/ g.attempts[n] = "stale" THEN "stale"
    ELSE IF /\ g.status \in TerminalExecution
            /\ g.attempts[n] \in FinishedAttempt
            /\ g.aggregate = n
    THEN "authoritative" ELSE "partial"

(* The groups of a page, each with its attempts and their labels: written  *)
(* at once as JSONL, or kept for the one JSON document.                    *)
Group(g) ==
    [id |-> g.id, status |-> g.status, attempt |-> g.attempt, aggregate |-> g.aggregate,
     results |-> g.results, diagnostics |-> g.diagnostics,
     labels |-> [n \in {n \in AttemptNo : g.attempts[n] # "absent"} |-> EvidenceState(g, n)]]

WritePage ==
    /\ Reading("write")
    /\ Step([reader EXCEPT !.pc = "page", !.page = <<>>,
                !.out = @ \o [i \in DOMAIN reader.page |-> Group(reader.page[i])]])

EndExport ==
    /\ Reading("page") /\ reader.shards = <<>>
    /\ Step([reader EXCEPT !.pc = "done", !.exit = "ok"])

-----------------------------------------------------------------------------
Init ==
    /\ run = [NoRun EXCEPT !.status = "creating"]
    /\ route = Placed
    /\ target = [s \in Shard |-> NoAlias]
    /\ rows = [a \in Alias |-> [e \in Exec |->
                  IF Placed[ShardOf[e]] = a THEN Unborn ELSE Gone]]
    /\ \E c \in Commands : reader = [Blank EXCEPT !.command = c]
    /\ moves = 0 /\ faults = 0

Command ==
    \/ ReadRun \/ ReadCreation \/ ReadRoutes \/ ReadSummaries \/ EndSummaries
    \/ EmitWatch \/ EmitStatus \/ Sleep
    \/ ReadScorecard \/ ReadExportRoutes \/ LoadPage \/ ReadAttempts \/ ReadAggregates
    \/ ReadResults \/ ReadDiagnostics \/ WritePage \/ EndExport

Environment ==
    \/ \E e \in Exec : \/ Allocate(e) \/ Persist(e) \/ Finalize(e)
                       \/ SettleChunk(e) \/ FoldReceipt(e) \/ CopyRows(e)
    \/ Lifecycle
    \/ \E s \in Shard : BeginMove(s) \/ Cutover(s)

Next == Command \/ ReadFails \/ Environment

(* The command is a process of its own and nothing holds it up: every read *)
(* answers or fails.                                                       *)
Spec == Init /\ [][Next]_reportVars /\ WF_reportVars(Command)

-----------------------------------------------------------------------------
(* Every variable has its type.                                            *)
TypeOK ==
    /\ run.status \in {"creating", "running"} \cup TerminalRun
    /\ run.gate \in {"pending", "pass", "fail"}
    /\ route \in [Shard -> Alias]
    /\ target \in [Shard -> Alias \cup {NoAlias}]
    /\ \A a \in Alias, e \in Exec :
        /\ rows[a][e].status \in {"absent", "running", "retry_scheduled"} \cup TerminalExecution
        /\ rows[a][e].attempt \in 0 .. MaxAttempts
        /\ rows[a][e].aggregate \in 0 .. MaxAttempts
        /\ rows[a][e].results \subseteq AttemptNo
    /\ reader.exit \in {"none", "ok", "error", "timeout"}
    /\ reader.elapsed \in 0 .. Timeout
    /\ Len(reader.out) <= Cardinality(Exec)

(* What an export labels authoritative is the execution's final evidence:  *)
(* the database that owns the shard says the same of it now, and the       *)
(* results and diagnostics the attempt left are all in the group.  The     *)
(* rows of a group come from five queries, possibly at a database the      *)
(* shard has left; that the shard has not come back to it since is the one *)
(* condition, for nothing in evidence_state looks for rows that went away. *)
AuthoritativeIsFinal ==
    ~reader.torn =>
    \A i \in DOMAIN reader.out :
        LET g == reader.out[i] IN
        \A n \in DOMAIN g.labels :
            g.labels[n] = "authoritative" =>
                LET row == RowOf(g.id) IN
                /\ row.status = g.status /\ row.attempt = n /\ row.aggregate = n
                /\ g.results \cap {n} = row.results \cap {n}
                /\ g.diagnostics \cap {n} = row.results \cap {n}

(* An export whose header says completed, and that ends without an error,  *)
(* holds every execution of the run once, by shard and id, each in its     *)
(* final status: unless a database it was still reading was emptied for a  *)
(* move back.  Whatever happened, no execution is in it twice, or as       *)
(* anything but what it ended as.                                          *)
CompletedExportIsWhole ==
    reader.command = "export" /\ reader.exit = "ok" /\ reader.run.status = "completed" =>
        /\ ~reader.torn => {reader.out[i].id : i \in DOMAIN reader.out}
                                = {e \in Exec : RowOf(e).status # "absent"}
        /\ \A i \in DOMAIN reader.out : reader.out[i].status = RowOf(reader.out[i].id).status
        /\ \A i, j \in DOMAIN reader.out :
            i < j => LET x == reader.out[i].id
                         y == reader.out[j].id
                     IN  \/ ShardOf[x] < ShardOf[y]
                         \/ ShardOf[x] = ShardOf[y] /\ x < y

(* A report that says completed, and has a summary of every shard, shows   *)
(* final counts: every shard sealed and every chunk settled, although the  *)
(* summaries were read after the control row and one database at a time,   *)
(* and although one may have been copied back under the reader.  A summary *)
(* is missing only when a shard was moved back meanwhile; status and watch *)
(* then say that their progress is not complete.                           *)
CompletedReportIsFinal ==
    reader.pc \in {"emit", "scorecard"} /\ reader.run.status = "completed" =>
        LET counts == CombineProgress(reader.found) IN
        /\ counts.shards = Cardinality(Shard) =>
            /\ counts.sealed = Cardinality(Shard)
            /\ counts.settled = Cardinality(Exec)
            /\ counts.passed = Cardinality({e \in Exec : RowOf(e).status = "completed"})
        /\ counts.shards < Cardinality(Shard) => reader.torn /\ ~LiveProgressComplete

(* What a watch shows never goes back: not its counts, although a shard    *)
(* may move between two polls and come back inside one, as long as the     *)
(* snapshot says its progress is complete; and not a run's end.            *)
WatchNeverGoesBackStep ==
    reader.last # <<>> /\ reader'.last # <<>> =>
     /\ reader'.last[1].complete =>
            reader'.last[1].live.settled >= reader.last[1].live.settled
     /\ reader.last[1].status \in TerminalRun => reader'.last = reader.last
WatchNeverGoesBack == [][WatchNeverGoesBackStep]_reportVars

(* A watch with a timeout ends, whether or not the run does.               *)
WatchTimed == reader.command = "watch" /\ Timeout > 0
Reported   == reader.pc = "done"
WatchEnds  == WatchTimed ~> Reported
=============================================================================
