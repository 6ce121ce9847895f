--------------------------- MODULE ChunkExecution ---------------------------
(***************************************************************************)
(* How workers execute the chunks of one run shard, and what the database  *)
(* lets them write.                                                        *)
(*                                                                         *)
(* The state is that of one execution database: the rows of run_chunks,    *)
(* executions, execution_attempts, execution_aggregates and                *)
(* run_chunk_settlements of one shard, and the shard's row in              *)
(* local_shard_admissions.  The actors are worker tasks (one per delivered *)
(* chunk-ready message), the heartbeat of each task, the coordinator's     *)
(* recovery of expired leases, run cancellation, and the shard mover.      *)
(*                                                                         *)
(* Every action that writes is one database transaction.  PostgreSQL fixes *)
(* now() when the transaction starts, and the transaction may wait for     *)
(* locks before its writes take effect, so a transaction reads a time of   *)
(* the recent past: an element of Now, at most TxLag ticks old.            *)
(*                                                                         *)
(* Delivery is not modelled here.  A task may receive a message for any    *)
(* chunk at any time, which covers every loss, duplication and reordering  *)
(* of messages; module WorkDelivery is about the messages.                 *)
(***************************************************************************)
EXTENDS Integers, FiniteSets

CONSTANTS
    Chunk,            \* the chunks of the shard
    Case,             \* the cases of the shard, one execution each
    ChunkOf,          \* the chunk whose ordinal range holds a case
    Task,             \* message handlers that may be in flight
    Worker,           \* worker process identities (worker_id)
    WorkerOf,         \* the process a task runs in
    NoChunk,          \* what an idle task holds
    NoWorker,         \* the worker_id of a row that does not exist
    BatchSize,        \* cases per batch of PreparedCases::next
    MaxAttempts,      \* run profile defaults.max_attempts
    MaxRecoveries,    \* the coordinator's recovery limit
    ClaimLease,       \* CHUNK_LEASE_SECONDS
    ProcessingLease,  \* CHUNK_PROCESSING_LEASE_SECONDS
    AttemptLease,     \* ATTEMPT_LEASE_SECONDS
    RedeliveryGrace,  \* seconds a delayed delivery waits beyond the lease
    RetryDelays,      \* the waits that retry_after may prescribe
    TxLag,            \* how long a transaction may wait before it writes
    Unlucky,          \* bound: the tasks whose database operations or process fail
    MaxClock,         \* bound: the last instant
    MaxToken,         \* bound: how many claims are made
    MaxEpoch          \* bound: how often the shard is fenced

ASSUME ChunkAssumption ==
    /\ ChunkOf \in [Case -> Chunk]
    /\ NoChunk \notin Chunk
ASSUME WorkerAssumption ==
    /\ WorkerOf \in [Task -> Worker]
    /\ NoWorker \notin Worker
ASSUME BudgetAssumption ==
    /\ MaxAttempts \in Nat \ {0}
    /\ MaxRecoveries \in Nat
    /\ BatchSize \in Nat \ {0}
ASSUME TimeAssumption ==
    /\ ClaimLease \in Nat /\ ProcessingLease \in Nat /\ AttemptLease \in Nat
    /\ RedeliveryGrace \in Nat \ {0}
    /\ RetryDelays \subseteq Nat
    /\ TxLag \in Nat
ASSUME LeaseAssumption ==   \* 60 and 120 seconds
    ClaimLease <= ProcessingLease
ASSUME BoundAssumption ==
    Unlucky \subseteq Task /\ MaxClock \in Nat /\ MaxToken \in Nat /\ MaxEpoch \in Nat

VARIABLES
    clock,        \* the database's clock
    run,          \* the run's status in the control database
    admission,    \* the shard's row in local_shard_admissions
    chunks,       \* run_chunks
    executions,   \* executions
    attempts,     \* execution_attempts, by execution and attempt_no
    aggregates,   \* execution_aggregates
    receipts,     \* run_chunk_settlements
    lastToken,    \* the last lease token handed out
    tasks         \* what each message handler is doing

vars == <<clock, run, admission, chunks, executions, attempts, aggregates,
          receipts, lastToken, tasks>>

rows == <<chunks, executions, attempts, aggregates, receipts>>

-----------------------------------------------------------------------------
(* Rows.                                                                   *)

AttemptNo == 1 .. MaxAttempts

TerminalChunk == {"completed", "failed", "cancelled"}
ChunkStatus   == {"pending", "leased"} \cup TerminalChunk

\* An execution is inserted as pending and set to running in one transaction,
\* so pending is never seen; "absent" means that it is not inserted yet.
OpenExecution     == {"running", "retry_scheduled"}
TerminalExecution == {"completed", "failed", "cancelled"}
ExecutionStatus   == {"absent"} \cup OpenExecution \cup TerminalExecution

\* "finished" stands for failed_agent_call and failed_evaluation.
FinishedAttempt == {"completed", "finished"}
AttemptStatus   == {"absent", "running", "stale", "cancelled"} \cup FinishedAttempt

ChunkRow     == [status: ChunkStatus, token: Nat, until: Int, recoveries: Nat]
ExecutionRow == [status: ExecutionStatus, attemptNo: 0 .. MaxAttempts, retryAfter: Int]
AttemptRow   == [status: AttemptStatus, worker: Worker \cup {NoWorker}, until: Int]
AggregateRow == [attempt: 0 .. MaxAttempts, kind: {"none", "result", "error"}]
Scored       == [case: Case, kind: {"result", "error"}]
ReceiptRow   == [disposition: {"none"} \cup TerminalChunk, evidence: SUBSET Scored]

(* A NULL lease token is 0, and so is a NULL timestamp.                    *)
Unleased(row, status) ==
    [status |-> status, token |-> 0, until |-> 0, recoveries |-> row.recoveries]

CasesOf(c) == {k \in Case : ChunkOf[k] = c}

Leased(c) == chunks[c].status = "leased"

(* The execution's current attempt, by current_attempt_id and _no.         *)
IsCurrent(k, n) == executions[k].attemptNo = n

-----------------------------------------------------------------------------
(* Tasks.  A transition is what the worker will report about an attempt:   *)
(* it completed, it failed in a way the policy retries ("retryable") or    *)
(* not ("terminal"), or the execution had no attempts left ("exhausted").  *)

Outcome    == {"completed", "retryable", "terminal"}
Transition == [case: Case, attempt: AttemptNo, outcome: Outcome \cup {"exhausted"}]
Allocation == [case: Case, attempt: AttemptNo]

TaskState == {"idle", "claimed", "batch", "evaluate", "finalize", "summarize",
              "completing", "waiting", "failing", "delayed", "orphan", "dead"}

(* The heartbeat beside the handler: not running, between two beats,       *)
(* between renewing the chunk and renewing its attempts, or ended because  *)
(* the lease was lost, which cancels the handler's reads.                  *)
HeartbeatState == {"off", "on", "renewed", "lost"}

TaskRow == [pc: TaskState, chunk: Chunk \cup {NoChunk}, token: Nat, epoch: Nat,
            todo: SUBSET Case, batch: SUBSET Allocation,
            transitions: SUBSET Transition, beat: HeartbeatState, resumeAt: Int]

IdleTask == [pc |-> "idle", chunk |-> NoChunk, token |-> 0, epoch |-> 0,
             todo |-> {}, batch |-> {}, transitions |-> {}, beat |-> "off",
             resumeAt |-> 0]

(* Every variable holds rows of its table, with the statuses the columns'  *)
(* CHECK constraints allow, and every worker task is in a known state.     *)
TypeOK ==
    /\ clock \in Nat
    /\ run \in {"running", "cancelled"}
    /\ admission \in [epoch: Nat, state: {"open", "draining", "closed"}]
    /\ chunks \in [Chunk -> ChunkRow]
    /\ executions \in [Case -> ExecutionRow]
    /\ attempts \in [Case -> [AttemptNo -> AttemptRow]]
    /\ aggregates \in [Case -> AggregateRow]
    /\ receipts \in [Chunk -> ReceiptRow]
    /\ lastToken \in Nat
    /\ tasks \in [Task -> TaskRow]

(* The shard after run admission and dispatch: chunks seeded, none claimed.*)
Init ==
    /\ clock = 0
    /\ run = "running"
    /\ admission = [epoch |-> 1, state |-> "open"]
    /\ chunks = [c \in Chunk |->
                    [status |-> "pending", token |-> 0, until |-> 0, recoveries |-> 0]]
    /\ executions = [k \in Case |->
                        [status |-> "absent", attemptNo |-> 0, retryAfter |-> 0]]
    /\ attempts = [k \in Case |-> [n \in AttemptNo |->
                        [status |-> "absent", worker |-> NoWorker, until |-> 0]]]
    /\ aggregates = [k \in Case |-> [attempt |-> 0, kind |-> "none"]]
    /\ receipts = [c \in Chunk |-> [disposition |-> "none", evidence |-> {}]]
    /\ lastToken = 0
    /\ tasks = [t \in Task |-> IdleTask]

(* What now() may return in a transaction that takes effect at this point. *)
Now == {t \in 0 .. clock : t >= clock - TxLag}

-----------------------------------------------------------------------------
(* Guards and writes that several operations share.                        *)

Admits(epoch) == admission.epoch = epoch /\ admission.state \in {"open", "draining"}

(* The predicate of lock_live_chunk_lease, extend_chunk_lease, mark_chunk_ *)
(* completed, mark_chunk_failed and release_chunk_as_pending.              *)
HoldsLease(t, now) ==
    LET row == chunks[tasks[t].chunk] IN
    /\ row.status = "leased"
    /\ row.token = tasks[t].token
    /\ row.until >= now
    /\ Admits(tasks[t].epoch)

(* What receipt.sql counts: a terminal execution whose aggregate is that   *)
(* of a current attempt that finished.                                     *)
Counted(k, exe, att) ==
    /\ exe[k].status \in TerminalExecution
    /\ exe[k].attemptNo > 0
    /\ aggregates[k].attempt = exe[k].attemptNo
    /\ att[k][exe[k].attemptNo].status \in FinishedAttempt

(* The evidence for chunk c.                                               *)
Evidence(c, exe, att) ==
    {[case |-> k, kind |-> aggregates[k].kind] :
        k \in {k \in CasesOf(c) : Counted(k, exe, att)}}

(* An attempt that does not run any more.  Its worker_id and lease are     *)
(* never read again, and the model forgets them.                           *)
Ended(status) == [status |-> status, worker |-> NoWorker, until |-> 0]

(* Running attempts of the executions in K lose their authority.           *)
Retire(att, K, status) ==
    [k \in Case |-> [n \in AttemptNo |->
        IF k \in K /\ att[k][n].status = "running" THEN Ended(status) ELSE att[k][n]]]

(* The open executions of the chunks in C, whose terminal status the       *)
(* transaction has just written to chunks', become cancelled or failed.    *)
ResolvedRunning(C, exe) ==   \* mutant: waiting retries are not closed
    [k \in Case |->
        IF ChunkOf[k] \in C /\ exe[k].status = "running"
        THEN [exe[k] EXCEPT !.status = "failed", !.retryAfter = 0]
        ELSE exe[k]]

ResolvedByResult(C, exe) ==   \* mutant: a persisted result completes the execution
    [k \in Case |->
        IF ChunkOf[k] \in C /\ exe[k].status \in OpenExecution
        THEN [exe[k] EXCEPT
                !.status = IF aggregates[k].kind = "result" THEN "completed" ELSE "failed",
                !.retryAfter = 0]
        ELSE exe[k]]

Resolved(C, exe) ==
    [k \in Case |->
        IF ChunkOf[k] \in C /\ exe[k].status \in OpenExecution
        THEN [status |-> IF chunks'[ChunkOf[k]].status = "cancelled"
                         THEN "cancelled" ELSE "failed",
              attemptNo |-> exe[k].attemptNo,
              retryAfter |-> 0]
        ELSE exe[k]]

(* settle_locked_chunk_with for each chunk of C; exe and att are the rows  *)
(* as the transaction has left them.                                       *)
Unsettled(C) == {c \in C : receipts[c].disposition = "none"}

Settle(C, exe, att) ==
    LET fresh    == Unsettled(C)
        retired  == Retire(att, {k \in Case : ChunkOf[k] \in fresh}, "stale")
        resolved == Resolved(fresh, exe)
    IN  /\ \A c \in C \ fresh : receipts[c].disposition = chunks'[c].status
        /\ attempts' = retired
        /\ executions' = resolved
        /\ receipts' = [c \in Chunk |->
                IF c \in fresh
                THEN [disposition |-> chunks'[c].status,
                      evidence |-> Evidence(c, resolved, retired)]
                ELSE receipts[c]]

(* The task goes on in state pc.  From "summarize" on, it does not look at *)
(* the cases, allocations and transitions any more.                        *)
Continue(t, pc) ==
    tasks' = [tasks EXCEPT ![t] =
        IF pc = "finalize" THEN [@ EXCEPT !.pc = pc]
        ELSE [@ EXCEPT !.pc = pc, !.todo = {}, !.batch = {}, !.transitions = {}]]
Finish(t) == tasks' = [tasks EXCEPT ![t] = IdleTask]

-----------------------------------------------------------------------------
(* The passage of time.                                                    *)

Tick ==
    /\ clock < MaxClock
    /\ clock' = clock + 1
    /\ UNCHANGED <<run, admission, rows, lastToken, tasks>>

-----------------------------------------------------------------------------
(* A worker task.                                                          *)

(* claim_hinted_chunk_for_processing: the shard must be open locally, at   *)
(* the epoch of the message or of the refreshed route; a pending chunk or  *)
(* one with an expired lease gets a new token.  A chunk that cannot be     *)
(* claimed has its message acknowledged, which changes nothing here.       *)
ClaimAnywhere(t, c) ==   \* mutant: local admission is not checked
    /\ tasks[t].pc = "idle"
    /\ lastToken < MaxToken
    /\ \E now \in Now :
        /\ \/ chunks[c].status = "pending"
           \/ Leased(c) /\ chunks[c].until < now
        /\ chunks' = [chunks EXCEPT ![c] =
                [@ EXCEPT !.status = "leased", !.token = lastToken + 1,
                          !.until = now + ClaimLease]]
    /\ lastToken' = lastToken + 1
    /\ tasks' = [tasks EXCEPT ![t] =
            [IdleTask EXCEPT !.pc = "claimed", !.chunk = c,
                             !.token = lastToken + 1, !.epoch = admission.epoch]]
    /\ UNCHANGED <<clock, run, admission, executions, attempts, aggregates, receipts>>

Claim(t, c) ==
    /\ tasks[t].pc = "idle"
    /\ lastToken < MaxToken
    /\ admission.state = "open"
    /\ \E now \in Now :
        /\ \/ chunks[c].status = "pending"
           \/ Leased(c) /\ chunks[c].until < now
        /\ chunks' = [chunks EXCEPT ![c] =
                [@ EXCEPT !.status = "leased", !.token = lastToken + 1,
                          !.until = now + ClaimLease]]
    /\ lastToken' = lastToken + 1
    /\ tasks' = [tasks EXCEPT ![t] =
            [IdleTask EXCEPT !.pc = "claimed", !.chunk = c,
                             !.token = lastToken + 1, !.epoch = admission.epoch]]
    /\ UNCHANGED <<clock, run, admission, executions, attempts, aggregates, receipts>>

ExtendedLease(t, now) ==
    [chunks EXCEPT ![tasks[t].chunk] = [@ EXCEPT !.until = now + ProcessingLease]]

(* The first extension, to the processing budget; the heartbeat starts.    *)
ExtendLease(t) ==
    /\ tasks[t].pc = "claimed"
    /\ \E now \in Now : HoldsLease(t, now) /\ chunks' = ExtendedLease(t, now)
    /\ tasks' = [tasks EXCEPT ![t] =
            [@ EXCEPT !.pc = "batch", !.todo = CasesOf(tasks[t].chunk), !.beat = "on"]]
    /\ UNCHANGED <<clock, run, admission, executions, attempts, aggregates,
                   receipts, lastToken>>

(* The lease was lost before the extension; the message is acknowledged.   *)
ExtendLost(t) ==
    /\ tasks[t].pc = "claimed"
    /\ \E now \in Now : ~HoldsLease(t, now)
    /\ Finish(t)
    /\ UNCHANGED <<clock, run, admission, rows, lastToken>>

(* ChunkLeaseGuard::renew, at the interval's tick.                         *)
HeartbeatRenew(t) ==
    /\ tasks[t].beat = "on"
    /\ \E now \in Now : HoldsLease(t, now) /\ chunks' = ExtendedLease(t, now)
    /\ tasks' = [tasks EXCEPT ![t].beat = "renewed"]
    /\ UNCHANGED <<clock, run, admission, executions, attempts, aggregates,
                   receipts, lastToken>>

HeartbeatLost(t) ==
    /\ tasks[t].beat = "on"
    /\ \E now \in Now : ~HoldsLease(t, now)
    /\ tasks' = [tasks EXCEPT ![t].beat = "lost"]
    /\ UNCHANGED <<clock, run, admission, rows, lastToken>>

(* heartbeat_running_attempts_for_chunk, a second transaction: it asks     *)
(* neither for the lease token nor whether the attempt lease still lives.  *)
HeartbeatAttempts(t) ==
    /\ tasks[t].beat = "renewed"
    /\ \E now \in Now :
        attempts' = [k \in Case |-> [n \in AttemptNo |->
            IF /\ k \in CasesOf(tasks[t].chunk)
               /\ IsCurrent(k, n)
               /\ attempts[k][n].status = "running"
               /\ attempts[k][n].worker = WorkerOf[t]
            THEN [attempts[k][n] EXCEPT !.until = now + AttemptLease]
            ELSE attempts[k][n]]]
    /\ tasks' = [tasks EXCEPT ![t].beat = "on"]
    /\ UNCHANGED <<clock, run, admission, chunks, executions, aggregates,
                   receipts, lastToken>>

(* The second transaction fails; the heartbeat logs it and goes on.        *)
HeartbeatError(t) ==
    /\ tasks[t].beat = "renewed"
    /\ tasks' = [tasks EXCEPT ![t].beat = "on"]
    /\ UNCHANGED <<clock, run, admission, rows, lastToken>>

(* PreparedCases::next yields another batch and allocate_execution_        *)
(* attempts_for_cases, in one transaction under the live lease, inserts    *)
(* missing executions and starts the next attempt of every open one that   *)
(* is due and has attempts left, superseding a running attempt.  An open   *)
(* execution without attempts left is reported as exhausted.               *)
EligibleBeyondBudget(B, now) ==   \* mutant: MaxAttempts is not checked
    {k \in B : /\ executions[k].status \in OpenExecution \cup {"absent"}
               /\ executions[k].status = "retry_scheduled" => executions[k].retryAfter <= now}

Eligible(B, now) ==
    {k \in B : /\ executions[k].status \in OpenExecution \cup {"absent"}
               /\ executions[k].attemptNo < MaxAttempts
               /\ executions[k].status = "retry_scheduled" => executions[k].retryAfter <= now}

Exhausted(B) ==
    {k \in B : /\ executions[k].status \in OpenExecution
               /\ executions[k].attemptNo >= MaxAttempts}

StartAttemptsBeside(t, K, now) ==   \* mutant: a running attempt is not superseded
    /\ executions' = [k \in Case |->
            IF k \in K
            THEN [status |-> "running", attemptNo |-> executions[k].attemptNo + 1,
                  retryAfter |-> 0]
            ELSE executions[k]]
    /\ attempts' = [k \in Case |-> [n \in AttemptNo |->
            IF k \in K /\ n = executions[k].attemptNo + 1
            THEN [status |-> "running", worker |-> WorkerOf[t], until |-> now + AttemptLease]
            ELSE attempts[k][n]]]

StartAttempts(t, K, now) ==
    /\ executions' = [k \in Case |->
            IF k \in K
            THEN [status |-> "running", attemptNo |-> executions[k].attemptNo + 1,
                  retryAfter |-> 0]
            ELSE executions[k]]
    /\ attempts' = [k \in Case |-> [n \in AttemptNo |->
            IF k \in K /\ n = executions[k].attemptNo + 1
            THEN [status |-> "running", worker |-> WorkerOf[t], until |-> now + AttemptLease]
            ELSE IF k \in K /\ attempts[k][n].status = "running"
            THEN Ended("stale")
            ELSE attempts[k][n]]]

Allocate(t, B) ==
    /\ tasks[t].pc = "batch" /\ tasks[t].beat # "lost"
    /\ B \subseteq tasks[t].todo /\ B # {}
    /\ B = tasks[t].todo \/ Cardinality(B) = BatchSize
    /\ Cardinality(B) <= BatchSize
    /\ \E now \in Now :
        /\ HoldsLease(t, now)
        /\ StartAttempts(t, Eligible(B, now), now)
        /\ tasks' = [tasks EXCEPT ![t] = [@ EXCEPT
                !.pc = "evaluate",
                !.todo = tasks[t].todo \ B,
                !.batch = {[case |-> k, attempt |-> executions[k].attemptNo + 1] :
                                k \in Eligible(B, now)},
                !.transitions = tasks[t].transitions \cup
                    {[case |-> k, attempt |-> executions[k].attemptNo,
                      outcome |-> "exhausted"] : k \in Exhausted(B)}]]
    /\ UNCHANGED <<clock, run, admission, chunks, aggregates, receipts, lastToken>>

(* What a transition that needs the worker's lease must still find.        *)
OwnsAttempt(t, k, n, now) ==
    /\ IsCurrent(k, n)
    /\ attempts[k][n].status = "running"
    /\ attempts[k][n].worker = WorkerOf[t]
    /\ attempts[k][n].until >= now

(* evaluate_case_execution gives every allocated attempt an outcome, and   *)
(* persist_completed_execution_results_batch writes the aggregates of the  *)
(* completed ones, all or none.                                            *)
Persist(t, outcome) ==
    LET batch == tasks[t].batch
        done  == {a \in batch : outcome[a.case] = "completed"}
    IN  /\ tasks[t].pc = "evaluate"
        /\ done # {} =>
            \E now \in Now : /\ HoldsLease(t, now)
                             /\ \A a \in done : OwnsAttempt(t, a.case, a.attempt, now)
        /\ aggregates' = [k \in Case |->
                IF \E a \in done : a.case = k
                THEN [attempt |-> executions[k].attemptNo, kind |-> "result"]
                ELSE aggregates[k]]
        /\ tasks' = [tasks EXCEPT ![t] = [@ EXCEPT
                !.pc = "batch",
                !.batch = {},
                !.transitions = tasks[t].transitions \cup
                    {[case |-> a.case, attempt |-> a.attempt, outcome |-> outcome[a.case]] :
                        a \in batch}]]
        /\ UNCHANGED <<clock, run, admission, chunks, executions, attempts, receipts,
                       lastToken>>

(* The handler stops processing and settles the chunk as a worker failure: *)
(* the context, an evaluator or the cases could not be read, the heartbeat *)
(* cancelled the read, or a transaction found its authority gone.          *)
ProcessingFails(t) ==
    /\ \/ tasks[t].pc = "batch"
       \/ /\ tasks[t].pc = "evaluate"
          /\ tasks[t].batch # {}
          /\ \E now \in Now :
                \/ ~HoldsLease(t, now)
                \/ \E a \in tasks[t].batch : ~OwnsAttempt(t, a.case, a.attempt, now)
    /\ Continue(t, "failing")
    /\ UNCHANGED <<clock, run, admission, rows, lastToken>>

(* The last call of PreparedCases::next.                                   *)
EndOfCases(t) ==
    /\ tasks[t].pc = "batch" /\ tasks[t].beat # "lost"
    /\ tasks[t].todo = {}
    /\ Continue(t, "finalize")
    /\ UNCHANGED <<clock, run, admission, rows, lastToken>>

-----------------------------------------------------------------------------
(* finalize_execution_terminal_transitions.  The transaction asks that the *)
(* chunks of the executions be leased, by anyone, and that every           *)
(* transition be about the current attempt.                                *)

AuthoritativeOnceExhausted(t, x, now) ==   \* mutant: any status will do
    IF x.outcome = "exhausted" THEN IsCurrent(x.case, x.attempt)
    ELSE OwnsAttempt(t, x.case, x.attempt, now)

Authoritative(t, x, now) ==
    IF x.outcome = "exhausted"
    THEN IsCurrent(x.case, x.attempt) /\ attempts[x.case][x.attempt].status \in {"running", "stale"}
    ELSE OwnsAttempt(t, x.case, x.attempt, now)

ChunkIsKnown(t, now) ==   \* mutant: the chunk's lease is not checked
    tasks[t].chunk \in Chunk

ChunkIsLive(t, now) ==
    Leased(tasks[t].chunk) /\ chunks[tasks[t].chunk].until >= now

HasAggregate(x) ==
    x.outcome = "completed" => aggregates[x.case].attempt = x.attempt

Applicable(t, now) ==
    \A x \in tasks[t].transitions : Authoritative(t, x, now) /\ HasAggregate(x)

RetriesOnceMore(x) == x.outcome = "retryable" /\ x.attempt <= MaxAttempts   \* mutant

Retries(x) == x.outcome = "retryable" /\ x.attempt < MaxAttempts

(* The transition in X for execution k.                                    *)
For(X, k) == CHOOSE x \in X : x.case = k

ApplyTransitions(X, now, delay) ==
    LET K == {x.case : x \in X} IN
    /\ attempts' = [k \in Case |-> [n \in AttemptNo |->
            IF k \in K /\ n = For(X, k).attempt
            THEN Ended(IF For(X, k).outcome = "completed" THEN "completed" ELSE "finished")
            ELSE attempts[k][n]]]
    /\ executions' = [k \in Case |->
            IF k \notin K THEN executions[k]
            ELSE IF Retries(For(X, k))
            THEN [executions[k] EXCEPT !.status = "retry_scheduled",
                                       !.retryAfter = now + delay[k]]
            ELSE [executions[k] EXCEPT
                    !.status = IF For(X, k).outcome = "completed" THEN "completed" ELSE "failed",
                    !.retryAfter = 0]]
    /\ aggregates' = [k \in Case |->
            IF k \in K /\ For(X, k).outcome # "completed" /\ ~Retries(For(X, k))
            THEN [attempt |-> For(X, k).attempt, kind |-> "error"]
            ELSE aggregates[k]]

Finalize(t) ==
    /\ tasks[t].pc = "finalize"
    /\ IF tasks[t].transitions = {}
       THEN UNCHANGED <<executions, attempts, aggregates>>
       ELSE \E now \in Now, delay \in [Case -> RetryDelays] :
                /\ ChunkIsLive(t, now)
                /\ Applicable(t, now)
                /\ ApplyTransitions(tasks[t].transitions, now, delay)
    /\ Continue(t, "summarize")
    /\ UNCHANGED <<clock, run, admission, chunks, receipts, lastToken>>

(* The batch is rejected as a whole.  If the chunk was live, the attempts  *)
(* of this batch that lost their authority are retired nevertheless.       *)
LostAttempt(t, k, n, now) ==
    /\ [case |-> k, attempt |-> n] \in
            {[case |-> x.case, attempt |-> x.attempt] :
                x \in {x \in tasks[t].transitions : x.outcome # "exhausted"}}
    /\ attempts[k][n].status = "running"
    /\ ~OwnsAttempt(t, k, n, now)

FinalizeRejected(t) ==
    /\ tasks[t].pc = "finalize"
    /\ tasks[t].transitions # {}
    /\ \E now \in Now :
        \/ ~ChunkIsLive(t, now) /\ UNCHANGED attempts
        \/ /\ ChunkIsLive(t, now)
           /\ ~Applicable(t, now)
           /\ attempts' = [k \in Case |-> [n \in AttemptNo |->
                IF LostAttempt(t, k, n, now)
                THEN Ended("stale")
                ELSE attempts[k][n]]]
    /\ Continue(t, "failing")
    /\ UNCHANGED <<clock, run, admission, chunks, executions, aggregates, receipts,
                   lastToken>>

SummarizeRunning(t) ==   \* mutant: retry_scheduled is not counted as open
    /\ tasks[t].pc = "summarize"
    /\ Continue(t, IF \E k \in CasesOf(tasks[t].chunk) : executions[k].status = "running"
                   THEN "waiting" ELSE "completing")
    /\ UNCHANGED <<clock, run, admission, rows, lastToken>>

(* summarize_chunk_execution_state: a plain read.                          *)
Summarize(t) ==
    /\ tasks[t].pc = "summarize"
    /\ Continue(t, IF \E k \in CasesOf(tasks[t].chunk) : executions[k].status \in OpenExecution
                   THEN "waiting" ELSE "completing")
    /\ UNCHANGED <<clock, run, admission, rows, lastToken>>

-----------------------------------------------------------------------------
(* Settlement by the worker.  ChunkHeartbeat::stop has waited for a beat   *)
(* in flight, and may still have let it renew the lease.                   *)

Stopped(t) == tasks[t].beat # "renewed"

(* mark_chunk_completed_and_settle.                                        *)
Complete(t) ==
    LET c == tasks[t].chunk IN
    /\ tasks[t].pc = "completing" /\ Stopped(t)
    /\ \E now \in Now : HoldsLease(t, now)
    /\ chunks' = [chunks EXCEPT ![c] = Unleased(@, "completed")]
    /\ Settle({c}, executions, attempts)
    /\ Finish(t)
    /\ UNCHANGED <<clock, run, admission, aggregates, lastToken>>

(* settle_retryable_chunk_failure without retries left:                    *)
(* mark_chunk_failed_and_settle.                                           *)
FailExhausted(t) ==
    LET c == tasks[t].chunk IN
    /\ tasks[t].pc = "failing" /\ Stopped(t)
    /\ \E now \in Now : HoldsLease(t, now)
    /\ chunks' = [chunks EXCEPT ![c] = Unleased(@, "failed")]
    /\ Settle({c}, executions, attempts)
    /\ Finish(t)
    /\ UNCHANGED <<clock, run, admission, aggregates, lastToken>>

(* release_chunk_as_pending, for a retry that is not due                   *)
(* (settle_chunk_waiting_for_execution_retry) or for a failure with        *)
(* retries left (settle_retryable_chunk_failure).                          *)
Release(t) ==
    /\ tasks[t].pc \in {"waiting", "failing"} /\ Stopped(t)
    /\ \E now \in Now : HoldsLease(t, now)
    /\ chunks' = [chunks EXCEPT ![tasks[t].chunk] = Unleased(@, "pending")]
    /\ Finish(t)
    /\ UNCHANGED <<clock, run, admission, executions, attempts, aggregates, receipts,
                   lastToken>>

(* Any of these finds the lease gone; the message is acknowledged.         *)
SettleStale(t) ==
    /\ tasks[t].pc \in {"completing", "waiting", "failing"} /\ Stopped(t)
    /\ \E now \in Now : ~HoldsLease(t, now)
    /\ Finish(t)
    /\ UNCHANGED <<clock, run, admission, rows, lastToken>>

-----------------------------------------------------------------------------
(* Failures.                                                               *)

(* contain_worker_database_error: a claimed delivery is delayed beyond the *)
(* processing lease, and the lease is left to run out.                     *)
RedeliverSoon == clock + RedeliveryGrace   \* mutant: the lease is not waited for

RedeliverAt == clock + ProcessingLease + RedeliveryGrace

(* A database operation fails; the heartbeat is stopped first.             *)
DatabaseError(t) ==
    /\ t \in Unlucky
    /\ tasks[t].pc \in {"claimed", "batch", "evaluate", "finalize", "completing",
                        "waiting", "failing"}
    /\ Stopped(t)
    /\ tasks' = [tasks EXCEPT ![t] =
            [IdleTask EXCEPT !.pc = "delayed", !.chunk = tasks[t].chunk,
                             !.token = tasks[t].token, !.resumeAt = RedeliverAt]]
    /\ UNCHANGED <<clock, run, admission, rows, lastToken>>

(* The read of the execution summary fails: the handler returns with its   *)
(* heartbeat still running, since dropping a ChunkHeartbeat detaches it.   *)
SummaryReadError(t) ==
    /\ t \in Unlucky
    /\ tasks[t].pc = "summarize"
    /\ tasks' = [tasks EXCEPT ![t] =
            [@ EXCEPT !.pc = "orphan", !.resumeAt = RedeliverAt]]
    /\ UNCHANGED <<clock, run, admission, rows, lastToken>>

(* The delayed message is delivered again.                                 *)
Redeliver(t) ==
    /\ tasks[t].pc = "delayed" /\ clock >= tasks[t].resumeAt
    /\ Finish(t)
    /\ UNCHANGED <<clock, run, admission, rows, lastToken>>

(* A worker process dies with its tasks and heartbeats.  Its successor has *)
(* a new worker_id: it is another element of Worker.                       *)
Crash(w) ==
    /\ \E t \in Unlucky : WorkerOf[t] = w /\ tasks[t].pc # "dead"
    /\ tasks' = [t \in Task |->
            IF WorkerOf[t] = w THEN [IdleTask EXCEPT !.pc = "dead"] ELSE tasks[t]]
    /\ UNCHANGED <<clock, run, admission, rows, lastToken>>

-----------------------------------------------------------------------------
(* The coordinator, run cancellation and the shard mover.                  *)

ExpiredLeases(now) == {c \in Chunk : Leased(c) /\ chunks[c].until < now}

(* recover_expired_chunk_leases, on chunks that no one has locked: those   *)
(* in R return to pending, those in F are at the limit and fail.           *)
RecoverWithoutReceipt(R, F) ==   \* mutant: failed chunks are not settled
    /\ R \cup F # {}
    /\ \E now \in Now : R \cup F \subseteq ExpiredLeases(now)
    /\ \A c \in R : chunks[c].recoveries < MaxRecoveries /\ admission.state = "open"
    /\ \A c \in F : chunks[c].recoveries >= MaxRecoveries
                    /\ admission.state \in {"open", "draining"}
    /\ chunks' = [c \in Chunk |->
            IF c \in R THEN Unleased([chunks[c] EXCEPT !.recoveries = @ + 1], "pending")
            ELSE IF c \in F THEN Unleased(chunks[c], "failed")
            ELSE chunks[c]]
    /\ Settle({}, executions,
              Retire(attempts, {k \in Case : ChunkOf[k] \in R \cup F}, "stale"))
    /\ UNCHANGED <<clock, run, admission, aggregates, lastToken, tasks>>

Recover(R, F) ==
    /\ R \cup F # {}
    /\ \E now \in Now : R \cup F \subseteq ExpiredLeases(now)
    /\ \A c \in R : chunks[c].recoveries < MaxRecoveries /\ admission.state = "open"
    /\ \A c \in F : chunks[c].recoveries >= MaxRecoveries
                    /\ admission.state \in {"open", "draining"}
    /\ chunks' = [c \in Chunk |->
            IF c \in R THEN Unleased([chunks[c] EXCEPT !.recoveries = @ + 1], "pending")
            ELSE IF c \in F THEN Unleased(chunks[c], "failed")
            ELSE chunks[c]]
    /\ Settle(F, executions,
              Retire(attempts, {k \in Case : ChunkOf[k] \in R \cup F}, "stale"))
    /\ UNCHANGED <<clock, run, admission, aggregates, lastToken, tasks>>

(* mark_control_cancellation_requested, in the control database.           *)
CancelControl ==
    /\ run = "running"
    /\ run' = "cancelled"
    /\ UNCHANGED <<clock, admission, rows, lastToken, tasks>>

(* cancel_execution_target_with_transaction.                               *)
CancelExecution ==
    LET open == {c \in Chunk : chunks[c].status \in {"pending", "leased"}} IN
    /\ run = "cancelled"
    /\ admission.state \in {"open", "draining"}
    /\ chunks' = [c \in Chunk |->
            IF c \in open THEN Unleased(chunks[c], "cancelled") ELSE chunks[c]]
    /\ Settle({c \in Chunk : receipts[c].disposition = "none"},
              [k \in Case |-> IF executions[k].status \in OpenExecution
                              THEN [executions[k] EXCEPT !.status = "cancelled"]
                              ELSE executions[k]],
              Retire(attempts, Case, "cancelled"))
    /\ UNCHANGED <<clock, run, admission, aggregates, lastToken, tasks>>

(* prepare_online_shard_move: the source stops admitting new work.         *)
BeginDrain ==
    /\ admission.state = "open" /\ admission.epoch < MaxEpoch
    /\ admission' = [admission EXCEPT !.state = "draining"]
    /\ UNCHANGED <<clock, run, rows, lastToken, tasks>>

(* count_active_shard_work_with.                                           *)
ActiveLeases == \E c \in Chunk : Leased(c)   \* mutant: running attempts are not counted

ActiveWork == \/ \E c \in Chunk : Leased(c)
              \/ \E k \in Case, n \in AttemptNo : attempts[k][n].status = "running"

(* move_shard_placement, under the exclusive fence, closes the source.     *)
Cutover ==
    /\ admission.state = "draining" /\ ~ActiveWork
    /\ admission' = [epoch |-> admission.epoch + 1, state |-> "closed"]
    /\ UNCHANGED <<clock, run, rows, lastToken, tasks>>

(* abort_shard_move reopens the source: at the next epoch once control had *)
(* recorded the drain, at the same one before, or when it is closed.       *)
AbortMove ==
    /\ \/ /\ admission.state = "draining"
          /\ admission' \in [epoch: {admission.epoch, admission.epoch + 1}, state: {"open"}]
       \/ /\ admission.state = "closed"
          /\ admission' = [admission EXCEPT !.state = "open"]
    /\ UNCHANGED <<clock, run, rows, lastToken, tasks>>

-----------------------------------------------------------------------------

TaskStep(t) ==
    \/ \E c \in Chunk : Claim(t, c)
    \/ ExtendLease(t) \/ ExtendLost(t)
    \/ HeartbeatRenew(t) \/ HeartbeatLost(t) \/ HeartbeatAttempts(t) \/ HeartbeatError(t)
    \/ \E B \in SUBSET Case : Allocate(t, B)
    \/ \E outcome \in [Case -> Outcome] : Persist(t, outcome)
    \/ ProcessingFails(t) \/ EndOfCases(t)
    \/ Finalize(t) \/ FinalizeRejected(t) \/ Summarize(t)
    \/ Complete(t) \/ FailExhausted(t) \/ Release(t) \/ SettleStale(t)
    \/ DatabaseError(t) \/ SummaryReadError(t) \/ Redeliver(t)

Next ==
    \/ Tick
    \/ \E t \in Task : TaskStep(t)
    \/ \E w \in Worker : Crash(w)
    \/ \E R, F \in SUBSET Chunk : Recover(R, F)
    \/ CancelControl \/ CancelExecution
    \/ BeginDrain \/ Cutover \/ AbortMove

Spec == Init /\ [][Next]_vars

-----------------------------------------------------------------------------
(* Properties.                                                             *)

TerminalChunks == {c \in Chunk : chunks[c].status \in TerminalChunk}

(* A chunk is terminal exactly when it has a receipt, and the receipt's    *)
(* disposition is the chunk's status: every producer of a terminal chunk   *)
(* (worker completion and failure, recovery at the limit, cancellation)    *)
(* settles it in the same transaction (settlement.rs, settle_locked_chunk_ *)
(* with).                                                                  *)
ReceiptMatchesChunk ==
    \A c \in Chunk : receipts[c].disposition =
                        IF c \in TerminalChunks THEN chunks[c].status ELSE "none"

(* What a receipt counted is what the rows still say: no late attempt,     *)
(* result or transition of any worker changes the evidence of a settled    *)
(* chunk, so a receipt that is consumed later is not out of date.          *)
ReceiptStaysTrue ==
    \A c \in TerminalChunks : receipts[c].evidence = Evidence(c, executions, attempts)

(* In a settled chunk nothing is left open: no execution is running or     *)
(* waiting for a retry, and no attempt can still write (settlement.rs      *)
(* retires them before it counts).                                         *)
SettledHasNoOpenWork ==
    \A c \in TerminalChunks : \A k \in CasesOf(c) :
        /\ executions[k].status \notin OpenExecution
        /\ \A n \in AttemptNo : attempts[k][n].status # "running"

(* At most one attempt of an execution runs; it is the current one, and    *)
(* its execution is running (allocation.rs supersedes, transitions.rs and  *)
(* settlement.rs close both rows together).                                *)
OneRunningAttempt ==
    \A k \in Case, n \in AttemptNo :
        attempts[k][n].status = "running" =>
            IsCurrent(k, n) /\ executions[k].status = "running"

(* A completed execution has the result of its current attempt, and that   *)
(* attempt completed: a result persisted by an attempt that then lost its  *)
(* authority is never promoted (results.rs, transitions.rs).               *)
CompletedHasResult ==
    \A k \in Case : executions[k].status = "completed" =>
        /\ attempts[k][executions[k].attemptNo].status = "completed"
        /\ aggregates[k] = [attempt |-> executions[k].attemptNo, kind |-> "result"]

(* An open execution that has used up its attempts still has an attempt    *)
(* that the exhausted transition accepts, so the next claim of its chunk   *)
(* can close it (allocation.rs exhausted_open, transitions.rs authority).  *)
ExhaustedCanClose ==
    \A k \in Case :
        executions[k].status \in OpenExecution /\ executions[k].attemptNo = MaxAttempts =>
            attempts[k][MaxAttempts].status \in {"running", "stale"}

(* A delivery delayed after a database error comes back only when the      *)
(* lease of its former claim is over (worker.rs contain_worker_database_   *)
(* error), if the heartbeat was stopped.                                   *)
DelayedOutlivesLease ==
    \A t \in Task :
        tasks[t].pc = "delayed" /\ clock >= tasks[t].resumeAt =>
            LET row == chunks[tasks[t].chunk] IN
            ~(row.status = "leased" /\ row.token = tasks[t].token /\ row.until >= clock)

(* Once closed by the mover, the shard holds no lease and no running       *)
(* attempt, so that nothing but a reopening can change its rows.           *)
ClosedIsQuiet == admission.state = "closed" => ~ActiveWork

(* While the shard is closed no row of it changes: allocation, persistence *)
(* and the heartbeat's attempt renewal do not take the shard's fence, and  *)
(* rely on the lease or the running attempt that the mover counts.         *)
ClosedIsFrozenStep == admission.state = "closed" => UNCHANGED rows
ClosedIsFrozen == [][ClosedIsFrozenStep]_vars

(* Nothing terminal is reopened and no attempt that ended changes, except  *)
(* that a stale current attempt may be closed as exhausted: finalization   *)
(* does not look at the execution's status, it relies on the attempt's     *)
(* status and on the chunk's lease.                                        *)
NoReopen ==
    [][/\ \A c \in TerminalChunks : chunks'[c].status = chunks[c].status
       /\ \A k \in Case : executions[k].status \in TerminalExecution =>
                executions'[k].status = executions[k].status
       /\ \A k \in Case, n \in AttemptNo :
                attempts[k][n].status \in FinishedAttempt \cup {"cancelled"} =>
                    attempts'[k][n] = attempts[k][n]]_vars

(* A worker completes a chunk only when every execution of it is terminal, *)
(* so that settlement has nothing to close: the summary was read outside   *)
(* the completing transaction, and is still true in it.                    *)
CompletesResolvedChunkStep ==
    \A c \in Chunk :
        chunks[c].status # "completed" /\ chunks'[c].status = "completed" =>
            \A k \in CasesOf(c) : executions[k].status \in TerminalExecution
CompletesResolvedChunk == [][CompletesResolvedChunkStep]_vars

-----------------------------------------------------------------------------
(* What the rows promise to those who count results, hiding leases,        *)
(* attempts and retries.                                                   *)

(* The outcome of a case, as receipt.sql would read it from its rows.      *)
OutcomeOf(k) ==
    IF Counted(k, executions, attempts)
    THEN aggregates[k].kind
    ELSE IF receipts[ChunkOf[k]].disposition = "none" THEN "open" ELSE "unscored"

Settlement == INSTANCE ChunkSettlement
    WITH outcome <- [k \in Case |-> OutcomeOf(k)], receipt <- receipts

(* Every step of the workers, the coordinator, cancellation and the mover  *)
(* resolves cases of open chunks, settles chunks with what their cases     *)
(* have, or changes neither: a case's outcome is final, also when a chunk  *)
(* is reclaimed, recovered or cancelled under a worker that still runs,    *)
(* and a chunk is completed only when all its cases are resolved.          *)
ImplementsSettlement == Settlement!Spec

-----------------------------------------------------------------------------
(* What comments and documents say of the program, and the program does    *)
(* not do.                                                                 *)

(* "Attempt leases mirror that ownership at case granularity so stale      *)
(* workers cannot complete attempts after coordinator recovery or          *)
(* reassignment" (transitions.rs): a worker applies terminal transitions   *)
(* only while the chunk is leased to its own claim.                        *)
OnlyHolderFinalizes ==
    [][\A t \in Task :
        /\ tasks[t].pc = "finalize" /\ tasks'[t].pc = "summarize"
        /\ tasks[t].transitions # {}
        => chunks[tasks[t].chunk].token = tasks[t].token]_vars

(* "Workers can claim a chunk only when the owning run is `running`"       *)
(* (chunk-lifecycle/index.mdx).                                            *)
ClaimsOnlyRunningRun == [][lastToken' # lastToken => run = "running"]_vars

(* "Once claimed, the delivery must wait until its lease cannot still      *)
(* admit writes from this worker" (worker.rs,                              *)
(* contain_worker_database_error), for every delivery that is delayed.     *)
EveryDelayOutlivesLease ==
    \A t \in Task :
        tasks[t].pc \in {"delayed", "orphan"} /\ clock >= tasks[t].resumeAt =>
            LET row == chunks[tasks[t].chunk] IN
            ~(row.status = "leased" /\ row.token = tasks[t].token /\ row.until >= clock)

=============================================================================
