---------------------------- MODULE WorkDelivery ----------------------------
(***************************************************************************)
(* How the chunks of one run shard reach workers: the dispatch window of   *)
(* the coordinator, the transactional outbox, the broker's queues and the  *)
(* acknowledgements of the worker.                                         *)
(*                                                                         *)
(* A chunk is worked on only when a chunk-ready message for it reaches a   *)
(* worker.  Messages are created by the coordinator alone (when a window   *)
(* is dispatched and when an expired lease is recovered) and are kept      *)
(* alive by workers, which publish a delayed copy before they acknowledge  *)
(* a message whose chunk they gave back.  The module is about what that    *)
(* chain loses, duplicates and finally drains.                             *)
(*                                                                         *)
(* What a worker does while it holds a chunk is the subject of module      *)
(* ChunkExecution.  Here it is one step with four outcomes: the chunk is   *)
(* done, it waits for a retry of an execution, it failed, or the database  *)
(* failed.  Time is left out: a lease, a delay or a claim window may end   *)
(* at any moment.                                                          *)
(*                                                                         *)
(* Everything that goes wrong (a process that dies, a broker connection    *)
(* that drops, a publish that fails or is sent twice, a database error, a  *)
(* lease or claim window that its live owner overruns) is counted in       *)
(* faults and happens at most MaxFaults times.                             *)
(***************************************************************************)
EXTENDS Integers, FiniteSets

CONSTANTS
    Chunk,          \* the chunks of the shard, by ordinal: a set of integers
    Task,           \* worker processes, one message in flight each
    Coordinator,    \* coordinator processes
    NoTask,         \* owner of a lease whose token nobody kept
    NoCoordinator,  \* nobody holds the dispatch cursor
    NoMessage,      \* what an idle task holds
    WindowSize,     \* run_chunk_dispatch_window_size
    MaxRecoveries,  \* chunk_lease_max_recoveries
    MaxRetries,     \* WORKER_MAX_RETRIES
    MayDisconnect,  \* whether broker connections of live workers drop
    MaxWaits,       \* bound: waits for execution retries per chunk
    MaxFaults,      \* bound: how often something goes wrong
    DropFaults      \* bound: how many of MaxFaults a dropped connection stands for

ASSUME DeliveryAssumption ==
    /\ Chunk \subseteq Int
    /\ NoTask \notin Task
    /\ NoCoordinator \notin Coordinator
    /\ WindowSize \in Nat \ {0}
    /\ MaxRecoveries \in Nat
    /\ MaxRetries \in Nat
    /\ MayDisconnect \in BOOLEAN
    /\ MaxWaits \in Nat
    /\ MaxFaults \in Nat
    /\ DropFaults \in Nat \ {0}

VARIABLES
    cursor,      \* run_shard_dispatch_cursors.status of the shard
    dispatcher,  \* whose control transaction holds the cursor, and its verdict
    chunks,      \* run_chunks
    outbox,      \* outbox_events joined with outbox_delivery_queue
    claims,      \* the events each coordinator is publishing
    ready,       \* copies of a message in the worker queue
    delayed,     \* copies of a message in the retry queues
    tasks,       \* what each worker is doing
    faults       \* history: how often something went wrong

vars == <<cursor, dispatcher, chunks, outbox, claims, ready, delayed, tasks, faults>>

broker == <<ready, delayed>>
dispatch == <<cursor, dispatcher>>
publication == <<outbox, claims>>

-----------------------------------------------------------------------------

TerminalChunk == {"completed", "failed"}
ChunkStatus   == {"pending", "leased"} \cup TerminalChunk

(* live: the lease has not expired.  owner: who knows the lease token.     *)
ChunkRow == [status: ChunkStatus, dispatched: BOOLEAN, owner: Task \cup {NoTask},
             live: BOOLEAN, recoveries: 0 .. MaxRecoveries, waits: 0 .. MaxWaits]

(* The dedupe key of a chunk-ready event: the chunk and, for an event of   *)
(* recovery, the recovery count.                                           *)
Event == Chunk \X (0 .. MaxRecoveries)

(* A delivery row exists while the status is pending.  token is the number *)
(* of the claim that may settle the row, 0 for NULL.                       *)
EventRow == [status: {"none", "pending", "published"}, token: Nat, tries: Nat,
             available: BOOLEAN]
ClaimRow == [event: Event, token: Nat, phase: {"claimed", "sent", "refused"}]

(* x-vigilo-retry-count travels with the message.                          *)
Message == [chunk: Chunk, retries: 0 .. MaxRetries]

(* held: the broker still counts the delivery as unacknowledged by the     *)
(* task.  copy: the retry count of the copy to publish before the ack.     *)
TaskState == {"idle", "received", "working", "republish", "quarantine", "ack"}
TaskRow == [pc: TaskState, msg: Message \cup {NoMessage}, held: BOOLEAN,
            copy: 0 .. MaxRetries]

IdleTask == [pc |-> "idle", msg |-> NoMessage, held |-> FALSE, copy |-> 0]

Init ==
    /\ cursor = "open"
    /\ dispatcher = [by |-> NoCoordinator, remaining |-> TRUE]
    /\ chunks = [c \in Chunk |-> [status |-> "pending", dispatched |-> FALSE,
                                  owner |-> NoTask, live |-> FALSE, recoveries |-> 0,
                                  waits |-> 0]]
    /\ outbox = [e \in Event |-> [status |-> "none", token |-> 0, tries |-> 0,
                                  available |-> FALSE]]
    /\ claims = [k \in Coordinator |-> {}]
    /\ ready = [m \in Message |-> 0]
    /\ delayed = [m \in Message |-> 0]
    /\ tasks = [t \in Task |-> IdleTask]
    /\ faults = 0

Fault == faults < MaxFaults /\ faults' = faults + 1
NoFault == UNCHANGED faults

-----------------------------------------------------------------------------
(* Dispatch.                                                               *)

(* ON CONFLICT (dedupe_key) DO NOTHING; a trigger adds the delivery row.   *)
WithEvents(E) ==
    [e \in Event |-> IF e \in E /\ outbox[e].status = "none"
                     THEN [outbox[e] EXCEPT !.status = "pending", !.available = TRUE]
                     ELSE outbox[e]]

Undispatched == {c \in Chunk : chunks[c].status = "pending" /\ ~chunks[c].dispatched}

(* The window: the first WindowSize undispatched chunks by ordinal.        *)
Window == {c \in Undispatched :
            Cardinality({d \in Undispatched : d < c}) < WindowSize}

(* dispatch_run_window under begin_execution_admission: one execution      *)
(* transaction, while the control transaction that claimed the cursor with *)
(* FOR UPDATE SKIP LOCKED stays open.                                      *)
DispatchWindow(k) ==
    /\ cursor = "open"
    /\ dispatcher.by = NoCoordinator
    /\ chunks' = [c \in Chunk |-> IF c \in Window
                                  THEN [chunks[c] EXCEPT !.dispatched = TRUE]
                                  ELSE chunks[c]]
    /\ outbox' = WithEvents({<<c, 0>> : c \in Window})
    /\ dispatcher' = [by |-> k, remaining |-> Undispatched \ Window # {}]
    /\ NoFault
    /\ UNCHANGED <<cursor, claims, broker, tasks>>

(* Mutant: the cursor is drained after its first window.                   *)
CommitDrained(k) ==
    /\ dispatcher.by = k
    /\ cursor' = "drained"
    /\ dispatcher' = [dispatcher EXCEPT !.by = NoCoordinator]
    /\ NoFault
    /\ UNCHANGED <<chunks, publication, broker, tasks>>

(* update_dispatch_cursor and the commit of the control transaction.       *)
CommitCursor(k) ==
    /\ dispatcher.by = k
    /\ cursor' = IF dispatcher.remaining THEN "open" ELSE "drained"
    /\ dispatcher' = [dispatcher EXCEPT !.by = NoCoordinator]
    /\ NoFault
    /\ UNCHANGED <<chunks, publication, broker, tasks>>

(* Mutant: the limit of recoveries is not checked.                         *)
RecoverForever(c) ==
    /\ chunks[c].status = "leased"
    /\ ~chunks[c].live
    /\ chunks' = [chunks EXCEPT ![c] = [@ EXCEPT !.status = "pending", !.owner = NoTask,
                                                 !.recoveries = chunks[c].recoveries + 1]]
    /\ outbox' = WithEvents({<<c, chunks[c].recoveries + 1>>})
    /\ NoFault
    /\ UNCHANGED <<dispatch, claims, broker, tasks>>

(* recover_expired_chunks: another chance with a fresh event, or failure.  *)
Recover(c) ==
    /\ chunks[c].status = "leased"
    /\ ~chunks[c].live
    /\ IF chunks[c].recoveries < MaxRecoveries
       THEN /\ chunks' = [chunks EXCEPT ![c] = [@ EXCEPT !.status = "pending", !.owner = NoTask,
                                                         !.recoveries = chunks[c].recoveries + 1]]
            /\ outbox' = WithEvents({<<c, chunks[c].recoveries + 1>>})
       ELSE /\ chunks' = [chunks EXCEPT ![c] = [@ EXCEPT !.status = "failed", !.owner = NoTask]]
            /\ UNCHANGED outbox
    /\ NoFault
    /\ UNCHANGED <<dispatch, claims, broker, tasks>>

-----------------------------------------------------------------------------
(* The outbox publisher.                                                   *)

Publishable == {e \in Event : outbox[e].status = "pending" /\ outbox[e].available}

(* Mutants: a claimed event stays available; a claim keeps the token of an *)
(* earlier one.                                                            *)
ClaimEventsOpenly(k, E) ==
    /\ claims[k] = {}
    /\ E # {}
    /\ outbox' = [e \in Event |->
            IF e \in E
            THEN [outbox[e] EXCEPT !.token = outbox[e].tries + 1, !.tries = outbox[e].tries + 1]
            ELSE outbox[e]]
    /\ claims' = [claims EXCEPT ![k] = {[event |-> e, token |-> outbox[e].tries + 1,
                                         phase |-> "claimed"] : e \in E}]
    /\ NoFault
    /\ UNCHANGED <<dispatch, chunks, broker, tasks>>

ClaimEventsOfOthers(k, E) ==
    LET token(e) == IF outbox[e].token = 0 THEN outbox[e].tries + 1 ELSE outbox[e].token IN
    /\ claims[k] = {}
    /\ E # {}
    /\ outbox' = [e \in Event |->
            IF e \in E
            THEN [outbox[e] EXCEPT !.token = token(e), !.tries = outbox[e].tries + 1,
                                   !.available = FALSE]
            ELSE outbox[e]]
    /\ claims' = [claims EXCEPT ![k] = {[event |-> e, token |-> token(e),
                                         phase |-> "claimed"] : e \in E}]
    /\ NoFault
    /\ UNCHANGED <<dispatch, chunks, broker, tasks>>

(* claim_publishable_outbox_events, at the start of a pass: those within   *)
(* the limit of the batch that no other claim has locked.                  *)
ClaimEvents(k, E) ==
    /\ claims[k] = {}
    /\ E # {}
    /\ outbox' = [e \in Event |->
            IF e \in E
            THEN [outbox[e] EXCEPT !.token = outbox[e].tries + 1,
                                   !.tries = outbox[e].tries + 1, !.available = FALSE]
            ELSE outbox[e]]
    /\ claims' = [claims EXCEPT ![k] = {[event |-> e, token |-> outbox[e].tries + 1,
                                         phase |-> "claimed"] : e \in E}]
    /\ NoFault
    /\ UNCHANGED <<dispatch, chunks, broker, tasks>>

MessageOf(e) == [chunk |-> e[1], retries |-> 0]

Moved(k, r, phase) == [claims EXCEPT ![k] = (@ \ {r}) \cup {[r EXCEPT !.phase = phase]}]

(* publish_bytes_with_properties reconnects and publishes again when the   *)
(* first try fails, so a confirmed publish may leave two copies, and one   *)
(* that fails may leave any number.                                        *)
Publish(k, r) ==
    /\ r.phase = "claimed"
    /\ \E n \in {1, 2} :
        /\ ready' = [ready EXCEPT ![MessageOf(r.event)] = @ + n]
        /\ IF n = 1 THEN NoFault ELSE Fault
    /\ claims' = Moved(k, r, "sent")
    /\ UNCHANGED <<dispatch, chunks, outbox, delayed, tasks>>

PublishFails(k, r) ==
    /\ r.phase = "claimed"
    /\ \E n \in {0, 1, 2} : ready' = [ready EXCEPT ![MessageOf(r.event)] = @ + n]
    /\ claims' = Moved(k, r, "refused")
    /\ Fault
    /\ UNCHANGED <<dispatch, chunks, outbox, delayed, tasks>>

(* The claim may settle the delivery row while its token is current.       *)
IsCurrent(r) == outbox[r.event].status = "pending" /\ outbox[r.event].token = r.token

(* mark_outbox_event_published.                                            *)
MarkPublished(k, r) ==
    /\ r.phase = "sent"
    /\ outbox' = IF IsCurrent(r)
                 THEN [outbox EXCEPT ![r.event].status = "published"]
                 ELSE outbox
    /\ claims' = [claims EXCEPT ![k] = @ \ {r}]
    /\ NoFault
    /\ UNCHANGED <<dispatch, chunks, broker, tasks>>

(* reschedule_outbox_event.                                                *)
Reschedule(k, r) ==
    /\ r.phase = "refused"
    /\ outbox' = IF IsCurrent(r)
                 THEN [outbox EXCEPT ![r.event] = [@ EXCEPT !.token = 0, !.available = FALSE]]
                 ELSE outbox
    /\ claims' = [claims EXCEPT ![k] = @ \ {r}]
    /\ NoFault
    /\ UNCHANGED <<dispatch, chunks, broker, tasks>>

(* available_at passes.  Passing it while the claimant is still publishing *)
(* is a fault.                                                             *)
BeingPublished(e) == \E k \in Coordinator : \E r \in claims[k] :
                        r.event = e /\ r.token = outbox[e].token

(* Mutant: a claim hides the event until its claimant lets go of it.       *)
RescheduledBecomesAvailable(e) ==
    /\ outbox[e].status = "pending"
    /\ ~outbox[e].available
    /\ outbox[e].token = 0
    /\ outbox' = [outbox EXCEPT ![e].available = TRUE]
    /\ NoFault
    /\ UNCHANGED <<dispatch, chunks, claims, broker, tasks>>

BecomesAvailable(e) ==
    /\ outbox[e].status = "pending"
    /\ ~outbox[e].available
    /\ outbox' = [outbox EXCEPT ![e].available = TRUE]
    /\ IF BeingPublished(e) THEN Fault ELSE NoFault
    /\ UNCHANGED <<dispatch, chunks, claims, broker, tasks>>

(* A pass ends early when the database fails, and with the process.  The   *)
(* control transaction of a dispatch in progress rolls back.               *)
CoordinatorFails(k) ==
    /\ claims[k] # {} \/ dispatcher.by = k
    /\ claims' = [claims EXCEPT ![k] = {}]
    /\ dispatcher' = IF dispatcher.by = k
                     THEN [dispatcher EXCEPT !.by = NoCoordinator] ELSE dispatcher
    /\ Fault
    /\ UNCHANGED <<cursor, chunks, outbox, broker, tasks>>

-----------------------------------------------------------------------------
(* The worker.                                                             *)

Goto(t, pc) == tasks' = [tasks EXCEPT ![t].pc = pc]

(* Mutant: the message is acknowledged before its copy is published.       *)
GotoCopyAcked(t, n) ==
    tasks' = [tasks EXCEPT ![t].pc = "republish", ![t].copy = n, ![t].held = FALSE]

(* Next to publish is a copy of the message with retry count n.            *)
GotoCopy(t, n) == tasks' = [tasks EXCEPT ![t] = [@ EXCEPT !.pc = "republish", !.copy = n]]

Receive(t) ==
    /\ tasks[t].pc = "idle"
    /\ \E m \in Message :
        /\ ready[m] > 0
        /\ ready' = [ready EXCEPT ![m] = @ - 1]
        /\ tasks' = [tasks EXCEPT ![t] = [pc |-> "received", msg |-> m, held |-> TRUE,
                                          copy |-> 0]]
    /\ NoFault
    /\ UNCHANGED <<dispatch, chunks, publication, delayed>>

Claimable(c) == \/ chunks[c].status = "pending"
                \/ chunks[c].status = "leased" /\ ~chunks[c].live

Lease(c, owner) ==
    [chunks EXCEPT ![c] = [@ EXCEPT !.status = "leased", !.owner = owner, !.live = TRUE]]

(* claim_hinted_chunk_with_route_refresh; a message whose chunk cannot be  *)
(* claimed is acknowledged.                                                *)
ClaimChunk(t) ==
    LET c == tasks[t].msg.chunk IN
    /\ tasks[t].pc = "received"
    /\ IF Claimable(c)
       THEN chunks' = Lease(c, t) /\ Goto(t, "working")
       ELSE UNCHANGED chunks /\ Goto(t, "ack")
    /\ NoFault
    /\ UNCHANGED <<dispatch, publication, broker>>

(* The circuit is open, the shard's route is blocked, or the database      *)
(* fails, perhaps after it committed the claim: the delivery is delayed.   *)
ClaimFails(t) ==
    LET c == tasks[t].msg.chunk IN
    /\ tasks[t].pc = "received"
    /\ \/ UNCHANGED chunks
       \/ Claimable(c) /\ chunks' = Lease(c, NoTask)
    /\ GotoCopy(t, tasks[t].msg.retries)
    /\ Fault
    /\ UNCHANGED <<dispatch, publication, broker>>

HoldsLease(t) ==
    LET c == tasks[t].msg.chunk IN
    chunks[c].status = "leased" /\ chunks[c].owner = t /\ chunks[c].live

Unlease(t, status) ==
    [chunks EXCEPT ![tasks[t].msg.chunk] =
        [@ EXCEPT !.status = status, !.owner = NoTask, !.live = FALSE]]

(* mark_chunk_completed_and_settle.                                        *)
CompleteChunk(t) ==
    /\ tasks[t].pc = "working"
    /\ chunks' = IF HoldsLease(t) THEN Unlease(t, "completed") ELSE chunks
    /\ Goto(t, "ack")
    /\ NoFault
    /\ UNCHANGED <<dispatch, publication, broker>>

(* settle_chunk_waiting_for_execution_retry.  The number of waits is that  *)
(* of the executions' retries, which the attempt budget bounds.            *)
WaitForRetry(t) ==
    LET c == tasks[t].msg.chunk IN
    /\ tasks[t].pc = "working"
    /\ chunks[c].waits < MaxWaits
    /\ IF HoldsLease(t)
       THEN /\ chunks' = [chunks EXCEPT ![c] = [@ EXCEPT !.status = "pending", !.owner = NoTask,
                                                         !.live = FALSE, !.waits = chunks[c].waits + 1]]
            /\ GotoCopy(t, tasks[t].msg.retries)
       ELSE UNCHANGED chunks /\ Goto(t, "ack")
    /\ NoFault
    /\ UNCHANGED <<dispatch, publication, broker>>

(* settle_retryable_chunk_failure.                                         *)
FailChunk(t) ==
    /\ tasks[t].pc = "working"
    /\ \/ /\ ~HoldsLease(t)
          /\ UNCHANGED chunks
          /\ Goto(t, "ack")
       \/ /\ HoldsLease(t)
          /\ tasks[t].msg.retries < MaxRetries
          /\ chunks' = Unlease(t, "pending")
          /\ GotoCopy(t, tasks[t].msg.retries + 1)
       \/ /\ HoldsLease(t)
          /\ tasks[t].msg.retries = MaxRetries
          /\ chunks' = Unlease(t, "failed")
          /\ Goto(t, "quarantine")
    /\ NoFault
    /\ UNCHANGED <<dispatch, publication, broker>>

(* contain_worker_database_error: the delivery is delayed, whether or not  *)
(* the transaction that failed was committed.                              *)
WorkDatabaseFails(t) ==
    /\ tasks[t].pc = "working"
    /\ \/ UNCHANGED chunks
       \/ \E s \in {"pending", "completed", "failed"} :
            /\ HoldsLease(t)
            /\ s = "failed" => tasks[t].msg.retries = MaxRetries
            /\ chunks' = Unlease(t, s)
    /\ GotoCopy(t, tasks[t].msg.retries)
    /\ Fault
    /\ UNCHANGED <<dispatch, publication, broker>>

WithCopies(t, n) ==
    [delayed EXCEPT ![[chunk |-> tasks[t].msg.chunk, retries |-> tasks[t].copy]] = @ + n]

(* delay_worker_message and retry_worker_message: publish, then ack.       *)
Republish(t) ==
    /\ tasks[t].pc = "republish"
    /\ \E n \in {1, 2} :
        /\ delayed' = WithCopies(t, n)
        /\ IF n = 1 THEN NoFault ELSE Fault
    /\ Goto(t, "ack")
    /\ UNCHANGED <<dispatch, chunks, publication, ready>>

(* quarantine_worker_message; nothing reads the quarantine queue.          *)
Quarantine(t) ==
    /\ tasks[t].pc = "quarantine"
    /\ Goto(t, "ack")
    /\ NoFault
    /\ UNCHANGED <<dispatch, chunks, publication, broker>>

(* Client::ack.  On a lost connection it does nothing.                     *)
Ack(t) ==
    /\ tasks[t].pc = "ack"
    /\ tasks' = [tasks EXCEPT ![t] = IdleTask]
    /\ NoFault
    /\ UNCHANGED <<dispatch, chunks, publication, broker>>

(* What the broker does with the delivery of a closed connection.          *)
Requeued(t) == IF tasks[t].held THEN [ready EXCEPT ![tasks[t].msg] = @ + 1] ELSE ready

(* The process dies, or exits because publishing failed.                   *)
WorkerDies(t) ==
    /\ tasks[t].pc # "idle"
    /\ ready' = Requeued(t)
    /\ \/ UNCHANGED delayed
       \/ tasks[t].pc = "republish" /\ \E n \in {1, 2} : delayed' = WithCopies(t, n)
    /\ tasks' = [tasks EXCEPT ![t] = IdleTask]
    /\ Fault
    /\ UNCHANGED <<dispatch, chunks, publication>>

(* The consumer's connection drops and is reopened; the handler goes on.   *)
Disconnect(t) ==
    /\ MayDisconnect
    /\ tasks[t].held
    /\ ready' = Requeued(t)
    /\ tasks' = [tasks EXCEPT ![t].held = FALSE]
    /\ faults + DropFaults <= MaxFaults
    /\ faults' = faults + DropFaults
    /\ UNCHANGED <<dispatch, chunks, publication, delayed>>

-----------------------------------------------------------------------------
(* The broker and time.                                                    *)

(* The TTL of a retry queue dead-letters the message to the worker queue.  *)
DelayEnds(m) ==
    /\ delayed[m] > 0
    /\ delayed' = [delayed EXCEPT ![m] = @ - 1]
    /\ ready' = [ready EXCEPT ![m] = @ + 1]
    /\ NoFault
    /\ UNCHANGED <<dispatch, chunks, publication, tasks>>

(* leased_until passes.  The heartbeat of a live owner fails to renew only *)
(* by a fault.                                                             *)
LeaseEnds(c) ==
    /\ chunks[c].status = "leased"
    /\ chunks[c].live
    /\ chunks' = [chunks EXCEPT ![c].live = FALSE]
    /\ IF \E t \in Task : tasks[t].pc = "working" /\ tasks[t].msg.chunk = c /\ HoldsLease(t)
       THEN Fault ELSE NoFault
    /\ UNCHANGED <<dispatch, publication, broker, tasks>>

-----------------------------------------------------------------------------

WorkerStep(t) ==
    \/ Receive(t) \/ ClaimChunk(t) \/ CompleteChunk(t) \/ WaitForRetry(t) \/ FailChunk(t)
    \/ Republish(t) \/ Quarantine(t) \/ Ack(t)

WorkerFault(t) ==
    ClaimFails(t) \/ WorkDatabaseFails(t) \/ WorkerDies(t) \/ Disconnect(t)

PublisherStep(k) ==
    \/ \E E \in SUBSET Publishable : ClaimEvents(k, E)
    \/ \E r \in claims[k] : Publish(k, r) \/ MarkPublished(k, r) \/ Reschedule(k, r)

CoordinatorStep(k) == DispatchWindow(k) \/ CommitCursor(k) \/ PublisherStep(k)

CoordinatorFault(k) == CoordinatorFails(k) \/ \E r \in claims[k] : PublishFails(k, r)

Next ==
    \/ \E t \in Task : WorkerStep(t) \/ WorkerFault(t)
    \/ \E k \in Coordinator : CoordinatorStep(k) \/ CoordinatorFault(k)
    \/ \E c \in Chunk : Recover(c) \/ LeaseEnds(c)
    \/ \E e \in Event : BecomesAvailable(e)
    \/ \E m \in Message : DelayEnds(m)

Spec == Init /\ [][Next]_vars

(* Processes that fail are restarted, coordinators run their cycle forever *)
(* (recovery, dispatch and publication each time), the broker delivers     *)
(* what is ready, and clocks advance.                                      *)
Fairness ==
    /\ \A t \in Task : WF_vars(WorkerStep(t))
    /\ \A k \in Coordinator : /\ WF_vars(DispatchWindow(k) \/ CommitCursor(k))
                              /\ WF_vars(PublisherStep(k))
    /\ \A c \in Chunk : WF_vars(Recover(c)) /\ WF_vars(LeaseEnds(c))
    /\ \A e \in Event : WF_vars(BecomesAvailable(e))
    /\ \A m \in Message : WF_vars(DelayEnds(m))

FairSpec == Spec /\ Fairness

-----------------------------------------------------------------------------
(* Properties.                                                             *)

(* Every variable holds rows of its table.                                 *)
TypeOK ==
    /\ cursor \in {"open", "drained"}
    /\ dispatcher \in [by: Coordinator \cup {NoCoordinator}, remaining: BOOLEAN]
    /\ chunks \in [Chunk -> ChunkRow]
    /\ outbox \in [Event -> EventRow]
    /\ claims \in [Coordinator -> SUBSET ClaimRow]
    /\ ready \in [Message -> Nat]
    /\ delayed \in [Message -> Nat]
    /\ tasks \in [Task -> TaskRow]
    /\ faults \in 0 .. MaxFaults

(* Someone will still bring the chunk to a worker: an event that is not    *)
(* published yet, a message in a queue, a delivery that the broker returns *)
(* when its worker dies, or a worker that is about to publish a copy.      *)
HasEvent(c)   == \E e \in Event : e[1] = c /\ outbox[e].status = "pending"
HasMessage(c) == \E m \in Message : m.chunk = c /\ (ready[m] > 0 \/ delayed[m] > 0)
HasDelivery(c) == \E t \in Task : /\ tasks[t].held \/ tasks[t].pc = "republish"
                                 /\ tasks[t].msg.chunk = c

(* No work is lost: a pending chunk is either still to be dispatched by an *)
(* open cursor or has an event, a message or a delivery that leads a       *)
(* worker to it.  Nothing else ever looks at a pending chunk that was      *)
(* dispatched, so without one it stays pending for ever.                   *)
NoLostWork ==
    \A c \in Chunk : chunks[c].status = "pending" =>
        IF chunks[c].dispatched
        THEN HasEvent(c) \/ HasMessage(c) \/ HasDelivery(c)
        ELSE cursor = "open"

(* Two publishers never have a say in the same event: whoever claims an    *)
(* event that another publisher overran its window on takes the right to   *)
(* mark or to reschedule it away from the other.                           *)
OneSettler ==
    \A j, k \in Coordinator : \A q \in claims[j], r \in claims[k] :
        q.event = r.event /\ IsCurrent(q) /\ IsCurrent(r) => j = k /\ q = r

(* What is on the way to a worker for the chunk: events whose message is   *)
(* not confirmed yet, queued messages, and workers that have one.          *)
Unsent(c) == {e \in Event : /\ e[1] = c
                            /\ outbox[e].status = "pending"
                            /\ \A k \in Coordinator : \A r \in claims[k] :
                                    r.event = e /\ IsCurrent(r) => r.phase # "sent"}
Queued(c) == UNION {{m} \X (1 .. ready[m] + delayed[m]) : m \in {x \in Message : x.chunk = c}}
Busy(c)   == {t \in Task : /\ tasks[t].pc \in {"received", "working", "republish"}
                           /\ tasks[t].msg.chunk = c}
Copies(c) == Cardinality(Unsent(c)) + Cardinality(Queued(c)) + Cardinality(Busy(c))

(* What one fault can add: two copies, or one for every event of the chunk *)
(* when a coordinator is lost after it sent them and before it marked      *)
(* them.                                                                   *)
CopiesOfFault == IF MaxRecoveries = 0 THEN 2 ELSE MaxRecoveries + 1

(* Duplicates come from faults only, and their number is bounded by that   *)
(* of the faults: a chunk has one copy of its message at most, through     *)
(* every release, retry and delay, as long as nothing goes wrong.          *)
BoundedCopies == \A c \in Chunk : Copies(c) <= 1 + CopiesOfFault * faults

(* Once faults stop, every chunk is settled and everything that was said   *)
(* about it drains: no event unpublished, no message queued, no worker     *)
(* busy.                                                                   *)
Quiet ==
    /\ \A c \in Chunk : chunks[c].status \in TerminalChunk
    /\ \A e \in Event : outbox[e].status # "pending"
    /\ \A m \in Message : ready[m] = 0 /\ delayed[m] = 0
    /\ \A t \in Task : tasks[t].pc = "idle"

WorkDrains == <>[]Quiet
=============================================================================
