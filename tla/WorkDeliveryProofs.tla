------------------------- MODULE WorkDeliveryProofs -------------------------
(***************************************************************************)
(* Proofs about WorkDelivery, for any number of chunks, workers,           *)
(* coordinators, retries, recoveries and faults.                           *)
(***************************************************************************)
EXTENDS WorkDelivery, TLAPS

(* The provers a leaf that names none is given to, in this order.          *)
USE SMT, Zenon, Z3

(* A task that is not idle has a message, and the broker knows it has it   *)
(* unless connections drop.                                                *)
TaskInv ==
    \A t \in Task :
        /\ tasks[t].pc # "idle" => tasks[t].msg \in Message
        /\ tasks[t].held => tasks[t].pc # "idle"
        /\ ~MayDisconnect /\ tasks[t].pc # "idle" => tasks[t].held

(* Claims carry tokens that were issued for an event that exists.          *)
TokenInv ==
    /\ \A e \in Event : outbox[e].token <= outbox[e].tries
    /\ \A e \in Event : outbox[e].status = "none" => outbox[e].token = 0
    /\ \A k \in Coordinator : \A r \in claims[k] :
        /\ 0 < r.token
        /\ r.token <= outbox[r.event].tries
        /\ outbox[r.event].status # "none"

(* No token is issued twice for an event.                                  *)
DistinctInv ==
    \A j, k \in Coordinator : \A q \in claims[j], r \in claims[k] :
        q.event = r.event /\ q.token = r.token => j = k /\ q = r

(* The event of a recovery does not exist before the recovery.             *)
FreshInv ==
    \A c \in Chunk : \A n \in 0 .. MaxRecoveries :
        n > chunks[c].recoveries => outbox[<<c, n>>].status = "none"

(* Nobody has heard of a chunk that is not dispatched.                     *)
HiddenInv ==
    \A c \in Chunk : ~chunks[c].dispatched =>
        /\ chunks[c].status = "pending"
        /\ \A n \in 0 .. MaxRecoveries : outbox[<<c, n>>].status = "none"
        /\ \A m \in Message : m.chunk = c => ready[m] = 0 /\ delayed[m] = 0
        /\ \A t \in Task : tasks[t].pc # "idle" => tasks[t].msg.chunk # c

(* The cursor is open, and a dispatch in progress will leave it open, as   *)
(* long as a chunk is not dispatched.                                      *)
CursorInv ==
    \A c \in Chunk : ~chunks[c].dispatched =>
        /\ cursor = "open"
        /\ dispatcher.by # NoCoordinator => dispatcher.remaining

(* What carries a pending chunk: an event that its claimant has not sent,  *)
(* a queued message, a worker that will try to claim the chunk, or one     *)
(* that is about to publish a copy.                                        *)
Confirmed(e) == \E k \in Coordinator : \E r \in claims[k] :
                    r.event = e /\ r.token = outbox[e].token /\ r.phase = "sent"
ByEvent(c)   == \E n \in 0 .. MaxRecoveries :
                    outbox[<<c, n>>].status = "pending" /\ ~Confirmed(<<c, n>>)
ByMessage(c) == \E m \in Message : m.chunk = c /\ (ready[m] > 0 \/ delayed[m] > 0)
ByTask(c)    == \E t \in Task : tasks[t].pc \in {"received", "republish"} /\ tasks[t].msg.chunk = c

CarriedInv ==
    \A c \in Chunk : chunks[c].status = "pending" /\ chunks[c].dispatched =>
        ByEvent(c) \/ ByMessage(c) \/ ByTask(c)

(* The inductive invariant.  CarriedInv is NoLostWork without the carriers *)
(* that may vanish: an event whose message is out, and a delivery that     *)
(* will be acknowledged.                                                   *)
ClaimInv   == TypeOK /\ TokenInv /\ DistinctInv
RoutingInv == FreshInv /\ HiddenInv /\ CursorInv
BaseInv    == ClaimInv /\ TaskInv /\ RoutingInv
IInv       == BaseInv /\ CarriedInv

-----------------------------------------------------------------------------
(* Rows.  What an update of one row leaves of the table.                   *)

(* The chunk becomes row r; what other invariants ask of it is named.      *)
ChunkBecomes(c, status, recoveries) ==
    /\ chunks' \in [Chunk -> ChunkRow]
    /\ \A d \in Chunk : d # c => chunks'[d] = chunks[d]
    /\ chunks'[c].status = status
    /\ chunks'[c].recoveries = recoveries
    /\ chunks'[c].dispatched = chunks[c].dispatched

(* Claiming a chunk changes its status and its lease only.                 *)
LEMMA LeaseRow ==
    ASSUME TypeOK, NEW c \in Chunk, NEW o \in Task \cup {NoTask}, chunks' = Lease(c, o)
    PROVE  ChunkBecomes(c, "leased", chunks[c].recoveries)
  <1> DEFINE row == [chunks[c] EXCEPT !.status = "leased", !.owner = o, !.live = TRUE]
  <1>1. chunks' = [chunks EXCEPT ![c] = row]  BY DEF Lease
  <1>2. chunks[c] \in ChunkRow  BY DEF TypeOK
  <1>3. /\ row \in ChunkRow
        /\ row.status = "leased"
        /\ row.recoveries = chunks[c].recoveries
        /\ row.dispatched = chunks[c].dispatched
    BY <1>2, Zenon DEF ChunkRow, ChunkStatus
  <1> HIDE DEF row
  <1> QED  BY <1>1, <1>3 DEF TypeOK, ChunkBecomes

(* Settling or releasing a chunk changes its status and its lease only.    *)
LEMMA UnleaseRow ==
    ASSUME TypeOK, NEW t \in Task, NEW c \in Chunk, c = tasks[t].msg.chunk,
           NEW s \in ChunkStatus, chunks' = Unlease(t, s)
    PROVE  ChunkBecomes(c, s, chunks[c].recoveries)
  <1> DEFINE row == [chunks[c] EXCEPT !.status = s, !.owner = NoTask, !.live = FALSE]
  <1>1. chunks' = [chunks EXCEPT ![c] = row]  BY DEF Unlease
  <1>2. chunks[c] \in ChunkRow  BY DEF TypeOK
  <1>3. /\ row \in ChunkRow
        /\ row.status = s
        /\ row.recoveries = chunks[c].recoveries
        /\ row.dispatched = chunks[c].dispatched
    BY <1>2, Zenon DEF ChunkRow
  <1> HIDE DEF row
  <1> QED  BY <1>1, <1>3 DEF TypeOK, ChunkBecomes

(* So does waiting for a retry, which is counted.                          *)
LEMMA WaitRow ==
    ASSUME TypeOK, NEW c \in Chunk, chunks[c].waits < MaxWaits,
           chunks' = [chunks EXCEPT ![c] = [@ EXCEPT !.status = "pending", !.owner = NoTask,
                                                     !.live = FALSE, !.waits = chunks[c].waits + 1]]
    PROVE  ChunkBecomes(c, "pending", chunks[c].recoveries)
  <1> DEFINE row == [chunks[c] EXCEPT !.status = "pending", !.owner = NoTask, !.live = FALSE,
                                      !.waits = chunks[c].waits + 1]
  <1>1. chunks' = [chunks EXCEPT ![c] = row]  OBVIOUS
  <1>2. chunks[c] \in ChunkRow  BY DEF TypeOK
  <1>3. chunks[c].waits + 1 \in 0 .. MaxWaits
    BY <1>2, DeliveryAssumption DEF ChunkRow
  <1>4. /\ row \in ChunkRow
        /\ row.status = "pending"
        /\ row.recoveries = chunks[c].recoveries
        /\ row.dispatched = chunks[c].dispatched
    BY <1>2, <1>3, Zenon DEF ChunkRow, ChunkStatus
  <1> HIDE DEF row
  <1> QED  BY <1>1, <1>4 DEF TypeOK, ChunkBecomes

(* Recovering a chunk counts, failing it does not.                         *)
LEMMA RecoveredRow ==
    ASSUME TypeOK, NEW c \in Chunk, chunks[c].recoveries < MaxRecoveries,
           chunks' = [chunks EXCEPT ![c] = [@ EXCEPT !.status = "pending", !.owner = NoTask,
                                                     !.recoveries = chunks[c].recoveries + 1]]
    PROVE  ChunkBecomes(c, "pending", chunks[c].recoveries + 1)
  <1> DEFINE row == [chunks[c] EXCEPT !.status = "pending", !.owner = NoTask,
                                      !.recoveries = chunks[c].recoveries + 1]
  <1>1. chunks' = [chunks EXCEPT ![c] = row]  OBVIOUS
  <1>2. chunks[c] \in ChunkRow  BY DEF TypeOK
  <1>3. chunks[c].recoveries + 1 \in 0 .. MaxRecoveries
    BY <1>2, DeliveryAssumption DEF ChunkRow
  <1>4. /\ row \in ChunkRow
        /\ row.status = "pending"
        /\ row.recoveries = chunks[c].recoveries + 1
        /\ row.dispatched = chunks[c].dispatched
    BY <1>2, <1>3, Zenon DEF ChunkRow, ChunkStatus
  <1> HIDE DEF row
  <1> QED  BY <1>1, <1>4 DEF TypeOK, ChunkBecomes

(* A chunk at the limit of recoveries fails; its count stays.              *)
LEMMA FailedRow ==
    ASSUME TypeOK, NEW c \in Chunk,
           chunks' = [chunks EXCEPT ![c] = [@ EXCEPT !.status = "failed", !.owner = NoTask]]
    PROVE  ChunkBecomes(c, "failed", chunks[c].recoveries)
  <1> DEFINE row == [chunks[c] EXCEPT !.status = "failed", !.owner = NoTask]
  <1>1. chunks' = [chunks EXCEPT ![c] = row]  OBVIOUS
  <1>2. chunks[c] \in ChunkRow  BY DEF TypeOK
  <1>3. /\ row \in ChunkRow
        /\ row.status = "failed"
        /\ row.recoveries = chunks[c].recoveries
        /\ row.dispatched = chunks[c].dispatched
    BY <1>2, Zenon DEF ChunkRow, ChunkStatus, TerminalChunk
  <1> HIDE DEF row
  <1> QED  BY <1>1, <1>3 DEF TypeOK, ChunkBecomes

(* What a step of a task leaves of the others.                             *)
TaskBecomes(t, pc, msg, held) ==
    /\ tasks' \in [Task -> TaskRow]
    /\ \A u \in Task : u # t => tasks'[u] = tasks[u]
    /\ tasks'[t].pc = pc
    /\ tasks'[t].msg = msg
    /\ tasks'[t].held = held

(* Goto changes where a task is and nothing else of it.                    *)
LEMMA GotoRow ==
    ASSUME TypeOK, NEW t \in Task, NEW pc \in TaskState, Goto(t, pc)
    PROVE  TaskBecomes(t, pc, tasks[t].msg, tasks[t].held)
  <1> DEFINE row == [tasks[t] EXCEPT !.pc = pc]
  <1>1. tasks' = [tasks EXCEPT ![t] = row]  BY DEF Goto, TypeOK
  <1>2. tasks[t] \in TaskRow  BY DEF TypeOK
  <1>3. row \in TaskRow /\ row.pc = pc /\ row.msg = tasks[t].msg /\ row.held = tasks[t].held
    BY <1>2 DEF TaskRow
  <1> HIDE DEF row
  <1> QED  BY <1>1, <1>3 DEF TypeOK, TaskBecomes

(* GotoCopy keeps the message and the delivery of the task.                *)
LEMMA GotoCopyRow ==
    ASSUME TypeOK, NEW t \in Task, NEW n \in 0 .. MaxRetries, GotoCopy(t, n)
    PROVE  TaskBecomes(t, "republish", tasks[t].msg, tasks[t].held)
  <1> DEFINE row == [tasks[t] EXCEPT !.pc = "republish", !.copy = n]
  <1>1. tasks' = [tasks EXCEPT ![t] = row]  BY DEF GotoCopy
  <1>2. tasks[t] \in TaskRow  BY DEF TypeOK
  <1>3. /\ row \in TaskRow
        /\ row.pc = "republish" /\ row.msg = tasks[t].msg /\ row.held = tasks[t].held
    BY <1>2, Zenon DEF TaskRow, TaskState
  <1> HIDE DEF row
  <1> QED  BY <1>1, <1>3 DEF TypeOK, TaskBecomes

(* An acknowledged or dead task is idle and holds nothing.                 *)
LEMMA IdleRow ==
    ASSUME TypeOK, NEW t \in Task, tasks' = [tasks EXCEPT ![t] = IdleTask]
    PROVE  TaskBecomes(t, "idle", NoMessage, FALSE)
  <1>1. 0 \in 0 .. MaxRetries  BY DeliveryAssumption
  <1>2. IdleTask \in TaskRow /\ IdleTask.pc = "idle" /\ IdleTask.msg = NoMessage
        /\ IdleTask.held = FALSE
    BY <1>1 DEF IdleTask, TaskRow, TaskState
  <1> QED  BY <1>2 DEF TypeOK, TaskBecomes

(* A task that received m holds the delivery of m.                         *)
LEMMA ReceivedRow ==
    ASSUME TypeOK, NEW t \in Task, NEW m \in Message,
           tasks' = [tasks EXCEPT ![t] = [pc |-> "received", msg |-> m, held |-> TRUE,
                                          copy |-> 0]]
    PROVE  TaskBecomes(t, "received", m, TRUE)
  <1> DEFINE row == [pc |-> "received", msg |-> m, held |-> TRUE, copy |-> 0]
  <1>1. 0 \in 0 .. MaxRetries  BY DeliveryAssumption
  <1>2. row \in TaskRow /\ row.pc = "received" /\ row.msg = m /\ row.held = TRUE
    BY <1>1 DEF TaskRow, TaskState
  <1>3. tasks' = [tasks EXCEPT ![t] = row]  OBVIOUS
  <1> HIDE DEF row
  <1> QED  BY <1>2, <1>3, Zenon DEF TypeOK, TaskBecomes

(* A lost connection takes the delivery and nothing else.                  *)
LEMMA ReleasedRow ==
    ASSUME TypeOK, NEW t \in Task, tasks' = [tasks EXCEPT ![t].held = FALSE]
    PROVE  TaskBecomes(t, tasks[t].pc, tasks[t].msg, FALSE)
  <1> DEFINE row == [tasks[t] EXCEPT !.held = FALSE]
  <1>1. tasks' = [tasks EXCEPT ![t] = row]  BY DEF TypeOK
  <1>2. tasks[t] \in TaskRow  BY DEF TypeOK
  <1>3. row \in TaskRow /\ row.pc = tasks[t].pc /\ row.msg = tasks[t].msg /\ row.held = FALSE
    BY <1>2, Zenon DEF TaskRow
  <1> HIDE DEF row
  <1> QED  BY <1>1, <1>3, Zenon DEF TypeOK, TaskBecomes

(* A queue after n copies of a message arrived.                            *)
LEMMA QueueGrows ==
    ASSUME NEW q \in [Message -> Nat], NEW m \in Message, NEW n \in Nat,
           NEW p, p = [q EXCEPT ![m] = @ + n]
    PROVE  /\ p \in [Message -> Nat]
           /\ \A x \in Message : x # m => p[x] = q[x]
           /\ p[m] = q[m] + n
  OBVIOUS

(* A queue after one copy of a message left.                               *)
LEMMA QueueShrinks ==
    ASSUME NEW q \in [Message -> Nat], NEW m \in Message, q[m] > 0,
           NEW p, p = [q EXCEPT ![m] = @ - 1]
    PROVE  /\ p \in [Message -> Nat]
           /\ \A x \in Message : x # m => p[x] = q[x]
           /\ p[m] = q[m] - 1
  OBVIOUS

(* Fault and NoFault keep the count within its bound.                      *)
LEMMA FaultsCounted ==
    ASSUME TypeOK, Fault \/ NoFault
    PROVE  faults' \in 0 .. MaxFaults
  BY DeliveryAssumption DEF TypeOK, Fault, NoFault

-----------------------------------------------------------------------------
(* Steps.  What the steps of a worker that has claimed, or is about to     *)
(* claim, the chunk of its message have in common: if they leave the chunk *)
(* pending they go on to publish a copy, or they have not touched it.      *)

ChunkKept(t) == LET c == tasks[t].msg.chunk IN
    chunks' = chunks \/ ChunkBecomes(c, chunks'[c].status, chunks[c].recoveries)

Works(t) ==
    /\ tasks[t].pc # "idle"
    /\ TaskBecomes(t, tasks'[t].pc, tasks[t].msg, tasks[t].held)
    /\ tasks'[t].pc # "idle"
    /\ ChunkKept(t)
    /\ chunks'[tasks[t].msg.chunk].status = "pending" =>
            \/ tasks'[t].pc = "republish"
            \/ chunks' = chunks /\ tasks[t].pc \notin {"received", "republish"}
    /\ faults' \in 0 .. MaxFaults
    /\ UNCHANGED <<cursor, dispatcher, outbox, claims, ready, delayed>>

(* A claim leases the chunk, or finds it not pending.                      *)
LEMMA ClaimChunkWorks ==
    ASSUME TypeOK, TaskInv, NEW t \in Task, ClaimChunk(t)
    PROVE  Works(t)
  <1>1. PICK c \in Chunk : c = tasks[t].msg.chunk
    BY DEF ClaimChunk, TaskInv, Message
  <1>2. UNCHANGED <<cursor, dispatcher, outbox, claims, ready, delayed>>
    BY DEF ClaimChunk, dispatch, publication, broker
  <1>3. faults' \in 0 .. MaxFaults  BY FaultsCounted DEF ClaimChunk
  <1>4. CASE Claimable(c)
    <2>1. chunks' = Lease(c, t) /\ Goto(t, "working") /\ tasks[t].pc = "received"
      BY <1>1, <1>4 DEF ClaimChunk
    <2>2. ChunkBecomes(c, "leased", chunks[c].recoveries)  BY <2>1, LeaseRow
    <2>3. TaskBecomes(t, "working", tasks[t].msg, tasks[t].held)
      BY <2>1, GotoRow DEF TaskState
    <2>4. chunks'[c].status = "leased" /\ tasks'[t].pc = "working"
      BY <2>2, <2>3 DEF ChunkBecomes, TaskBecomes
    <2> QED  BY <1>1, <1>2, <1>3, <2>1, <2>2, <2>3, <2>4 DEF Works, ChunkKept
  <1>5. CASE ~Claimable(c)
    <2>1. chunks' = chunks /\ Goto(t, "ack") /\ tasks[t].pc = "received"
      BY <1>1, <1>5 DEF ClaimChunk
    <2>2. TaskBecomes(t, "ack", tasks[t].msg, tasks[t].held)
      BY <2>1, GotoRow DEF TaskState
    <2>3. tasks'[t].pc = "ack"  BY <2>2 DEF TaskBecomes
    <2>4. chunks[c].status # "pending"  BY <1>5 DEF Claimable
    <2> QED  BY <1>1, <1>2, <1>3, <2>1, <2>2, <2>3, <2>4 DEF Works, ChunkKept
  <1> QED  BY <1>4, <1>5

(* A failed claim publishes a copy, committed or not.                      *)
LEMMA ClaimFailsWorks ==
    ASSUME TypeOK, TaskInv, NEW t \in Task, ClaimFails(t)
    PROVE  Works(t)
  <1>1. tasks[t].pc = "received" /\ tasks[t].msg \in Message
    BY DEF ClaimFails, TaskInv
  <1>2. PICK c \in Chunk : c = tasks[t].msg.chunk /\ tasks[t].msg.retries \in 0 .. MaxRetries
    BY <1>1 DEF Message
  <1>3. UNCHANGED <<cursor, dispatcher, outbox, claims, ready, delayed>>
    BY DEF ClaimFails, dispatch, publication, broker
  <1>4. faults' \in 0 .. MaxFaults  BY FaultsCounted DEF ClaimFails
  <1>5. TaskBecomes(t, "republish", tasks[t].msg, tasks[t].held)
    BY <1>2, GotoCopyRow DEF ClaimFails
  <1>6. tasks'[t].pc = "republish"  BY <1>5 DEF TaskBecomes
  <1>7. chunks' = chunks \/ chunks' = Lease(c, NoTask)  BY <1>2 DEF ClaimFails
  <1>8. chunks' = chunks \/ ChunkBecomes(c, "leased", chunks[c].recoveries)
    BY <1>7, LeaseRow
  <1>9. chunks' = chunks \/ ChunkBecomes(c, chunks'[c].status, chunks[c].recoveries)
    BY <1>8 DEF ChunkBecomes
  <1> QED  BY <1>1, <1>2, <1>3, <1>4, <1>5, <1>6, <1>9 DEF Works, ChunkKept

(* The ways to settle a chunk.                                             *)
LEMMA SettledChunkKept ==
    ASSUME TypeOK, NEW t \in Task, tasks[t].msg \in Message, NEW s \in ChunkStatus,
           chunks' = Unlease(t, s)
    PROVE  ChunkKept(t) /\ chunks'[tasks[t].msg.chunk].status = s
  <1>1. PICK c \in Chunk : c = tasks[t].msg.chunk  BY DEF Message
  <1>2. ChunkBecomes(c, s, chunks[c].recoveries)  BY <1>1, UnleaseRow
  <1>3. chunks'[c].status = s  BY <1>2 DEF ChunkBecomes
  <1> QED  BY <1>1, <1>2, <1>3 DEF ChunkKept

(* Completing settles the chunk, or leaves it alone.                       *)
LEMMA CompleteChunkWorks ==
    ASSUME TypeOK, TaskInv, NEW t \in Task, CompleteChunk(t)
    PROVE  Works(t)
  <1>1. tasks[t].pc = "working" /\ tasks[t].msg \in Message
    BY DEF CompleteChunk, TaskInv
  <1>2. UNCHANGED <<cursor, dispatcher, outbox, claims, ready, delayed>>
    BY DEF CompleteChunk, dispatch, publication, broker
  <1>3. faults' \in 0 .. MaxFaults  BY FaultsCounted DEF CompleteChunk
  <1>4. TaskBecomes(t, "ack", tasks[t].msg, tasks[t].held)
    BY GotoRow DEF CompleteChunk, TaskState
  <1>5. tasks'[t].pc = "ack"  BY <1>4 DEF TaskBecomes
  <1>6. chunks' = chunks \/ chunks' = Unlease(t, "completed")  BY DEF CompleteChunk
  <1>7. chunks' = chunks \/ (ChunkKept(t) /\ chunks'[tasks[t].msg.chunk].status = "completed")
    BY <1>1, <1>6, SettledChunkKept DEF ChunkStatus, TerminalChunk
  <1>8. ChunkKept(t)  BY <1>7 DEF ChunkKept
  <1> QED  BY <1>1, <1>2, <1>3, <1>4, <1>5, <1>7, <1>8 DEF Works

(* A chunk released to wait has its copy published.                        *)
LEMMA WaitForRetryWorks ==
    ASSUME TypeOK, TaskInv, NEW t \in Task, WaitForRetry(t)
    PROVE  Works(t)
  <1>1. tasks[t].pc = "working" /\ tasks[t].msg \in Message
    BY DEF WaitForRetry, TaskInv
  <1>2. PICK c \in Chunk : c = tasks[t].msg.chunk /\ tasks[t].msg.retries \in 0 .. MaxRetries
    BY <1>1 DEF Message
  <1>3. UNCHANGED <<cursor, dispatcher, outbox, claims, ready, delayed>>
    BY DEF WaitForRetry, dispatch, publication, broker
  <1>4. faults' \in 0 .. MaxFaults  BY FaultsCounted DEF WaitForRetry
  <1>5. CASE HoldsLease(t)
    <2>1. TaskBecomes(t, "republish", tasks[t].msg, tasks[t].held)
      BY <1>2, <1>5, GotoCopyRow DEF WaitForRetry
    <2>2. ChunkBecomes(c, "pending", chunks[c].recoveries)
      BY <1>2, <1>5, WaitRow, Zenon DEF WaitForRetry
    <2>3. chunks'[c].status = "pending" /\ tasks'[t].pc = "republish"
      BY <2>1, <2>2 DEF ChunkBecomes, TaskBecomes
    <2> QED  BY <1>1, <1>2, <1>3, <1>4, <2>1, <2>2, <2>3 DEF Works, ChunkKept
  <1>6. CASE ~HoldsLease(t)
    <2>1. TaskBecomes(t, "ack", tasks[t].msg, tasks[t].held) /\ chunks' = chunks
      BY <1>6, GotoRow DEF WaitForRetry, TaskState
    <2>2. tasks'[t].pc = "ack"  BY <2>1 DEF TaskBecomes
    <2> QED  BY <1>1, <1>2, <1>3, <1>4, <2>1, <2>2 DEF Works, ChunkKept
  <1> QED  BY <1>5, <1>6

(* So has one released for a retry; the last one fails.                    *)
LEMMA FailChunkWorks ==
    ASSUME TypeOK, TaskInv, NEW t \in Task, FailChunk(t)
    PROVE  Works(t)
  <1>1. tasks[t].pc = "working" /\ tasks[t].msg \in Message
    BY DEF FailChunk, TaskInv
  <1>2. tasks[t].msg.retries \in 0 .. MaxRetries  BY <1>1 DEF Message
  <1>3. UNCHANGED <<cursor, dispatcher, outbox, claims, ready, delayed>>
    BY DEF FailChunk, dispatch, publication, broker
  <1>4. faults' \in 0 .. MaxFaults  BY FaultsCounted DEF FailChunk
  <1>5. CASE chunks' = chunks /\ Goto(t, "ack")
    <2>1. TaskBecomes(t, "ack", tasks[t].msg, tasks[t].held)
      BY <1>5, GotoRow DEF TaskState
    <2>2. tasks'[t].pc = "ack"  BY <2>1 DEF TaskBecomes
    <2> QED  BY <1>1, <1>3, <1>4, <1>5, <2>1, <2>2 DEF Works, ChunkKept
  <1>6. CASE /\ tasks[t].msg.retries < MaxRetries
             /\ chunks' = Unlease(t, "pending")
             /\ GotoCopy(t, tasks[t].msg.retries + 1)
    <2>1. tasks[t].msg.retries + 1 \in 0 .. MaxRetries
      BY <1>2, <1>6, DeliveryAssumption
    <2>2. TaskBecomes(t, "republish", tasks[t].msg, tasks[t].held)
      BY <1>6, <2>1, GotoCopyRow
    <2>3. tasks'[t].pc = "republish"  BY <2>2 DEF TaskBecomes
    <2>4. ChunkKept(t)  BY <1>1, <1>6, SettledChunkKept DEF ChunkStatus
    <2> QED  BY <1>1, <1>3, <1>4, <2>2, <2>3, <2>4 DEF Works
  <1>7. CASE chunks' = Unlease(t, "failed") /\ Goto(t, "quarantine")
    <2>1. TaskBecomes(t, "quarantine", tasks[t].msg, tasks[t].held)
      BY <1>7, GotoRow DEF TaskState
    <2>2. tasks'[t].pc = "quarantine"  BY <2>1 DEF TaskBecomes
    <2>3. ChunkKept(t) /\ chunks'[tasks[t].msg.chunk].status = "failed"
      BY <1>1, <1>7, SettledChunkKept DEF ChunkStatus, TerminalChunk
    <2> QED  BY <1>1, <1>3, <1>4, <2>1, <2>2, <2>3 DEF Works
  <1> QED  BY <1>5, <1>6, <1>7 DEF FailChunk

(* A database error publishes a copy, committed or not.                    *)
LEMMA WorkDatabaseFailsWorks ==
    ASSUME TypeOK, TaskInv, NEW t \in Task, WorkDatabaseFails(t)
    PROVE  Works(t)
  <1>1. tasks[t].pc = "working" /\ tasks[t].msg \in Message
    BY DEF WorkDatabaseFails, TaskInv
  <1>2. tasks[t].msg.retries \in 0 .. MaxRetries  BY <1>1 DEF Message
  <1>3. UNCHANGED <<cursor, dispatcher, outbox, claims, ready, delayed>>
    BY DEF WorkDatabaseFails, dispatch, publication, broker
  <1>4. faults' \in 0 .. MaxFaults  BY FaultsCounted DEF WorkDatabaseFails
  <1>5. TaskBecomes(t, "republish", tasks[t].msg, tasks[t].held)
    BY <1>2, GotoCopyRow DEF WorkDatabaseFails
  <1>6. tasks'[t].pc = "republish"  BY <1>5 DEF TaskBecomes
  <1>7. chunks' = chunks \/ \E s \in ChunkStatus : chunks' = Unlease(t, s)
    BY DEF WorkDatabaseFails, ChunkStatus, TerminalChunk
  <1>8. ChunkKept(t)
    <2>1. CASE chunks' = chunks  BY <2>1 DEF ChunkKept
    <2>2. CASE \E s \in ChunkStatus : chunks' = Unlease(t, s)
      BY <1>1, <2>2, SettledChunkKept
    <2> QED  BY <1>7, <2>1, <2>2
  <1> QED  BY <1>1, <1>3, <1>4, <1>5, <1>6, <1>8 DEF Works

(* Quarantining touches no chunk.                                          *)
LEMMA QuarantineWorks ==
    ASSUME TypeOK, NEW t \in Task, Quarantine(t)
    PROVE  Works(t)
  <1>1. UNCHANGED <<cursor, dispatcher, chunks, outbox, claims, ready, delayed>>
    BY DEF Quarantine, dispatch, publication, broker
  <1>2. faults' \in 0 .. MaxFaults  BY FaultsCounted DEF Quarantine
  <1>3. tasks[t].pc = "quarantine" /\ TaskBecomes(t, "ack", tasks[t].msg, tasks[t].held)
    BY GotoRow DEF Quarantine, TaskState
  <1>4. tasks'[t].pc = "ack"  BY <1>3 DEF TaskBecomes
  <1> QED  BY <1>1, <1>2, <1>3, <1>4 DEF Works, ChunkKept

(* A step of a task that keeps its message.                                *)
LEMMA WorksTypes ==
    ASSUME TypeOK, TaskInv, NEW t \in Task, Works(t)
    PROVE  TypeOK' /\ TaskInv'
  <1>1. chunks' \in [Chunk -> ChunkRow]
    BY DEF Works, ChunkKept, ChunkBecomes, TypeOK
  <1>2. TypeOK'  BY <1>1 DEF Works, TaskBecomes, TypeOK
  <1>3. TaskInv'
    <2> SUFFICES ASSUME NEW u \in Task
                 PROVE  /\ tasks'[u].pc # "idle" => tasks'[u].msg \in Message
                        /\ tasks'[u].held => tasks'[u].pc # "idle"
                        /\ ~MayDisconnect /\ tasks'[u].pc # "idle" => tasks'[u].held
      BY DEF TaskInv
    <2>1. CASE u = t  BY <2>1 DEF Works, TaskBecomes, TaskInv
    <2>2. CASE u # t  BY <2>2 DEF Works, TaskBecomes, TaskInv
    <2> QED  BY <2>1, <2>2
  <1> QED  BY <1>2, <1>3

(* Fields of the chunk table after such a step.                            *)
LEMMA WorksFields ==
    ASSUME TypeOK, TaskInv, NEW t \in Task, Works(t), NEW d \in Chunk
    PROVE  /\ chunks'[d].dispatched = chunks[d].dispatched
           /\ chunks'[d].recoveries = chunks[d].recoveries
           /\ d # tasks[t].msg.chunk => chunks'[d] = chunks[d]
  <1>1. tasks[t].msg.chunk \in Chunk  BY DEF Works, TaskInv, Message
  <1>2. CASE d = tasks[t].msg.chunk  BY <1>2 DEF Works, ChunkKept, ChunkBecomes
  <1>3. CASE d # tasks[t].msg.chunk  BY <1>1, <1>3 DEF Works, ChunkKept, ChunkBecomes
  <1> QED  BY <1>2, <1>3

(* The publisher's state is not touched by the steps of workers.           *)
LEMMA ClaimsUntouched ==
    ASSUME TokenInv, DistinctInv, UNCHANGED <<outbox, claims>>
    PROVE  TokenInv' /\ DistinctInv'
  BY DEF TokenInv, DistinctInv

(* Such a step keeps what is known of undispatched chunks.                 *)
LEMMA WorksRouting ==
    ASSUME TypeOK, TaskInv, RoutingInv, NEW t \in Task, Works(t)
    PROVE  RoutingInv'
  <1> DEFINE c == tasks[t].msg.chunk
  <1>1. UNCHANGED <<cursor, dispatcher, outbox, claims, ready, delayed>>  BY DEF Works
  <1>2. \A d \in Chunk : /\ chunks'[d].dispatched = chunks[d].dispatched
                         /\ chunks'[d].recoveries = chunks[d].recoveries
                         /\ d # c => chunks'[d] = chunks[d]
    BY WorksFields
  <1>3. c \in Chunk /\ chunks[c].dispatched
    BY DEF Works, TaskInv, Message, RoutingInv, HiddenInv
  <1>4. \A u \in Task : tasks'[u].pc # "idle" =>
            tasks[u].pc # "idle" /\ tasks'[u].msg = tasks[u].msg
    BY DEF Works, TaskBecomes
  <1> HIDE DEF c
  <1>5. FreshInv'  BY <1>1, <1>2 DEF RoutingInv, FreshInv
  <1>6. CursorInv'  BY <1>1, <1>2 DEF RoutingInv, CursorInv
  <1>7. HiddenInv'
    <2> SUFFICES ASSUME NEW d \in Chunk, ~chunks'[d].dispatched
                 PROVE  /\ chunks'[d].status = "pending"
                        /\ \A n \in 0 .. MaxRecoveries : outbox'[<<d, n>>].status = "none"
                        /\ \A m \in Message : m.chunk = d => ready'[m] = 0 /\ delayed'[m] = 0
                        /\ \A u \in Task : tasks'[u].pc # "idle" => tasks'[u].msg.chunk # d
      BY DEF HiddenInv
    <2>1. ~chunks[d].dispatched /\ d # c  BY <1>2, <1>3
    <2>2. chunks'[d] = chunks[d]  BY <1>2, <2>1
    <2> QED  BY <1>1, <1>4, <2>1, <2>2 DEF RoutingInv, HiddenInv
  <1> QED  BY <1>5, <1>6, <1>7 DEF RoutingInv

(* Such a step keeps every pending chunk carried.                          *)
LEMMA WorksCarries ==
    ASSUME TypeOK, TaskInv, CarriedInv, NEW t \in Task, Works(t)
    PROVE  CarriedInv'
  <1> SUFFICES ASSUME NEW d \in Chunk, chunks'[d].status = "pending", chunks'[d].dispatched
               PROVE  ByEvent(d)' \/ ByMessage(d)' \/ ByTask(d)'
    BY DEF CarriedInv
  <1>1. UNCHANGED <<cursor, dispatcher, outbox, claims, ready, delayed>>  BY DEF Works
  <1>2. chunks[d].dispatched /\ (d # tasks[t].msg.chunk => chunks'[d] = chunks[d])
    BY WorksFields
  <1>3. CASE d = tasks[t].msg.chunk /\ tasks'[t].pc = "republish"
    <2>1. tasks'[t].msg.chunk = d  BY <1>3 DEF Works, TaskBecomes
    <2> QED  BY <1>3, <2>1 DEF ByTask
  <1>4. CASE ~(d = tasks[t].msg.chunk /\ tasks'[t].pc = "republish")
    <2>1. chunks[d].status = "pending"  BY <1>2, <1>4 DEF Works
    <2>2. ByEvent(d) \/ ByMessage(d) \/ ByTask(d)  BY <1>2, <2>1 DEF CarriedInv
    <2>3. CASE ByEvent(d)  BY <1>1, <2>3 DEF ByEvent, Confirmed
    <2>4. CASE ByMessage(d)  BY <1>1, <2>4 DEF ByMessage
    <2>5. CASE ByTask(d)
      <3>1. PICK u \in Task : tasks[u].pc \in {"received", "republish"} /\ tasks[u].msg.chunk = d
        BY <2>5 DEF ByTask
      <3>2. u # t  BY <1>4, <3>1 DEF Works
      <3>3. tasks'[u] = tasks[u]  BY <3>2 DEF Works, TaskBecomes
      <3> QED  BY <3>1, <3>3 DEF ByTask
    <2> QED  BY <2>2, <2>3, <2>4, <2>5
  <1> QED  BY <1>3, <1>4

-----------------------------------------------------------------------------
(* Steps that move a message between the queues and a worker.              *)

(* Queues only hold messages of dispatched chunks.                         *)
LEMMA QueuedIsDispatched ==
    ASSUME RoutingInv, TypeOK, NEW m \in Message, ready[m] > 0 \/ delayed[m] > 0
    PROVE  chunks[m.chunk].dispatched
  <1>1. m.chunk \in Chunk  BY DEF Message
  <1>2. ready[m] \in Nat /\ delayed[m] \in Nat  BY DEF TypeOK
  <1> QED  BY <1>1, <1>2 DEF RoutingInv, HiddenInv

(* So do the hands of workers.                                             *)
LEMMA HeldIsDispatched ==
    ASSUME RoutingInv, TaskInv, NEW t \in Task, tasks[t].pc # "idle"
    PROVE  tasks[t].msg.chunk \in Chunk /\ chunks[tasks[t].msg.chunk].dispatched
  BY DEF TaskInv, Message, RoutingInv, HiddenInv

(* A step of a task, or of the broker (t is no task), on the queues, seen  *)
(* from the chunk of the message x: other messages and other tasks stay as *)
(* they are.                                                               *)
Transfers(t, x) ==
    /\ x \in Message
    /\ chunks[x.chunk].dispatched
    /\ tasks' \in [Task -> TaskRow]
    /\ \A u \in Task : u # t => tasks'[u] = tasks[u]
    /\ t \in Task => /\ tasks[t].pc # "idle" => tasks[t].msg = x
                     /\ tasks'[t].pc # "idle" => tasks'[t].msg = x
    /\ ready' \in [Message -> Nat]
    /\ delayed' \in [Message -> Nat]
    /\ \A m \in Message : m.chunk # x.chunk => ready'[m] = ready[m] /\ delayed'[m] = delayed[m]
    /\ faults' \in 0 .. MaxFaults
    /\ UNCHANGED <<cursor, dispatcher, chunks, outbox, claims>>

(* A transfer brings no undispatched chunk into play.                      *)
LEMMA TransfersRouting ==
    ASSUME TypeOK, RoutingInv, NEW t, NEW x, Transfers(t, x)
    PROVE  TypeOK' /\ RoutingInv'
  <1>1. TypeOK'  BY DEF TypeOK, Transfers
  <1>2. FreshInv' /\ CursorInv'
    BY DEF RoutingInv, FreshInv, CursorInv, Transfers
  <1>3. HiddenInv'
    <2> SUFFICES ASSUME NEW d \in Chunk, ~chunks'[d].dispatched
                 PROVE  /\ chunks'[d].status = "pending"
                        /\ \A n \in 0 .. MaxRecoveries : outbox'[<<d, n>>].status = "none"
                        /\ \A m \in Message : m.chunk = d => ready'[m] = 0 /\ delayed'[m] = 0
                        /\ \A u \in Task : tasks'[u].pc # "idle" => tasks'[u].msg.chunk # d
      BY DEF HiddenInv
    <2>1. ~chunks[d].dispatched /\ d # x.chunk  BY DEF Transfers
    <2>2. /\ chunks[d].status = "pending"
          /\ \A n \in 0 .. MaxRecoveries : outbox[<<d, n>>].status = "none"
          /\ \A m \in Message : m.chunk = d => ready[m] = 0 /\ delayed[m] = 0
          /\ \A u \in Task : tasks[u].pc # "idle" => tasks[u].msg.chunk # d
      BY <2>1 DEF RoutingInv, HiddenInv
    <2>3. \A m \in Message : m.chunk = d => ready'[m] = 0 /\ delayed'[m] = 0
      BY <2>1, <2>2 DEF Transfers
    <2>4. \A u \in Task : tasks'[u].pc # "idle" => tasks'[u].msg.chunk # d
      BY <2>1, <2>2 DEF Transfers
    <2> QED  BY <2>2, <2>3, <2>4 DEF Transfers
  <1> QED  BY <1>1, <1>2, <1>3 DEF RoutingInv

(* The chunk of x has a carrier after the step, or lost none to it.        *)
CarriesOn(t, x) ==
    \/ ByMessage(x.chunk)'
    \/ ByTask(x.chunk)'
    \/ t \in Task /\ tasks[t].pc \notin {"received", "republish"} /\ UNCHANGED <<ready, delayed>>

(* A transfer that carries on loses no pending chunk.                      *)
LEMMA TransfersCarry ==
    ASSUME TypeOK, CarriedInv, NEW t, NEW x, Transfers(t, x), CarriesOn(t, x)
    PROVE  CarriedInv'
  <1> SUFFICES ASSUME NEW d \in Chunk, chunks'[d].status = "pending", chunks'[d].dispatched,
                      ~ByMessage(d)', ~ByTask(d)'
               PROVE  ByEvent(d)'
    BY DEF CarriedInv
  <1>1. ByEvent(d) \/ ByMessage(d) \/ ByTask(d)  BY DEF CarriedInv, Transfers
  <1>2. ASSUME ByMessage(d) PROVE FALSE
    <2>1. PICK m \in Message : m.chunk = d /\ (ready[m] > 0 \/ delayed[m] > 0)
      BY <1>2 DEF ByMessage
    <2>2. ready'[m] = ready[m] /\ delayed'[m] = delayed[m]
      BY <2>1 DEF Transfers, CarriesOn
    <2> QED  BY <2>1, <2>2 DEF ByMessage
  <1>3. ASSUME ByTask(d) PROVE FALSE
    <2>1. PICK u \in Task : tasks[u].pc \in {"received", "republish"} /\ tasks[u].msg.chunk = d
      BY <1>3 DEF ByTask
    <2>2. CASE u = t  BY <2>1, <2>2 DEF Transfers, CarriesOn
    <2>3. CASE u # t  BY <2>1, <2>3 DEF Transfers, ByTask
    <2> QED  BY <2>2, <2>3
  <1>4. ByEvent(d)  BY <1>1, <1>2, <1>3
  <1> QED  BY <1>4, Zenon DEF ByEvent, Confirmed, Transfers

(* A received message is in the hands of the task.                         *)
LEMMA ReceiveTransfers ==
    ASSUME TypeOK, TaskInv, RoutingInv, NEW t \in Task, Receive(t)
    PROVE  TaskInv' /\ \E x : Transfers(t, x) /\ CarriesOn(t, x)
  <1>1. PICK m \in Message :
            /\ ready[m] > 0
            /\ ready' = [ready EXCEPT ![m] = @ - 1]
            /\ tasks' = [tasks EXCEPT ![t] = [pc |-> "received", msg |-> m, held |-> TRUE,
                                              copy |-> 0]]
    BY Zenon DEF Receive
  <1>2. TaskBecomes(t, "received", m, TRUE)  BY <1>1, ReceivedRow, Zenon
  <1>3. TaskInv'  BY <1>2 DEF TaskBecomes, TaskInv
  <1>4. ready \in [Message -> Nat]  BY DEF TypeOK
  <1>5. ready' \in [Message -> Nat] /\ \A n \in Message : n # m => ready'[n] = ready[n]
    BY <1>1, <1>4
  <1>6. chunks[m.chunk].dispatched  BY <1>1, QueuedIsDispatched
  <1>7. UNCHANGED <<cursor, dispatcher, chunks, outbox, claims, delayed>> /\ tasks[t].pc = "idle"
    BY DEF Receive, dispatch, publication
  <1>8. faults' \in 0 .. MaxFaults  BY FaultsCounted DEF Receive
  <1>9. Transfers(t, m)
    BY <1>2, <1>5, <1>6, <1>7, <1>8 DEF Transfers, TaskBecomes, TypeOK
  <1>10. ByTask(m.chunk)'  BY <1>2 DEF TaskBecomes, ByTask
  <1> QED  BY <1>3, <1>9, <1>10 DEF CarriesOn

(* A published copy is in a retry queue.                                   *)
LEMMA RepublishTransfers ==
    ASSUME TypeOK, TaskInv, RoutingInv, NEW t \in Task, Republish(t)
    PROVE  TaskInv' /\ \E x : Transfers(t, x) /\ CarriesOn(t, x)
  <1>0. PICK x : x = tasks[t].msg  OBVIOUS
  <1> DEFINE y == [chunk |-> x.chunk, retries |-> tasks[t].copy]
  <1>1. tasks[t].pc = "republish" /\ x \in Message /\ tasks[t].held \in BOOLEAN
    BY <1>0 DEF Republish, TaskInv, TypeOK, TaskRow
  <1>2. y \in Message  BY <1>0, <1>1 DEF Message, TypeOK, TaskRow
  <1>3. TaskBecomes(t, "ack", x, tasks[t].held)  BY <1>0, GotoRow DEF Republish, TaskState
  <1>4. TaskInv'  BY <1>0, <1>1, <1>3 DEF TaskBecomes, TaskInv
  <1>5. PICK n \in {1, 2} : delayed' = [delayed EXCEPT ![y] = @ + n]
    BY <1>0, Zenon DEF Republish, WithCopies
  <1>6. delayed \in [Message -> Nat]  BY <1>0 DEF TypeOK
  <1>7. y.chunk = x.chunk  OBVIOUS
  <1> HIDE DEF y
  <1>8. /\ delayed' \in [Message -> Nat]
        /\ \A m \in Message : m # y => delayed'[m] = delayed[m]
        /\ delayed'[y] > 0
    BY <1>0, <1>2, <1>5, <1>6
  <1>9. chunks[x.chunk].dispatched  BY <1>0, <1>1, HeldIsDispatched
  <1>10. UNCHANGED <<cursor, dispatcher, chunks, outbox, claims, ready>>
    BY <1>0 DEF Republish, dispatch, publication
  <1>11. faults' \in 0 .. MaxFaults  BY FaultsCounted DEF Republish
  <1>12. Transfers(t, x)
    BY <1>0, <1>1, <1>3, <1>7, <1>8, <1>9, <1>10, <1>11 DEF Transfers, TaskBecomes, TypeOK
  <1>13. ByMessage(x.chunk)'  BY <1>0, <1>2, <1>7, <1>8 DEF ByMessage
  <1> QED  BY <1>0, <1>4, <1>12, <1>13 DEF CarriesOn

(* Only deliveries that carry nothing are acknowledged.                    *)
LEMMA AckTransfers ==
    ASSUME TypeOK, TaskInv, RoutingInv, NEW t \in Task, Ack(t)
    PROVE  TaskInv' /\ \E x : Transfers(t, x) /\ CarriesOn(t, x)
  <1>1. PICK x \in Message : tasks[t].pc = "ack" /\ x = tasks[t].msg  BY DEF Ack, TaskInv
  <1>2. TaskBecomes(t, "idle", NoMessage, FALSE)  BY IdleRow, Zenon DEF Ack
  <1>3. TaskInv'  BY <1>2 DEF TaskBecomes, TaskInv
  <1>4. UNCHANGED <<cursor, dispatcher, chunks, outbox, claims, ready, delayed>>
    BY DEF Ack, dispatch, publication, broker
  <1>5. faults' \in 0 .. MaxFaults  BY FaultsCounted DEF Ack
  <1>6. chunks[x.chunk].dispatched  BY <1>1, HeldIsDispatched
  <1>7. Transfers(t, x)
    BY <1>1, <1>2, <1>4, <1>5, <1>6 DEF Transfers, TaskBecomes, TypeOK
  <1>8. CarriesOn(t, x)  BY <1>1, <1>4 DEF CarriesOn
  <1> QED  BY <1>3, <1>7, <1>8

(* The broker returns a delivery that it knows of.                         *)
LEMMA RequeuedQueue ==
    ASSUME TypeOK, TaskInv, NEW t \in Task, ready' = Requeued(t)
    PROVE  /\ ready' \in [Message -> Nat]
           /\ \A m \in Message : m # tasks[t].msg => ready'[m] = ready[m]
           /\ tasks[t].held => tasks[t].msg \in Message /\ ready'[tasks[t].msg] > 0
  <1>1. ready \in [Message -> Nat]  BY DEF TypeOK
  <1>2. CASE tasks[t].held
    <2>1. tasks[t].msg \in Message  BY <1>2 DEF TaskInv
    <2>2. ready' = [ready EXCEPT ![tasks[t].msg] = @ + 1]  BY <1>2 DEF Requeued
    <2> QED  BY <1>1, <2>1, <2>2
  <1>3. CASE ~tasks[t].held  BY <1>1, <1>3 DEF Requeued
  <1> QED  BY <1>2, <1>3

(* The only step of a worker that needs the broker to know the delivery.   *)
LEMMA WorkerDiesTransfers ==
    ASSUME TypeOK, TaskInv, RoutingInv, NEW t \in Task, WorkerDies(t)
    PROVE  TaskInv' /\ \E x : Transfers(t, x) /\ (~MayDisconnect => CarriesOn(t, x))
  <1>0. PICK x : x = tasks[t].msg  OBVIOUS
  <1> DEFINE y == [chunk |-> x.chunk, retries |-> tasks[t].copy]
  <1>1. tasks[t].pc # "idle" /\ x \in Message  BY <1>0 DEF WorkerDies, TaskInv
  <1>2. y \in Message /\ y.chunk = x.chunk  BY <1>0, <1>1 DEF Message, TypeOK, TaskRow
  <1>3. TaskBecomes(t, "idle", NoMessage, FALSE)  BY IdleRow, Zenon DEF WorkerDies
  <1>4. TaskInv'  BY <1>0, <1>3 DEF TaskBecomes, TaskInv
  <1>5. /\ ready' \in [Message -> Nat]
        /\ \A m \in Message : m # x => ready'[m] = ready[m]
        /\ tasks[t].held => ready'[x] > 0
    BY <1>0, RequeuedQueue DEF WorkerDies
  <1>6. delayed \in [Message -> Nat]  BY <1>0 DEF TypeOK
  <1>7. \E n \in {0, 1, 2} : delayed' = delayed \/ delayed' = [delayed EXCEPT ![y] = @ + n]
    BY <1>0 DEF WorkerDies, WithCopies
  <1> HIDE DEF y
  <1>8. delayed' \in [Message -> Nat] /\ \A m \in Message : m # y => delayed'[m] = delayed[m]
    BY <1>0, <1>2, <1>6, <1>7
  <1>9. chunks[x.chunk].dispatched  BY <1>0, <1>1, HeldIsDispatched
  <1>10. UNCHANGED <<cursor, dispatcher, chunks, outbox, claims>>
    BY <1>0 DEF WorkerDies, dispatch, publication
  <1>11. faults' \in 0 .. MaxFaults  BY FaultsCounted DEF WorkerDies
  <1>12. Transfers(t, x)
    BY <1>0, <1>1, <1>2, <1>3, <1>5, <1>8, <1>9, <1>10, <1>11 DEF Transfers, TaskBecomes
  <1>13. ~MayDisconnect => ByMessage(x.chunk)'
    BY <1>0, <1>1, <1>5 DEF TaskInv, ByMessage
  <1> QED  BY <1>0, <1>4, <1>12, <1>13 DEF CarriesOn

(* A lost connection puts the delivery back.                               *)
LEMMA DisconnectTransfers ==
    ASSUME TypeOK, TaskInv, RoutingInv, NEW t \in Task, Disconnect(t)
    PROVE  TaskInv' /\ \E x : Transfers(t, x) /\ CarriesOn(t, x)
  <1>1. PICK x \in Message : x = tasks[t].msg /\ tasks[t].held /\ tasks[t].pc # "idle" /\ MayDisconnect
    BY DEF Disconnect, TaskInv
  <1>2. TaskBecomes(t, tasks[t].pc, x, FALSE)  BY <1>1, ReleasedRow, Zenon DEF Disconnect
  <1>3. TaskInv'  BY <1>1, <1>2 DEF TaskBecomes, TaskInv
  <1>4. /\ ready' \in [Message -> Nat]
        /\ \A m \in Message : m # x => ready'[m] = ready[m]
        /\ ready'[x] > 0
    BY <1>1, RequeuedQueue DEF Disconnect
  <1>5. chunks[x.chunk].dispatched  BY <1>1, HeldIsDispatched
  <1>6. UNCHANGED <<cursor, dispatcher, chunks, outbox, claims, delayed>>
    BY DEF Disconnect, dispatch, publication
  <1>7. faults' \in 0 .. MaxFaults  BY DeliveryAssumption DEF Disconnect, TypeOK
  <1>8. Transfers(t, x)
    BY <1>1, <1>2, <1>4, <1>5, <1>6, <1>7 DEF Transfers, TaskBecomes, TypeOK
  <1>9. ByMessage(x.chunk)'  BY <1>1, <1>4 DEF ByMessage
  <1> QED  BY <1>3, <1>8, <1>9 DEF CarriesOn

(* A message whose delay ends is ready.                                    *)
LEMMA DelayEndsTransfers ==
    ASSUME TypeOK, TaskInv, RoutingInv, NEW x \in Message, DelayEnds(x)
    PROVE  TaskInv' /\ Transfers(NoTask, x) /\ CarriesOn(NoTask, x)
  <1>1. NoTask \notin Task  BY DeliveryAssumption
  <1>2. ready \in [Message -> Nat] /\ delayed \in [Message -> Nat]  BY DEF TypeOK
  <1>3. /\ delayed' \in [Message -> Nat]
        /\ \A m \in Message : m # x => delayed'[m] = delayed[m]
    BY <1>2, QueueShrinks DEF DelayEnds
  <1>4. /\ ready' \in [Message -> Nat]
        /\ \A m \in Message : m # x => ready'[m] = ready[m]
        /\ ready'[x] > 0
    BY <1>2, QueueGrows DEF DelayEnds
  <1>5. UNCHANGED <<cursor, dispatcher, chunks, outbox, claims, tasks>>
    BY DEF DelayEnds, dispatch, publication
  <1>6. chunks[x.chunk].dispatched  BY QueuedIsDispatched DEF DelayEnds
  <1>7. faults' \in 0 .. MaxFaults  BY FaultsCounted DEF DelayEnds
  <1>8. Transfers(NoTask, x)
    BY <1>1, <1>3, <1>4, <1>5, <1>6, <1>7 DEF Transfers, TypeOK
  <1>9. ByMessage(x.chunk)'  BY <1>4 DEF ByMessage
  <1>10. TaskInv'  BY <1>5 DEF TaskInv
  <1> QED  BY <1>8, <1>9, <1>10 DEF CarriesOn

-----------------------------------------------------------------------------
(* Leases that end.                                                        *)

(* The end of a lease changes no status.                                   *)
LEMMA LeaseEndsKeeps ==
    ASSUME BaseInv, NEW c \in Chunk, LeaseEnds(c)
    PROVE  BaseInv' /\ (CarriedInv => CarriedInv')
  <1> DEFINE row == [chunks[c] EXCEPT !.live = FALSE]
  <1>1. ClaimInv /\ TaskInv /\ RoutingInv  BY DEF BaseInv
  <1>2. chunks' = [chunks EXCEPT ![c] = row] /\ chunks \in [Chunk -> ChunkRow]
    BY <1>1 DEF LeaseEnds, ClaimInv, TypeOK
  <1>3. /\ row \in ChunkRow
        /\ row.status = chunks[c].status
        /\ row.recoveries = chunks[c].recoveries
        /\ row.dispatched = chunks[c].dispatched
    BY <1>2, Zenon DEF ChunkRow
  <1>4. UNCHANGED <<cursor, dispatcher, outbox, claims, ready, delayed, tasks>>
    BY DEF LeaseEnds, dispatch, publication, broker
  <1>5. faults' \in 0 .. MaxFaults  BY <1>1, FaultsCounted DEF LeaseEnds, ClaimInv
  <1> HIDE DEF row
  <1>6. /\ chunks' \in [Chunk -> ChunkRow]
        /\ \A d \in Chunk : /\ chunks'[d].status = chunks[d].status
                            /\ chunks'[d].recoveries = chunks[d].recoveries
                            /\ chunks'[d].dispatched = chunks[d].dispatched
    BY <1>2, <1>3
  <1>7. ClaimInv' /\ TaskInv'
    BY <1>1, <1>4, <1>5, <1>6, ClaimsUntouched DEF ClaimInv, TypeOK, TaskInv
  <1>8. RoutingInv'
    BY <1>1, <1>4, <1>6 DEF RoutingInv, FreshInv, HiddenInv, CursorInv
  <1>9. ASSUME CarriedInv PROVE CarriedInv'
    BY <1>4, <1>6, <1>9, ZenonT(30) DEF CarriedInv, ByEvent, Confirmed, ByMessage, ByTask
  <1> QED  BY <1>7, <1>8, <1>9 DEF BaseInv

(* What adding events does to the outbox.                                  *)
LEMMA EventsAdded ==
    ASSUME TypeOK, NEW E, outbox' = WithEvents(E)
    PROVE  /\ outbox' \in [Event -> EventRow]
           /\ \A e \in Event : /\ outbox'[e].token = outbox[e].token
                               /\ outbox'[e].tries = outbox[e].tries
                               /\ e \notin E => outbox'[e] = outbox[e]
                               /\ outbox[e].status # "none" => outbox'[e] = outbox[e]
                               /\ e \in E /\ outbox[e].status = "none" =>
                                        outbox'[e].status = "pending"
  <1> DEFINE row(e) == [outbox[e] EXCEPT !.status = "pending", !.available = TRUE]
  <1>1. \A e \in Event : outbox[e] \in EventRow  BY DEF TypeOK
  <1>2. \A e \in Event : /\ row(e) \in EventRow
                         /\ row(e).status = "pending"
                         /\ row(e).token = outbox[e].token
                         /\ row(e).tries = outbox[e].tries
    BY <1>1, Zenon DEF EventRow
  <1>3. outbox' = [e \in Event |-> IF e \in E /\ outbox[e].status = "none"
                                   THEN row(e) ELSE outbox[e]]
    BY Zenon DEF WithEvents
  <1> HIDE DEF row
  <1> QED  BY <1>1, <1>2, <1>3

(* New events touch no token and no claim.                                 *)
LEMMA EventsAddedTokens ==
    ASSUME TypeOK, TokenInv, DistinctInv, NEW E, outbox' = WithEvents(E), UNCHANGED claims
    PROVE  TokenInv' /\ DistinctInv'
  <1>1. \A e \in Event : /\ outbox'[e].token = outbox[e].token
                         /\ outbox'[e].tries = outbox[e].tries
                         /\ outbox'[e].status = "none" => outbox[e].status = "none"
                         /\ outbox[e].status # "none" => outbox'[e].status # "none"
    BY EventsAdded DEF TypeOK
  <1>2. \A k \in Coordinator : \A r \in claims[k] : r.event \in Event
    BY DEF TypeOK, ClaimRow
  <1>3. TokenInv'  BY <1>1, <1>2 DEF TokenInv
  <1>4. DistinctInv'  BY DEF DistinctInv
  <1> QED  BY <1>3, <1>4

(* An event that carries a chunk goes on to do so, and a new one does.     *)
LEMMA EventsAddedCarry ==
    ASSUME TypeOK, TokenInv, NEW E, outbox' = WithEvents(E), UNCHANGED claims,
           NEW d \in Chunk, NEW n \in 0 .. MaxRecoveries,
           \/ outbox[<<d, n>>].status = "pending" /\ ~Confirmed(<<d, n>>)
           \/ outbox[<<d, n>>].status = "none" /\ <<d, n>> \in E
    PROVE  ByEvent(d)'
  <1> DEFINE e == <<d, n>>
  <1>1. e \in Event  BY DEF Event
  <1>2. outbox'[e].token = outbox[e].token /\ outbox'[e].status = "pending"
    BY <1>1, EventsAdded
  <1>3. ~Confirmed(e)'
    <2>1. CASE outbox[e].status = "pending" /\ ~Confirmed(e)
      BY <1>2, <2>1 DEF Confirmed
    <2>2. CASE outbox[e].status = "none"
      BY <1>1, <1>2, <2>2 DEF Confirmed, TokenInv
    <2> QED  BY <2>1, <2>2
  <1> QED  BY <1>2, <1>3 DEF ByEvent

(* A recovered chunk gets an event that did not exist.                     *)
LEMMA RecoverKeeps ==
    ASSUME BaseInv, NEW c \in Chunk, Recover(c)
    PROVE  BaseInv' /\ (CarriedInv => CarriedInv')
  <1>1. TypeOK /\ TokenInv /\ DistinctInv /\ TaskInv /\ FreshInv /\ HiddenInv /\ CursorInv
    BY DEF BaseInv, ClaimInv, RoutingInv
  <1>2. chunks[c].status = "leased" /\ chunks[c].dispatched /\ chunks[c].recoveries \in Nat
    BY <1>1 DEF Recover, HiddenInv, TypeOK, ChunkRow
  <1>3. UNCHANGED <<cursor, dispatcher, claims, ready, delayed, tasks>>
    BY DEF Recover, dispatch, broker
  <1>4. faults' \in 0 .. MaxFaults  BY <1>1, FaultsCounted DEF Recover
  <1>5. CASE chunks[c].recoveries < MaxRecoveries
    <2> DEFINE n == chunks[c].recoveries + 1
    <2>1. ChunkBecomes(c, "pending", n)  BY <1>1, <1>5, RecoveredRow, Zenon DEF Recover
    <2>2. outbox' = WithEvents({<<c, n>>})  BY <1>5 DEF Recover
    <2>3. n \in 0 .. MaxRecoveries /\ outbox[<<c, n>>].status = "none"
      <3>1. n \in 0 .. MaxRecoveries /\ n > chunks[c].recoveries
        BY <1>2, <1>5, DeliveryAssumption
      <3> QED  BY <1>1, <3>1 DEF FreshInv
    <2>4. outbox' \in [Event -> EventRow]  BY <1>1, <2>2, EventsAdded, Zenon
    <2>5. TypeOK'  BY <1>1, <1>3, <1>4, <2>1, <2>4 DEF TypeOK, ChunkBecomes
    <2>6. TokenInv' /\ DistinctInv'  BY <1>1, <1>3, <2>2, EventsAddedTokens
    <2>7. TaskInv' /\ CursorInv'
      BY <1>1, <1>2, <1>3, <2>1, Zenon DEF TaskInv, CursorInv, ChunkBecomes
    <2>8. \A d \in Chunk : \A i \in 0 .. MaxRecoveries :
            d # c \/ i # n => outbox'[<<d, i>>] = outbox[<<d, i>>]
      <3> SUFFICES ASSUME NEW d \in Chunk, NEW i \in 0 .. MaxRecoveries, d # c \/ i # n
                   PROVE  outbox'[<<d, i>>] = outbox[<<d, i>>]
        OBVIOUS
      <3> HIDE DEF n
      <3>1. <<d, i>> \in Event /\ <<d, i>> \notin {<<c, n>>}  BY DEF Event
      <3> QED  BY <1>1, <2>2, <3>1, EventsAdded, Zenon
    <2>9. FreshInv'
      <3> SUFFICES ASSUME NEW d \in Chunk, NEW i \in 0 .. MaxRecoveries,
                          i > chunks'[d].recoveries
                   PROVE  outbox'[<<d, i>>].status = "none"
        BY DEF FreshInv
      <3>1. CASE d = c  BY <1>1, <1>2, <2>1, <2>8, <3>1 DEF ChunkBecomes, FreshInv
      <3>2. CASE d # c  BY <1>1, <2>1, <2>8, <3>2 DEF ChunkBecomes, FreshInv
      <3> QED  BY <3>1, <3>2
    <2>10. HiddenInv'
      <3> SUFFICES ASSUME NEW d \in Chunk, ~chunks'[d].dispatched
                   PROVE  /\ chunks'[d].status = "pending"
                          /\ \A i \in 0 .. MaxRecoveries : outbox'[<<d, i>>].status = "none"
                          /\ \A m \in Message : m.chunk = d => ready[m] = 0 /\ delayed[m] = 0
                          /\ \A u \in Task : tasks[u].pc # "idle" => tasks[u].msg.chunk # d
        BY <1>3 DEF HiddenInv
      <3>1. d # c /\ chunks'[d] = chunks[d]  BY <1>2, <2>1, Zenon DEF ChunkBecomes
      <3> QED  BY <1>1, <2>8, <3>1 DEF HiddenInv
    <2>11. ASSUME CarriedInv PROVE CarriedInv'
      <3> SUFFICES ASSUME NEW d \in Chunk, chunks'[d].status = "pending", chunks'[d].dispatched
                   PROVE  ByEvent(d)' \/ ByMessage(d)' \/ ByTask(d)'
        BY DEF CarriedInv
      <3> HIDE DEF n
      <3>1. CASE d = c  BY <1>1, <1>3, <2>2, <2>3, <3>1, EventsAddedCarry
      <3>2. CASE d # c
        <4>1. ByEvent(d) \/ ByMessage(d) \/ ByTask(d)
          BY <2>1, <2>11, <3>2 DEF CarriedInv, ChunkBecomes
        <4>2. ByEvent(d) => ByEvent(d)'
          BY <1>1, <1>3, <2>2, EventsAddedCarry, Zenon DEF ByEvent
        <4>3. (ByMessage(d) => ByMessage(d)') /\ (ByTask(d) => ByTask(d)')
          BY <1>3 DEF ByMessage, ByTask
        <4> QED  BY <4>1, <4>2, <4>3
      <3> QED  BY <3>1, <3>2
    <2> QED  BY <2>5, <2>6, <2>7, <2>9, <2>10, <2>11 DEF BaseInv, ClaimInv, RoutingInv
  <1>6. CASE ~(chunks[c].recoveries < MaxRecoveries)
    <2>1. ChunkBecomes(c, "failed", chunks[c].recoveries)
      BY <1>1, <1>6, FailedRow, Zenon DEF Recover
    <2>2. outbox' = outbox  BY <1>6 DEF Recover
    <2>3. TypeOK'  BY <1>1, <1>3, <1>4, <2>1, <2>2 DEF TypeOK, ChunkBecomes
    <2>4. TokenInv' /\ DistinctInv'  BY <1>1, <1>3, <2>2, ClaimsUntouched
    <2>5. TaskInv' /\ CursorInv'
      BY <1>1, <1>2, <1>3, <2>1, Zenon DEF TaskInv, CursorInv, ChunkBecomes
    <2>6. FreshInv'  BY <1>1, <2>1, <2>2 DEF FreshInv, ChunkBecomes
    <2>7. HiddenInv'
      <3>1. \A d \in Chunk : ~chunks'[d].dispatched => d # c /\ chunks'[d] = chunks[d]
        BY <1>2, <2>1, Zenon DEF ChunkBecomes
      <3> QED  BY <1>1, <1>3, <2>2, <3>1, SMTT(30), Z3T(30) DEF HiddenInv
    <2>8. ASSUME CarriedInv PROVE CarriedInv'
      BY <1>3, <2>1, <2>2, <2>8
         DEF CarriedInv, ChunkBecomes, ByEvent, Confirmed, ByMessage, ByTask
    <2> QED  BY <2>3, <2>4, <2>5, <2>6, <2>7, <2>8 DEF BaseInv, ClaimInv, RoutingInv
  <1> QED  BY <1>5, <1>6

-----------------------------------------------------------------------------
(* The dispatch window.                                                    *)

(* A dispatched window changes dispatched and nothing else.                *)
LEMMA WindowRows ==
    ASSUME TypeOK, NEW k \in Coordinator, DispatchWindow(k)
    PROVE  /\ chunks' \in [Chunk -> ChunkRow]
           /\ \A d \in Chunk : /\ chunks'[d].status = chunks[d].status
                               /\ chunks'[d].recoveries = chunks[d].recoveries
                               /\ chunks'[d].dispatched <=> chunks[d].dispatched \/ d \in Window
  <1> DEFINE row(c) == [chunks[c] EXCEPT !.dispatched = TRUE]
  <1>1. \A c \in Chunk : chunks[c] \in ChunkRow  BY DEF TypeOK
  <1>2. \A c \in Chunk : /\ row(c) \in ChunkRow
                         /\ row(c).dispatched = TRUE
                         /\ row(c).status = chunks[c].status
                         /\ row(c).recoveries = chunks[c].recoveries
    BY <1>1, Zenon DEF ChunkRow
  <1>3. chunks' = [c \in Chunk |-> IF c \in Window THEN row(c) ELSE chunks[c]]
    BY DEF DispatchWindow
  <1> HIDE DEF row
  <1> QED  BY <1>1, <1>2, <1>3

(* Every chunk of the window gets its first event.                         *)
LEMMA DispatchWindowKeeps ==
    ASSUME BaseInv, NEW k \in Coordinator, DispatchWindow(k)
    PROVE  BaseInv' /\ (CarriedInv => CarriedInv')
  <1> DEFINE E == {<<c, 0>> : c \in Window}
  <1>1. TypeOK /\ TokenInv /\ DistinctInv /\ TaskInv /\ FreshInv /\ HiddenInv /\ CursorInv
    BY DEF BaseInv, ClaimInv, RoutingInv
  <1>2. /\ cursor = "open"
        /\ dispatcher' = [by |-> k, remaining |-> Undispatched \ Window # {}]
        /\ outbox' = WithEvents(E)
        /\ UNCHANGED <<cursor, claims, ready, delayed, tasks>>
    BY DEF DispatchWindow, broker
  <1>3. faults' \in 0 .. MaxFaults  BY <1>1, FaultsCounted DEF DispatchWindow
  <1>4. /\ chunks' \in [Chunk -> ChunkRow]
        /\ \A d \in Chunk : /\ chunks'[d].status = chunks[d].status
                            /\ chunks'[d].recoveries = chunks[d].recoveries
                            /\ chunks'[d].dispatched <=> chunks[d].dispatched \/ d \in Window
    BY <1>1, WindowRows
  <1>5. \A d \in Chunk : chunks[d].recoveries \in Nat  BY <1>1 DEF TypeOK, ChunkRow
  <1>6. Window \subseteq Undispatched  BY DEF Window
  <1>7. outbox' \in [Event -> EventRow]  BY <1>1, <1>2, EventsAdded
  <1>8. TypeOK'  BY <1>1, <1>2, <1>3, <1>4, <1>7 DEF TypeOK
  <1>9. TokenInv' /\ DistinctInv' /\ TaskInv'
    BY <1>1, <1>2, EventsAddedTokens DEF TaskInv
  <1>10. \A d \in Chunk : \A i \in 0 .. MaxRecoveries :
            d \notin Window \/ i # 0 => outbox'[<<d, i>>] = outbox[<<d, i>>]
    <2> SUFFICES ASSUME NEW d \in Chunk, NEW i \in 0 .. MaxRecoveries, d \notin Window \/ i # 0
                 PROVE  outbox'[<<d, i>>] = outbox[<<d, i>>]
      OBVIOUS
    <2>1. <<d, i>> \in Event /\ <<d, i>> \notin E  BY DEF Event
    <2> HIDE DEF E
    <2> QED  BY <1>1, <1>2, <2>1, EventsAdded
  <1>11. FreshInv'  BY <1>1, <1>4, <1>5, <1>10 DEF FreshInv
  <1>12. HiddenInv'
    <2> SUFFICES ASSUME NEW d \in Chunk, ~chunks'[d].dispatched
                 PROVE  /\ chunks'[d].status = "pending"
                        /\ \A i \in 0 .. MaxRecoveries : outbox'[<<d, i>>].status = "none"
                        /\ \A m \in Message : m.chunk = d => ready'[m] = 0 /\ delayed'[m] = 0
                        /\ \A u \in Task : tasks'[u].pc # "idle" => tasks'[u].msg.chunk # d
      BY DEF HiddenInv
    <2>1. ~chunks[d].dispatched /\ d \notin Window /\ chunks'[d].status = chunks[d].status
      BY <1>4
    <2>2. ASSUME NEW i \in 0 .. MaxRecoveries PROVE outbox'[<<d, i>>].status = "none"
      <3>1. outbox'[<<d, i>>] = outbox[<<d, i>>]  BY <1>10, <2>1
      <3>2. outbox[<<d, i>>].status = "none"  BY <1>1, <2>1 DEF HiddenInv
      <3> QED  BY <3>1, <3>2
    <2>3. ready' = ready /\ delayed' = delayed /\ tasks' = tasks  BY <1>2
    <2>4. /\ chunks[d].status = "pending"
          /\ \A m \in Message : m.chunk = d => ready[m] = 0 /\ delayed[m] = 0
          /\ \A u \in Task : tasks[u].pc # "idle" => tasks[u].msg.chunk # d
      BY <1>1, <2>1 DEF HiddenInv
    <2> QED  BY <2>1, <2>2, <2>3, <2>4
  <1>13. CursorInv'
    <2> SUFFICES ASSUME NEW d \in Chunk, ~chunks'[d].dispatched
                 PROVE  cursor' = "open" /\ dispatcher'.remaining
      BY DEF CursorInv
    <2>1. d \in Undispatched \ Window  BY <1>1, <1>4 DEF HiddenInv, Undispatched
    <2> HIDE DEF E
    <2> QED  BY <1>2, <2>1, Zenon
  <1>14. ASSUME CarriedInv PROVE CarriedInv'
    <2> SUFFICES ASSUME NEW d \in Chunk, chunks'[d].status = "pending", chunks'[d].dispatched
                 PROVE  ByEvent(d)' \/ ByMessage(d)' \/ ByTask(d)'
      BY DEF CarriedInv
    <2>1. CASE d \in Window
      <3>1. ~chunks[d].dispatched  BY <1>6, <2>1 DEF Undispatched
      <3>2. 0 \in 0 .. MaxRecoveries /\ <<d, 0>> \in E  BY <2>1, DeliveryAssumption
      <3>3. outbox[<<d, 0>>].status = "none"  BY <1>1, <3>1, <3>2 DEF HiddenInv
      <3> HIDE DEF E
      <3> QED  BY <1>1, <1>2, <3>2, <3>3, EventsAddedCarry
    <2>2. CASE d \notin Window
      <3>1. ByEvent(d) \/ ByMessage(d) \/ ByTask(d)  BY <1>4, <1>14, <2>2 DEF CarriedInv
      <3> HIDE DEF E
      <3>2. ByEvent(d) => ByEvent(d)'
        BY <1>1, <1>2, EventsAddedCarry DEF ByEvent
      <3>3. (ByMessage(d) => ByMessage(d)') /\ (ByTask(d) => ByTask(d)')
        BY <1>2 DEF ByMessage, ByTask
      <3> QED  BY <3>1, <3>2, <3>3
    <2> QED  BY <2>1, <2>2
  <1> QED  BY <1>8, <1>9, <1>11, <1>12, <1>13, <1>14 DEF BaseInv, ClaimInv, RoutingInv

(* The cursor is drained only when nothing remained.                       *)
LEMMA CommitCursorKeeps ==
    ASSUME BaseInv, NEW k \in Coordinator, CommitCursor(k)
    PROVE  BaseInv' /\ (CarriedInv => CarriedInv')
  <1>1. TypeOK /\ TokenInv /\ DistinctInv /\ TaskInv /\ FreshInv /\ HiddenInv /\ CursorInv
    BY DEF BaseInv, ClaimInv, RoutingInv
  <1>2. UNCHANGED <<chunks, outbox, claims, ready, delayed, tasks>>
    BY DEF CommitCursor, publication, broker
  <1>3. faults' \in 0 .. MaxFaults  BY <1>1, FaultsCounted DEF CommitCursor
  <1>4. /\ dispatcher' \in [by: Coordinator \cup {NoCoordinator}, remaining: BOOLEAN]
        /\ dispatcher'.by = NoCoordinator
    BY <1>1 DEF CommitCursor, TypeOK
  <1>5. cursor' = (IF dispatcher.remaining THEN "open" ELSE "drained")
    BY DEF CommitCursor
  <1>6. TypeOK'  BY <1>1, <1>2, <1>3, <1>4, <1>5 DEF TypeOK
  <1>7. dispatcher.by # NoCoordinator  BY DeliveryAssumption DEF CommitCursor
  <1>8. CursorInv'  BY <1>1, <1>2, <1>4, <1>5, <1>7 DEF CursorInv
  <1>9. TokenInv' /\ DistinctInv' /\ TaskInv' /\ FreshInv' /\ HiddenInv'
    BY <1>1, <1>2, ClaimsUntouched DEF TaskInv, FreshInv, HiddenInv
  <1>10. CarriedInv => CarriedInv'
    BY <1>2, Zenon DEF CarriedInv, ByEvent, Confirmed, ByMessage, ByTask
  <1> QED  BY <1>6, <1>8, <1>9, <1>10 DEF BaseInv, ClaimInv, RoutingInv

-----------------------------------------------------------------------------
(* The publisher.                                                          *)

(* Publishing does not touch undispatched chunks.                          *)
LEMMA PublisherRouting ==
    ASSUME TaskInv, RoutingInv, UNCHANGED <<cursor, chunks, delayed, tasks>>,
           dispatcher' = dispatcher \/ dispatcher'.by = NoCoordinator,
           \A e \in Event : outbox[e].status = "none" => outbox'[e].status = "none",
           \A m \in Message : ready'[m] = ready[m] \/ chunks[m.chunk].dispatched
    PROVE  TaskInv' /\ RoutingInv'
  <1>1. TaskInv' /\ CursorInv'  BY DEF TaskInv, RoutingInv, CursorInv
  <1>2. \A c \in Chunk : \A n \in 0 .. MaxRecoveries :
            outbox[<<c, n>>].status = "none" => outbox'[<<c, n>>].status = "none"
    BY DEF Event
  <1>3. FreshInv'  BY <1>2 DEF RoutingInv, FreshInv
  <1>4. HiddenInv'
    <2> SUFFICES ASSUME NEW d \in Chunk, ~chunks[d].dispatched
                 PROVE  /\ chunks[d].status = "pending"
                        /\ \A n \in 0 .. MaxRecoveries : outbox'[<<d, n>>].status = "none"
                        /\ \A m \in Message : m.chunk = d => ready'[m] = 0 /\ delayed[m] = 0
                        /\ \A u \in Task : tasks[u].pc # "idle" => tasks[u].msg.chunk # d
      BY DEF HiddenInv
    <2> QED  BY <1>2 DEF RoutingInv, HiddenInv
  <1> QED  BY <1>1, <1>3, <1>4 DEF RoutingInv

(* It keeps chunks carried if it keeps events or sends.                    *)
LEMMA PublisherCarries ==
    ASSUME CarriedInv, UNCHANGED <<chunks, delayed, tasks>>,
           ready \in [Message -> Nat], ready' \in [Message -> Nat],
           \A m \in Message : ready'[m] >= ready[m],
           \A e \in Event : outbox[e].status = "pending" /\ ~Confirmed(e) =>
                \/ outbox'[e].status = "pending" /\ ~Confirmed(e)'
                \/ ByMessage(e[1])'
    PROVE  CarriedInv'
  <1> SUFFICES ASSUME NEW d \in Chunk, chunks[d].status = "pending", chunks[d].dispatched
               PROVE  ByEvent(d)' \/ ByMessage(d)' \/ ByTask(d)'
    BY DEF CarriedInv
  <1>1. ByEvent(d) \/ ByMessage(d) \/ ByTask(d)  BY DEF CarriedInv
  <1>2. CASE ByEvent(d)
    <2>1. PICK n \in 0 .. MaxRecoveries :
                outbox[<<d, n>>].status = "pending" /\ ~Confirmed(<<d, n>>)
      BY <1>2 DEF ByEvent
    <2>2. <<d, n>> \in Event /\ <<d, n>>[1] = d  BY DEF Event
    <2>3. \/ outbox'[<<d, n>>].status = "pending" /\ ~Confirmed(<<d, n>>)'
          \/ ByMessage(d)'
      BY <2>1, <2>2
    <2> QED  BY <2>3 DEF ByEvent
  <1>3. CASE ByMessage(d)
    <2>1. PICK m \in Message : m.chunk = d /\ (ready[m] > 0 \/ delayed[m] > 0)
      BY <1>3 DEF ByMessage
    <2>2. ready'[m] > 0 \/ delayed'[m] > 0  BY <2>1
    <2> QED  BY <2>1, <2>2 DEF ByMessage
  <1>4. CASE ByTask(d)  BY <1>4 DEF ByTask
  <1> QED  BY <1>1, <1>2, <1>3, <1>4

(* Claims that are dropped leave the others as they are.                   *)
LEMMA ClaimsDropped ==
    ASSUME ClaimInv, outbox' = outbox, claims' \in [Coordinator -> SUBSET ClaimRow],
           \A j \in Coordinator : claims'[j] \subseteq claims[j]
    PROVE  /\ TokenInv' /\ DistinctInv'
           /\ \A e \in Event : ~Confirmed(e) => ~Confirmed(e)'
  <1>1. TokenInv' /\ DistinctInv'  BY DEF ClaimInv, TokenInv, DistinctInv
  <1>2. \A e \in Event : ~Confirmed(e) => ~Confirmed(e)'  BY DEF Confirmed
  <1> QED  BY <1>1, <1>2

(* A coordinator that fails drops its claims only.                         *)
LEMMA CoordinatorFailsKeeps ==
    ASSUME BaseInv, NEW k \in Coordinator, CoordinatorFails(k)
    PROVE  BaseInv' /\ (CarriedInv => CarriedInv')
  <1>1. ClaimInv /\ TypeOK /\ TaskInv /\ RoutingInv  BY DEF BaseInv, ClaimInv
  <1>2. UNCHANGED <<cursor, chunks, outbox, ready, delayed, tasks>>
    BY DEF CoordinatorFails, broker
  <1>3. faults' \in 0 .. MaxFaults  BY <1>1, FaultsCounted DEF CoordinatorFails
  <1>4. /\ dispatcher' \in [by: Coordinator \cup {NoCoordinator}, remaining: BOOLEAN]
        /\ dispatcher' = dispatcher \/ dispatcher'.by = NoCoordinator
    BY <1>1 DEF CoordinatorFails, TypeOK
  <1>5. /\ claims' \in [Coordinator -> SUBSET ClaimRow]
        /\ \A j \in Coordinator : claims'[j] \subseteq claims[j]
    BY <1>1 DEF CoordinatorFails, TypeOK
  <1>6. TypeOK'  BY <1>1, <1>2, <1>3, <1>4, <1>5 DEF TypeOK
  <1>7. /\ TokenInv' /\ DistinctInv'
        /\ \A e \in Event : ~Confirmed(e) => ~Confirmed(e)'
    BY <1>1, <1>2, <1>5, ClaimsDropped
  <1>8. TaskInv' /\ RoutingInv'  BY <1>1, <1>2, <1>4, PublisherRouting
  <1>9. ready \in [Message -> Nat] /\ \A m \in Message : ready[m] >= ready[m]
    BY <1>1 DEF TypeOK
  <1>10. CarriedInv => CarriedInv'  BY <1>2, <1>7, <1>9, PublisherCarries
  <1> QED  BY <1>6, <1>7, <1>8, <1>10 DEF BaseInv, ClaimInv

(* The outbox after an update of the row of e.                             *)
OutboxBecomes(e, status, token) ==
    /\ outbox' \in [Event -> EventRow]
    /\ \A f \in Event : f # e => outbox'[f] = outbox[f]
    /\ outbox'[e].status = status
    /\ outbox'[e].token = token
    /\ outbox'[e].tries = outbox[e].tries

(* An event that becomes available keeps its token.                        *)
LEMMA BecomesAvailableKeeps ==
    ASSUME BaseInv, NEW e \in Event, BecomesAvailable(e)
    PROVE  BaseInv' /\ (CarriedInv => CarriedInv')
  <1> DEFINE row == [outbox[e] EXCEPT !.available = TRUE]
  <1>1. ClaimInv /\ TypeOK /\ TokenInv /\ DistinctInv /\ TaskInv /\ RoutingInv
    BY DEF BaseInv, ClaimInv
  <1>2. UNCHANGED <<cursor, dispatcher, chunks, claims, ready, delayed, tasks>>
    BY DEF BecomesAvailable, dispatch, broker
  <1>3. faults' \in 0 .. MaxFaults  BY <1>1, FaultsCounted DEF BecomesAvailable
  <1>4. outbox' = [outbox EXCEPT ![e] = row] /\ outbox \in [Event -> EventRow]
    BY <1>1 DEF BecomesAvailable, TypeOK
  <1>5. /\ row \in EventRow
        /\ row.status = outbox[e].status /\ row.token = outbox[e].token
        /\ row.tries = outbox[e].tries
    BY <1>4, Zenon DEF EventRow
  <1> HIDE DEF row
  <1>6. /\ outbox' \in [Event -> EventRow]
        /\ \A f \in Event : /\ outbox'[f].status = outbox[f].status
                            /\ outbox'[f].token = outbox[f].token
                            /\ outbox'[f].tries = outbox[f].tries
    BY <1>4, <1>5
  <1>7. TypeOK'  BY <1>1, <1>2, <1>3, <1>6 DEF TypeOK
  <1>8. \A k \in Coordinator : \A r \in claims[k] : r.event \in Event
    BY <1>1 DEF TypeOK, ClaimRow
  <1>9. TokenInv' /\ DistinctInv'
    <2>1. TokenInv'  BY <1>1, <1>2, <1>6, <1>8 DEF TokenInv
    <2>2. DistinctInv'  BY <1>1, <1>2, SMTT(30), Z3T(30) DEF DistinctInv
    <2> QED  BY <2>1, <2>2
  <1>10. TaskInv' /\ RoutingInv'  BY <1>1, <1>2, <1>6, PublisherRouting
  <1>11. \A f \in Event : ~Confirmed(f) => ~Confirmed(f)'
    BY <1>2, <1>6 DEF Confirmed
  <1>12. ready \in [Message -> Nat] /\ \A m \in Message : ready[m] >= ready[m]
    BY <1>1 DEF TypeOK
  <1>13. CarriedInv => CarriedInv'  BY <1>2, <1>6, <1>11, <1>12, PublisherCarries
  <1> QED  BY <1>7, <1>9, <1>10, <1>13 DEF BaseInv, ClaimInv

(* Settling an event: its claim r is dropped, and when the token of r is   *)
(* the current one the row becomes published, or loses its token.          *)
LEMMA SettlingKeeps ==
    ASSUME BaseInv, NEW k \in Coordinator, NEW r \in claims[k],
           claims' = [claims EXCEPT ![k] = @ \ {r}],
           UNCHANGED <<cursor, dispatcher, chunks, ready, delayed, tasks>>,
           faults' \in 0 .. MaxFaults,
           \/ outbox' = outbox
           \/ IsCurrent(r) /\ r.phase = "sent" /\ OutboxBecomes(r.event, "published", r.token)
           \/ IsCurrent(r) /\ OutboxBecomes(r.event, "pending", 0)
    PROVE  BaseInv' /\ (CarriedInv => CarriedInv')
  <1>1. ClaimInv /\ TypeOK /\ TokenInv /\ DistinctInv /\ TaskInv /\ RoutingInv
    BY DEF BaseInv, ClaimInv
  <1>2. /\ claims' \in [Coordinator -> SUBSET ClaimRow]
        /\ \A j \in Coordinator : claims'[j] \subseteq claims[j]
    BY <1>1 DEF TypeOK
  <1>3. \A j \in Coordinator : \A q \in claims[j] : q.event \in Event /\ 0 < q.token
    BY <1>1 DEF TypeOK, ClaimRow, TokenInv
  <1>4. r.event \in Event /\ outbox[r.event].token \in Nat /\ outbox[r.event].tries \in Nat
    BY <1>1, <1>3 DEF TypeOK, EventRow
  <1>5. outbox' \in [Event -> EventRow]  BY <1>1 DEF OutboxBecomes, TypeOK
  <1>6. \A e \in Event : /\ outbox'[e].tries = outbox[e].tries
                         /\ outbox'[e].token = outbox[e].token \/ outbox'[e].token = 0
                         /\ outbox'[e].status = "none" <=> outbox[e].status = "none"
    BY <1>4 DEF OutboxBecomes, IsCurrent
  <1>7. \A e \in Event : outbox[e].token \in Nat /\ outbox[e].tries \in Nat
    BY <1>1 DEF TypeOK, EventRow
  <1>8. TypeOK'  BY <1>1, <1>2, <1>5 DEF TypeOK
  <1>9. TokenInv'
    <2>1. ASSUME NEW e \in Event
          PROVE  /\ outbox'[e].token <= outbox'[e].tries
                 /\ outbox'[e].status = "none" => outbox'[e].token = 0
      BY <1>1, <1>6, <1>7, <2>1 DEF TokenInv
    <2>2. ASSUME NEW j \in Coordinator, NEW q \in claims'[j]
          PROVE  /\ 0 < q.token /\ q.token <= outbox'[q.event].tries
                 /\ outbox'[q.event].status # "none"
      <3>1. q \in claims[j]  BY <1>2, <2>2
      <3>2. /\ q.event \in Event /\ 0 < q.token /\ q.token <= outbox[q.event].tries
            /\ outbox[q.event].status # "none"
        BY <1>1, <1>3, <3>1 DEF TokenInv
      <3> QED  BY <1>6, <3>2
    <2> QED  BY <2>1, <2>2 DEF TokenInv
  <1>10. DistinctInv'  BY <1>1, <1>2 DEF DistinctInv
  <1>11. TaskInv' /\ RoutingInv'  BY <1>1, <1>6, PublisherRouting
  <1>12. \A e \in Event : outbox[e].status = "pending" /\ ~Confirmed(e) =>
                outbox'[e].status = "pending" /\ ~Confirmed(e)'
    <2> SUFFICES ASSUME NEW e \in Event, outbox[e].status = "pending", ~Confirmed(e)
                 PROVE  outbox'[e].status = "pending" /\ ~Confirmed(e)'
      OBVIOUS
    <2>1. outbox'[e].status = "pending"  BY <1>4 DEF OutboxBecomes, IsCurrent, Confirmed
    <2>2. ~Confirmed(e)'
      <3> SUFFICES ASSUME NEW j \in Coordinator, NEW p \in claims'[j],
                          p.event = e, p.token = outbox'[e].token, p.phase = "sent"
                   PROVE  FALSE
        BY DEF Confirmed
      <3>1. p \in claims[j]  BY <1>2
      <3>2. 0 < p.token  BY <1>1, <3>1 DEF TokenInv
      <3>3. outbox'[e].token = outbox[e].token  BY <1>6, <1>7, <3>2, SMTT(30), Z3T(30)
      <3> QED  BY <3>1, <3>3 DEF Confirmed
    <2> QED  BY <2>1, <2>2
  <1>13. ready \in [Message -> Nat] /\ \A m \in Message : ready[m] >= ready[m]
    BY <1>1 DEF TypeOK
  <1>14. CarriedInv => CarriedInv'  BY <1>12, <1>13, PublisherCarries
  <1> QED  BY <1>8, <1>9, <1>10, <1>11, <1>14 DEF BaseInv, ClaimInv

(* Only the current claim that sent marks the event.                       *)
LEMMA MarkPublishedKeeps ==
    ASSUME BaseInv, NEW k \in Coordinator, NEW r \in claims[k], MarkPublished(k, r)
    PROVE  BaseInv' /\ (CarriedInv => CarriedInv')
  <1> DEFINE row == [outbox[r.event] EXCEPT !.status = "published"]
  <1>1. TypeOK  BY DEF BaseInv, ClaimInv
  <1>2. r.event \in Event  BY <1>1 DEF TypeOK, ClaimRow
  <1>3. /\ UNCHANGED <<cursor, dispatcher, chunks, ready, delayed, tasks>>
        /\ claims' = [claims EXCEPT ![k] = @ \ {r}]
        /\ r.phase = "sent"
    BY DEF MarkPublished, dispatch, broker
  <1>4. faults' \in 0 .. MaxFaults  BY <1>1, FaultsCounted DEF MarkPublished
  <1>5. \/ outbox' = outbox
        \/ IsCurrent(r) /\ outbox' = [outbox EXCEPT ![r.event] = row]
    BY <1>1 DEF MarkPublished, TypeOK
  <1>6. outbox[r.event] \in EventRow /\ outbox \in [Event -> EventRow]
    BY <1>1, <1>2 DEF TypeOK
  <1>7. /\ row \in EventRow
        /\ row.status = "published"
        /\ row.token = outbox[r.event].token
        /\ row.tries = outbox[r.event].tries
    BY <1>6 DEF EventRow
  <1> HIDE DEF row
  <1>8. ASSUME IsCurrent(r), outbox' = [outbox EXCEPT ![r.event] = row]
        PROVE  OutboxBecomes(r.event, "published", r.token)
    <2>1. /\ outbox'[r.event] = row
          /\ outbox' \in [Event -> EventRow]
          /\ \A f \in Event : f # r.event => outbox'[f] = outbox[f]
      BY <1>2, <1>6, <1>7, <1>8
    <2> QED  BY <1>7, <1>8, <2>1 DEF OutboxBecomes, IsCurrent
  <1>9. CASE outbox' = outbox  BY <1>3, <1>4, <1>9, SettlingKeeps, Zenon
  <1>10. CASE IsCurrent(r) /\ outbox' = [outbox EXCEPT ![r.event] = row]
    BY <1>3, <1>4, <1>8, <1>10, SettlingKeeps, Zenon
  <1> QED  BY <1>5, <1>9, <1>10

(* Rescheduling takes the token from its claim.                            *)
LEMMA RescheduleKeeps ==
    ASSUME BaseInv, NEW k \in Coordinator, NEW r \in claims[k], Reschedule(k, r)
    PROVE  BaseInv' /\ (CarriedInv => CarriedInv')
  <1> DEFINE row == [outbox[r.event] EXCEPT !.token = 0, !.available = FALSE]
  <1>1. TypeOK  BY DEF BaseInv, ClaimInv
  <1>2. r.event \in Event  BY <1>1 DEF TypeOK, ClaimRow
  <1>3. /\ UNCHANGED <<cursor, dispatcher, chunks, ready, delayed, tasks>>
        /\ claims' = [claims EXCEPT ![k] = @ \ {r}]
    BY DEF Reschedule, dispatch, broker
  <1>4. faults' \in 0 .. MaxFaults  BY <1>1, FaultsCounted DEF Reschedule
  <1>5. \/ outbox' = outbox
        \/ IsCurrent(r) /\ outbox' = [outbox EXCEPT ![r.event] = row]
    BY DEF Reschedule
  <1>6. outbox[r.event] \in EventRow /\ outbox \in [Event -> EventRow]
    BY <1>1, <1>2 DEF TypeOK
  <1>7. 0 \in Nat  OBVIOUS
  <1>8. /\ row \in EventRow
        /\ row.status = outbox[r.event].status
        /\ row.token = 0
        /\ row.tries = outbox[r.event].tries
    BY <1>6, <1>7, Zenon DEF EventRow
  <1> HIDE DEF row
  <1>9. ASSUME IsCurrent(r), outbox' = [outbox EXCEPT ![r.event] = row]
        PROVE  OutboxBecomes(r.event, "pending", 0)
    <2>1. /\ outbox'[r.event] = row
          /\ outbox' \in [Event -> EventRow]
          /\ \A f \in Event : f # r.event => outbox'[f] = outbox[f]
      BY <1>2, <1>6, <1>8, <1>9
    <2> QED  BY <1>8, <1>9, <2>1 DEF OutboxBecomes, IsCurrent
  <1>10. CASE outbox' = outbox  BY <1>3, <1>4, <1>10, SettlingKeeps, Zenon
  <1>11. CASE IsCurrent(r) /\ outbox' = [outbox EXCEPT ![r.event] = row]
    BY <1>3, <1>4, <1>9, <1>11, SettlingKeeps, Zenon
  <1> QED  BY <1>5, <1>10, <1>11

(* A publish that succeeded or failed moves its claim on, and may leave    *)
(* copies of the message in the queue; it must if it succeeded.            *)
LEMMA PublishingKeeps ==
    ASSUME BaseInv, NEW k \in Coordinator, NEW r \in claims[k],
           NEW phase \in {"sent", "refused"}, claims' = Moved(k, r, phase),
           NEW n \in Nat, ready' = [ready EXCEPT ![MessageOf(r.event)] = @ + n],
           phase = "sent" => n > 0,
           UNCHANGED <<cursor, dispatcher, chunks, outbox, delayed, tasks>>,
           faults' \in 0 .. MaxFaults
    PROVE  BaseInv' /\ (CarriedInv => CarriedInv')
  <1>1. TypeOK /\ TokenInv /\ DistinctInv /\ TaskInv /\ RoutingInv
    BY DEF BaseInv, ClaimInv
  <1>2. claims \in [Coordinator -> SUBSET ClaimRow] /\ ready \in [Message -> Nat]
    BY <1>1 DEF TypeOK
  <1>3. r \in ClaimRow /\ r.event \in Event  BY <1>2 DEF ClaimRow
  <1>4. PICK c \in Chunk, s \in 0 .. MaxRecoveries : r.event = <<c, s>>  BY <1>3 DEF Event
  <1>5. PICK m \in Message : m = MessageOf(r.event) /\ m.chunk = c
    <2>1. 0 \in 0 .. MaxRetries  BY DeliveryAssumption
    <2> QED  BY <1>4, <2>1 DEF MessageOf, Message
  <1>6. chunks[c].dispatched
    <2>1. outbox[r.event].status # "none"  BY <1>1 DEF TokenInv
    <2>2. HiddenInv  BY <1>1 DEF RoutingInv
    <2> QED  BY <1>4, <2>1, <2>2, SMTT(30), Z3T(30) DEF HiddenInv
  <1>7. /\ ready' \in [Message -> Nat]
        /\ \A x \in Message : x # m => ready'[x] = ready[x]
        /\ ready'[m] = ready[m] + n
    BY <1>2, <1>5, QueueGrows
  <1> DEFINE q == [r EXCEPT !.phase = phase]
  <1>8. q \in ClaimRow /\ q.event = r.event /\ q.token = r.token /\ q.phase = phase
    BY <1>3 DEF ClaimRow
  <1>9. claims' = [claims EXCEPT ![k] = (claims[k] \ {r}) \cup {q}]
    BY DEF Moved
  <1> HIDE DEF q
  <1>10. /\ claims' \in [Coordinator -> SUBSET ClaimRow]
         /\ \A j \in Coordinator : j # k => claims'[j] = claims[j]
         /\ claims'[k] = (claims[k] \ {r}) \cup {q}
    BY <1>2, <1>8, <1>9
  <1>11. TypeOK'  BY <1>1, <1>7, <1>10 DEF TypeOK
  <1>12. TokenInv'
    <2>1. \A j \in Coordinator : \A p \in claims'[j] : p \in claims[j] \/ p = q
      BY <1>10
    <2>2. 0 < q.token /\ q.token <= outbox[q.event].tries /\ outbox[q.event].status # "none"
      BY <1>1, <1>8 DEF TokenInv
    <2> QED  BY <1>1, <2>1, <2>2 DEF TokenInv
  <1>13. DistinctInv'
    <2> SUFFICES ASSUME NEW i \in Coordinator, NEW j \in Coordinator,
                        NEW a \in claims'[i], NEW b \in claims'[j],
                        a.event = b.event, a.token = b.token
                 PROVE  i = j /\ a = b
      BY DEF DistinctInv
    <2>1. /\ (a \in claims[i] /\ (a # r \/ i # k)) \/ (a = q /\ i = k)
          /\ (b \in claims[j] /\ (b # r \/ j # k)) \/ (b = q /\ j = k)
      BY <1>10, Zenon
    <2>2. \A l \in Coordinator : \A d \in claims[l] :
                d.event = r.event /\ d.token = r.token => l = k /\ d = r
      BY <1>1 DEF DistinctInv
    <2>3. CASE a \in claims[i] /\ b \in claims[j]  BY <1>1, <2>3 DEF DistinctInv
    <2>4. CASE a = q /\ i = k  BY <1>8, <2>1, <2>2, <2>4
    <2>5. CASE b = q /\ j = k  BY <1>8, <2>1, <2>2, <2>5, Zenon
    <2> QED  BY <2>1, <2>3, <2>4, <2>5
  <1>14. \A x \in Message : ready'[x] = ready[x] \/ chunks[x.chunk].dispatched
    BY <1>5, <1>6, <1>7
  <1>15. TaskInv' /\ RoutingInv'  BY <1>1, <1>14, PublisherRouting
  <1>16. \A x \in Message : ready'[x] >= ready[x]  BY <1>2, <1>7
  <1>17. \A e \in Event : ~Confirmed(e) => ~Confirmed(e)' \/ ByMessage(e[1])'
    <2> SUFFICES ASSUME NEW e \in Event, ~Confirmed(e), Confirmed(e)'
                 PROVE  ByMessage(e[1])'
      OBVIOUS
    <2>0. PICK j \in Coordinator : \E p \in claims'[j] :
                p.event = e /\ p.token = outbox[e].token /\ p.phase = "sent"
      BY DEF Confirmed
    <2>1. PICK p \in claims'[j] :
                p.event = e /\ p.token = outbox[e].token /\ p.phase = "sent"
      BY <2>0
    <2>2. p \notin claims[j]  BY <2>1 DEF Confirmed
    <2>3. p = q /\ phase = "sent" /\ e = r.event  BY <1>8, <1>10, <2>1, <2>2
    <2>4. ready'[m] > 0
      <3>1. ready[m] \in Nat  BY <1>2, <1>5
      <3>2. ready'[m] = ready[m] + n  BY <1>7
      <3>3. n \in Nat /\ n > 0  BY <2>3
      <3> QED  BY <3>1, <3>2, <3>3
    <2>5. e[1] = m.chunk
      <3>1. e = <<c, s>>  BY <1>4, <2>3
      <3> QED  BY <1>5, <3>1
    <2> QED  BY <1>5, <2>4, <2>5 DEF ByMessage
  <1>18. CarriedInv => CarriedInv'  BY <1>2, <1>7, <1>16, <1>17, PublisherCarries
  <1> QED  BY <1>11, <1>12, <1>13, <1>15, <1>18 DEF BaseInv, ClaimInv

(* Publishing, whether it succeeds or fails.                               *)
LEMMA PublishKeeps ==
    ASSUME BaseInv, NEW k \in Coordinator, NEW r \in claims[k],
           Publish(k, r) \/ PublishFails(k, r)
    PROVE  BaseInv' /\ (CarriedInv => CarriedInv')
  <1>1. TypeOK  BY DEF BaseInv, ClaimInv
  <1>2. UNCHANGED <<cursor, dispatcher, chunks, outbox, delayed, tasks>>
    BY Zenon DEF Publish, PublishFails, dispatch
  <1>3. CASE Publish(k, r)
    <2>1. PICK n \in {1, 2} : /\ ready' = [ready EXCEPT ![MessageOf(r.event)] = @ + n]
                              /\ Fault \/ NoFault
      BY <1>3, Zenon DEF Publish
    <2>2. claims' = Moved(k, r, "sent")  BY <1>3, Zenon DEF Publish
    <2>3. faults' \in 0 .. MaxFaults  BY <1>1, <2>1, FaultsCounted
    <2>4. n \in Nat /\ n > 0 /\ "sent" \in {"sent", "refused"}  OBVIOUS
    <2> QED  BY <1>2, <2>1, <2>2, <2>3, <2>4, PublishingKeeps, Zenon
  <1>4. CASE PublishFails(k, r)
    <2>1. PICK n \in {0, 1, 2} : ready' = [ready EXCEPT ![MessageOf(r.event)] = @ + n]
      BY <1>4, Zenon DEF PublishFails
    <2>2. claims' = Moved(k, r, "refused") /\ Fault  BY <1>4 DEF PublishFails
    <2>3. faults' \in 0 .. MaxFaults  BY <1>1, <2>2, FaultsCounted
    <2>4. n \in Nat /\ "refused" \in {"sent", "refused"} /\ ~("refused" = "sent")  OBVIOUS
    <2> QED  BY <1>2, <2>1, <2>2, <2>3, <2>4, PublishingKeeps, Zenon
  <1> QED  BY <1>3, <1>4

(* New claims have tokens that no earlier claim has.                       *)
LEMMA ClaimEventsKeeps ==
    ASSUME BaseInv, NEW k \in Coordinator, NEW E \in SUBSET Publishable,
           ClaimEvents(k, E)
    PROVE  BaseInv' /\ (CarriedInv => CarriedInv')
  <1> DEFINE row(e) == [outbox[e] EXCEPT !.token = outbox[e].tries + 1,
                                         !.tries = outbox[e].tries + 1, !.available = FALSE]
             new(e) == [event |-> e, token |-> outbox[e].tries + 1, phase |-> "claimed"]
             fresh == {new(e) : e \in E}
  <1>1. TypeOK /\ TokenInv /\ DistinctInv /\ TaskInv /\ RoutingInv
    BY DEF BaseInv, ClaimInv
  <1>2. UNCHANGED <<cursor, dispatcher, chunks, ready, delayed, tasks>>
    BY Zenon DEF ClaimEvents, dispatch, broker
  <1>3. faults' \in 0 .. MaxFaults  BY <1>1, FaultsCounted, Zenon DEF ClaimEvents
  <1>4. outbox \in [Event -> EventRow] /\ claims \in [Coordinator -> SUBSET ClaimRow]
    BY <1>1 DEF TypeOK
  <1>5. \A e \in Event : /\ outbox[e] \in EventRow
                         /\ outbox[e].tries \in Nat /\ outbox[e].token \in Nat
    BY <1>4 DEF EventRow
  <1>6. \A e \in Event : /\ row(e) \in EventRow
                         /\ row(e).status = outbox[e].status
                         /\ row(e).token = outbox[e].tries + 1
                         /\ row(e).tries = outbox[e].tries + 1
    <2> SUFFICES ASSUME NEW e \in Event
                 PROVE  /\ row(e) \in EventRow
                        /\ row(e).status = outbox[e].status
                        /\ row(e).token = outbox[e].tries + 1
                        /\ row(e).tries = outbox[e].tries + 1
      BY Zenon
    <2>1. outbox[e] \in EventRow /\ outbox[e].tries + 1 \in Nat  BY <1>5
    <2> QED  BY <2>1, Zenon DEF EventRow
  <1>7. \A e \in Event : /\ new(e) \in ClaimRow
                         /\ new(e).event = e
                         /\ new(e).token = outbox[e].tries + 1
                         /\ new(e).phase = "claimed"
    <2> SUFFICES ASSUME NEW e \in Event
                 PROVE  /\ new(e) \in ClaimRow
                        /\ new(e).event = e
                        /\ new(e).token = outbox[e].tries + 1
                        /\ new(e).phase = "claimed"
      OBVIOUS
    <2>1. outbox[e].tries + 1 \in Nat  BY <1>5
    <2> QED  BY <2>1 DEF ClaimRow
  <1>8. outbox' = [e \in Event |-> IF e \in E THEN row(e) ELSE outbox[e]]
    BY Zenon DEF ClaimEvents
  <1>9. claims' = [claims EXCEPT ![k] = fresh]  BY Zenon DEF ClaimEvents
  <1>10. E \subseteq Event /\ \A e \in E : outbox[e].status = "pending"
    BY DEF Publishable
  <1> HIDE DEF row, new
  <1>11. /\ outbox' \in [Event -> EventRow]
         /\ \A e \in Event : outbox'[e].status = outbox[e].status
         /\ \A e \in E : /\ outbox'[e].token = outbox[e].tries + 1
                                   /\ outbox'[e].tries = outbox[e].tries + 1
         /\ \A e \in Event \ E : outbox'[e] = outbox[e]
    BY <1>5, <1>6, <1>8, <1>10
  <1>12. fresh \in SUBSET ClaimRow  BY <1>7, <1>10
  <1>13. \A q \in fresh : /\ q.event \in E
                          /\ q.token = outbox[q.event].tries + 1
                          /\ q.phase = "claimed"
                          /\ q = new(q.event)
    BY <1>7, <1>10
  <1> HIDE DEF fresh
  <1>14. /\ claims' \in [Coordinator -> SUBSET ClaimRow]
         /\ claims'[k] = fresh
         /\ \A j \in Coordinator : j # k => claims'[j] = claims[j]
    BY <1>4, <1>9, <1>12
  <1>15. TypeOK'  BY <1>1, <1>2, <1>3, <1>11, <1>14 DEF TypeOK
  <1>16. \A j \in Coordinator : \A q \in claims[j] :
            /\ q.event \in Event
            /\ q.token \in Nat
            /\ 0 < q.token
            /\ q.token <= outbox[q.event].tries
            /\ outbox[q.event].status # "none"
    BY <1>1, <1>4 DEF TokenInv, ClaimRow
  <1>17. \A j \in Coordinator : \A q \in claims'[j] : q \in claims[j] \/ (j = k /\ q \in fresh)
    BY <1>14
  <1>18. TokenInv'
    <2>1. \A e \in Event : outbox'[e].token <= outbox'[e].tries
      BY <1>1, <1>5, <1>11 DEF TokenInv
    <2>2. \A e \in Event : outbox'[e].status = "none" => outbox'[e].token = 0
      BY <1>1, <1>10, <1>11 DEF TokenInv
    <2>3. \A j \in Coordinator : \A q \in claims'[j] :
            /\ 0 < q.token
            /\ q.token <= outbox'[q.event].tries
            /\ outbox'[q.event].status # "none"
      <3> SUFFICES ASSUME NEW j \in Coordinator, NEW q \in claims'[j]
                   PROVE  /\ 0 < q.token
                          /\ q.token <= outbox'[q.event].tries
                          /\ outbox'[q.event].status # "none"
        OBVIOUS
      <3>1. CASE q \in claims[j]
        <4>1. /\ q.event \in Event /\ q.token \in Nat /\ 0 < q.token
              /\ q.token <= outbox[q.event].tries /\ outbox[q.event].status # "none"
          BY <1>16, <3>1
        <4>2. \/ outbox'[q.event].tries = outbox[q.event].tries + 1
              \/ outbox'[q.event].tries = outbox[q.event].tries
          BY <1>11, <4>1
        <4>3. outbox[q.event].tries \in Nat /\ outbox'[q.event].status # "none"
          BY <1>5, <1>11, <4>1
        <4> QED  BY <4>1, <4>2, <4>3
      <3>2. CASE q \in fresh
        <4>1. q.event \in E /\ q.event \in Event  BY <1>10, <1>13, <3>2
        <4>2. outbox[q.event].tries \in Nat /\ q.token = outbox[q.event].tries + 1
          BY <1>5, <1>13, <3>2, <4>1
        <4>3. /\ outbox'[q.event].tries = outbox[q.event].tries + 1
              /\ outbox'[q.event].status = "pending"
          BY <1>10, <1>11, <4>1
        <4> QED  BY <4>2, <4>3
      <3> QED  BY <1>17, <3>1, <3>2
    <2> QED  BY <2>1, <2>2, <2>3 DEF TokenInv
  <1>19. DistinctInv'
    <2> SUFFICES ASSUME NEW i \in Coordinator, NEW j \in Coordinator,
                        NEW p \in claims'[i], NEW q \in claims'[j],
                        p.event = q.event, p.token = q.token
                 PROVE  i = j /\ p = q
      BY DEF DistinctInv
    <2>1. CASE p \in claims[i] /\ q \in claims[j]  BY <1>1, <2>1 DEF DistinctInv
    <2>2. CASE p \in fresh /\ q \in claims[j]
      <3>1. p.token = outbox[p.event].tries + 1  BY <1>13, <2>2
      <3>2. q.event \in Event /\ q.token <= outbox[q.event].tries  BY <1>16, <2>2
      <3>3. outbox[q.event].tries \in Nat  BY <1>5, <3>2
      <3> QED  BY <3>1, <3>2, <3>3
    <2>3. CASE p \in claims[i] /\ q \in fresh
      <3>1. q.token = outbox[q.event].tries + 1  BY <1>13, <2>3
      <3>2. p.event \in Event /\ p.token <= outbox[p.event].tries  BY <1>16, <2>3
      <3>3. outbox[p.event].tries \in Nat  BY <1>5, <3>2
      <3> QED  BY <3>1, <3>2, <3>3
    <2>4. CASE i = k /\ j = k /\ p \in fresh /\ q \in fresh
      BY <1>13, <2>4
    <2> QED  BY <1>17, <2>1, <2>2, <2>3, <2>4
  <1>20. TaskInv' /\ RoutingInv'  BY <1>1, <1>2, <1>11, PublisherRouting
  <1>21. \A e \in Event : ~Confirmed(e) => ~Confirmed(e)'
    <2> SUFFICES ASSUME NEW e \in Event, Confirmed(e)'  PROVE Confirmed(e)
      OBVIOUS
    <2>0. PICK j \in Coordinator : \E p \in claims'[j] :
                p.event = e /\ p.token = outbox'[e].token /\ p.phase = "sent"
      BY DEF Confirmed
    <2>1. PICK p \in claims'[j] :
                p.event = e /\ p.token = outbox'[e].token /\ p.phase = "sent"
      BY <2>0
    <2>2. p \in claims[j]  BY <1>13, <1>17, <2>1
    <2>3. e \notin E
      <3>1. p.token <= outbox[e].tries /\ outbox[e].tries \in Nat  BY <1>5, <1>16, <2>1, <2>2
      <3>2. e \in E => p.token = outbox[e].tries + 1  BY <1>11, <2>1
      <3> QED  BY <3>1, <3>2, SMTT(30), Z3T(30)
    <2> QED  BY <1>11, <2>1, <2>2, <2>3 DEF Confirmed
  <1>22. ready \in [Message -> Nat] /\ \A m \in Message : ready[m] >= ready[m]
    BY <1>1 DEF TypeOK
  <1>23. CarriedInv => CarriedInv'  BY <1>2, <1>11, <1>21, <1>22, PublisherCarries
  <1> QED  BY <1>15, <1>18, <1>19, <1>20, <1>23 DEF BaseInv, ClaimInv

-----------------------------------------------------------------------------
(* The inductive invariant.                                                *)

(* Nothing is dispatched, published or claimed at first.                   *)
LEMMA InitBase == Init => BaseInv /\ CarriedInv
  <1> SUFFICES ASSUME Init PROVE BaseInv /\ CarriedInv
    OBVIOUS
  <1>1. 0 \in 0 .. MaxRecoveries /\ 0 \in 0 .. MaxWaits /\ 0 \in 0 .. MaxRetries
        /\ 0 \in 0 .. MaxFaults /\ 0 \in Nat
    BY DeliveryAssumption
  <1>2. chunks = [c \in Chunk |-> [status |-> "pending", dispatched |-> FALSE, owner |-> NoTask,
                                   live |-> FALSE, recoveries |-> 0, waits |-> 0]]
    BY DEF Init
  <1>3. /\ chunks \in [Chunk -> ChunkRow]
        /\ \A c \in Chunk : ~chunks[c].dispatched /\ chunks[c].status = "pending"
    BY <1>1, <1>2 DEF ChunkRow, ChunkStatus
  <1>4. outbox = [e \in Event |-> [status |-> "none", token |-> 0, tries |-> 0,
                                   available |-> FALSE]]
    BY DEF Init
  <1>5. /\ outbox \in [Event -> EventRow]
        /\ \A e \in Event : /\ outbox[e].status = "none"
                            /\ outbox[e].token = 0 /\ outbox[e].tries = 0
    BY <1>1, <1>4 DEF EventRow
  <1>6. tasks = [t \in Task |-> IdleTask]  BY DEF Init
  <1>7. IdleTask \in TaskRow /\ IdleTask.pc = "idle" /\ IdleTask.held = FALSE
    BY <1>1 DEF IdleTask, TaskRow, TaskState
  <1>8. /\ tasks \in [Task -> TaskRow]
        /\ \A t \in Task : tasks[t].pc = "idle" /\ tasks[t].held = FALSE
    BY <1>6, <1>7
  <1>9. /\ claims \in [Coordinator -> SUBSET ClaimRow]
        /\ \A k \in Coordinator : claims[k] = {}
    BY DEF Init
  <1>10. /\ ready \in [Message -> Nat] /\ delayed \in [Message -> Nat]
         /\ \A m \in Message : ready[m] = 0 /\ delayed[m] = 0
    BY <1>1 DEF Init
  <1>11. /\ cursor = "open" /\ faults = 0
         /\ dispatcher = [by |-> NoCoordinator, remaining |-> TRUE]
    BY DEF Init
  <1>12. TypeOK
    BY <1>1, <1>3, <1>5, <1>8, <1>9, <1>10, <1>11 DEF TypeOK
  <1>13. TokenInv /\ DistinctInv  BY <1>5, <1>9 DEF TokenInv, DistinctInv
  <1>14. TaskInv  BY <1>8 DEF TaskInv
  <1>15. FreshInv  BY <1>5 DEF FreshInv, Event
  <1>16. HiddenInv
    <2>1. \A c \in Chunk : \A n \in 0 .. MaxRecoveries : outbox[<<c, n>>].status = "none"
      BY <1>5 DEF Event
    <2> QED  BY <1>3, <1>8, <1>10, <2>1 DEF HiddenInv
  <1>17. CursorInv /\ CarriedInv  BY <1>3, <1>11 DEF CursorInv, CarriedInv
  <1> QED  BY <1>12, <1>13, <1>14, <1>15, <1>16, <1>17 DEF BaseInv, ClaimInv, RoutingInv

(* Steps of workers.                                                       *)
LEMMA WorksKeeps ==
    ASSUME BaseInv, NEW t \in Task, Works(t)
    PROVE  BaseInv' /\ (CarriedInv => CarriedInv')
  <1>1. TypeOK /\ TokenInv /\ DistinctInv /\ TaskInv /\ RoutingInv
    BY DEF BaseInv, ClaimInv
  <1>2. TypeOK' /\ TaskInv'  BY <1>1, WorksTypes
  <1>3. UNCHANGED <<outbox, claims>>  BY DEF Works
  <1>4. TokenInv' /\ DistinctInv'  BY <1>1, <1>3, ClaimsUntouched
  <1>5. RoutingInv'  BY <1>1, WorksRouting
  <1>6. CarriedInv => CarriedInv'  BY <1>1, WorksCarries
  <1> QED  BY <1>2, <1>4, <1>5, <1>6 DEF BaseInv, ClaimInv

(* Steps on the queues.                                                    *)
LEMMA TransfersKeep ==
    ASSUME BaseInv, TaskInv', NEW t, NEW x, Transfers(t, x)
    PROVE  BaseInv' /\ (CarriedInv /\ CarriesOn(t, x) => CarriedInv')
  <1>1. TypeOK /\ TokenInv /\ DistinctInv /\ RoutingInv  BY DEF BaseInv, ClaimInv
  <1>2. TypeOK' /\ RoutingInv'  BY <1>1, TransfersRouting
  <1>3. UNCHANGED <<outbox, claims>>  BY DEF Transfers
  <1>4. TokenInv' /\ DistinctInv'  BY <1>1, <1>3, ClaimsUntouched
  <1>5. CarriedInv /\ CarriesOn(t, x) => CarriedInv'  BY <1>1, TransfersCarry
  <1> QED  BY <1>2, <1>4, <1>5 DEF BaseInv, ClaimInv

(* Every step of a worker; its death needs the delivery held.              *)
LEMMA WorkerKeeps ==
    ASSUME BaseInv, NEW t \in Task, WorkerStep(t) \/ WorkerFault(t)
    PROVE  BaseInv' /\ (~MayDisconnect /\ CarriedInv => CarriedInv')
  <1>1. TypeOK /\ TaskInv /\ RoutingInv  BY DEF BaseInv, ClaimInv
  <1>2. CASE \/ ClaimChunk(t) \/ CompleteChunk(t) \/ WaitForRetry(t) \/ FailChunk(t)
             \/ Quarantine(t) \/ ClaimFails(t) \/ WorkDatabaseFails(t)
    <2>1. Works(t)
      BY <1>1, <1>2, ClaimChunkWorks, CompleteChunkWorks, WaitForRetryWorks, FailChunkWorks,
         QuarantineWorks, ClaimFailsWorks, WorkDatabaseFailsWorks
    <2> QED  BY <2>1, WorksKeeps
  <1>3. CASE Receive(t) \/ Republish(t) \/ Ack(t) \/ Disconnect(t)
    <2>1. TaskInv' /\ \E x : Transfers(t, x) /\ CarriesOn(t, x)
      BY <1>1, <1>3, ReceiveTransfers, RepublishTransfers, AckTransfers, DisconnectTransfers
    <2> QED  BY <2>1, TransfersKeep
  <1>4. CASE WorkerDies(t)
    <2>1. TaskInv' /\ \E x : Transfers(t, x) /\ (~MayDisconnect => CarriesOn(t, x))
      BY <1>1, <1>4, WorkerDiesTransfers
    <2> QED  BY <2>1, TransfersKeep
  <1> QED  BY <1>2, <1>3, <1>4 DEF WorkerStep, WorkerFault

(* Every step of a coordinator.                                            *)
LEMMA CoordinatorKeeps ==
    ASSUME BaseInv, NEW k \in Coordinator, CoordinatorStep(k) \/ CoordinatorFault(k)
    PROVE  BaseInv' /\ (CarriedInv => CarriedInv')
  <1>1. CASE DispatchWindow(k)  BY <1>1, DispatchWindowKeeps
  <1>2. CASE CommitCursor(k)  BY <1>2, CommitCursorKeeps
  <1>3. ASSUME NEW E \in SUBSET Publishable, ClaimEvents(k, E)
        PROVE  BaseInv' /\ (CarriedInv => CarriedInv')
    BY <1>3, ClaimEventsKeeps
  <1>4. CASE CoordinatorFails(k)  BY <1>4, CoordinatorFailsKeeps
  <1>5. ASSUME NEW r \in claims[k],
               \/ Publish(k, r) \/ PublishFails(k, r)
               \/ MarkPublished(k, r) \/ Reschedule(k, r)
        PROVE  BaseInv' /\ (CarriedInv => CarriedInv')
    BY <1>5, PublishKeeps, MarkPublishedKeeps, RescheduleKeeps
  <1> QED  BY <1>1, <1>2, <1>3, <1>4, <1>5
           DEF CoordinatorStep, CoordinatorFault, PublisherStep

(* Every step.                                                             *)
LEMMA NextKeeps ==
    ASSUME BaseInv, [Next]_vars
    PROVE  BaseInv' /\ (~MayDisconnect /\ CarriedInv => CarriedInv')
  <1>1. ASSUME NEW t \in Task, WorkerStep(t) \/ WorkerFault(t)
        PROVE  BaseInv' /\ (~MayDisconnect /\ CarriedInv => CarriedInv')
    BY <1>1, WorkerKeeps
  <1>2. ASSUME NEW k \in Coordinator, CoordinatorStep(k) \/ CoordinatorFault(k)
        PROVE  BaseInv' /\ (CarriedInv => CarriedInv')
    BY <1>2, CoordinatorKeeps
  <1>3. ASSUME NEW c \in Chunk, Recover(c) \/ LeaseEnds(c)
        PROVE  BaseInv' /\ (CarriedInv => CarriedInv')
    BY <1>3, RecoverKeeps, LeaseEndsKeeps
  <1>4. ASSUME NEW e \in Event, BecomesAvailable(e)
        PROVE  BaseInv' /\ (CarriedInv => CarriedInv')
    BY <1>4, BecomesAvailableKeeps
  <1>5. ASSUME NEW m \in Message, DelayEnds(m)
        PROVE  BaseInv' /\ (CarriedInv => CarriedInv')
    <2>1. TypeOK /\ TaskInv /\ RoutingInv  BY DEF BaseInv, ClaimInv
    <2>2. TaskInv' /\ Transfers(NoTask, m) /\ CarriesOn(NoTask, m)
      BY <1>5, <2>1, DelayEndsTransfers
    <2> QED  BY <2>2, TransfersKeep
  <1>6. CASE UNCHANGED vars
    <2>1. UNCHANGED <<cursor, dispatcher, chunks, outbox, claims, ready, delayed, tasks, faults>>
      BY <1>6 DEF vars
    <2>2. TypeOK' /\ TaskInv' /\ RoutingInv' /\ TokenInv' /\ DistinctInv'
      <3>1. TypeOK /\ TaskInv /\ RoutingInv /\ TokenInv /\ DistinctInv
        BY DEF BaseInv, ClaimInv
      <3>2. TypeOK'  BY <2>1, <3>1 DEF TypeOK
      <3>5. TokenInv'  BY <2>1, <3>1, Zenon DEF TokenInv
      <3>6. DistinctInv'  BY <2>1, <3>1, Zenon DEF DistinctInv
      <3>3. TaskInv'  BY <2>1, <3>1 DEF TaskInv
      <3>4. RoutingInv'
        <4>1. FreshInv'  BY <2>1, <3>1, Zenon DEF RoutingInv, FreshInv
        <4>2. HiddenInv'  BY <2>1, <3>1, Zenon DEF RoutingInv, HiddenInv
        <4>3. CursorInv'  BY <2>1, <3>1, Zenon DEF RoutingInv, CursorInv
        <4> QED  BY <4>1, <4>2, <4>3 DEF RoutingInv
      <3> QED  BY <3>2, <3>3, <3>4, <3>5, <3>6
    <2>3. CarriedInv => CarriedInv'
      BY <2>1, Zenon DEF CarriedInv, ByEvent, Confirmed, ByMessage, ByTask
    <2> QED  BY <2>2, <2>3 DEF BaseInv, ClaimInv
  <1> QED  BY <1>1, <1>2, <1>3, <1>4, <1>5, <1>6 DEF Next

-----------------------------------------------------------------------------
(* Theorems.                                                               *)

(* Everything but CarriedInv holds with lost connections too.              *)
THEOREM BaseInvariant == Spec => []BaseInv
  <1>1. Init => BaseInv  BY InitBase
  <1>2. BaseInv /\ [Next]_vars => BaseInv'  BY NextKeeps
  <1> QED  BY <1>1, <1>2, PTL DEF Spec

(* Every table holds rows of its type, for any number of processes,        *)
(* chunks, retries and faults.                                             *)
THEOREM DeliveryTypes == Spec => []TypeOK
  <1>1. BaseInv => TypeOK  BY DEF BaseInv, ClaimInv
  <1> QED  BY <1>1, BaseInvariant, PTL

(* At most one publisher may mark or reschedule an event: the claim tokens *)
(* of claim_publishable_outbox_events make stale publishers harmless.      *)
THEOREM SettlersAreUnique == Spec => []OneSettler
  <1>1. BaseInv => OneSettler
    BY DEF BaseInv, ClaimInv, DistinctInv, OneSettler, IsCurrent
  <1> QED  BY <1>1, BaseInvariant, PTL

(* No work is lost as long as the broker's connections to live workers     *)
(* stay up: however often coordinators, publishers and workers crash,      *)
(* publishes fail or are duplicated, and leases and claims are overrun.    *)
THEOREM WorkIsNotLost == ASSUME ~MayDisconnect PROVE Spec => []NoLostWork
  <1>1. Init => IInv  BY InitBase DEF IInv
  <1>2. IInv /\ [Next]_vars => IInv'  BY NextKeeps DEF IInv
  <1>3. IInv => NoLostWork
    <2> SUFFICES ASSUME IInv, NEW c \in Chunk, chunks[c].status = "pending"
                 PROVE  IF chunks[c].dispatched
                        THEN HasEvent(c) \/ HasMessage(c) \/ HasDelivery(c)
                        ELSE cursor = "open"
      BY DEF NoLostWork
    <2>1. CASE ~chunks[c].dispatched
      BY <2>1 DEF IInv, BaseInv, RoutingInv, CursorInv
    <2>2. CASE chunks[c].dispatched
      <3>1. ByEvent(c) \/ ByMessage(c) \/ ByTask(c)  BY <2>2 DEF IInv, CarriedInv
      <3>2. ByEvent(c) => HasEvent(c)
        <4> SUFFICES ASSUME NEW n \in 0 .. MaxRecoveries, outbox[<<c, n>>].status = "pending"
                     PROVE  HasEvent(c)
          BY DEF ByEvent
        <4>1. <<c, n>> \in Event /\ <<c, n>>[1] = c  BY DEF Event
        <4> QED  BY <4>1 DEF HasEvent
      <3>3. ByMessage(c) => HasMessage(c)  BY DEF ByMessage, HasMessage
      <3>4. ByTask(c) => HasDelivery(c)
        BY DEF ByTask, HasDelivery, IInv, BaseInv, TaskInv
      <3> QED  BY <2>2, <3>1, <3>2, <3>3, <3>4
    <2> QED  BY <2>1, <2>2
  <1> QED  BY <1>1, <1>2, <1>3, PTL DEF Spec

=============================================================================
