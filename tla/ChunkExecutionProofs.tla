------------------------ MODULE ChunkExecutionProofs ------------------------
(***************************************************************************)
(* Proofs about ChunkExecution, for every number of chunks, cases, tasks   *)
(* and workers and every value of the budgets, leases and bounds.          *)
(*                                                                         *)
(* First types, ownership and the fence of a moving shard.  Then what time *)
(* and the fence guarantee: a delivery that is delayed after a database    *)
(* error outlives the lease it left behind (DelayedOutlivesLease), and no  *)
(* row of a closed shard changes (ClosedIsFrozen).  The first needs that a *)
(* lease has one holder (LeaseInv): tokens are handed out once, so nobody  *)
(* but the delayed task could have renewed the lease, and its heartbeat is *)
(* off.  The second follows from ClosedIsQuiet, since every write asks for *)
(* a lease or a running attempt.  Last, the first part of the proof that   *)
(* ChunkExecution implements ChunkSettlement: what each action does to the *)
(* rows of a case is one of five things (CaseStep), which keep what those  *)
(* rows are to each other (CaseInv).                                       *)
(***************************************************************************)
EXTENDS ChunkExecution, TLAPS

(* The provers a leaf that names none is given to, in this order.          *)
USE SMT, Zenon, Z3

-----------------------------------------------------------------------------
(* Types.                                                                  *)

(* An aggregate that belongs to an attempt has a kind.  Without it the     *)
(* evidence that settlement counts would not have its type.                *)
AggregateHasKind == \A k \in Case : aggregates[k].attempt > 0 => aggregates[k].kind # "none"

TypeInv == TypeOK /\ AggregateHasKind

(* The clocks that a transaction may read are naturals.                    *)
LEMMA NowType == ASSUME TypeOK PROVE Now \subseteq Nat
BY DEF TypeOK, Now

(* An ended attempt is an attempt row.                                     *)
LEMMA EndedType ==
    ASSUME NEW s \in AttemptStatus PROVE Ended(s) \in AttemptRow
BY DEF Ended, AttemptRow

(* Retiring attempts yields attempts.                                      *)
LEMMA RetireType ==
    ASSUME NEW att \in [Case -> [AttemptNo -> AttemptRow]], NEW K,
           NEW s \in AttemptStatus
    PROVE  Retire(att, K, s) \in [Case -> [AttemptNo -> AttemptRow]]
BY EndedType DEF Retire

(* What receipt.sql counts are scored cases.                               *)
LEMMA EvidenceType ==
    ASSUME TypeOK, AggregateHasKind, NEW c,
           NEW exe \in [Case -> ExecutionRow], NEW att
    PROVE  Evidence(c, exe, att) \subseteq Scored
<1> SUFFICES ASSUME NEW k \in Case, exe[k].attemptNo > 0,
                    aggregates[k].attempt = exe[k].attemptNo
             PROVE  [case |-> k, kind |-> aggregates[k].kind] \in Scored
    BY DEF Evidence, Counted, CasesOf
<1>1. aggregates[k] \in AggregateRow
    BY DEF TypeOK
<1>2. aggregates[k].kind \in {"result", "error"}
    BY <1>1 DEF AggregateHasKind, AggregateRow
<1> QED
    BY <1>2, Zenon DEF Scored

(* Settlement resolves an open execution to a terminal one.                *)
LEMMA ResolvedRow ==
    ASSUME NEW C, NEW exe \in [Case -> ExecutionRow], NEW k \in Case
    PROVE  /\ Resolved(C, exe)[k] \in ExecutionRow
           /\ ChunkOf[k] \in C => Resolved(C, exe)[k].status \notin OpenExecution
           /\ ChunkOf[k] \notin C => Resolved(C, exe)[k] = exe[k]
<1> DEFINE s == IF chunks'[ChunkOf[k]].status = "cancelled" THEN "cancelled" ELSE "failed"
           row == [status |-> s, attemptNo |-> exe[k].attemptNo, retryAfter |-> 0]
<1>1. Resolved(C, exe)[k] = IF ChunkOf[k] \in C /\ exe[k].status \in OpenExecution
                            THEN row ELSE exe[k]
    BY DEF Resolved
<1>2. exe[k] \in ExecutionRow /\ s \in ExecutionStatus /\ s \notin OpenExecution
    BY DEF ExecutionStatus, TerminalExecution, OpenExecution
<1> HIDE DEF s
<1>3. row \in ExecutionRow /\ row.status \notin OpenExecution
    BY <1>2 DEF ExecutionRow
<1> HIDE DEF row
<1> QED
    BY <1>1, <1>2, <1>3

(* Settlement yields executions.                                           *)
LEMMA ResolvedType ==
    ASSUME NEW C, NEW exe \in [Case -> ExecutionRow]
    PROVE  Resolved(C, exe) \in [Case -> ExecutionRow]
<1>1. Resolved(C, exe) = [k \in Case |-> Resolved(C, exe)[k]]
    BY Zenon DEF Resolved
<1> QED
    BY <1>1, ResolvedRow

(* Settlement keeps the types of the rows it writes.                       *)
LEMMA SettleType ==
    ASSUME TypeOK, AggregateHasKind, NEW C,
           NEW exe \in [Case -> ExecutionRow],
           NEW att \in [Case -> [AttemptNo -> AttemptRow]],
           chunks' \in [Chunk -> ChunkRow],
           \A c \in C \cap Chunk : receipts[c].disposition = "none" => chunks'[c].status \in TerminalChunk,
           Settle(C, exe, att)
    PROVE  /\ executions' \in [Case -> ExecutionRow]
           /\ attempts' \in [Case -> [AttemptNo -> AttemptRow]]
           /\ receipts' \in [Chunk -> ReceiptRow]
<1> DEFINE fresh == Unsettled(C)
           retired == Retire(att, {k \in Case : ChunkOf[k] \in fresh}, "stale")
           resolved == Resolved(fresh, exe)
<1>1. /\ attempts' = retired
      /\ executions' = resolved
      /\ receipts' = [c \in Chunk |->
                IF c \in fresh
                THEN [disposition |-> chunks'[c].status,
                      evidence |-> Evidence(c, resolved, retired)]
                ELSE receipts[c]]
    BY DEF Settle
<1>2. retired \in [Case -> [AttemptNo -> AttemptRow]]
    <2>1. "stale" \in AttemptStatus
        BY DEF AttemptStatus
    <2> QED
        BY <2>1, RetireType
<1>3. resolved \in [Case -> ExecutionRow]
    BY ResolvedType
<1>4. ASSUME NEW c \in Chunk
      PROVE  receipts'[c] \in ReceiptRow
    <2>1. CASE c \in fresh
        <3>1. Evidence(c, resolved, retired) \subseteq Scored
            BY <1>3, EvidenceType
        <3>2. chunks'[c].status \in TerminalChunk
            BY <2>1, Zenon DEF Unsettled
        <3> HIDE DEF fresh, retired, resolved
        <3> QED
            BY <1>1, <2>1, <3>1, <3>2 DEF ReceiptRow
    <2>2. CASE c \notin fresh
        BY <1>1, <2>2 DEF TypeOK
    <2> QED
        BY <2>1, <2>2
<1>5. receipts' \in [Chunk -> ReceiptRow]
    <2> HIDE DEF fresh, retired, resolved
    <2> QED
        BY <1>1, <1>4
<1> QED
    BY <1>1, <1>2, <1>3, <1>5

(* An idle task is a task row.                                             *)
LEMMA IdleTaskType == IdleTask \in TaskRow
BY DEF IdleTask, TaskRow, TaskState, HeartbeatState

(* A row of tasks that a step replaces keeps its type.                     *)
LEMMA TaskType ==
    ASSUME TypeOK, NEW t \in Task, NEW row \in TaskRow
    PROVE  [tasks EXCEPT ![t] = row] \in [Task -> TaskRow]
BY DEF TypeOK

(* A task that ends its message keeps the type of tasks.                   *)
LEMMA FinishType ==
    ASSUME TypeOK, NEW t \in Task, Finish(t) PROVE tasks' \in [Task -> TaskRow]
BY IdleTaskType, TaskType DEF Finish

(* A task that moves to its next state keeps the type of tasks.            *)
LEMMA ContinueType ==
    ASSUME TypeOK, NEW t \in Task, NEW pc \in TaskState, Continue(t, pc)
    PROVE  tasks' \in [Task -> TaskRow]
<1>1. tasks[t] \in TaskRow
    BY DEF TypeOK
<1>2. [tasks[t] EXCEPT !.pc = pc] \in TaskRow
    BY <1>1 DEF TaskRow
<1>3. [tasks[t] EXCEPT !.pc = pc, !.todo = {}, !.batch = {}, !.transitions = {}] \in TaskRow
    BY <1>1, Zenon DEF TaskRow
<1>4. \/ tasks' = [tasks EXCEPT ![t] = [tasks[t] EXCEPT !.pc = pc]]
      \/ tasks' = [tasks EXCEPT ![t] =
            [tasks[t] EXCEPT !.pc = pc, !.todo = {}, !.batch = {}, !.transitions = {}]]
    BY Zenon DEF Continue, TypeOK
<1> QED
    BY <1>2, <1>3, <1>4, TaskType

(* Taking the lease off a chunk row yields a chunk row with the given      *)
(* status.                                                                 *)
LEMMA UnleasedType ==
    ASSUME NEW row \in ChunkRow, NEW s \in ChunkStatus
    PROVE  Unleased(row, s) \in ChunkRow /\ Unleased(row, s).status = s
BY DEF Unleased, ChunkRow

-----------------------------------------------------------------------------
(* The inductive invariant: the rows of a case.                            *)

Current(k) == executions[k].attemptNo

OpenChunk(c) == receipts[c].disposition = "none"

CaseInv(k) ==
    /\ aggregates[k].attempt <= Current(k)
    /\ executions[k].status = "absent" => Current(k) = 0
    /\ aggregates[k].kind = "error" =>
           /\ aggregates[k].attempt \in AttemptNo
           /\ attempts[k][aggregates[k].attempt].status \in FinishedAttempt
    /\ executions[k].status = "running" =>
           Current(k) \in AttemptNo /\ attempts[k][Current(k)].status \in {"running", "stale"}
    /\ executions[k].status = "retry_scheduled" => Current(k) < MaxAttempts
    /\ executions[k].status \in OpenExecution =>
           ~(/\ attempts[k][Current(k)].status \in FinishedAttempt
             /\ aggregates[k].attempt = Current(k))
    /\ executions[k].status \in TerminalExecution /\ OpenChunk(ChunkOf[k]) =>
           Counted(k, executions, attempts)
    /\ executions[k].status = "completed" =>
           /\ Current(k) \in AttemptNo
           /\ attempts[k][Current(k)].status = "completed"
           /\ aggregates[k] = [attempt |-> Current(k), kind |-> "result"]
    /\ executions[k].status \in OpenExecution => Current(k) \in AttemptNo
    /\ \A n \in AttemptNo : n > Current(k) => attempts[k][n].status = "absent"

-----------------------------------------------------------------------------
(* What a step may do to the rows of a case.                               *)

(* Attempt n stays as it is, or its running ends with a status of S.       *)
Fades(k, n, S) ==
    /\ attempts[k][n].status # "running" => attempts'[k][n] = attempts[k][n]
    /\ attempts[k][n].status = "running" => attempts'[k][n].status \in {"running"} \cup S

Keeps(k) ==
    /\ executions'[k] = executions[k]
    /\ aggregates'[k] = aggregates[k]
    /\ \A n \in AttemptNo : Fades(k, n, {"stale"})

Starts(k) ==
    /\ executions[k].status \in OpenExecution \cup {"absent"}
    /\ Current(k) + 1 \in AttemptNo
    /\ executions'[k].status = "running"
    /\ executions'[k].attemptNo = Current(k) + 1
    /\ aggregates'[k] = aggregates[k]
    /\ attempts'[k][Current(k) + 1].status = "running"
    /\ \A n \in AttemptNo : n # Current(k) + 1 => Fades(k, n, {"stale"})

Stores(k) ==
    /\ executions'[k] = executions[k]
    /\ \A n \in AttemptNo : attempts'[k][n] = attempts[k][n]
    /\ Current(k) \in AttemptNo
    /\ attempts[k][Current(k)].status = "running"
    /\ aggregates'[k] = [attempt |-> Current(k), kind |-> "result"]

Closes(k) ==
    /\ executions[k].status \in OpenExecution
    /\ Current(k) \in AttemptNo
    /\ attempts[k][Current(k)].status \in {"running", "stale"}
    /\ executions'[k].attemptNo = Current(k)
    /\ \A n \in AttemptNo : n # Current(k) => attempts'[k][n] = attempts[k][n]
    /\ \/ /\ executions'[k].status = "retry_scheduled"
          /\ Current(k) < MaxAttempts
          /\ attempts'[k][Current(k)].status = "finished"
          /\ aggregates'[k] = aggregates[k]
          /\ aggregates[k].attempt # Current(k)
       \/ /\ executions'[k].status = "completed"
          /\ attempts'[k][Current(k)].status = "completed"
          /\ aggregates'[k] = aggregates[k]
          /\ aggregates[k] = [attempt |-> Current(k), kind |-> "result"]
       \/ /\ executions'[k].status = "failed"
          /\ attempts'[k][Current(k)].status = "finished"
          /\ aggregates'[k] = [attempt |-> Current(k), kind |-> "error"]

Ends(k) ==
    /\ OpenChunk(ChunkOf[k])
    /\ receipts'[ChunkOf[k]].disposition # "none"
    /\ aggregates'[k] = aggregates[k]
    /\ executions[k].status \notin OpenExecution => executions'[k] = executions[k]
    /\ executions[k].status \in OpenExecution =>
          /\ executions'[k].status \in {"failed", "cancelled"}
          /\ executions'[k].attemptNo = Current(k)
    /\ \A n \in AttemptNo : Fades(k, n, {"stale", "cancelled"})

CaseStep(k) == Keeps(k) \/ Starts(k) \/ Stores(k) \/ Closes(k) \/ Ends(k)

(* The rows of a case, taken apart.                                        *)
LEMMA CaseTypes ==
    ASSUME TypeOK, NEW k \in Case
    PROVE  /\ executions[k].status \in ExecutionStatus
           /\ Current(k) \in 0 .. MaxAttempts
           /\ aggregates[k].attempt \in 0 .. MaxAttempts
           /\ aggregates[k].kind \in {"none", "result", "error"}
           /\ \A n \in AttemptNo : attempts[k][n].status \in AttemptStatus
BY Zenon DEF TypeOK, ExecutionRow, AggregateRow, AttemptRow, Current

(* A current attempt without an outcome belongs to an open execution.      *)
LEMMA UnfinishedIsOpen ==
    ASSUME TypeOK, NEW k \in Case, CaseInv(k), OpenChunk(ChunkOf[k]),
           Current(k) \in AttemptNo, attempts[k][Current(k)].status \in {"running", "stale"}
    PROVE  executions[k].status \in OpenExecution
<1>1. executions[k].status \in ExecutionStatus
    BY CaseTypes, Zenon
<1>2. executions[k].status # "absent"
    BY BudgetAssumption DEF CaseInv, AttemptNo
<1>3. executions[k].status \notin TerminalExecution
    BY Zenon DEF CaseInv, Counted, FinishedAttempt, Current
<1> QED
    BY <1>1, <1>2, <1>3, Zenon DEF ExecutionStatus, OpenExecution, TerminalExecution

(* The result that finalization asks for is the one of the current attempt.*)
LEMMA ResultIsCurrent ==
    ASSUME TypeOK, AggregateHasKind, NEW k \in Case, CaseInv(k),
           NEW x \in Transition, x.case = k, x.outcome = "completed", HasAggregate(x),
           x.attempt = Current(k), attempts[k][Current(k)].status = "running"
    PROVE  aggregates[k].attempt = Current(k) /\ aggregates[k].kind = "result"
BY DEF HasAggregate, AggregateHasKind, TypeOK, AggregateRow, CaseInv, FinishedAttempt,
       AttemptNo, Transition

(* An attempt that a settlement retires.                                   *)
LEMMA RetiredFades ==
    ASSUME NEW k, NEW n, NEW r,
           attempts'[k][n] = IF r.status = "running" THEN Ended("stale") ELSE r,
           attempts[k][n].status # "running" => r = attempts[k][n],
           attempts[k][n].status = "running" => r.status \in {"running", "stale", "cancelled"}
    PROVE  Fades(k, n, {"stale", "cancelled"})
BY DEF Fades, Ended

(* Each of the five keeps what the rows of a case are to each other.       *)
LEMMA CaseStepInv ==
    ASSUME TypeOK, OneRunningAttempt, TypeOK', NEW k \in Case, CaseInv(k), CaseStep(k),
           OpenChunk(ChunkOf[k])' => OpenChunk(ChunkOf[k])
    PROVE  CaseInv(k)'
<1> USE DEF Current
<1>1. /\ executions[k].status \in ExecutionStatus
      /\ Current(k) \in 0 .. MaxAttempts
      /\ aggregates[k].attempt \in 0 .. MaxAttempts
      /\ \A n \in AttemptNo : attempts[k][n].status \in AttemptStatus
    BY CaseTypes, Zenon
<1>2. MaxAttempts \in Nat
    BY BudgetAssumption
<1>3. CASE Keeps(k)
    BY <1>1, <1>2, <1>3, SMTT(60), Z3T(60)
       DEF Keeps, Fades, CaseInv, Counted, AttemptNo, FinishedAttempt
<1>4. CASE Starts(k)
    BY <1>1, <1>2, <1>4, SMTT(60), Z3T(60)
       DEF Starts, Fades, CaseInv, Counted, AttemptNo, FinishedAttempt,
                                      OpenExecution, TerminalExecution
<1>5. CASE Stores(k)
    <2>1. executions[k].status = "running"
        BY <1>5, Zenon DEF Stores, OneRunningAttempt, IsCurrent
    <2> QED
        BY <1>1, <1>2, <1>5, <2>1, SMTT(60), Z3T(60)
        DEF Stores, CaseInv, Counted, AttemptNo, FinishedAttempt,
        OpenExecution, TerminalExecution
<1>6. CASE Closes(k)
    BY <1>1, <1>2, <1>6, SMTT(60), Z3T(60)
       DEF Closes, CaseInv, Counted, AttemptNo, FinishedAttempt,
                                      OpenExecution, TerminalExecution
<1>7. CASE Ends(k)
    BY <1>1, <1>2, <1>7, SMTT(60), Z3T(60)
       DEF Ends, Fades, CaseInv, Counted, AttemptNo, FinishedAttempt,
                                      OpenExecution, TerminalExecution,
                                      OpenChunk
<1> QED
    BY <1>3, <1>4, <1>5, <1>6, <1>7, Zenon DEF CaseStep

(* Rows that are left alone.                                               *)
LEMMA SameRowsKeep ==
    ASSUME UNCHANGED <<executions, attempts, aggregates>>, TypeOK, NEW k \in Case
    PROVE  Keeps(k)
BY Zenon DEF Keeps, Fades

(* Allocation starts the eligible cases.                                   *)
LEMMA AllocateCases ==
    ASSUME TypeInv, NEW t \in Task, NEW K \in SUBSET Case, NEW B, NEW now,
           K = Eligible(B, now), StartAttempts(t, K, now), aggregates' = aggregates,
           NEW k \in Case
    PROVE  IF k \in K THEN Starts(k) ELSE Keeps(k)
<1>1. CASE k \in K
    <2>1. /\ executions[k].status \in OpenExecution \cup {"absent"}
          /\ Current(k) + 1 \in AttemptNo
        BY <1>1, BudgetAssumption
           DEF Eligible, TypeInv, TypeOK, ExecutionRow, AttemptNo, Current
    <2>2. executions'[k] = [status |-> "running", attemptNo |-> Current(k) + 1, retryAfter |-> 0]
        BY <1>1, Zenon DEF StartAttempts, Current
    <2>3. attempts'[k][Current(k) + 1].status = "running"
        BY <1>1, <2>1, Zenon DEF StartAttempts, Current
    <2>4. ASSUME NEW n \in AttemptNo, n # Current(k) + 1
          PROVE  Fades(k, n, {"stale"})
        BY <1>1, <2>4 DEF StartAttempts, Current, Fades, Ended
    <2> QED
        BY <1>1, <2>1, <2>2, <2>3, <2>4 DEF Starts
<1>2. CASE k \notin K
    BY <1>2, Zenon DEF StartAttempts, Keeps, Fades
<1> QED
    BY <1>1, <1>2, Zenon

-----------------------------------------------------------------------------
(* Every action keeps the types.                                           *)

(* claim_chunk_for_processing keeps the types.                             *)
LEMMA ClaimTypes ==
    ASSUME TypeInv, NEW t \in Task, NEW c \in Chunk, Claim(t, c) PROVE TypeInv'
<1>1. PICK now \in Now : chunks' = [chunks EXCEPT ![c] =
            [@ EXCEPT !.status = "leased", !.token = lastToken + 1, !.until = now + ClaimLease]]
    BY Zenon DEF Claim
<1>2. now \in Nat
    BY NowType DEF TypeInv
<1>3. chunks' \in [Chunk -> ChunkRow]
    <2>1. chunks[c] \in ChunkRow /\ lastToken + 1 \in Nat /\ now + ClaimLease \in Int
        BY <1>2, TimeAssumption DEF TypeInv, TypeOK
    <2>2. [chunks[c] EXCEPT !.status = "leased", !.token = lastToken + 1,
                            !.until = now + ClaimLease] \in ChunkRow
        BY <2>1, Zenon DEF ChunkRow, ChunkStatus
    <2> QED
        BY <1>1, <2>2 DEF TypeInv, TypeOK
<1>4. tasks' \in [Task -> TaskRow]
    <2>1. lastToken + 1 \in Nat /\ admission.epoch \in Nat
        BY DEF TypeInv, TypeOK
    <2>2. [IdleTask EXCEPT !.pc = "claimed", !.chunk = c, !.token = lastToken + 1,
                           !.epoch = admission.epoch] \in TaskRow
        BY <2>1, IdleTaskType, Zenon DEF TaskRow, TaskState
    <2> QED
        BY <2>2, TaskType DEF Claim, TypeInv
<1> QED
    BY <1>3, <1>4 DEF Claim, TypeInv, TypeOK, AggregateHasKind

(* A lease is extended to a time, by its holder or its heartbeat.          *)
LEMMA ExtendedLeaseType ==
    ASSUME TypeOK, NEW t \in Task, NEW now \in Now
    PROVE  ExtendedLease(t, now) \in [Chunk -> ChunkRow]
<1>1. now + ProcessingLease \in Int
    BY NowType, TimeAssumption
<1>2. ASSUME NEW c \in Chunk
      PROVE [chunks[c] EXCEPT !.until = now + ProcessingLease] \in ChunkRow
    BY <1>1 DEF TypeOK, ChunkRow
<1> QED
    BY <1>2, Zenon DEF ExtendedLease, TypeOK

(* extend_chunk_lease at the start of processing keeps the types.          *)
LEMMA ExtendLeaseTypes ==
    ASSUME TypeInv, NEW t \in Task, ExtendLease(t) PROVE TypeInv'
<1>1. chunks' \in [Chunk -> ChunkRow]
    BY ExtendedLeaseType DEF ExtendLease, TypeInv
<1>2. tasks' \in [Task -> TaskRow]
    <2>1. tasks[t] \in TaskRow /\ CasesOf(tasks[t].chunk) \subseteq Case
        BY DEF TypeInv, TypeOK, CasesOf
    <2>2. [tasks[t] EXCEPT !.pc = "batch", !.todo = CasesOf(tasks[t].chunk), !.beat = "on"]
            \in TaskRow
        BY <2>1, Zenon DEF TaskRow, TaskState, HeartbeatState
    <2>3. tasks' = [tasks EXCEPT ![t] =
            [tasks[t] EXCEPT !.pc = "batch", !.todo = CasesOf(tasks[t].chunk), !.beat = "on"]]
        BY DEF ExtendLease, TypeInv, TypeOK
    <2> QED
        BY <2>2, <2>3, TaskType DEF TypeInv
<1> QED
    BY <1>1, <1>2 DEF ExtendLease, TypeInv, TypeOK, AggregateHasKind

(* A change of the state of a heartbeat keeps the type of tasks.           *)
LEMMA BeatType ==
    ASSUME TypeOK, NEW t \in Task, NEW b \in HeartbeatState,
           tasks' = [tasks EXCEPT ![t].beat = b]
    PROVE  tasks' \in [Task -> TaskRow]
<1>1. tasks[t] \in TaskRow
    BY DEF TypeOK
<1>2. [tasks[t] EXCEPT !.beat = b] \in TaskRow
    BY <1>1 DEF TaskRow
<1> QED
    BY <1>2, TaskType

(* Every step of the heartbeat keeps the types.                            *)
LEMMA HeartbeatTypes ==
    ASSUME TypeInv, NEW t \in Task,
           \/ HeartbeatRenew(t) \/ HeartbeatLost(t)
           \/ HeartbeatAttempts(t) \/ HeartbeatError(t)
    PROVE  TypeInv'
<1>1. "on" \in HeartbeatState /\ "renewed" \in HeartbeatState /\ "lost" \in HeartbeatState
    BY Zenon DEF HeartbeatState
<1>2. tasks' \in [Task -> TaskRow]
    BY <1>1, BeatType, Zenon
       DEF HeartbeatRenew, HeartbeatLost, HeartbeatAttempts, HeartbeatError,
           TypeInv
<1>3. CASE HeartbeatRenew(t)
    BY <1>2, <1>3, ExtendedLeaseType
       DEF HeartbeatRenew, TypeInv, TypeOK, AggregateHasKind
<1>4. CASE HeartbeatLost(t) \/ HeartbeatError(t)
    BY <1>2, <1>4, Zenon
       DEF HeartbeatLost, HeartbeatError, TypeInv, TypeOK, AggregateHasKind,
           rows
<1>5. CASE HeartbeatAttempts(t)
    <2>1. PICK now \in Now :
            attempts' = [k \in Case |-> [n \in AttemptNo |->
            IF /\ k \in CasesOf(tasks[t].chunk)
               /\ IsCurrent(k, n)
               /\ attempts[k][n].status = "running"
               /\ attempts[k][n].worker = WorkerOf[t]
            THEN [attempts[k][n] EXCEPT !.until = now + AttemptLease]
            ELSE attempts[k][n]]]
        BY <1>5, Zenon DEF HeartbeatAttempts
    <2>2. now + AttemptLease \in Int
        BY NowType, TimeAssumption DEF TypeInv
    <2>3. ASSUME NEW k \in Case, NEW n \in AttemptNo
          PROVE  [attempts[k][n] EXCEPT !.until = now + AttemptLease] \in AttemptRow
        <3>1. attempts[k][n] \in AttemptRow
            BY Zenon DEF TypeInv, TypeOK
        <3> QED
            BY <2>2, <3>1 DEF AttemptRow
    <2>4. attempts' \in [Case -> [AttemptNo -> AttemptRow]]
        BY <2>1, <2>3, Zenon DEF TypeInv, TypeOK
    <2> QED
        BY <1>2, <1>5, <2>4
           DEF HeartbeatAttempts, TypeInv, TypeOK, AggregateHasKind
<1> QED
    BY <1>3, <1>4, <1>5

(* allocate_execution_attempts_for_cases keeps the types.                  *)
LEMMA AllocateTypes ==
    ASSUME TypeInv, NEW t \in Task, NEW B \in SUBSET Case, Allocate(t, B) PROVE TypeInv'
<1>1. PICK now \in Now :
        /\ StartAttempts(t, Eligible(B, now), now)
        /\ tasks' = [tasks EXCEPT ![t] = [@ EXCEPT
                !.pc = "evaluate",
                !.todo = tasks[t].todo \ B,
                !.batch = {[case |-> k, attempt |-> executions[k].attemptNo + 1] :
                                k \in Eligible(B, now)},
                !.transitions = tasks[t].transitions \cup
                    {[case |-> k, attempt |-> executions[k].attemptNo,
                      outcome |-> "exhausted"] : k \in Exhausted(B)}]]
    BY Zenon DEF Allocate
<1> DEFINE K == Eligible(B, now)
<1>2. now + AttemptLease \in Int
    BY NowType, TimeAssumption DEF TypeInv
<1>3. ASSUME NEW k \in K
      PROVE  k \in Case /\ executions[k].attemptNo + 1 \in AttemptNo
    BY BudgetAssumption DEF Eligible, TypeInv, TypeOK, ExecutionRow, AttemptNo
<1>4. ASSUME NEW k \in Exhausted(B)
      PROVE  k \in Case /\ executions[k].attemptNo \in AttemptNo
    BY BudgetAssumption DEF Exhausted, TypeInv, TypeOK, ExecutionRow, AttemptNo
<1> HIDE DEF K
<1>5. executions' \in [Case -> ExecutionRow]
    <2>1. ASSUME NEW k \in K
          PROVE  [status |-> "running", attemptNo |-> executions[k].attemptNo + 1,
                  retryAfter |-> 0] \in ExecutionRow
        BY <1>3 DEF ExecutionRow, ExecutionStatus, OpenExecution, AttemptNo
    <2> QED
        BY <1>1, <2>1, Zenon DEF StartAttempts, TypeInv, TypeOK, K
<1>6. attempts' \in [Case -> [AttemptNo -> AttemptRow]]
    <2>1. [status |-> "running", worker |-> WorkerOf[t], until |-> now + AttemptLease]
            \in AttemptRow
        BY <1>2, WorkerAssumption DEF AttemptRow, AttemptStatus
    <2>2. Ended("stale") \in AttemptRow
        BY EndedType DEF AttemptStatus
    <2> QED
        BY <1>1, <2>1, <2>2 DEF StartAttempts, TypeInv, TypeOK
<1>7. tasks' \in [Task -> TaskRow]
    <2> DEFINE batch == {[case |-> k, attempt |-> executions[k].attemptNo + 1] : k \in K}
               spent == {[case |-> k, attempt |-> executions[k].attemptNo,
                          outcome |-> "exhausted"] : k \in Exhausted(B)}
    <2>1. batch \subseteq Allocation
        BY <1>3 DEF Allocation
    <2>2. spent \subseteq Transition
        BY <1>4 DEF Transition
    <2>3. tasks[t] \in TaskRow
        BY DEF TypeInv, TypeOK
    <2>4. tasks' = [tasks EXCEPT ![t] = [tasks[t] EXCEPT !.pc = "evaluate",
                !.todo = tasks[t].todo \ B, !.batch = batch,
                !.transitions = tasks[t].transitions \cup spent]]
        BY <1>1 DEF TypeInv, TypeOK, K
    <2> HIDE DEF batch, spent
    <2>5. [tasks[t] EXCEPT !.pc = "evaluate", !.todo = tasks[t].todo \ B, !.batch = batch,
                !.transitions = tasks[t].transitions \cup spent] \in TaskRow
        BY <2>1, <2>2, <2>3, Zenon DEF TaskRow, TaskState
    <2> QED
        BY <2>4, <2>5, TaskType DEF TypeInv
<1> QED
    BY <1>5, <1>6, <1>7 DEF Allocate, TypeInv, TypeOK, AggregateHasKind

(* persist_completed_execution_results_batch keeps the types.              *)
LEMMA PersistTypes ==
    ASSUME TypeInv, NEW t \in Task, NEW outcome \in [Case -> Outcome], Persist(t, outcome)
    PROVE  TypeInv'
<1> DEFINE batch == tasks[t].batch
           done  == {a \in batch : outcome[a.case] = "completed"}
           moved == {[case |-> a.case, attempt |-> a.attempt, outcome |-> outcome[a.case]] :
                        a \in batch}
<1>1. /\ aggregates' = [k \in Case |->
                IF \E a \in done : a.case = k
                THEN [attempt |-> executions[k].attemptNo, kind |-> "result"]
                ELSE aggregates[k]]
      /\ tasks' = [tasks EXCEPT ![t] = [@ EXCEPT
                !.pc = "batch",
                !.batch = {},
                !.transitions = tasks[t].transitions \cup moved]]
    BY DEF Persist
<1>2. tasks[t] \in TaskRow /\ batch \subseteq Allocation
    BY Zenon DEF TypeInv, TypeOK, TaskRow
<1>3. moved \subseteq Transition
    BY <1>2 DEF Allocation, Transition
<1>4. tasks' \in [Task -> TaskRow]
    <2> HIDE DEF moved
    <2>1. tasks' = [tasks EXCEPT ![t] = [tasks[t] EXCEPT !.pc = "batch", !.batch = {},
                        !.transitions = tasks[t].transitions \cup moved]]
        BY <1>1 DEF TypeInv, TypeOK
    <2>2. [tasks[t] EXCEPT !.pc = "batch", !.batch = {},
                        !.transitions = tasks[t].transitions \cup moved] \in TaskRow
        BY <1>2, <1>3, Zenon DEF TaskRow, TaskState
    <2> QED
        BY <2>1, <2>2, TaskType DEF TypeInv
<1>5. ASSUME NEW k \in Case
      PROVE  [attempt |-> executions[k].attemptNo, kind |-> "result"] \in AggregateRow
    BY DEF TypeInv, TypeOK, ExecutionRow, AggregateRow
<1> HIDE DEF done
<1>6. aggregates' \in [Case -> AggregateRow]
    BY <1>1, <1>5 DEF TypeInv, TypeOK
<1>7. AggregateHasKind'
    BY <1>1 DEF AggregateHasKind, TypeInv
<1> QED
    BY <1>4, <1>6, <1>7 DEF Persist, TypeInv, TypeOK

(* The transition that For finds.                                          *)
LEMMA ForType ==
    ASSUME NEW X \in SUBSET Transition, NEW k \in {x.case : x \in X}
    PROVE  For(X, k) \in X /\ For(X, k).case = k /\ For(X, k) \in Transition
BY DEF For

(* The writes of the terminal transitions keep the types of the rows.      *)
LEMMA ApplyTypes ==
    ASSUME TypeInv, NEW X \in SUBSET Transition, NEW now \in Now,
           NEW delay \in [Case -> RetryDelays], ApplyTransitions(X, now, delay)
    PROVE  /\ executions' \in [Case -> ExecutionRow]
           /\ attempts' \in [Case -> [AttemptNo -> AttemptRow]]
           /\ aggregates' \in [Case -> AggregateRow]
           /\ AggregateHasKind'
<1> DEFINE K == {x.case : x \in X}
<1>1. \A k \in K : k \in Case /\ For(X, k) \in Transition
    BY ForType DEF Transition
<1> HIDE DEF K
<1>2. executions' \in [Case -> ExecutionRow]
    <2> SUFFICES ASSUME NEW k \in Case PROVE executions'[k] \in ExecutionRow
        BY Zenon DEF ApplyTransitions
    <2>1. now + delay[k] \in Int
        <3>1. now \in Nat
            BY NowType DEF TypeInv
        <3>2. delay[k] \in Nat
            BY TimeAssumption, Zenon
        <3> QED
            BY <3>1, <3>2
    <2>2. executions[k] \in ExecutionRow
        BY DEF TypeInv, TypeOK
    <2>3. [executions[k] EXCEPT !.status = "retry_scheduled", !.retryAfter = now + delay[k]]
            \in ExecutionRow
        BY <2>1, <2>2, Zenon DEF ExecutionRow, ExecutionStatus, OpenExecution
    <2>4. ASSUME NEW s \in TerminalExecution
          PROVE  [executions[k] EXCEPT !.status = s, !.retryAfter = 0] \in ExecutionRow
        <3>1. s \in ExecutionStatus /\ 0 \in Int
            BY DEF ExecutionStatus
        <3> QED
            BY <2>2, <3>1, Zenon DEF ExecutionRow
    <2>5. \/ executions'[k] = executions[k]
          \/ executions'[k] = [executions[k] EXCEPT !.status = "retry_scheduled",
                                                    !.retryAfter = now + delay[k]]
          \/ executions'[k] = [executions[k] EXCEPT !.status = "completed", !.retryAfter = 0]
          \/ executions'[k] = [executions[k] EXCEPT !.status = "failed", !.retryAfter = 0]
        BY Zenon DEF ApplyTransitions
    <2>6. "completed" \in TerminalExecution /\ "failed" \in TerminalExecution
        BY DEF TerminalExecution
    <2> QED
        BY <2>2, <2>3, <2>4, <2>5, <2>6, Zenon
<1>3. attempts' \in [Case -> [AttemptNo -> AttemptRow]]
    <2>1. Ended("completed") \in AttemptRow /\ Ended("finished") \in AttemptRow
        BY EndedType DEF AttemptStatus, FinishedAttempt
    <2>2. attempts' = [k \in Case |-> [n \in AttemptNo |-> attempts'[k][n]]]
        BY Zenon DEF ApplyTransitions
    <2>3. ASSUME NEW k \in Case, NEW n \in AttemptNo
          PROVE  attempts'[k][n] \in AttemptRow
        <3>1. \/ attempts'[k][n] = attempts[k][n]
              \/ attempts'[k][n] = Ended("completed")
              \/ attempts'[k][n] = Ended("finished")
            BY Zenon DEF ApplyTransitions
        <3>2. attempts[k][n] \in AttemptRow
            BY DEF TypeInv, TypeOK
        <3> QED
            BY <2>1, <3>1, <3>2
    <2> QED
        BY <2>2, <2>3
<1>4. ASSUME NEW k \in Case
      PROVE  /\ aggregates'[k] \in AggregateRow
             /\ aggregates'[k].attempt > 0 => aggregates'[k].kind # "none"
    <2>1. CASE k \in K
        <3>1. [attempt |-> For(X, k).attempt, kind |-> "error"] \in AggregateRow
            BY <1>1, <2>1 DEF Transition, AttemptNo, AggregateRow
        <3>2. \/ aggregates'[k] = aggregates[k]
              \/ aggregates'[k] = [attempt |-> For(X, k).attempt, kind |-> "error"]
            BY Zenon DEF ApplyTransitions
        <3> QED
            BY <3>1, <3>2 DEF TypeInv, TypeOK, AggregateHasKind
    <2>2. CASE k \notin K
        BY <2>2, Zenon
           DEF ApplyTransitions, K, TypeInv, TypeOK, AggregateHasKind
    <2> QED
        BY <2>1, <2>2, Zenon
<1>5. aggregates' \in [Case -> AggregateRow] /\ AggregateHasKind'
    <2>1. aggregates' = [k \in Case |-> aggregates'[k]]
        BY Zenon DEF ApplyTransitions
    <2> QED
        BY <1>4, <2>1 DEF AggregateHasKind
<1> QED
    BY <1>2, <1>3, <1>5

(* finalize_execution_terminal_transitions keeps the types.                *)
LEMMA FinalizeTypes ==
    ASSUME TypeInv, NEW t \in Task, Finalize(t) PROVE TypeInv'
<1>1. tasks' \in [Task -> TaskRow]
    <2>1. "summarize" \in TaskState
        BY Zenon DEF TaskState
    <2> QED
        BY <2>1, ContinueType DEF Finalize, TypeInv
<1>2. /\ executions' \in [Case -> ExecutionRow]
      /\ attempts' \in [Case -> [AttemptNo -> AttemptRow]]
      /\ aggregates' \in [Case -> AggregateRow]
      /\ AggregateHasKind'
    <2>1. CASE tasks[t].transitions = {}
        BY <2>1 DEF Finalize, TypeInv, TypeOK, AggregateHasKind
    <2>2. CASE tasks[t].transitions # {}
        <3>1. PICK now \in Now, delay \in [Case -> RetryDelays] :
                ApplyTransitions(tasks[t].transitions, now, delay)
            BY <2>2 DEF Finalize
        <3>2. tasks[t].transitions \in SUBSET Transition
            BY Zenon DEF TypeInv, TypeOK, TaskRow
        <3> QED
            BY <3>1, <3>2, ApplyTypes, Zenon
    <2> QED
        BY <2>1, <2>2, Zenon
<1> QED
    BY <1>1, <1>2, Zenon DEF Finalize, TypeInv, TypeOK

(* A finalization that is rejected keeps the types.                        *)
LEMMA FinalizeRejectedTypes ==
    ASSUME TypeInv, NEW t \in Task, FinalizeRejected(t) PROVE TypeInv'
<1>1. tasks' \in [Task -> TaskRow]
    <2>1. "failing" \in TaskState
        BY DEF TaskState
    <2> QED
        BY <2>1, ContinueType DEF FinalizeRejected, TypeInv
<1>2. Ended("stale") \in AttemptRow
    BY EndedType DEF AttemptStatus
<1>3. attempts' \in [Case -> [AttemptNo -> AttemptRow]]
    <2>1. CASE UNCHANGED attempts
        BY <2>1 DEF TypeInv, TypeOK
    <2>2. CASE ~UNCHANGED attempts
        <3>1. PICK now \in Now :
                attempts' = [k \in Case |-> [n \in AttemptNo |->
                    IF LostAttempt(t, k, n, now) THEN Ended("stale") ELSE attempts[k][n]]]
            BY <2>2, Zenon DEF FinalizeRejected
        <3>2. attempts \in [Case -> [AttemptNo -> AttemptRow]]
            BY Zenon DEF TypeInv, TypeOK
        <3> QED
            BY <1>2, <3>1, <3>2
    <2> QED
        BY <2>1, <2>2
<1> QED
    BY <1>1, <1>3 DEF FinalizeRejected, TypeInv, TypeOK, AggregateHasKind

(* Steps of a task that write none of the rows.                            *)
LEMMA QuietTaskTypes ==
    ASSUME TypeInv, NEW t \in Task,
           \/ ExtendLost(t) \/ ProcessingFails(t) \/ EndOfCases(t) \/ Summarize(t)
           \/ SettleStale(t) \/ DatabaseError(t) \/ SummaryReadError(t) \/ Redeliver(t)
    PROVE  TypeInv'
<1>1. UNCHANGED <<clock, run, admission, rows, lastToken>>
    BY DEF ExtendLost, ProcessingFails, EndOfCases, Summarize, SettleStale,
       DatabaseError,
           SummaryReadError, Redeliver
<1>2. RedeliverAt \in Int
    BY TimeAssumption DEF RedeliverAt, TypeInv, TypeOK
<1>3. tasks[t] \in TaskRow
    BY DEF TypeInv, TypeOK
<1>4. tasks' \in [Task -> TaskRow]
    <2>1. CASE ExtendLost(t) \/ SettleStale(t) \/ Redeliver(t)
        BY <2>1, FinishType DEF ExtendLost, SettleStale, Redeliver, TypeInv
    <2>2. CASE ProcessingFails(t) \/ EndOfCases(t) \/ Summarize(t)
        <3>1. /\ "failing" \in TaskState /\ "finalize" \in TaskState
              /\ "waiting" \in TaskState /\ "completing" \in TaskState
            BY DEF TaskState
        <3>2. PICK pc \in TaskState : Continue(t, pc)
            BY <2>2, <3>1, Zenon DEF ProcessingFails, EndOfCases, Summarize
        <3> QED
            BY <3>2, ContinueType DEF TypeInv
    <2>3. CASE DatabaseError(t)
        <3>1. /\ tasks[t].chunk \in Chunk \cup {NoChunk}
              /\ tasks[t].token \in Nat
            BY <1>3, Zenon DEF TaskRow
        <3>2. [IdleTask EXCEPT !.pc = "delayed", !.chunk = tasks[t].chunk,
                        !.token = tasks[t].token, !.resumeAt = RedeliverAt] \in TaskRow
            BY <1>2, <3>1, IdleTaskType, Zenon DEF TaskRow, TaskState
        <3> QED
            BY <2>3, <3>2, TaskType DEF DatabaseError, TypeInv
    <2>4. CASE SummaryReadError(t)
        <3>1. [tasks[t] EXCEPT !.pc = "orphan", !.resumeAt = RedeliverAt] \in TaskRow
            BY <1>2, <1>3, Zenon DEF TaskRow, TaskState
        <3>2. tasks' = [tasks EXCEPT ![t] =
                            [tasks[t] EXCEPT !.pc = "orphan", !.resumeAt = RedeliverAt]]
            BY <2>4 DEF SummaryReadError, TypeInv, TypeOK
        <3> QED
            BY <3>1, <3>2, TaskType DEF TypeInv
    <2> QED
        BY <2>1, <2>2, <2>3, <2>4, Zenon
<1> QED
    BY <1>1, <1>4, Zenon DEF rows, TypeInv, TypeOK, AggregateHasKind

(* The statuses that settlement writes.                                    *)
LEMMA Statuses ==
    /\ {"completed", "failed", "cancelled"} \subseteq TerminalChunk
    /\ {"pending", "completed", "failed", "cancelled"} \subseteq ChunkStatus
    /\ {"stale", "cancelled"} \subseteq AttemptStatus
BY DEF TerminalChunk, ChunkStatus, AttemptStatus

(* Completing, failing and releasing a chunk keep the types.               *)
LEMMA WorkerSettlementTypes ==
    ASSUME TypeInv, NEW t \in Task, Complete(t) \/ FailExhausted(t) \/ Release(t)
    PROVE  TypeInv'
<1> DEFINE c == tasks[t].chunk
<1>1. PICK s \in {"completed", "failed", "pending"} :
            chunks' = [chunks EXCEPT ![c] = Unleased(@, s)]
            /\ ((Release(t) /\ s = "pending")
                \/ (s \in TerminalChunk /\ (Complete(t) \/ FailExhausted(t))
                    /\ Settle({c}, executions, attempts)))
    BY Statuses, Zenon DEF Complete, FailExhausted, Release
<1>2. chunks' \in [Chunk -> ChunkRow]
    <2>1. ASSUME c \in Chunk PROVE Unleased(chunks[c], s) \in ChunkRow
        BY <2>1, UnleasedType, Statuses, Zenon DEF TypeInv, TypeOK
    <2> QED
        BY <1>1, <2>1, Zenon DEF TypeInv, TypeOK
<1>3. c \in Chunk => chunks'[c].status = s
    <2>1. c \in Chunk => chunks'[c] = Unleased(chunks[c], s)
        BY <1>1, Zenon DEF TypeInv, TypeOK
    <2> QED
        BY <2>1 DEF Unleased
<1>4. tasks' \in [Task -> TaskRow]
    BY FinishType, Zenon DEF Complete, FailExhausted, Release, TypeInv
<1>5. CASE s \in TerminalChunk /\ (Complete(t) \/ FailExhausted(t))
            /\ Settle({c}, executions, attempts)
    <2>1. /\ executions' \in [Case -> ExecutionRow]
          /\ attempts' \in [Case -> [AttemptNo -> AttemptRow]]
          /\ receipts' \in [Chunk -> ReceiptRow]
        BY <1>2, <1>3, <1>5, SettleType, Zenon DEF TypeInv, TypeOK
    <2> QED
        BY Zenon, <1>2, <1>4, <1>5, <2>1
        DEF Complete, FailExhausted, TypeInv, TypeOK, AggregateHasKind
<1>6. CASE Release(t)
    BY <1>2, <1>4, <1>6, Zenon DEF Release, TypeInv, TypeOK, AggregateHasKind
<1> QED
    BY <1>1, <1>5, <1>6

(* Recovery of expired leases keeps the types.                             *)
LEMMA RecoverTypes ==
    ASSUME TypeInv, NEW R \in SUBSET Chunk, NEW F \in SUBSET Chunk, Recover(R, F)
    PROVE  TypeInv'
<1> DEFINE att == Retire(attempts, {k \in Case : ChunkOf[k] \in R \cup F}, "stale")
<1>1. att \in [Case -> [AttemptNo -> AttemptRow]]
    BY RetireType, Statuses, Zenon DEF TypeInv, TypeOK
<1>2. ASSUME NEW c \in Chunk
      PROVE  chunks'[c] \in ChunkRow /\ (c \in F /\ c \notin R => chunks'[c].status = "failed")
    <2>1. chunks[c] \in ChunkRow /\ [chunks[c] EXCEPT !.recoveries = @ + 1] \in ChunkRow
        BY DEF TypeInv, TypeOK, ChunkRow
    <2>2. chunks'[c] = IF c \in R THEN Unleased([chunks[c] EXCEPT !.recoveries = @ + 1], "pending")
                       ELSE IF c \in F THEN Unleased(chunks[c], "failed")
                       ELSE chunks[c]
        BY DEF Recover
    <2> QED
        BY <2>1, <2>2, UnleasedType, Statuses, Zenon
<1>3. chunks' \in [Chunk -> ChunkRow]
    BY <1>2 DEF Recover
<1>4. R \cap F = {}
    <2>1. ASSUME NEW c \in Chunk, c \in R, c \in F PROVE FALSE
        <3>1. chunks[c].recoveries \in Nat
            BY DEF TypeInv, TypeOK, ChunkRow
        <3> QED
            BY <2>1, <3>1, BudgetAssumption DEF Recover
    <2> QED
        BY <2>1
<1>5. \A c \in F \cap Chunk : chunks'[c].status \in TerminalChunk
    BY <1>2, <1>4, Statuses
<1>6. Settle(F, executions, att)
    BY DEF Recover
<1> HIDE DEF att
<1>7. /\ executions' \in [Case -> ExecutionRow]
      /\ attempts' \in [Case -> [AttemptNo -> AttemptRow]]
      /\ receipts' \in [Chunk -> ReceiptRow]
    BY <1>1, <1>3, <1>5, <1>6, SettleType, Zenon DEF TypeInv, TypeOK
<1> QED
    BY <1>3, <1>7, Zenon DEF Recover, TypeInv, TypeOK, AggregateHasKind

(* What cancellation makes of the executions before it settles.            *)
CancelledExecutions ==
    [k \in Case |-> IF executions[k].status \in OpenExecution
                    THEN [executions[k] EXCEPT !.status = "cancelled"]
                    ELSE executions[k]]

(* Cancelling the open executions yields executions.                       *)
LEMMA CancelledType ==
    ASSUME TypeOK PROVE CancelledExecutions \in [Case -> ExecutionRow]
<1>1. ASSUME NEW k \in Case PROVE [executions[k] EXCEPT !.status = "cancelled"] \in ExecutionRow
    BY DEF TypeOK, ExecutionRow, ExecutionStatus, TerminalExecution
<1> QED
    BY <1>1 DEF CancelledExecutions, TypeOK

(* Cancellation in the execution database keeps the types.                 *)
LEMMA CancelTypes ==
    ASSUME TypeInv, CancelExecution PROVE TypeInv'
<1> DEFINE C == {c \in Chunk : receipts[c].disposition = "none"}
<1>1. Retire(attempts, Case, "cancelled") \in [Case -> [AttemptNo -> AttemptRow]]
    BY RetireType, Statuses, Zenon DEF TypeInv, TypeOK
<1>2. CancelledExecutions \in [Case -> ExecutionRow]
    BY CancelledType DEF TypeInv
<1>3. ASSUME NEW c \in Chunk
      PROVE  chunks'[c] \in ChunkRow /\ chunks'[c].status \in TerminalChunk
    <2>1. chunks[c] \in ChunkRow
        BY DEF TypeInv, TypeOK
    <2>2. chunks'[c] = IF chunks[c].status \in {"pending", "leased"}
                       THEN Unleased(chunks[c], "cancelled") ELSE chunks[c]
        BY DEF CancelExecution
    <2>3. CASE chunks[c].status \in {"pending", "leased"}
        BY <2>1, <2>2, <2>3, UnleasedType, Statuses, Zenon
    <2>4. CASE chunks[c].status \notin {"pending", "leased"}
        BY <2>1, <2>2, <2>4 DEF ChunkRow, ChunkStatus
    <2> QED
        BY <2>3, <2>4
<1>4. chunks' \in [Chunk -> ChunkRow]
    BY <1>3 DEF CancelExecution
<1>5. Settle(C, CancelledExecutions, Retire(attempts, Case, "cancelled"))
    BY DEF CancelExecution, CancelledExecutions
<1>6. /\ executions' \in [Case -> ExecutionRow]
      /\ attempts' \in [Case -> [AttemptNo -> AttemptRow]]
      /\ receipts' \in [Chunk -> ReceiptRow]
    BY <1>1, <1>2, <1>3, <1>4, <1>5, SettleType, Zenon DEF TypeInv, TypeOK
<1> QED
    BY <1>4, <1>6, Zenon DEF CancelExecution, TypeInv, TypeOK, AggregateHasKind

(* Steps that touch neither the rows nor the tasks, and crashes.           *)
LEMMA EnvironmentTypes ==
    ASSUME TypeInv,
           \/ Tick \/ CancelControl \/ BeginDrain \/ Cutover \/ AbortMove
           \/ \E w \in Worker : Crash(w)
    PROVE  TypeInv'
<1>1. CASE Tick
    BY <1>1 DEF Tick, TypeInv, TypeOK, AggregateHasKind, rows
<1>2. CASE CancelControl
    BY <1>2 DEF CancelControl, TypeInv, TypeOK, AggregateHasKind, rows
<1>3. CASE BeginDrain
    BY <1>3, Zenon DEF BeginDrain, TypeInv, TypeOK, AggregateHasKind, rows
<1>4. CASE Cutover
    BY <1>4 DEF Cutover, TypeInv, TypeOK, AggregateHasKind, rows
<1>5. CASE AbortMove
    BY <1>5 DEF AbortMove, TypeInv, TypeOK, AggregateHasKind, rows
<1>6. ASSUME NEW w \in Worker, Crash(w) PROVE TypeInv'
    <2>1. [IdleTask EXCEPT !.pc = "dead"] \in TaskRow
        BY IdleTaskType DEF TaskRow, TaskState
    <2>2. tasks' \in [Task -> TaskRow]
        BY <1>6, <2>1 DEF Crash, TypeInv, TypeOK
    <2> QED
        BY <1>6, <2>2, Zenon DEF Crash, TypeInv, TypeOK, AggregateHasKind, rows
<1> QED
    BY <1>1, <1>2, <1>3, <1>4, <1>5, <1>6, Zenon

-----------------------------------------------------------------------------
(* A task works on the cases of its own chunk.                             *)

ScopeOf(row) ==
    /\ row.todo \subseteq CasesOf(row.chunk)
    /\ \A a \in row.batch : a.case \in CasesOf(row.chunk)
    /\ \A x \in row.transitions : x.case \in CasesOf(row.chunk)

TaskScope == \A t \in Task : ScopeOf(tasks[t])

(* A task that holds nothing is within its chunk.                          *)
LEMMA IdleScope ==
    ASSUME NEW row, row.todo = {}, row.batch = {}, row.transitions = {}
    PROVE  ScopeOf(row)
BY DEF ScopeOf

(* Replacing one task by one within its chunk keeps every task so.         *)
LEMMA ScopeUpdate ==
    ASSUME TypeOK, TaskScope, NEW t \in Task, NEW row, ScopeOf(row),
           tasks' = [tasks EXCEPT ![t] = row]
    PROVE  TaskScope'
<1> SUFFICES ASSUME NEW u \in Task PROVE ScopeOf(tasks'[u])
    BY DEF TaskScope, ScopeOf, CasesOf
<1>1. tasks'[u] = row \/ tasks'[u] = tasks[u]
    BY DEF TypeOK
<1> QED
    BY <1>1, Zenon DEF TaskScope

(* A task that ends its message keeps every task within its chunk.         *)
LEMMA FinishScope ==
    ASSUME TypeOK, TaskScope, NEW t \in Task, Finish(t) PROVE TaskScope'
<1>1. ScopeOf(IdleTask)
    BY IdleScope DEF IdleTask
<1> QED
    BY <1>1, ScopeUpdate, Zenon DEF Finish

(* A task that moves to its next state stays within its chunk.             *)
LEMMA ContinueScope ==
    ASSUME TypeOK, TaskScope, NEW t \in Task, NEW pc, Continue(t, pc)
    PROVE  TaskScope'
<1>1. tasks[t] \in TaskRow
    BY DEF TypeOK
<1> DEFINE kept == [tasks[t] EXCEPT !.pc = pc]
           bare == [tasks[t] EXCEPT !.pc = pc, !.todo = {}, !.batch = {}, !.transitions = {}]
<1>2. /\ kept.todo = tasks[t].todo /\ kept.batch = tasks[t].batch
      /\ kept.transitions = tasks[t].transitions /\ kept.chunk = tasks[t].chunk
    BY <1>1 DEF TaskRow
<1>3. bare.todo = {} /\ bare.batch = {} /\ bare.transitions = {}
    BY <1>1 DEF TaskRow
<1>4. tasks' = [tasks EXCEPT ![t] = kept] \/ tasks' = [tasks EXCEPT ![t] = bare]
    BY Zenon DEF Continue, TypeOK
<1> HIDE DEF kept, bare
<1>5. ScopeOf(kept)
    BY <1>2, Zenon DEF TaskScope, ScopeOf
<1>6. ScopeOf(bare)
    BY <1>3, IdleScope
<1> QED
    BY <1>4, <1>5, <1>6, ScopeUpdate

(* A step of the heartbeat does not change what the task holds.            *)
LEMMA BeatScope ==
    ASSUME TypeOK, TaskScope, NEW t \in Task, NEW b, tasks' = [tasks EXCEPT ![t].beat = b]
    PROVE  TaskScope'
<1> DEFINE row == [tasks[t] EXCEPT !.beat = b]
<1>1. tasks[t] \in TaskRow
    BY DEF TypeOK
<1>2. /\ row.todo = tasks[t].todo /\ row.batch = tasks[t].batch
      /\ row.transitions = tasks[t].transitions /\ row.chunk = tasks[t].chunk
    BY <1>1 DEF TaskRow
<1>3. tasks' = [tasks EXCEPT ![t] = row]
    BY DEF TypeOK
<1> HIDE DEF row
<1>4. ScopeOf(row)
    BY <1>2 DEF TaskScope, ScopeOf
<1> QED
    BY <1>3, <1>4, ScopeUpdate, Zenon

(* What is allocated belongs to the chunk of the task.                     *)
LEMMA AllocateScope ==
    ASSUME TypeOK, TaskScope, NEW t \in Task, NEW B \in SUBSET Case, Allocate(t, B)
    PROVE  TaskScope'
<1>1. PICK now \in Now :
        tasks' = [tasks EXCEPT ![t] = [@ EXCEPT
                !.pc = "evaluate",
                !.todo = tasks[t].todo \ B,
                !.batch = {[case |-> k, attempt |-> executions[k].attemptNo + 1] :
                                k \in Eligible(B, now)},
                !.transitions = tasks[t].transitions \cup
                    {[case |-> k, attempt |-> executions[k].attemptNo,
                      outcome |-> "exhausted"] : k \in Exhausted(B)}]]
    BY Zenon DEF Allocate
<1> DEFINE batch == {[case |-> k, attempt |-> executions[k].attemptNo + 1] : k \in Eligible(B, now)}
           spent == {[case |-> k, attempt |-> executions[k].attemptNo,
                          outcome |-> "exhausted"] : k \in Exhausted(B)}
           row == [tasks[t] EXCEPT !.pc = "evaluate", !.todo = tasks[t].todo \ B,
                    !.batch = batch, !.transitions = tasks[t].transitions \cup spent]
<1>2. B \subseteq CasesOf(tasks[t].chunk)
    BY Zenon DEF Allocate, TaskScope, ScopeOf
<1>3. \A a \in batch : a.case \in CasesOf(tasks[t].chunk)
    BY <1>2 DEF Eligible
<1>4. \A x \in spent : x.case \in CasesOf(tasks[t].chunk)
    BY <1>2 DEF Exhausted
<1>5. tasks[t] \in TaskRow
    BY DEF TypeOK
<1>6. tasks' = [tasks EXCEPT ![t] = row]
    BY <1>1 DEF TypeOK
<1> HIDE DEF batch, spent
<1>7. /\ row.todo = tasks[t].todo \ B /\ row.batch = batch
      /\ row.transitions = tasks[t].transitions \cup spent /\ row.chunk = tasks[t].chunk
    BY <1>5, Zenon DEF TaskRow
<1> HIDE DEF row
<1>8. ScopeOf(row)
    BY <1>3, <1>4, <1>7 DEF TaskScope, ScopeOf
<1> QED
    BY <1>6, <1>8, ScopeUpdate, Zenon

(* The transitions a task collects are those of its batch.                 *)
LEMMA PersistScope ==
    ASSUME TypeOK, TaskScope, NEW t \in Task, NEW outcome, Persist(t, outcome)
    PROVE  TaskScope'
<1> DEFINE moved == {[case |-> a.case, attempt |-> a.attempt, outcome |-> outcome[a.case]] :
                        a \in tasks[t].batch}
           row == [tasks[t] EXCEPT !.pc = "batch", !.batch = {},
                        !.transitions = tasks[t].transitions \cup moved]
<1>1. tasks[t] \in TaskRow
    BY DEF TypeOK
<1>2. tasks' = [tasks EXCEPT ![t] = row]
    BY Zenon DEF Persist, TypeOK
<1>3. \A x \in moved : x.case \in CasesOf(tasks[t].chunk)
    BY DEF TaskScope, ScopeOf
<1> HIDE DEF moved
<1>4. /\ row.todo = tasks[t].todo /\ row.batch = {}
      /\ row.transitions = tasks[t].transitions \cup moved /\ row.chunk = tasks[t].chunk
    BY <1>1, Zenon DEF TaskRow
<1> HIDE DEF row
<1>5. ScopeOf(row)
    BY <1>3, <1>4 DEF TaskScope, ScopeOf
<1> QED
    BY <1>2, <1>5, ScopeUpdate, Zenon

(* The steps that replace the task row keep it within its chunk.           *)
LEMMA RowScope ==
    ASSUME TypeOK, TaskScope, NEW t \in Task,
           \/ \E c \in Chunk : Claim(t, c)
           \/ ExtendLease(t) \/ DatabaseError(t) \/ SummaryReadError(t)
    PROVE  TaskScope'
<1>1. tasks[t] \in TaskRow
    BY DEF TypeOK
<1>2. ASSUME NEW c \in Chunk, Claim(t, c) PROVE TaskScope'
    <2> DEFINE row == [IdleTask EXCEPT !.pc = "claimed", !.chunk = c,
                             !.token = lastToken + 1, !.epoch = admission.epoch]
    <2>1. row.todo = {} /\ row.batch = {} /\ row.transitions = {}
        BY DEF IdleTask
    <2>2. tasks' = [tasks EXCEPT ![t] = row]
        BY <1>2, Zenon DEF Claim
    <2> HIDE DEF row
    <2> QED
        BY <2>1, <2>2, IdleScope, ScopeUpdate, Zenon
<1>3. CASE ExtendLease(t)
    <2> DEFINE row == [tasks[t] EXCEPT !.pc = "batch", !.todo = CasesOf(tasks[t].chunk),
                                       !.beat = "on"]
    <2>1. /\ row.todo = CasesOf(tasks[t].chunk) /\ row.batch = tasks[t].batch
          /\ row.transitions = tasks[t].transitions /\ row.chunk = tasks[t].chunk
        BY <1>1 DEF TaskRow
    <2>2. tasks' = [tasks EXCEPT ![t] = row]
        BY <1>3 DEF ExtendLease, TypeOK
    <2> HIDE DEF row
    <2>3. ScopeOf(row)
        BY <2>1, Zenon DEF TaskScope, ScopeOf
    <2> QED
        BY <2>2, <2>3, ScopeUpdate, Zenon
<1>4. CASE DatabaseError(t)
    <2> DEFINE row == [IdleTask EXCEPT !.pc = "delayed", !.chunk = tasks[t].chunk,
                             !.token = tasks[t].token, !.resumeAt = RedeliverAt]
    <2>1. row.todo = {} /\ row.batch = {} /\ row.transitions = {}
        BY DEF IdleTask
    <2>2. tasks' = [tasks EXCEPT ![t] = row]
        BY <1>4 DEF DatabaseError
    <2> HIDE DEF row
    <2> QED
        BY <2>1, <2>2, IdleScope, ScopeUpdate, Zenon
<1>5. CASE SummaryReadError(t)
    <2> DEFINE row == [tasks[t] EXCEPT !.pc = "orphan", !.resumeAt = RedeliverAt]
    <2>1. /\ row.todo = tasks[t].todo /\ row.batch = tasks[t].batch
          /\ row.transitions = tasks[t].transitions /\ row.chunk = tasks[t].chunk
        BY <1>1 DEF TaskRow
    <2>2. tasks' = [tasks EXCEPT ![t] = row]
        BY <1>5, Zenon DEF SummaryReadError, TypeOK
    <2> HIDE DEF row
    <2>3. ScopeOf(row)
        BY <2>1 DEF TaskScope, ScopeOf
    <2> QED
        BY <2>2, <2>3, ScopeUpdate, Zenon
<1> QED
    BY <1>2, <1>3, <1>4, <1>5

(* The tasks of a process that dies hold nothing.                          *)
LEMMA CrashScope ==
    ASSUME TypeOK, TaskScope, NEW w \in Worker, Crash(w) PROVE TaskScope'
<1>1. ScopeOf([IdleTask EXCEPT !.pc = "dead"])
    BY Zenon DEF ScopeOf, IdleTask
<1> SUFFICES ASSUME NEW u \in Task PROVE ScopeOf(tasks'[u])
    BY DEF TaskScope, ScopeOf, CasesOf
<1>2. tasks'[u] = [IdleTask EXCEPT !.pc = "dead"] \/ tasks'[u] = tasks[u]
    BY Zenon DEF Crash
<1> QED
    BY <1>1, <1>2 DEF TaskScope

(* A step that leaves the tasks alone keeps them within their chunks.      *)
LEMMA SameTasksScope ==
    ASSUME TaskScope, tasks' = tasks PROVE TaskScope'
BY Zenon DEF TaskScope, ScopeOf, CasesOf

-----------------------------------------------------------------------------
(* What a step may do to a chunk: leave it and its rows as they are (but   *)
(* for leases), work on it while it stays open, or settle it.              *)

LeavesChunk(c) ==
    /\ chunks'[c].status = chunks[c].status
    /\ receipts'[c] = receipts[c]
    /\ \A k \in CasesOf(c) :
        /\ executions'[k] = executions[k]
        /\ aggregates'[k] = aggregates[k]
        /\ \A n \in AttemptNo : attempts'[k][n].status = attempts[k][n].status

WorksOnChunk(c) ==
    /\ chunks[c].status \notin TerminalChunk
    /\ chunks'[c].status \notin TerminalChunk
    /\ receipts'[c] = receipts[c]

WritesReceipt(c) ==
    /\ receipts'[c].disposition = chunks'[c].status
    /\ receipts'[c].evidence = Evidence(c, executions, attempts)'
    /\ \A k \in CasesOf(c) :
        /\ executions'[k].status \notin OpenExecution
        /\ \A n \in AttemptNo : attempts'[k][n].status # "running"

SettlesChunk(c) ==
    /\ chunks[c].status \notin TerminalChunk
    /\ chunks'[c].status \in TerminalChunk
    /\ WritesReceipt(c)

ChunkStep == \A c \in Chunk : LeavesChunk(c) \/ WorksOnChunk(c) \/ SettlesChunk(c)

Settled == ReceiptMatchesChunk /\ SettledHasNoOpenWork /\ ReceiptStaysTrue

(* The evidence of a chunk that is left alone does not change.             *)
LEMMA SameEvidence ==
    ASSUME TypeOK, NEW c \in Chunk, LeavesChunk(c)
    PROVE  Evidence(c, executions, attempts)' = Evidence(c, executions, attempts)
<1> DEFINE counted == {k \in CasesOf(c) :
            /\ executions[k].status \in TerminalExecution
            /\ executions[k].attemptNo > 0
            /\ aggregates[k].attempt = executions[k].attemptNo
            /\ attempts[k][executions[k].attemptNo].status \in FinishedAttempt}
<1>1. ASSUME NEW k \in CasesOf(c), executions[k].attemptNo > 0
      PROVE  executions[k].attemptNo \in AttemptNo
    BY <1>1 DEF TypeOK, ExecutionRow, AttemptNo, CasesOf
<1>2. CasesOf(c)' = CasesOf(c)
    BY Zenon DEF CasesOf
<1>3. counted' = counted
    BY <1>1, <1>2, SMTT(30), Z3T(30) DEF LeavesChunk
<1>4. Evidence(c, executions, attempts)
        = {[case |-> k, kind |-> aggregates[k].kind] : k \in counted}
    BY Zenon DEF Evidence, Counted
<1>5. Evidence(c, executions, attempts)'
        = {[case |-> k, kind |-> aggregates'[k].kind] : k \in counted'}
    BY Zenon DEF Evidence, Counted
<1>6. \A k \in counted : aggregates'[k].kind = aggregates[k].kind
    BY Zenon DEF LeavesChunk
<1> HIDE DEF counted
<1> QED
    BY <1>3, <1>4, <1>5, <1>6

(* Steps of these three kinds keep the invariants of settled chunks.       *)
LEMMA ChunkStepSettled ==
    ASSUME TypeOK, Settled, ChunkStep PROVE Settled'
<1> SUFFICES ASSUME NEW c \in Chunk
             PROVE  /\ receipts'[c].disposition =
                        IF chunks'[c].status \in TerminalChunk THEN chunks'[c].status ELSE "none"
                    /\ chunks'[c].status \in TerminalChunk =>
                        /\ receipts'[c].evidence = Evidence(c, executions, attempts)'
                        /\ \A k \in CasesOf(c) :
                            /\ executions'[k].status \notin OpenExecution
                            /\ \A n \in AttemptNo : attempts'[k][n].status # "running"
    BY Zenon
       DEF Settled, ReceiptMatchesChunk, SettledHasNoOpenWork,
           ReceiptStaysTrue, TerminalChunks,
           CasesOf
<1>1. CASE LeavesChunk(c)
    BY <1>1, SameEvidence, SMTT(30), Z3T(30)
       DEF LeavesChunk, Settled, ReceiptMatchesChunk, SettledHasNoOpenWork,
           ReceiptStaysTrue, TerminalChunks
<1>2. CASE WorksOnChunk(c)
    BY <1>2, Zenon
       DEF WorksOnChunk, Settled, ReceiptMatchesChunk, TerminalChunks
<1>3. CASE SettlesChunk(c)
    BY <1>3, Zenon DEF SettlesChunk, WritesReceipt
<1> QED
    BY <1>1, <1>2, <1>3 DEF ChunkStep

(* Settle on a chunk without a receipt: the receipt counts what the rows   *)
(* say in the end, and nothing of the chunk stays open.                    *)
LEMMA SettleFresh ==
    ASSUME NEW C, NEW exe \in [Case -> ExecutionRow], NEW att,
           Settle(C, exe, att), aggregates' = aggregates,
           NEW c \in Chunk, c \in C, receipts[c].disposition = "none"
    PROVE  WritesReceipt(c)
<1> DEFINE fresh == Unsettled(C)
           retired == Retire(att, {k \in Case : ChunkOf[k] \in fresh}, "stale")
           resolved == Resolved(fresh, exe)
<1>1. /\ attempts' = retired
      /\ executions' = resolved
      /\ receipts' = [d \in Chunk |->
                IF d \in fresh
                THEN [disposition |-> chunks'[d].status,
                      evidence |-> Evidence(d, resolved, retired)]
                ELSE receipts[d]]
    BY Zenon DEF Settle
<1>2. c \in fresh
    BY Zenon DEF Unsettled
<1>3. receipts'[c].disposition = chunks'[c].status
    BY <1>1, <1>2, Zenon
<1>4. receipts'[c].evidence = Evidence(c, executions, attempts)'
    <2>1. receipts'[c].evidence = Evidence(c, resolved, retired)
        BY <1>1, <1>2
    <2>2. Evidence(c, executions, attempts)' = Evidence(c, executions', attempts')
        BY Zenon DEF Evidence, Counted, CasesOf
    <2> HIDE DEF resolved, retired
    <2> QED
        BY <1>1, <2>1, <2>2, Zenon
<1>5. ASSUME NEW k \in CasesOf(c), NEW n \in AttemptNo
      PROVE  attempts'[k][n].status # "running"
    BY <1>1, <1>2, Zenon DEF Retire, Ended, CasesOf
<1>6. ASSUME NEW k \in CasesOf(c)
      PROVE  executions'[k].status \notin OpenExecution
    <2>1. k \in Case /\ ChunkOf[k] \in fresh
        BY <1>2, Zenon DEF CasesOf
    <2> HIDE DEF fresh
    <2> QED
        BY <1>1, <2>1, ResolvedRow, Zenon
<1> QED
    BY <1>3, <1>4, <1>5, <1>6, Zenon DEF WritesReceipt

(* Settle leaves the other chunks to the rest of the transaction.          *)
LEMMA SettleOther ==
    ASSUME NEW C, NEW exe, NEW att, Settle(C, exe, att),
           NEW c \in Chunk, ~(c \in C /\ receipts[c].disposition = "none")
    PROVE  /\ receipts'[c] = receipts[c]
           /\ \A k \in CasesOf(c) :
                /\ executions'[k] = exe[k]
                /\ \A n \in AttemptNo : attempts'[k][n] = att[k][n]
<1> DEFINE fresh == Unsettled(C)
           retired == Retire(att, {k \in Case : ChunkOf[k] \in fresh}, "stale")
           resolved == Resolved(fresh, exe)
<1>1. /\ attempts' = retired
      /\ executions' = resolved
      /\ receipts' = [d \in Chunk |->
                IF d \in fresh
                THEN [disposition |-> chunks'[d].status,
                      evidence |-> Evidence(d, resolved, retired)]
                ELSE receipts[d]]
    BY Zenon DEF Settle
<1>2. c \notin fresh
    BY DEF Unsettled
<1>3. ASSUME NEW k \in CasesOf(c)
      PROVE  k \in Case /\ resolved[k] = exe[k]
    BY <1>2, Zenon DEF Resolved, CasesOf
<1>4. ASSUME NEW k \in CasesOf(c), NEW n \in AttemptNo
      PROVE  retired[k][n] = att[k][n]
    BY <1>2, Zenon DEF Retire, CasesOf
<1> HIDE DEF fresh, retired, resolved
<1> QED
    BY <1>1, <1>2, <1>3, <1>4

LEMMA SettleOtherAttempts ==
    ASSUME NEW C, NEW exe, NEW att, Settle(C, exe, att), NEW k \in Case, ChunkOf[k] \notin C
    PROVE  \A n \in AttemptNo : attempts'[k][n] = att[k][n]
<1>1. ChunkOf[k] \in Chunk /\ k \in CasesOf(ChunkOf[k])
    BY ChunkAssumption, Zenon DEF CasesOf
<1> QED
    BY <1>1, SettleOther

LEMMA SettleOneOther ==
    ASSUME NEW c, Settle({c}, executions, attempts), NEW e \in Chunk, e # c
    PROVE  /\ receipts'[e] = receipts[e]
           /\ \A k \in CasesOf(e) :
                /\ executions'[k] = executions[k]
                /\ \A n \in AttemptNo : attempts'[k][n] = attempts[k][n]
<1> DEFINE D == {c}
<1>1. e \notin D /\ Settle(D, executions, attempts)
    BY Zenon
<1> HIDE DEF D
<1> QED
    BY <1>1, SettleOther

LEMMA CancelOtherAttempts ==
    ASSUME CancelExecution, NEW k \in Case, receipts[ChunkOf[k]].disposition # "none"
    PROVE  \A n \in AttemptNo : attempts'[k][n] = Retire(attempts, Case, "cancelled")[k][n]
<1> DEFINE C == {c \in Chunk : receipts[c].disposition = "none"}
           att == Retire(attempts, Case, "cancelled")
<1>1. PICK exe : Settle(C, exe, att)
    BY Zenon DEF CancelExecution
<1>2. ChunkOf[k] \notin C
    BY Zenon
<1> HIDE DEF C, att
<1>3. \A n \in AttemptNo : attempts'[k][n] = att[k][n]
    BY <1>1, <1>2, SettleOtherAttempts
<1> QED
    BY <1>3, Zenon DEF att

(* A step that changes only the chunk c, which stays open, and its cases.  *)
LEMMA WorkIsChunkStep ==
    ASSUME NEW c \in Chunk,
           chunks[c].status \notin TerminalChunk,
           chunks'[c].status \notin TerminalChunk,
           receipts' = receipts,
           \A d \in Chunk : d # c => chunks'[d].status = chunks[d].status,
           \A k \in Case : ChunkOf[k] # c =>
                /\ executions'[k] = executions[k]
                /\ aggregates'[k] = aggregates[k]
                /\ \A n \in AttemptNo : attempts'[k][n].status = attempts[k][n].status
    PROVE  ChunkStep
BY Zenon DEF ChunkStep, WorksOnChunk, LeavesChunk, CasesOf

(* A step that leaves the rows alone is harmless to every chunk.           *)
LEMMA UnchangedIsChunkStep == ASSUME UNCHANGED rows PROVE ChunkStep
BY DEF ChunkStep, LeavesChunk, rows

(* A claim leaves settled chunks alone.                                    *)
LEMMA ClaimIsChunkStep ==
    ASSUME TypeInv, NEW t \in Task, NEW c \in Chunk, Claim(t, c) PROVE ChunkStep
<1>1. PICK now \in Now :
        /\ chunks[c].status = "pending" \/ Leased(c)
        /\ chunks' = [chunks EXCEPT ![c] =
            [@ EXCEPT !.status = "leased", !.token = lastToken + 1, !.until = now + ClaimLease]]
    BY Zenon DEF Claim
<1>2. chunks'[c].status = "leased"
    BY <1>1 DEF TypeInv, TypeOK, ChunkRow
<1>3. chunks[c].status \notin TerminalChunk /\ chunks'[c].status \notin TerminalChunk
    BY <1>1, <1>2 DEF Leased, TerminalChunk
<1>4. \A d \in Chunk : d # c => chunks'[d].status = chunks[d].status
    BY <1>1, Zenon DEF TypeInv, TypeOK
<1> QED
    BY <1>3, <1>4, WorkIsChunkStep DEF Claim

(* Extending a lease changes no status.                                    *)
LEMMA ExtendIsChunkStep ==
    ASSUME TypeInv, NEW t \in Task, ExtendLease(t) \/ HeartbeatRenew(t) PROVE ChunkStep
<1>1. PICK now \in Now : chunks' = ExtendedLease(t, now)
    BY DEF ExtendLease, HeartbeatRenew
<1>2. \A c \in Chunk : chunks'[c].status = chunks[c].status
    BY <1>1 DEF ExtendedLease, TypeInv, TypeOK, ChunkRow
<1>3. UNCHANGED <<executions, attempts, aggregates, receipts>>
    BY DEF ExtendLease, HeartbeatRenew
<1> QED
    BY <1>2, <1>3 DEF ChunkStep, LeavesChunk

(* The heartbeat renews leases of attempts and changes no status.          *)
LEMMA HeartbeatKeepsStatuses ==
    ASSUME TypeInv, NEW t \in Task, HeartbeatAttempts(t),
           NEW k \in Case, NEW n \in AttemptNo
    PROVE  attempts'[k][n].status = attempts[k][n].status
<1>1. PICK now \in Now :
        \/ attempts'[k][n] = attempts[k][n]
        \/ attempts'[k][n] = [attempts[k][n] EXCEPT !.until = now + AttemptLease]
    BY DEF HeartbeatAttempts
<1>2. attempts[k][n] \in AttemptRow
    BY DEF TypeInv, TypeOK
<1> QED
    BY <1>1, <1>2, Zenon DEF AttemptRow

(* The renewal of attempts leaves settled chunks alone.                    *)
LEMMA HeartbeatAttemptsIsChunkStep ==
    ASSUME TypeInv, NEW t \in Task, HeartbeatAttempts(t) PROVE ChunkStep
<1>1. \A k \in Case, n \in AttemptNo : attempts'[k][n].status = attempts[k][n].status
    BY HeartbeatKeepsStatuses
<1> QED
    BY <1>1, Zenon DEF HeartbeatAttempts, ChunkStep, LeavesChunk, CasesOf

(* Allocation leaves settled chunks alone: its own chunk is leased.        *)
LEMMA AllocateIsChunkStep ==
    ASSUME TypeInv, TaskScope, NEW t \in Task, NEW B \in SUBSET Case, Allocate(t, B)
    PROVE  ChunkStep
<1> DEFINE c == tasks[t].chunk
<1>1. PICK now \in Now : HoldsLease(t, now) /\ StartAttempts(t, Eligible(B, now), now)
    BY DEF Allocate
<1>2. B \subseteq CasesOf(c) /\ B # {}
    BY DEF Allocate, TaskScope, ScopeOf
<1>3. c \in Chunk
    BY <1>2, ChunkAssumption, Zenon DEF CasesOf
<1>4. chunks[c].status = "leased" /\ chunks' = chunks /\ receipts' = receipts
      /\ aggregates' = aggregates
    BY <1>1 DEF HoldsLease, Allocate
<1>5. ASSUME NEW k \in Case, ChunkOf[k] # c
      PROVE  executions'[k] = executions[k]
             /\ \A n \in AttemptNo : attempts'[k][n].status = attempts[k][n].status
    <2>1. k \notin Eligible(B, now)
        BY <1>2, <1>5, Zenon DEF Eligible, CasesOf
    <2> QED
        BY <1>1, <2>1, Zenon DEF StartAttempts
<1>6. chunks[c].status \notin TerminalChunk
    BY <1>4, Zenon DEF TerminalChunk
<1> HIDE DEF c
<1> QED
    BY <1>3, <1>4, <1>5, <1>6, WorkIsChunkStep, Zenon

(* Persistence leaves settled chunks alone: its attempts are running.      *)
LEMMA PersistIsChunkStep ==
    ASSUME TypeInv, TaskScope, NEW t \in Task, NEW outcome \in [Case -> Outcome],
           Persist(t, outcome)
    PROVE  ChunkStep
<1> DEFINE c == tasks[t].chunk
           done == {a \in tasks[t].batch : outcome[a.case] = "completed"}
<1>1. /\ done # {} => \E now \in Now : HoldsLease(t, now)
      /\ aggregates' = [k \in Case |->
                IF \E a \in done : a.case = k
                THEN [attempt |-> executions[k].attemptNo, kind |-> "result"]
                ELSE aggregates[k]]
      /\ UNCHANGED <<chunks, executions, attempts, receipts>>
    BY Zenon DEF Persist
<1>2. \A a \in done : a.case \in CasesOf(c)
    BY DEF TaskScope, ScopeOf
<1>3. CASE done = {}
    <2>1. \A k \in Case : aggregates'[k] = aggregates[k]
        BY <1>1, <1>3
    <2> QED
        BY <1>1, <2>1, Zenon DEF ChunkStep, LeavesChunk, CasesOf
<1>4. CASE done # {}
    <2>1. chunks[c].status = "leased"
        BY <1>1, <1>4, Zenon DEF HoldsLease
    <2>2. c \in Chunk /\ chunks[c].status \notin TerminalChunk
        BY <1>2, <1>4, <2>1, ChunkAssumption, Zenon DEF CasesOf, TerminalChunk
    <2>3. \A k \in Case : ChunkOf[k] # c => aggregates'[k] = aggregates[k]
        BY <1>1, <1>2, Zenon DEF CasesOf
    <2> HIDE DEF c, done
    <2> QED
        BY <1>1, <2>2, <2>3, WorkIsChunkStep, Zenon
<1> QED
    BY <1>3, <1>4

(* Finalization leaves settled chunks alone: its own chunk is leased.      *)
LEMMA FinalizeIsChunkStep ==
    ASSUME TypeInv, TaskScope, NEW t \in Task, Finalize(t) PROVE ChunkStep
<1> DEFINE c == tasks[t].chunk
           X == tasks[t].transitions
<1>1. CASE X = {}
    BY <1>1, Zenon DEF Finalize, ChunkStep, LeavesChunk
<1>2. CASE X # {}
    <2>1. PICK now \in Now, delay \in [Case -> RetryDelays] :
            ChunkIsLive(t, now) /\ ApplyTransitions(X, now, delay)
        BY <1>2, Zenon DEF Finalize
    <2>2. \A x \in X : x.case \in CasesOf(c)
        BY Zenon DEF TaskScope, ScopeOf
    <2>3. c \in Chunk /\ chunks[c].status \notin TerminalChunk
        BY <1>2, <2>1, <2>2, ChunkAssumption
           DEF CasesOf, ChunkIsLive, Leased, TerminalChunk
    <2>4. ASSUME NEW k \in Case, ChunkOf[k] # c
          PROVE  /\ executions'[k] = executions[k]
                 /\ aggregates'[k] = aggregates[k]
                 /\ \A n \in AttemptNo : attempts'[k][n].status = attempts[k][n].status
        <3>1. k \notin {x.case : x \in X}
            BY <2>2, <2>4 DEF CasesOf
        <3> HIDE DEF X
        <3> QED
            BY <2>1, <3>1, Zenon DEF ApplyTransitions
    <2>5. chunks' = chunks /\ receipts' = receipts
        BY Zenon DEF Finalize
    <2> HIDE DEF c
    <2> QED
        BY <2>3, <2>4, <2>5, WorkIsChunkStep, Zenon
<1> QED
    BY <1>1, <1>2, Zenon

(* A rejected finalization leaves settled chunks alone.                    *)
LEMMA FinalizeRejectedIsChunkStep ==
    ASSUME TypeInv, TaskScope, NEW t \in Task, FinalizeRejected(t) PROVE ChunkStep
<1> DEFINE c == tasks[t].chunk
<1>1. UNCHANGED <<chunks, executions, aggregates, receipts>>
    BY Zenon DEF FinalizeRejected
<1>2. CASE UNCHANGED attempts
    BY <1>1, <1>2 DEF ChunkStep, LeavesChunk
<1>3. ASSUME NEW now \in Now, ChunkIsLive(t, now),
             attempts' = [k \in Case |-> [n \in AttemptNo |->
                IF LostAttempt(t, k, n, now) THEN Ended("stale") ELSE attempts[k][n]]]
      PROVE  ChunkStep
    <2>1. \A x \in tasks[t].transitions : x.case \in CasesOf(c)
        BY DEF TaskScope, ScopeOf
    <2>2. c \in Chunk /\ chunks[c].status \notin TerminalChunk
        BY <1>3, <2>1, ChunkAssumption, Zenon
        DEF FinalizeRejected, CasesOf, ChunkIsLive, Leased, TerminalChunk
    <2>3. ASSUME NEW k \in Case, ChunkOf[k] # c, NEW n \in AttemptNo
          PROVE  ~LostAttempt(t, k, n, now)
        BY <2>1, <2>3, Zenon DEF LostAttempt, CasesOf
    <2>4. \A k \in Case : ChunkOf[k] # c =>
                \A n \in AttemptNo : attempts'[k][n].status = attempts[k][n].status
        BY <1>3, <2>3, Zenon
    <2> HIDE DEF c
    <2> QED
        BY <1>1, <2>2, <2>4, WorkIsChunkStep, Zenon
<1> QED
    BY <1>2, <1>3, Zenon DEF FinalizeRejected

(* Taking the lease off a row gives it the status asked for.               *)
LEMMA UnleasedStatus ==
    ASSUME NEW row, NEW s PROVE Unleased(row, s).status = s
BY Zenon DEF Unleased

(* A worker that settles its chunk does what a settlement must, and leaves *)
(* the other chunks alone.                                                 *)
LEMMA WorkerSettlementIsChunkStep ==
    ASSUME TypeInv, Settled, NEW t \in Task, Complete(t) \/ FailExhausted(t) \/ Release(t)
    PROVE  ChunkStep
<1> DEFINE c == tasks[t].chunk
<1>1. PICK s \in {"completed", "failed", "pending"} :
            chunks' = [chunks EXCEPT ![c] = Unleased(@, s)]
            /\ ((Release(t) /\ s = "pending")
                \/ (s \in TerminalChunk /\ (Complete(t) \/ FailExhausted(t))
                    /\ Settle({c}, executions, attempts)))
    BY Statuses, Zenon DEF Complete, FailExhausted, Release
<1>2. chunks[c].status = "leased"
    BY Zenon DEF Complete, FailExhausted, Release, HoldsLease
<1>3. chunks[c].status \notin TerminalChunk
    BY <1>2 DEF TerminalChunk
<1>4. c \in Chunk => chunks'[c].status = s
    <2>1. c \in Chunk => chunks'[c] = Unleased(chunks[c], s)
        BY <1>1, Zenon DEF TypeInv, TypeOK
    <2> HIDE DEF c
    <2> QED
        BY <2>1, UnleasedStatus, Zenon
<1>5. \A d \in Chunk : d # c => chunks'[d] = chunks[d]
    BY <1>1 DEF TypeInv, TypeOK
<1>6. CASE Release(t) /\ s = "pending"
    <2>1. UNCHANGED <<executions, attempts, aggregates, receipts>>
        BY <1>6, Zenon DEF Release
    <2>2. s \notin TerminalChunk
        BY <1>6 DEF TerminalChunk
    <2> HIDE DEF c
    <2> QED
        BY <1>3, <1>4, <1>5, <2>1, <2>2, Zenon
           DEF ChunkStep, WorksOnChunk, LeavesChunk
<1>7. CASE s \in TerminalChunk /\ (Complete(t) \/ FailExhausted(t))
            /\ Settle({c}, executions, attempts)
    <2>1. aggregates' = aggregates
        BY <1>7, Zenon DEF Complete, FailExhausted
    <2>2. ASSUME NEW d \in Chunk, d # c PROVE LeavesChunk(d)
        <3> DEFINE C == {c}
        <3>1. d \notin C /\ Settle(C, executions, attempts)
            BY <1>7, <2>2, Zenon
        <3> HIDE DEF c, C
        <3>2. /\ receipts'[d] = receipts[d]
              /\ \A k \in CasesOf(d) :
                    /\ executions'[k] = executions[k]
                    /\ \A n \in AttemptNo : attempts'[k][n] = attempts[k][n]
            BY <2>1, <3>1, SettleOther
        <3> QED
            BY <1>5, <2>1, <2>2, <3>2, Zenon DEF LeavesChunk
    <2>3. ASSUME NEW d \in Chunk, d = c PROVE SettlesChunk(d)
        <3>1. receipts[d].disposition = "none"
            BY <1>3, <2>3, Zenon
               DEF Settled, ReceiptMatchesChunk, TerminalChunks
        <3>2. executions \in [Case -> ExecutionRow]
            BY Zenon DEF TypeInv, TypeOK
        <3>3. d \in {d} /\ Settle({d}, executions, attempts)
            BY <1>7, <2>3, Zenon
        <3> HIDE DEF c
        <3>4. WritesReceipt(d)
            BY <2>1, <3>1, <3>2, <3>3, SettleFresh
        <3> QED
            BY <1>3, <1>4, <1>7, <2>3, <3>4, Zenon DEF SettlesChunk
    <2> QED
        BY <2>2, <2>3 DEF ChunkStep
<1> QED
    BY <1>1, <1>6, <1>7

(* Recovery settles the chunks it fails and leaves settled ones alone.     *)
LEMMA RecoverIsChunkStep ==
    ASSUME TypeInv, Settled, NEW R \in SUBSET Chunk, NEW F \in SUBSET Chunk, Recover(R, F)
    PROVE  ChunkStep
<1> DEFINE att == Retire(attempts, {k \in Case : ChunkOf[k] \in R \cup F}, "stale")
<1>1. Settle(F, executions, att) /\ aggregates' = aggregates
    BY DEF Recover
<1>2. \A c \in R \cup F : chunks[c].status = "leased"
    BY DEF Recover, ExpiredLeases, Leased
<1>3. R \cap F = {}
    <2>1. ASSUME NEW c \in Chunk, c \in R, c \in F PROVE FALSE
        <3>1. chunks[c].recoveries \in Nat
            BY Zenon DEF TypeInv, TypeOK, ChunkRow
        <3> QED
            BY <2>1, <3>1, BudgetAssumption DEF Recover
    <2> QED
        BY <2>1
<1>4. ASSUME NEW c \in Chunk, c \notin R \cup F PROVE LeavesChunk(c)
    <2>1. chunks'[c] = chunks[c]
        BY <1>4 DEF Recover
    <2>2. \A k \in CasesOf(c), n \in AttemptNo : att[k][n] = attempts[k][n]
        BY <1>4, Zenon DEF Retire, CasesOf
    <2> HIDE DEF att
    <2>3. /\ receipts'[c] = receipts[c]
          /\ \A k \in CasesOf(c) :
                /\ executions'[k] = executions[k]
                /\ \A n \in AttemptNo : attempts'[k][n] = att[k][n]
        BY <1>1, <1>4, SettleOther
    <2> QED
        BY <1>1, <2>1, <2>2, <2>3 DEF LeavesChunk
<1>5. ASSUME NEW c \in R PROVE WorksOnChunk(c)
    <2>1. chunks'[c].status = "pending"
        BY DEF Recover, Unleased
    <2>2. receipts'[c] = receipts[c]
        <3> HIDE DEF att
        <3> QED
            BY <1>1, <1>3, SettleOther, Zenon
    <2> QED
        BY <1>2, <2>1, <2>2 DEF WorksOnChunk, TerminalChunk
<1>6. ASSUME NEW c \in F PROVE SettlesChunk(c)
    <2>1. chunks'[c].status = "failed"
        BY <1>3, Zenon DEF Recover, Unleased
    <2>2. chunks[c].status \notin TerminalChunk /\ chunks'[c].status \in TerminalChunk
        BY <1>2, <2>1, Zenon DEF TerminalChunk
    <2>3. receipts[c].disposition = "none"
        BY <2>2, Zenon DEF Settled, ReceiptMatchesChunk, TerminalChunks
    <2>4. executions \in [Case -> ExecutionRow]
        BY Zenon DEF TypeInv, TypeOK
    <2> HIDE DEF att
    <2>5. WritesReceipt(c)
        BY <1>1, <2>3, <2>4, SettleFresh
    <2> QED
        BY <2>2, <2>5 DEF SettlesChunk
<1> QED
    BY <1>4, <1>5, <1>6 DEF ChunkStep

(* Cancellation settles what was not settled and leaves the rest alone.    *)
LEMMA CancelIsChunkStep ==
    ASSUME TypeInv, Settled, CancelExecution PROVE ChunkStep
<1> DEFINE C == {c \in Chunk : receipts[c].disposition = "none"}
           att == Retire(attempts, Case, "cancelled")
<1>1. Settle(C, CancelledExecutions, att) /\ aggregates' = aggregates
    BY DEF CancelExecution, CancelledExecutions
<1>2. CancelledExecutions \in [Case -> ExecutionRow]
    BY CancelledType DEF TypeInv
<1>3. ASSUME NEW c \in Chunk, chunks[c].status \in TerminalChunk PROVE LeavesChunk(c)
    <2>1. chunks'[c] = chunks[c]
        BY <1>3 DEF CancelExecution, TerminalChunk
    <2>2. receipts[c].disposition # "none"
        BY <1>3 DEF Settled, ReceiptMatchesChunk, TerminalChunks, TerminalChunk
    <2>3. \A k \in CasesOf(c) :
            /\ CancelledExecutions[k] = executions[k]
            /\ \A n \in AttemptNo : att[k][n] = attempts[k][n]
        BY Zenon, <1>3
           DEF Settled, SettledHasNoOpenWork, TerminalChunks,
               CancelledExecutions, Retire,
                    CasesOf
    <2>4. /\ receipts'[c] = receipts[c]
          /\ \A k \in CasesOf(c) :
                /\ executions'[k] = CancelledExecutions[k]
                /\ \A n \in AttemptNo : attempts'[k][n] = att[k][n]
        <3>1. ~(c \in C /\ receipts[c].disposition = "none")
            BY <2>2, Zenon
        <3> HIDE DEF att, C
        <3> QED
            BY <1>1, <3>1, SettleOther
    <2>5. aggregates' = aggregates
        BY <1>1, Zenon
    <2>6. \A k \in CasesOf(c) :
            /\ executions'[k] = executions[k]
            /\ \A n \in AttemptNo : attempts'[k][n] = attempts[k][n]
        <3> HIDE DEF att
        <3> QED
            BY <2>3, <2>4
    <2> QED
        BY <2>1, <2>4, <2>5, <2>6, Zenon DEF LeavesChunk
<1>4. ASSUME NEW c \in Chunk, chunks[c].status \notin TerminalChunk PROVE SettlesChunk(c)
    <2>1. chunks'[c].status = "cancelled"
        BY <1>4, Zenon
           DEF CancelExecution, Unleased, TypeInv, TypeOK, ChunkRow,
               ChunkStatus
    <2>2. receipts[c].disposition = "none"
        BY <1>4 DEF Settled, ReceiptMatchesChunk, TerminalChunks
    <2>3. c \in C
        BY <2>2, Zenon
    <2> HIDE DEF att, C
    <2>4. WritesReceipt(c)
        BY <1>1, <1>2, <2>2, <2>3, SettleFresh
    <2>5. chunks'[c].status \in TerminalChunk
        BY <2>1, Zenon DEF TerminalChunk
    <2> QED
        BY <1>4, <2>4, <2>5 DEF SettlesChunk
<1> QED
    BY <1>3, <1>4 DEF ChunkStep

-----------------------------------------------------------------------------
(* Which steps start work.                                                 *)

(* A step that starts no attempt, and leaves the executions that still     *)
(* have a running attempt as they are.                                     *)
StartsNothing ==
    \A k \in Case, n \in AttemptNo : attempts'[k][n].status = "running" =>
        attempts[k][n].status = "running" /\ executions'[k] = executions[k]

LeasesNothing == \A c \in Chunk : chunks'[c].status = "leased" => Leased(c)

(* A step that starts no attempt keeps attempts exclusive.                 *)
LEMMA StartsNothingKeeps ==
    ASSUME OneRunningAttempt, StartsNothing PROVE OneRunningAttempt'
BY DEF StartsNothing, OneRunningAttempt, IsCurrent

(* Settlement starts no attempt.                                           *)
LEMMA SettleStartsNothing ==
    ASSUME NEW C, NEW exe \in [Case -> ExecutionRow], NEW att,
           Settle(C, exe, att), aggregates' = aggregates,
           \A k \in Case, n \in AttemptNo : att[k][n].status = "running" =>
                attempts[k][n].status = "running" /\ exe[k] = executions[k]
    PROVE  StartsNothing
<1> SUFFICES ASSUME NEW k \in Case, NEW n \in AttemptNo, attempts'[k][n].status = "running"
             PROVE  attempts[k][n].status = "running" /\ executions'[k] = executions[k]
    BY Zenon DEF StartsNothing
<1> DEFINE c == ChunkOf[k]
<1>1. c \in Chunk /\ k \in CasesOf(c)
    BY ChunkAssumption, Zenon DEF CasesOf
<1>2. ~(c \in C /\ receipts[c].disposition = "none")
    <2>1. ASSUME WritesReceipt(c) PROVE FALSE
        BY <1>1, <2>1 DEF WritesReceipt
    <2> QED
        BY <1>1, <2>1, SettleFresh, Zenon
<1>3. executions'[k] = exe[k] /\ attempts'[k][n] = att[k][n]
    <2> HIDE DEF c
    <2>1. \A j \in CasesOf(c) :
            /\ executions'[j] = exe[j]
            /\ \A m \in AttemptNo : attempts'[j][m] = att[j][m]
        BY <1>1, <1>2, SettleOther
    <2> QED
        BY <1>1, <2>1, Zenon
<1> QED
    BY <1>3, Zenon

(* Finalization starts no attempt.                                         *)
LEMMA FinalizeStartsNothing ==
    ASSUME TypeInv, OneRunningAttempt, NEW t \in Task, Finalize(t) PROVE StartsNothing
<1> DEFINE X == tasks[t].transitions
<1>1. CASE X = {}
    BY <1>1, Zenon DEF Finalize, StartsNothing
<1>2. CASE X # {}
    <2>1. PICK now \in Now, delay \in [Case -> RetryDelays] :
            Applicable(t, now) /\ ApplyTransitions(X, now, delay)
        BY <1>2, Zenon DEF Finalize
    <2>2. \A x \in X : IsCurrent(x.case, x.attempt)
        BY <2>1, Zenon DEF Applicable, Authoritative, OwnsAttempt
    <2>3. X \in SUBSET Transition
        BY Zenon DEF TypeInv, TypeOK, TaskRow
    <2> HIDE DEF X
    <2> SUFFICES ASSUME NEW k \in Case, NEW n \in AttemptNo, attempts'[k][n].status = "running"
                 PROVE  attempts[k][n].status = "running" /\ executions'[k] = executions[k]
        BY DEF StartsNothing
    <2>4. CASE k \notin {x.case : x \in X}
        BY <2>1, <2>4, Zenon DEF ApplyTransitions
    <2>5. CASE k \in {x.case : x \in X}
        <3>1. IsCurrent(k, For(X, k).attempt)
            BY <2>2, <2>3, <2>5, ForType
        <3>2. n # For(X, k).attempt /\ attempts'[k][n] = attempts[k][n]
            BY <2>1, <2>5, Zenon DEF ApplyTransitions, Ended
        <3> QED
            BY <3>1, <3>2, Zenon DEF OneRunningAttempt, IsCurrent
    <2> QED
        BY <2>4, <2>5, Zenon
<1> QED
    BY <1>1, <1>2

(* Renewals, rejected finalizations and releases start no attempt.         *)
LEMMA RowsStartNothing ==
    ASSUME TypeInv, NEW t \in Task,
           \/ ExtendLease(t) \/ HeartbeatRenew(t) \/ HeartbeatAttempts(t)
           \/ FinalizeRejected(t) \/ Release(t)
           \/ \E outcome \in [Case -> Outcome] : Persist(t, outcome)
    PROVE  StartsNothing /\ LeasesNothing /\ admission' = admission
<1>1. admission' = admission
    BY Zenon
       DEF ExtendLease, HeartbeatRenew, HeartbeatAttempts, FinalizeRejected,
           Release, Persist
<1>2. CASE ExtendLease(t) \/ HeartbeatRenew(t)
    <2>1. PICK now \in Now : chunks' = ExtendedLease(t, now)
        BY <1>2, Zenon DEF ExtendLease, HeartbeatRenew
    <2>2. \A c \in Chunk : chunks'[c].status = chunks[c].status
        BY <2>1, Zenon DEF ExtendedLease, TypeInv, TypeOK, ChunkRow
    <2> QED
        BY <1>1, <1>2, <2>2
           DEF ExtendLease, HeartbeatRenew, StartsNothing, LeasesNothing,
               Leased
<1>3. CASE HeartbeatAttempts(t)
    <2>1. \A k \in Case, n \in AttemptNo : attempts'[k][n].status = attempts[k][n].status
        BY <1>3, HeartbeatKeepsStatuses, Zenon
    <2> QED
        BY <1>1, <1>3, <2>1, Zenon
           DEF HeartbeatAttempts, StartsNothing, LeasesNothing, Leased
<1>4. CASE FinalizeRejected(t)
    <2>1. UNCHANGED <<chunks, executions>>
        BY <1>4, Zenon DEF FinalizeRejected
    <2>2. ASSUME NEW k \in Case, NEW n \in AttemptNo
          PROVE  attempts'[k][n] = attempts[k][n] \/ attempts'[k][n].status = "stale"
        <3>1. \/ attempts' = attempts
              \/ \E now \in Now : attempts' = [j \in Case |-> [m \in AttemptNo |->
                    IF LostAttempt(t, j, m, now) THEN Ended("stale") ELSE attempts[j][m]]]
            BY <1>4, Zenon DEF FinalizeRejected
        <3>2. attempts'[k][n] = attempts[k][n] \/ attempts'[k][n] = Ended("stale")
            BY <3>1
        <3> QED
            BY <3>2, SMTT(30), Z3T(30) DEF Ended
    <2> QED
        BY <1>1, <2>1, <2>2, Zenon DEF StartsNothing, LeasesNothing, Leased
<1>5. CASE Release(t)
    <2>1. \A c \in Chunk : chunks'[c] = chunks[c] \/ chunks'[c].status = "pending"
        BY <1>5 DEF Release, Unleased, TypeInv, TypeOK
    <2> QED
        BY <1>1, <1>5, <2>1, Zenon
           DEF Release, StartsNothing, LeasesNothing, Leased
<1>6. CASE \E outcome \in [Case -> Outcome] : Persist(t, outcome)
    BY <1>1, <1>6, Zenon DEF Persist, StartsNothing, LeasesNothing, Leased
<1> QED
    BY <1>2, <1>3, <1>4, <1>5, <1>6

(* A worker that settles its chunk starts and leases nothing.              *)
LEMMA SettlementStartsNothing ==
    ASSUME TypeInv, NEW t \in Task, Complete(t) \/ FailExhausted(t)
    PROVE  StartsNothing /\ LeasesNothing /\ admission' = admission
<1>1. /\ Settle({tasks[t].chunk}, executions, attempts)
      /\ aggregates' = aggregates /\ admission' = admission
    BY Zenon DEF Complete, FailExhausted
<1>2. StartsNothing
    BY <1>1, SettleStartsNothing, Zenon DEF TypeInv, TypeOK
<1>3. \A c \in Chunk : chunks'[c] = chunks[c] \/ chunks'[c].status \in {"completed", "failed"}
    BY DEF Complete, FailExhausted, Unleased, TypeInv, TypeOK
<1> QED
    BY <1>1, <1>2, <1>3, Zenon DEF LeasesNothing, Leased

(* Recovery starts and leases nothing.                                     *)
LEMMA RecoverStartsNothing ==
    ASSUME TypeInv, NEW R \in SUBSET Chunk, NEW F \in SUBSET Chunk, Recover(R, F)
    PROVE  StartsNothing /\ LeasesNothing /\ admission' = admission
<1> DEFINE att == Retire(attempts, {k \in Case : ChunkOf[k] \in R \cup F}, "stale")
<1>1. Settle(F, executions, att) /\ aggregates' = aggregates /\ admission' = admission
    BY Zenon DEF Recover
<1>2. \A k \in Case, n \in AttemptNo : att[k][n].status = "running" =>
            attempts[k][n].status = "running"
    BY Zenon DEF Retire, Ended
<1>3. StartsNothing
    <2>1. executions \in [Case -> ExecutionRow]
        BY DEF TypeInv, TypeOK
    <2> HIDE DEF att
    <2> QED
        BY <1>1, <1>2, <2>1, SettleStartsNothing, Zenon
<1>4. \A c \in Chunk : chunks'[c] = chunks[c] \/ chunks'[c].status \in {"pending", "failed"}
    BY DEF Recover, Unleased
<1> QED
    BY <1>1, <1>3, <1>4, Zenon DEF LeasesNothing, Leased

(* Cancellation starts and leases nothing.                                 *)
LEMMA CancelStartsNothing ==
    ASSUME TypeInv, CancelExecution
    PROVE  StartsNothing /\ LeasesNothing /\ admission' = admission
<1> DEFINE att == Retire(attempts, Case, "cancelled")
           C == {c \in Chunk : receipts[c].disposition = "none"}
<1>1. /\ Settle(C, CancelledExecutions, att)
      /\ aggregates' = aggregates /\ admission' = admission
    BY Zenon DEF CancelExecution, CancelledExecutions
<1>2. \A k \in Case, n \in AttemptNo : att[k][n].status # "running"
    BY Zenon DEF Retire, Ended
<1>3. StartsNothing
    <2> HIDE DEF att, C
    <2> QED
        BY <1>1, <1>2, SettleStartsNothing, CancelledType DEF TypeInv
<1>4. \A c \in Chunk : chunks'[c] = chunks[c] \/ chunks'[c].status = "cancelled"
    BY Zenon DEF CancelExecution, Unleased
<1> QED
    BY <1>1, <1>3, <1>4, Zenon DEF LeasesNothing, Leased

(* The attempt that allocation starts is the current one, and the only one *)
(* that runs.                                                              *)
LEMMA AllocateKeepsOne ==
    ASSUME TypeInv, OneRunningAttempt, NEW t \in Task, NEW B \in SUBSET Case, Allocate(t, B)
    PROVE  OneRunningAttempt'
<1>1. PICK now \in Now : StartAttempts(t, Eligible(B, now), now)
    BY DEF Allocate
<1> DEFINE K == Eligible(B, now)
<1> SUFFICES ASSUME NEW k \in Case, NEW n \in AttemptNo, attempts'[k][n].status = "running"
             PROVE  executions'[k].attemptNo = n /\ executions'[k].status = "running"
    BY Zenon DEF OneRunningAttempt, IsCurrent
<1>2. CASE k \in K
    <2>1. n = executions[k].attemptNo + 1
        BY <1>1, <1>2, Zenon DEF StartAttempts, Ended
    <2> QED
        BY <1>1, <1>2, <2>1, Zenon DEF StartAttempts
<1>3. CASE k \notin K
    BY <1>1, <1>3, Zenon DEF StartAttempts, OneRunningAttempt, IsCurrent
<1> QED
    BY <1>2, <1>3

-----------------------------------------------------------------------------
(* The inductive invariant.                                                *)

IInv == TypeInv /\ TaskScope /\ Settled /\ OneRunningAttempt /\ ClosedIsQuiet

(* A step that starts and leases nothing keeps a closed shard quiet.       *)
LEMMA QuietKeepsClosed ==
    ASSUME ClosedIsQuiet, StartsNothing, LeasesNothing, admission' = admission
    PROVE  ClosedIsQuiet'
BY DEF ClosedIsQuiet, ActiveWork, StartsNothing, LeasesNothing, Leased

(* A step that leaves the rows alone starts and leases nothing.            *)
LEMMA SameRows ==
    ASSUME UNCHANGED rows PROVE StartsNothing /\ LeasesNothing
BY DEF rows, StartsNothing, LeasesNothing, Leased

(* Initially there is no attempt, no lease and no receipt.                 *)
LEMMA InitIInv == Init => IInv
<1> SUFFICES ASSUME Init PROVE IInv
    BY Zenon
<1>1. TypeOK
    <2>1. /\ clock \in Nat /\ run \in {"running", "cancelled"} /\ lastToken \in Nat
          /\ admission \in [epoch: Nat, state: {"open", "draining", "closed"}]
        BY Zenon DEF Init
    <2>2. chunks \in [Chunk -> ChunkRow]
        <3>1. [status |-> "pending", token |-> 0, until |-> 0, recoveries |-> 0] \in ChunkRow
            BY DEF ChunkRow, ChunkStatus
        <3> QED
            BY <3>1, Zenon DEF Init
    <2>3. executions \in [Case -> ExecutionRow]
        <3>1. [status |-> "absent", attemptNo |-> 0, retryAfter |-> 0] \in ExecutionRow
            BY BudgetAssumption DEF ExecutionRow, ExecutionStatus
        <3> QED
            BY <3>1, Zenon DEF Init
    <2>4. attempts \in [Case -> [AttemptNo -> AttemptRow]]
        <3>1. [status |-> "absent", worker |-> NoWorker, until |-> 0] \in AttemptRow
            BY DEF AttemptRow, AttemptStatus
        <3> QED
            BY <3>1, Zenon DEF Init
    <2>5. aggregates \in [Case -> AggregateRow]
        <3>1. [attempt |-> 0, kind |-> "none"] \in AggregateRow
            BY BudgetAssumption DEF AggregateRow
        <3> QED
            BY <3>1, Zenon DEF Init
    <2>6. receipts \in [Chunk -> ReceiptRow]
        <3>1. [disposition |-> "none", evidence |-> {}] \in ReceiptRow
            BY DEF ReceiptRow
        <3> QED
            BY <3>1, Zenon DEF Init
    <2>7. tasks \in [Task -> TaskRow]
        BY IdleTaskType, Zenon DEF Init
    <2> QED
        BY <2>1, <2>2, <2>3, <2>4, <2>5, <2>6, <2>7 DEF TypeOK
<1>2. AggregateHasKind
    <2>1. aggregates = [k \in Case |-> [attempt |-> 0, kind |-> "none"]]
        BY Zenon DEF Init
    <2> QED
        BY <2>1 DEF AggregateHasKind
<1>3. TaskScope
    <2>1. ScopeOf(IdleTask)
        BY IdleScope DEF IdleTask
    <2> QED
        BY <2>1, Zenon DEF TaskScope, Init
<1>4. Settled
    BY Zenon
       DEF Init, Settled, ReceiptMatchesChunk, SettledHasNoOpenWork,
           ReceiptStaysTrue,
           TerminalChunks, TerminalChunk
<1>5. OneRunningAttempt /\ ClosedIsQuiet
    BY Zenon DEF Init, OneRunningAttempt, ClosedIsQuiet
<1> QED
    BY <1>1, <1>2, <1>3, <1>4, <1>5 DEF IInv, TypeInv

(* The combination of the parts for a step that starts nothing.            *)
LEMMA Combine ==
    ASSUME IInv, TypeInv', TaskScope', ChunkStep, StartsNothing, LeasesNothing,
           admission' = admission
    PROVE  IInv'
BY ChunkStepSettled, StartsNothingKeeps, QuietKeepsClosed DEF IInv, TypeInv

(* Every step of a worker task preserves the inductive invariant.          *)
LEMMA TaskStepIInv ==
    ASSUME IInv, NEW t \in Task, TaskStep(t) PROVE IInv'
<1> USE DEF IInv
<1>0. TypeOK
    BY DEF TypeInv
<1>1. ASSUME NEW c \in Chunk, Claim(t, c) PROVE IInv'
    <2>1. TypeInv' /\ TaskScope' /\ ChunkStep
        BY <1>0, <1>1, ClaimTypes, RowScope, ClaimIsChunkStep
    <2>2. OneRunningAttempt'
        BY <1>1 DEF Claim, OneRunningAttempt, IsCurrent
    <2>3. ClosedIsQuiet'
        BY <1>1, Zenon DEF Claim, ClosedIsQuiet
    <2> QED
        BY <1>0, <2>1, <2>2, <2>3, ChunkStepSettled, Zenon
<1>2. CASE ExtendLease(t)
    BY <1>0, <1>2, ExtendLeaseTypes, RowScope, ExtendIsChunkStep,
       RowsStartNothing, Combine, Zenon
<1>3. CASE HeartbeatRenew(t) \/ HeartbeatAttempts(t)
    <2>1. TaskScope'
        BY <1>0, <1>3, BeatScope, Zenon DEF HeartbeatRenew, HeartbeatAttempts
    <2> QED
        BY Zenon, <1>3, <2>1, HeartbeatTypes, ExtendIsChunkStep,
           HeartbeatAttemptsIsChunkStep,
           RowsStartNothing, Combine
<1>4. CASE HeartbeatLost(t) \/ HeartbeatError(t)
    <2>1. TaskScope'
        BY <1>0, <1>4, BeatScope DEF HeartbeatLost, HeartbeatError
    <2>2. UNCHANGED rows /\ admission' = admission
        BY <1>4, Zenon DEF HeartbeatLost, HeartbeatError
    <2> QED
        BY <1>4, <2>1, <2>2, HeartbeatTypes, UnchangedIsChunkStep, SameRows,
           Combine
<1>5. ASSUME NEW B \in SUBSET Case, Allocate(t, B) PROVE IInv'
    <2>1. TypeInv' /\ TaskScope' /\ ChunkStep /\ OneRunningAttempt'
        BY <1>0, <1>5, AllocateTypes, AllocateScope, AllocateIsChunkStep,
           AllocateKeepsOne, Zenon
    <2>2. ClosedIsQuiet'
        BY <1>5, Zenon DEF Allocate, HoldsLease, Admits, ClosedIsQuiet
    <2> QED
        BY <1>0, <2>1, <2>2, ChunkStepSettled, Zenon
<1>6. ASSUME NEW outcome \in [Case -> Outcome], Persist(t, outcome) PROVE IInv'
    BY <1>0, <1>6, PersistTypes, PersistScope, PersistIsChunkStep,
       RowsStartNothing, Combine, Zenon
<1>7. CASE ExtendLost(t) \/ ProcessingFails(t) \/ EndOfCases(t) \/ Summarize(t)
           \/ SettleStale(t) \/ DatabaseError(t) \/ SummaryReadError(t) \/ Redeliver(t)
    <2>1. UNCHANGED rows /\ admission' = admission
        BY <1>7
           DEF ExtendLost, ProcessingFails, EndOfCases, Summarize,
               SettleStale, DatabaseError,
                    SummaryReadError, Redeliver
    <2>2. TaskScope'
        BY <1>0, <1>7, FinishScope, ContinueScope, RowScope, Zenon
        DEF ExtendLost, ProcessingFails, EndOfCases, Summarize, SettleStale,
        Redeliver
    <2> QED
        BY <1>7, <2>1, <2>2, QuietTaskTypes, UnchangedIsChunkStep, SameRows,
           Combine, Zenon
<1>8. CASE Finalize(t)
    <2>1. TaskScope'
        BY <1>0, <1>8, ContinueScope, Zenon DEF Finalize
    <2>2. LeasesNothing /\ admission' = admission
        BY <1>8, Zenon DEF Finalize, LeasesNothing, Leased
    <2> QED
        BY <1>8, <2>1, <2>2, FinalizeTypes, FinalizeIsChunkStep,
           FinalizeStartsNothing, Combine
<1>9. CASE FinalizeRejected(t)
    <2>1. TaskScope'
        BY <1>0, <1>9, ContinueScope, Zenon DEF FinalizeRejected
    <2> QED
        BY <1>9, <2>1, FinalizeRejectedTypes, FinalizeRejectedIsChunkStep,
           RowsStartNothing, Combine, Zenon
<1>10. CASE Complete(t) \/ FailExhausted(t) \/ Release(t)
    <2>1. TaskScope'
        BY <1>0, <1>10, FinishScope, Zenon DEF Complete, FailExhausted, Release
    <2> QED
        BY <1>10, <2>1, WorkerSettlementTypes, WorkerSettlementIsChunkStep,
           RowsStartNothing,
           SettlementStartsNothing, Combine
<1> QED
    BY <1>1, <1>2, <1>3, <1>4, <1>5, <1>6, <1>7, <1>8, <1>9, <1>10, Zenon
       DEF TaskStep

(* Every step preserves the inductive invariant.                           *)
LEMMA NextIInv == IInv /\ [Next]_vars => IInv'
<1> SUFFICES ASSUME IInv, [Next]_vars PROVE IInv'
    OBVIOUS
<1> USE DEF IInv
<1>0. TypeOK
    BY Zenon DEF TypeInv
<1>1. ASSUME NEW t \in Task, TaskStep(t) PROVE IInv'
    BY <1>1, TaskStepIInv, Zenon
<1>2. CASE Tick \/ CancelControl
    <2>1. UNCHANGED rows /\ admission' = admission /\ tasks' = tasks
        BY <1>2, Zenon DEF Tick, CancelControl
    <2> QED
        BY <1>2, <2>1, EnvironmentTypes, SameTasksScope, UnchangedIsChunkStep,
           SameRows, Combine, Zenon
<1>3. ASSUME NEW w \in Worker, Crash(w) PROVE IInv'
    <2>1. UNCHANGED rows /\ admission' = admission
        BY <1>3, Zenon DEF Crash
    <2> QED
        BY <1>0, <1>3, <2>1, EnvironmentTypes, CrashScope,
           UnchangedIsChunkStep, SameRows, Combine
<1>4. ASSUME NEW R \in SUBSET Chunk, NEW F \in SUBSET Chunk, Recover(R, F) PROVE IInv'
    <2>1. TaskScope'
        BY <1>4, SameTasksScope, Zenon DEF Recover
    <2> QED
        BY <1>4, <2>1, RecoverTypes, RecoverIsChunkStep, RecoverStartsNothing,
           Combine
<1>5. CASE CancelExecution
    <2>1. TaskScope'
        BY <1>5, SameTasksScope, Zenon DEF CancelExecution
    <2> QED
        BY <1>5, <2>1, CancelTypes, CancelIsChunkStep, CancelStartsNothing,
           Combine
<1>6. CASE BeginDrain \/ Cutover \/ AbortMove
    <2>1. UNCHANGED rows /\ tasks' = tasks
        BY <1>6, Zenon DEF BeginDrain, Cutover, AbortMove
    <2>2. TypeInv' /\ TaskScope' /\ Settled'
        BY <1>0, <1>6, <2>1, EnvironmentTypes, SameTasksScope,
           UnchangedIsChunkStep, ChunkStepSettled
    <2>3. OneRunningAttempt'
        BY <2>1, SameRows, StartsNothingKeeps
    <2>4. ClosedIsQuiet'
        <3>1. admission \in [epoch: Nat, state: {"open", "draining", "closed"}]
            BY <1>0 DEF TypeOK
        <3>2. CASE BeginDrain
            BY <3>1, <3>2 DEF BeginDrain, ClosedIsQuiet
        <3>3. CASE Cutover
            BY <2>1, <3>3, Zenon
               DEF Cutover, ClosedIsQuiet, ActiveWork, Leased, rows
        <3>4. CASE AbortMove
            BY <3>1, <3>4, Zenon DEF AbortMove, ClosedIsQuiet
        <3> QED
            BY <1>6, <3>2, <3>3, <3>4, Zenon
    <2> QED
        BY <2>2, <2>3, <2>4
<1>7. CASE UNCHANGED vars
    <2>1. /\ UNCHANGED rows /\ tasks' = tasks /\ admission' = admission
          /\ UNCHANGED <<clock, run, lastToken>>
        BY <1>7, Zenon DEF vars, rows
    <2>2. TypeInv'
        BY <2>1 DEF TypeInv, TypeOK, AggregateHasKind, rows
    <2> QED
        BY <2>1, <2>2, SameTasksScope, UnchangedIsChunkStep, SameRows,
           Combine, Zenon
<1> QED
    BY <1>1, <1>2, <1>3, <1>4, <1>5, <1>6, <1>7 DEF Next

(* The inductive invariant holds in every reachable state.                 *)
LEMMA Invariance == Spec => []IInv
BY InitIInv, NextIInv, PTL DEF Spec

-----------------------------------------------------------------------------
(* Theorems.                                                               *)

(* Every row and every task keeps its type, whatever workers, coordinator, *)
(* cancellation and mover do, in any order.                                *)
THEOREM TypeCorrectness == Spec => []TypeOK
<1>1. IInv => TypeOK
    BY DEF IInv, TypeInv
<1> QED
    BY <1>1, Invariance, PTL

(* A chunk has a receipt exactly when it is terminal, with the disposition *)
(* that is its status, whichever of its producers settled it.              *)
THEOREM ReceiptsMatchChunks == Spec => []ReceiptMatchesChunk
<1>1. IInv => ReceiptMatchesChunk
    BY DEF IInv, Settled
<1> QED
    BY <1>1, Invariance, PTL

(* A settled chunk has no open execution and no running attempt: nothing   *)
(* that the worker, the heartbeat or a rejected batch does afterwards      *)
(* opens one.                                                              *)
THEOREM SettledIsClosed == Spec => []SettledHasNoOpenWork
<1>1. IInv => SettledHasNoOpenWork
    BY DEF IInv, Settled
<1> QED
    BY <1>1, Invariance, PTL

(* What a receipt counted stays what the rows say: the evidence in a       *)
(* receipt can be aggregated at any later time.                            *)
THEOREM ReceiptsStayTrue == Spec => []ReceiptStaysTrue
<1>1. IInv => ReceiptStaysTrue
    BY DEF IInv, Settled
<1> QED
    BY <1>1, Invariance, PTL

(* No execution has two attempts with authority.                           *)
THEOREM AttemptsAreExclusive == Spec => []OneRunningAttempt
<1>1. IInv => OneRunningAttempt
    BY DEF IInv
<1> QED
    BY <1>1, Invariance, PTL

(* A shard that the mover has closed holds no lease and no running attempt.*)
THEOREM ClosedShardIsQuiet == Spec => []ClosedIsQuiet
<1>1. IInv => ClosedIsQuiet
    BY Zenon DEF IInv
<1> QED
    BY <1>1, Invariance, PTL

-----------------------------------------------------------------------------
(* The inductive invariant.                                                *)

(* A lease has a token that was handed out, and ends within the longest    *)
(* lease from now.                                                         *)
LeaseOf(c) == Leased(c) => /\ chunks[c].token \in 1 .. lastToken
                           /\ chunks[c].until <= clock + ProcessingLease

(* A delayed task has no heartbeat, and resumes after the lease it left.   *)
DelayOf(t) ==
    tasks[t].pc = "delayed" =>
        /\ tasks[t].chunk \in Chunk
        /\ tasks[t].beat = "off"
        /\ LET row == chunks[tasks[t].chunk] IN
           row.status = "leased" /\ row.token = tasks[t].token => row.until < tasks[t].resumeAt

(* A task that works on a message works on a chunk.                        *)
PlacedOf(row) == row.pc \notin {"idle", "dead"} => row.chunk \in Chunk

LeaseInv ==
    /\ \A c \in Chunk : LeaseOf(c)
    /\ \A t \in Task : PlacedOf(tasks[t])
    /\ \A t \in Task : tasks[t].token <= lastToken
    /\ \A t, u \in Task : tasks[t].token # 0 /\ tasks[t].token = tasks[u].token => t = u
    /\ \A t \in Task : DelayOf(t)

(* What a step does to a task unless it claims a chunk or delays a message *)
(* for a database error.                                                   *)
Quits(t) ==
    /\ tasks'[t].token = tasks[t].token \/ tasks'[t].token = 0
    /\ tasks'[t].pc = "delayed" => tasks'[t] = tasks[t]
    /\ PlacedOf(tasks'[t])

(* What a step does to a chunk unless it claims it or renews its lease.    *)
Unlocks(c) == chunks'[c] = chunks[c] \/ chunks'[c].status # "leased"

(* Steps that neither claim, renew nor delay keep leases held by one task. *)
LEMMA QuietKeepsLeases ==
    ASSUME TypeOK, TypeOK', LeaseInv, \A t \in Task : Quits(t), \A c \in Chunk : Unlocks(c),
           clock' >= clock, lastToken' = lastToken
    PROVE  LeaseInv'
<1>1. ASSUME NEW c \in Chunk PROVE LeaseOf(c)'
    <2>1. chunks[c].until \in Int /\ clock \in Nat /\ clock' \in Nat /\ ProcessingLease \in Nat
        BY TimeAssumption, Zenon DEF TypeOK, ChunkRow
    <2>2. LeaseOf(c) /\ Unlocks(c)
        BY Zenon DEF LeaseInv
    <2> QED
        BY <2>1, <2>2 DEF LeaseOf, Unlocks, Leased
<1>2. ASSUME NEW t \in Task PROVE tasks'[t].token <= lastToken' /\ PlacedOf(tasks'[t])
    <2>1. tasks[t].token \in Nat /\ lastToken \in Nat /\ tasks[t].token <= lastToken
        BY Zenon DEF TypeOK, TaskRow, LeaseInv
    <2> QED
        BY <2>1 DEF Quits
<1>3. ASSUME NEW t \in Task, NEW u \in Task, tasks'[t].token # 0,
             tasks'[t].token = tasks'[u].token
      PROVE  t = u
    BY <1>3, Zenon DEF Quits, LeaseInv
<1>4. ASSUME NEW t \in Task PROVE DelayOf(t)'
    <2> SUFFICES ASSUME tasks'[t].pc = "delayed"
                 PROVE  /\ tasks'[t].chunk \in Chunk
                        /\ tasks'[t].beat = "off"
                        /\ LET row == chunks'[tasks'[t].chunk] IN
                           row.status = "leased" /\ row.token = tasks'[t].token =>
                                row.until < tasks'[t].resumeAt
        BY Zenon DEF DelayOf
    <2>1. tasks'[t] = tasks[t] /\ DelayOf(t)
        BY Zenon DEF Quits, LeaseInv
    <2>2. tasks[t].chunk \in Chunk /\ Unlocks(tasks[t].chunk)
        BY <2>1, Zenon DEF DelayOf
    <2> QED
        BY <2>1, <2>2, Zenon DEF DelayOf, Unlocks
<1>5. \A t \in Task : PlacedOf(tasks[t])'
    BY <1>2, Zenon DEF PlacedOf
<1> QED
    BY <1>1, <1>2, <1>3, <1>4, <1>5, Zenon DEF LeaseInv

-----------------------------------------------------------------------------
(* Which steps neither claim, renew nor delay.                             *)

(* One task changes, and keeps its token or drops it.                      *)
LEMMA OneTaskQuits ==
    ASSUME TypeOK, LeaseInv, NEW t \in Task, NEW row, tasks' = [tasks EXCEPT ![t] = row],
           row.token = tasks[t].token \/ row.token = 0, row.pc # "delayed", PlacedOf(row)
    PROVE  \A u \in Task : Quits(u)
<1> SUFFICES ASSUME NEW u \in Task PROVE Quits(u)
    BY Zenon
<1>1. tasks'[u] = tasks[u] \/ (u = t /\ tasks'[u] = row)
    BY Zenon DEF TypeOK
<1>2. PlacedOf(tasks[u])
    BY Zenon DEF LeaseInv
<1> QED
    BY <1>1, <1>2, Zenon DEF Quits

(* A task that ends its message drops its token.                           *)
LEMMA FinishQuits ==
    ASSUME TypeOK, LeaseInv, NEW t \in Task, Finish(t)
    PROVE  \A u \in Task : Quits(u)
<1>1. IdleTask.token = 0 /\ IdleTask.pc # "delayed" /\ PlacedOf(IdleTask)
    BY Zenon DEF IdleTask, PlacedOf
<1> QED
    BY <1>1, OneTaskQuits, Zenon DEF Finish

(* A task that moves to its next state keeps its token.                    *)
LEMMA ContinueQuits ==
    ASSUME TypeOK, LeaseInv, NEW t \in Task, NEW pc, Continue(t, pc), pc # "delayed",
           tasks[t].pc \notin {"idle", "dead"}
    PROVE  \A u \in Task : Quits(u)
<1>1. tasks[t] \in TaskRow /\ tasks[t].chunk \in Chunk
    BY DEF TypeOK, LeaseInv, PlacedOf
<1> DEFINE kept == [tasks[t] EXCEPT !.pc = pc]
           bare == [tasks[t] EXCEPT !.pc = pc, !.todo = {}, !.batch = {}, !.transitions = {}]
<1>2. kept.token = tasks[t].token /\ kept.pc = pc /\ kept.chunk = tasks[t].chunk
    BY <1>1 DEF TaskRow
<1>3. bare.token = tasks[t].token /\ bare.pc = pc /\ bare.chunk = tasks[t].chunk
    BY <1>1 DEF TaskRow
<1>4. tasks' = [tasks EXCEPT ![t] = kept] \/ tasks' = [tasks EXCEPT ![t] = bare]
    BY Zenon DEF Continue, TypeOK
<1> HIDE DEF kept, bare
<1>5. PlacedOf(kept) /\ PlacedOf(bare)
    BY <1>1, <1>2, <1>3, Zenon DEF PlacedOf
<1> QED
    BY <1>2, <1>3, <1>4, <1>5, OneTaskQuits, Zenon

(* A heartbeat that runs belongs to a task that is not delayed.            *)
LEMMA BeatQuits ==
    ASSUME TypeOK, LeaseInv, NEW t \in Task, NEW b, tasks' = [tasks EXCEPT ![t].beat = b],
           tasks[t].beat # "off"
    PROVE  \A u \in Task : Quits(u)
<1> DEFINE row == [tasks[t] EXCEPT !.beat = b]
<1>1. tasks[t] \in TaskRow /\ PlacedOf(tasks[t]) /\ tasks[t].pc # "delayed"
    BY DEF TypeOK, LeaseInv, DelayOf
<1>2. row.token = tasks[t].token /\ row.pc = tasks[t].pc /\ row.chunk = tasks[t].chunk
    BY <1>1 DEF TaskRow
<1>3. tasks' = [tasks EXCEPT ![t] = row]
    BY DEF TypeOK
<1> HIDE DEF row
<1>4. PlacedOf(row)
    BY <1>1, <1>2, Zenon DEF PlacedOf
<1> QED
    BY <1>1, <1>2, <1>3, <1>4, OneTaskQuits, Zenon

(* Tasks that stay as they are.                                            *)
LEMMA SameTasksQuit == ASSUME LeaseInv, tasks' = tasks PROVE \A u \in Task : Quits(u)
BY Zenon DEF LeaseInv, Quits

(* Chunks that stay as they are.                                           *)
LEMMA SameChunksUnlock == ASSUME chunks' = chunks PROVE \A c \in Chunk : Unlocks(c)
BY Zenon DEF Unlocks

-----------------------------------------------------------------------------
(* The steps that claim, renew or delay.                                   *)

(* A renewal is made by the one task that knows the token, which is not a  *)
(* delayed one.                                                            *)
LEMMA RenewKeepsLeases ==
    ASSUME TypeOK, TypeOK', LeaseInv, NEW t \in Task, NEW now \in Now, HoldsLease(t, now),
           chunks' = ExtendedLease(t, now), tasks[t].pc # "delayed",
           \A u \in Task : Quits(u), UNCHANGED <<clock, lastToken>>
    PROVE  LeaseInv'
<1> DEFINE c == tasks[t].chunk
           row == [chunks[c] EXCEPT !.until = now + ProcessingLease]
<1>1. /\ now \in Nat /\ now <= clock /\ clock \in Nat /\ lastToken \in Nat
      /\ ProcessingLease \in Nat
    BY NowType, TimeAssumption DEF Now, TypeOK
<1>2. chunks[c].status = "leased" /\ chunks[c].token = tasks[t].token
    BY Zenon DEF HoldsLease
<1>3. \A d \in Chunk : chunks'[d] = chunks[d] \/ (d = c /\ chunks'[d] = row)
    BY Zenon DEF ExtendedLease, TypeOK
<1>4. ASSUME c \in Chunk
      PROVE  row.status = "leased" /\ row.token = tasks[t].token /\ row.until = now + ProcessingLease
    BY <1>2, <1>4, Zenon DEF TypeOK, ChunkRow
<1> HIDE DEF row
<1>5. ASSUME NEW d \in Chunk PROVE LeaseOf(d)'
    <2>1. LeaseOf(d)
        BY Zenon DEF LeaseInv
    <2>2. CASE chunks'[d] = chunks[d]
        BY <2>1, <2>2, Zenon DEF LeaseOf, Leased
    <2>3. CASE d = c /\ chunks'[d] = row
        BY <1>1, <1>2, <1>4, <2>1, <2>3 DEF LeaseOf, Leased
    <2> QED
        BY <1>3, <2>2, <2>3, Zenon
<1>6. ASSUME NEW u \in Task
      PROVE  DelayOf(u)' /\ tasks'[u].token <= lastToken' /\ PlacedOf(tasks'[u])
    <2>0. tasks'[u].token <= lastToken' /\ PlacedOf(tasks'[u])
        <3>1. tasks[u].token <= lastToken /\ Quits(u)
            BY Zenon DEF LeaseInv
        <3> QED
            BY <1>1, <3>1 DEF Quits
    <2> SUFFICES ASSUME tasks'[u].pc = "delayed"
                 PROVE  /\ tasks'[u].chunk \in Chunk
                        /\ tasks'[u].beat = "off"
                        /\ LET r == chunks'[tasks'[u].chunk] IN
                           r.status = "leased" /\ r.token = tasks'[u].token =>
                                r.until < tasks'[u].resumeAt
        BY <2>0, Zenon DEF DelayOf
    <2>1. tasks'[u] = tasks[u] /\ u # t
        BY Zenon DEF Quits
    <2>2. DelayOf(u)
        BY Zenon DEF LeaseInv
    <2>3. CASE chunks'[tasks[u].chunk] = chunks[tasks[u].chunk]
        BY <2>1, <2>2, <2>3, Zenon DEF DelayOf
    <2>4. CASE tasks[u].chunk = c /\ chunks'[c] = row
        <3>1. c \in Chunk
            BY <2>1, <2>2, <2>4, Zenon DEF DelayOf
        <3>2. tasks[t].token # 0
            BY <1>1, <1>2, <3>1 DEF LeaseInv, LeaseOf, Leased
        <3>3. tasks[u].token # tasks[t].token
            BY <2>1, <3>2, Zenon DEF LeaseInv
        <3> QED
            BY <1>4, <2>1, <2>2, <2>4, <3>1, <3>3, Zenon DEF DelayOf
    <2> QED
        BY <1>3, <2>1, <2>2, <2>3, <2>4, Zenon DEF DelayOf
<1>7. ASSUME NEW u \in Task, NEW v \in Task, tasks'[u].token # 0,
             tasks'[u].token = tasks'[v].token
      PROVE  u = v
    BY <1>7, Zenon DEF Quits, LeaseInv
<1>8. \A u \in Task : PlacedOf(tasks[u])'
    BY <1>6, Zenon DEF PlacedOf
<1> QED
    BY <1>5, <1>6, <1>7, <1>8, Zenon DEF LeaseInv

(* A claim takes a token that nobody has.                                  *)
LEMMA ClaimKeepsLeases ==
    ASSUME TypeOK, TypeOK', LeaseInv, NEW t \in Task, NEW c \in Chunk, Claim(t, c)
    PROVE  LeaseInv'
<1> DEFINE task == [IdleTask EXCEPT !.pc = "claimed", !.chunk = c,
                                    !.token = lastToken + 1, !.epoch = admission.epoch]
<1>1. PICK now \in Now : chunks' = [chunks EXCEPT ![c] =
                [@ EXCEPT !.status = "leased", !.token = lastToken + 1,
                          !.until = now + ClaimLease]]
    BY Zenon DEF Claim
<1> DEFINE row == [chunks[c] EXCEPT !.status = "leased", !.token = lastToken + 1,
                                    !.until = now + ClaimLease]
<1>2. /\ now \in Nat /\ now <= clock /\ clock \in Nat /\ lastToken \in Nat
      /\ ProcessingLease \in Nat /\ ClaimLease \in Nat /\ ClaimLease <= ProcessingLease
    BY NowType, TimeAssumption, LeaseAssumption DEF Now, TypeOK
<1>3. /\ task.token = lastToken + 1 /\ task.pc = "claimed" /\ task.chunk = c
    BY DEF IdleTask
<1>4. row.status = "leased" /\ row.token = lastToken + 1 /\ row.until = now + ClaimLease
    BY DEF TypeOK, ChunkRow
<1>5. /\ \A d \in Chunk : d # c => chunks'[d] = chunks[d]
      /\ chunks'[c] = row
    BY <1>1, Zenon DEF TypeOK
<1>6. /\ \A u \in Task : u # t => tasks'[u] = tasks[u]
      /\ tasks'[t] = task
    BY DEF Claim, TypeOK
<1>7. lastToken' = lastToken + 1 /\ clock' = clock
    BY Zenon DEF Claim
<1> HIDE DEF task, row
<1>8. \A u \in Task : tasks[u].token \in Nat /\ tasks[u].token <= lastToken
    BY Zenon DEF TypeOK, TaskRow, LeaseInv
<1>9. ASSUME NEW d \in Chunk PROVE LeaseOf(d)'
    <2>1. LeaseOf(d)
        BY Zenon DEF LeaseInv
    <2>2. CASE d # c
        BY <1>2, <1>5, <1>7, <2>1, <2>2 DEF LeaseOf, Leased
    <2>3. CASE d = c
        BY <1>2, <1>4, <1>5, <1>7, <2>3 DEF LeaseOf, Leased
    <2> QED
        BY <2>2, <2>3, Zenon
<1>10. ASSUME NEW u \in Task PROVE tasks'[u].token <= lastToken'
    BY <1>2, <1>3, <1>6, <1>7, <1>8
<1>11. ASSUME NEW u \in Task PROVE PlacedOf(tasks[u])'
    BY <1>3, <1>6, Zenon DEF PlacedOf, LeaseInv
<1>12. ASSUME NEW u \in Task, NEW v \in Task, tasks'[u].token # 0,
              tasks'[u].token = tasks'[v].token
       PROVE  u = v
    <2>1. u # t => tasks'[u].token = tasks[u].token /\ tasks[u].token < lastToken + 1
        BY <1>2, <1>6, <1>8
    <2>2. v # t => tasks'[v].token = tasks[v].token /\ tasks[v].token < lastToken + 1
        BY <1>2, <1>6, <1>8
    <2>3. tasks'[t].token = lastToken + 1
        BY <1>3, <1>6, Zenon
    <2>4. CASE u = t \/ v = t
        BY <1>2, <1>12, <2>1, <2>2, <2>3, <2>4
    <2>5. CASE u # t /\ v # t
        BY <1>12, <2>1, <2>2, <2>5, Zenon DEF LeaseInv
    <2> QED
        BY <2>4, <2>5, Zenon
<1>13. ASSUME NEW u \in Task PROVE DelayOf(u)'
    <2> SUFFICES ASSUME tasks'[u].pc = "delayed"
                 PROVE  /\ tasks'[u].chunk \in Chunk
                        /\ tasks'[u].beat = "off"
                        /\ LET r == chunks'[tasks'[u].chunk] IN
                           r.status = "leased" /\ r.token = tasks'[u].token =>
                                r.until < tasks'[u].resumeAt
        BY Zenon DEF DelayOf
    <2>1. u # t /\ tasks'[u] = tasks[u]
        BY <1>3, <1>6, Zenon
    <2>2. DelayOf(u)
        BY Zenon DEF LeaseInv
    <2>3. CASE tasks[u].chunk # c
        BY <1>5, <2>1, <2>2, <2>3, Zenon DEF DelayOf
    <2>4. CASE tasks[u].chunk = c
        <3>1. tasks[u].token # lastToken + 1
            BY <1>2, <1>8
        <3> QED
            BY <1>4, <1>5, <2>1, <2>2, <2>4, <3>1, Zenon DEF DelayOf
    <2> QED
        BY <2>3, <2>4, Zenon
<1> QED
    BY <1>9, <1>10, <1>11, <1>12, <1>13 DEF LeaseInv

(* A database error leaves the lease to run out before the message comes   *)
(* back.                                                                   *)
LEMMA ErrorKeepsLeases ==
    ASSUME TypeOK, TypeOK', LeaseInv, NEW t \in Task, DatabaseError(t)
    PROVE  LeaseInv'
<1> DEFINE task == [IdleTask EXCEPT !.pc = "delayed", !.chunk = tasks[t].chunk,
                                    !.token = tasks[t].token, !.resumeAt = RedeliverAt]
<1>1. /\ task.pc = "delayed" /\ task.chunk = tasks[t].chunk /\ task.token = tasks[t].token
      /\ task.beat = "off" /\ task.resumeAt = RedeliverAt
    BY DEF IdleTask
<1>2. /\ \A u \in Task : u # t => tasks'[u] = tasks[u]
      /\ tasks'[t] = task
    BY DEF DatabaseError, TypeOK
<1>3. clock' = clock /\ lastToken' = lastToken /\ chunks' = chunks
    BY Zenon DEF DatabaseError, rows
<1> HIDE DEF task
<1>4. tasks[t].chunk \in Chunk
    BY Zenon DEF DatabaseError, LeaseInv, PlacedOf
<1>5. /\ clock \in Nat /\ ProcessingLease \in Nat /\ RedeliveryGrace \in Nat \ {0}
      /\ chunks[tasks[t].chunk].until \in Int
    BY <1>4, TimeAssumption, Zenon DEF TypeOK, ChunkRow
<1>6. ASSUME chunks[tasks[t].chunk].status = "leased"
      PROVE  chunks[tasks[t].chunk].until < RedeliverAt
    <2>1. chunks[tasks[t].chunk].until <= clock + ProcessingLease
        BY <1>4, <1>6 DEF LeaseInv, LeaseOf, Leased
    <2> QED
        BY <1>5, <2>1 DEF RedeliverAt
<1>7. \A c \in Chunk : LeaseOf(c)'
    BY <1>3, Zenon DEF LeaseInv, LeaseOf, Leased
<1>8. ASSUME NEW u \in Task PROVE tasks'[u].token <= lastToken' /\ PlacedOf(tasks[u])'
    BY <1>1, <1>2, <1>3, <1>4, Zenon DEF LeaseInv, PlacedOf
<1>9. ASSUME NEW u \in Task, NEW v \in Task, tasks'[u].token # 0,
             tasks'[u].token = tasks'[v].token
      PROVE  u = v
    <2>1. tasks'[u].token = tasks[u].token /\ tasks'[v].token = tasks[v].token
        BY <1>1, <1>2, Zenon
    <2> QED
        BY <1>9, <2>1, Zenon DEF LeaseInv
<1>10. ASSUME NEW u \in Task PROVE DelayOf(u)'
    <2>1. CASE u = t
        BY <1>1, <1>2, <1>3, <1>4, <1>6, <2>1, Zenon DEF DelayOf
    <2>2. CASE u # t
        <3>1. DelayOf(u) /\ tasks'[u] = tasks[u]
            BY <1>2, <2>2, Zenon DEF LeaseInv
        <3> QED
            BY <1>3, <3>1, Zenon DEF DelayOf
    <2> QED
        BY <2>1, <2>2, Zenon
<1> QED
    BY <1>7, <1>8, <1>9, <1>10 DEF LeaseInv

-----------------------------------------------------------------------------
(* Every step.                                                             *)

(* A chunk that is settled, released or recovered is not leased any more.  *)
LEMMA UnleasedUnlocks ==
    ASSUME TypeOK, NEW c, NEW status, status # "leased",
           chunks' = [chunks EXCEPT ![c] = Unleased(chunks[c], status)]
    PROVE  \A d \in Chunk : Unlocks(d)
<1>1. Unleased(chunks[c], status).status = status
    BY Zenon DEF Unleased
<1>2. \A d \in Chunk : chunks'[d] = chunks[d] \/ chunks'[d] = Unleased(chunks[c], status)
    BY DEF TypeOK
<1> QED
    BY <1>1, <1>2, Zenon DEF Unlocks

(* Every step of a worker task.                                            *)
LEMMA TaskStepKeepsLeases ==
    ASSUME TypeOK, TypeOK', LeaseInv, NEW t \in Task, TaskStep(t) PROVE LeaseInv'
<1>0. tasks[t] \in TaskRow /\ clock \in Nat
    BY Zenon DEF TypeOK
<1>1. ASSUME NEW c \in Chunk, Claim(t, c) PROVE LeaseInv'
    BY <1>1, ClaimKeepsLeases, Zenon
<1>2. CASE ExtendLease(t)
    <2>1. PICK now \in Now : HoldsLease(t, now) /\ chunks' = ExtendedLease(t, now)
        BY <1>2 DEF ExtendLease
    <2> DEFINE row == [tasks[t] EXCEPT !.pc = "batch", !.todo = CasesOf(tasks[t].chunk),
                                       !.beat = "on"]
    <2>2. row.token = tasks[t].token /\ row.pc = "batch" /\ row.chunk = tasks[t].chunk
        BY <1>0 DEF TaskRow
    <2>3. tasks' = [tasks EXCEPT ![t] = row]
        BY <1>2, Zenon DEF ExtendLease
    <2> HIDE DEF row
    <2>4. tasks[t].pc = "claimed" /\ UNCHANGED <<clock, lastToken>>
        BY <1>2, Zenon DEF ExtendLease
    <2>5. PlacedOf(row)
        BY <2>2, <2>4 DEF PlacedOf, LeaseInv
    <2>6. \A u \in Task : Quits(u)
        BY <2>2, <2>3, <2>5, OneTaskQuits, Zenon
    <2> QED
        BY <2>1, <2>4, <2>6, RenewKeepsLeases
<1>3. CASE HeartbeatRenew(t)
    <2>1. PICK now \in Now : HoldsLease(t, now) /\ chunks' = ExtendedLease(t, now)
        BY <1>3 DEF HeartbeatRenew
    <2>2. tasks[t].beat = "on" /\ UNCHANGED <<clock, lastToken>>
        BY <1>3 DEF HeartbeatRenew
    <2>3. \A u \in Task : Quits(u)
        BY <1>3, <2>2, BeatQuits, Zenon DEF HeartbeatRenew
    <2>4. tasks[t].pc # "delayed"
        BY <2>2, Zenon DEF LeaseInv, DelayOf
    <2> QED
        BY <2>1, <2>2, <2>3, <2>4, RenewKeepsLeases
<1>4. CASE HeartbeatLost(t) \/ HeartbeatAttempts(t) \/ HeartbeatError(t)
    <2>1. chunks' = chunks /\ clock' = clock /\ lastToken' = lastToken
        BY <1>4 DEF HeartbeatLost, HeartbeatAttempts, HeartbeatError, rows
    <2>2. \A u \in Task : Quits(u)
        BY <1>4, BeatQuits, Zenon
           DEF HeartbeatLost, HeartbeatAttempts, HeartbeatError
    <2> QED
        BY <1>0, <2>1, <2>2, SameChunksUnlock, QuietKeepsLeases
<1>5. ASSUME NEW B \in SUBSET Case, Allocate(t, B) PROVE LeaseInv'
    <2>1. chunks' = chunks /\ clock' = clock /\ lastToken' = lastToken /\ tasks[t].pc = "batch"
        BY <1>5 DEF Allocate
    <2>2. PICK now \in Now :
            tasks' = [tasks EXCEPT ![t] = [@ EXCEPT
                !.pc = "evaluate",
                !.todo = tasks[t].todo \ B,
                !.batch = {[case |-> k, attempt |-> executions[k].attemptNo + 1] :
                                k \in Eligible(B, now)},
                !.transitions = tasks[t].transitions \cup
                    {[case |-> k, attempt |-> executions[k].attemptNo,
                      outcome |-> "exhausted"] : k \in Exhausted(B)}]]
        BY <1>5, Zenon DEF Allocate
    <2> DEFINE todo == tasks[t].todo \ B
               batch == {[case |-> k, attempt |-> executions[k].attemptNo + 1] :
                            k \in Eligible(B, now)}
               transitions == tasks[t].transitions \cup
                    {[case |-> k, attempt |-> executions[k].attemptNo,
                      outcome |-> "exhausted"] : k \in Exhausted(B)}
               row == [tasks[t] EXCEPT !.pc = "evaluate", !.todo = todo,
                                       !.batch = batch, !.transitions = transitions]
    <2>3. row.token = tasks[t].token /\ row.pc = "evaluate" /\ row.chunk = tasks[t].chunk
        BY <1>0 DEF TaskRow
    <2>4. tasks' = [tasks EXCEPT ![t] = row]
        BY <2>2, Zenon
    <2> HIDE DEF row
    <2>5. PlacedOf(row)
        BY <2>1, <2>3 DEF PlacedOf, LeaseInv
    <2>6. \A u \in Task : Quits(u)
        BY <2>3, <2>4, <2>5, OneTaskQuits, Zenon
    <2> QED
        BY <1>0, <2>1, <2>6, SameChunksUnlock, QuietKeepsLeases
<1>6. ASSUME NEW outcome \in [Case -> Outcome], Persist(t, outcome) PROVE LeaseInv'
    <2>1. chunks' = chunks /\ clock' = clock /\ lastToken' = lastToken /\ tasks[t].pc = "evaluate"
        BY <1>6 DEF Persist
    <2> DEFINE transitions == tasks[t].transitions \cup
                    {[case |-> a.case, attempt |-> a.attempt, outcome |-> outcome[a.case]] :
                        a \in tasks[t].batch}
    <2>2. tasks' = [tasks EXCEPT ![t] = [@ EXCEPT !.pc = "batch", !.batch = {},
                                                  !.transitions = transitions]]
        BY <1>6, Zenon DEF Persist
    <2> DEFINE row == [tasks[t] EXCEPT !.pc = "batch", !.batch = {},
                                       !.transitions = transitions]
    <2>3. row.token = tasks[t].token /\ row.pc = "batch" /\ row.chunk = tasks[t].chunk
        BY <1>0 DEF TaskRow
    <2>4. tasks' = [tasks EXCEPT ![t] = row]
        BY <2>2, Zenon
    <2> HIDE DEF row
    <2>5. PlacedOf(row)
        BY <2>1, <2>3 DEF PlacedOf, LeaseInv
    <2>6. \A u \in Task : Quits(u)
        BY <2>3, <2>4, <2>5, OneTaskQuits, Zenon
    <2> QED
        BY <1>0, <2>1, <2>6, SameChunksUnlock, QuietKeepsLeases
<1>7. CASE ExtendLost(t) \/ SettleStale(t) \/ Redeliver(t)
    <2>1. chunks' = chunks /\ clock' = clock /\ lastToken' = lastToken
        BY <1>7, Zenon DEF ExtendLost, SettleStale, Redeliver, rows
    <2>2. Finish(t)
        BY <1>7, Zenon DEF ExtendLost, SettleStale, Redeliver
    <2> QED
        BY <1>0, <2>1, <2>2, FinishQuits, SameChunksUnlock, QuietKeepsLeases
<1>8. CASE ProcessingFails(t) \/ EndOfCases(t) \/ Summarize(t) \/ Finalize(t) \/ FinalizeRejected(t)
    <2>1. chunks' = chunks /\ clock' = clock /\ lastToken' = lastToken
        BY <1>8, Zenon
           DEF ProcessingFails, EndOfCases, Summarize, Finalize,
               FinalizeRejected, rows
    <2>2. tasks[t].pc \in {"batch", "evaluate", "finalize", "summarize"}
        BY <1>8, Zenon
           DEF ProcessingFails, EndOfCases, Summarize, Finalize,
               FinalizeRejected
    <2>3. \E pc \in {"failing", "finalize", "waiting", "completing", "summarize"} : Continue(t, pc)
        <3>1. CASE Summarize(t)
            <4> DEFINE pc == IF \E k \in CasesOf(tasks[t].chunk) :
                                    executions[k].status \in OpenExecution
                             THEN "waiting" ELSE "completing"
            <4>1. Continue(t, pc)
                BY <3>1, Zenon DEF Summarize
            <4>2. pc \in {"waiting", "completing"}
                OBVIOUS
            <4> HIDE DEF pc
            <4> QED
                BY <4>1, <4>2
        <3>2. CASE ProcessingFails(t) \/ FinalizeRejected(t)
            <4>1. Continue(t, "failing")
                BY <3>2, Zenon DEF ProcessingFails, FinalizeRejected
            <4> QED
                BY <4>1
        <3>3. CASE EndOfCases(t)
            <4>1. Continue(t, "finalize")
                BY <3>3 DEF EndOfCases
            <4> QED
                BY <4>1, Zenon
        <3>4. CASE Finalize(t)
            <4>1. Continue(t, "summarize")
                BY <3>4, Zenon DEF Finalize
            <4> QED
                BY <4>1
        <3> QED
            BY <1>8, <3>1, <3>2, <3>3, <3>4, Zenon
    <2>4. PICK pc \in {"failing", "finalize", "waiting", "completing", "summarize"} : Continue(t, pc)
        BY <2>3, Zenon
    <2>5. pc # "delayed" /\ tasks[t].pc \notin {"idle", "dead"}
        BY <2>2, <2>4, Zenon
    <2>6. \A u \in Task : Quits(u)
        BY <2>4, <2>5, ContinueQuits, Zenon
    <2> QED
        BY <1>0, <2>1, <2>6, SameChunksUnlock, QuietKeepsLeases
<1>9. CASE Complete(t) \/ FailExhausted(t) \/ Release(t)
    <2>1. clock' = clock /\ lastToken' = lastToken /\ Finish(t)
        BY <1>9, Zenon DEF Complete, FailExhausted, Release
    <2>2. \E status \in {"completed", "failed", "pending"} :
            chunks' = [chunks EXCEPT ![tasks[t].chunk] =
                            Unleased(chunks[tasks[t].chunk], status)]
        BY <1>9, Zenon DEF Complete, FailExhausted, Release
    <2>3. PICK status \in {"completed", "failed", "pending"} :
            chunks' = [chunks EXCEPT ![tasks[t].chunk] =
                            Unleased(chunks[tasks[t].chunk], status)]
        BY <2>2, Zenon
    <2>4. status # "leased"
        BY <2>3
    <2>5. \A d \in Chunk : Unlocks(d)
        BY <2>3, <2>4, UnleasedUnlocks, Zenon
    <2> QED
        BY <1>0, <2>1, <2>5, FinishQuits, QuietKeepsLeases
<1>10. CASE DatabaseError(t)
    BY <1>10, ErrorKeepsLeases
<1>11. CASE SummaryReadError(t)
    <2>1. /\ chunks' = chunks /\ clock' = clock /\ lastToken' = lastToken
          /\ tasks[t].pc = "summarize"
          /\ tasks' = [tasks EXCEPT ![t] = [@ EXCEPT !.pc = "orphan", !.resumeAt = RedeliverAt]]
        BY <1>11 DEF SummaryReadError, rows
    <2> DEFINE row == [tasks[t] EXCEPT !.pc = "orphan", !.resumeAt = RedeliverAt]
    <2>3. row.token = tasks[t].token /\ row.pc = "orphan" /\ row.chunk = tasks[t].chunk
        BY <1>0 DEF TaskRow
    <2>4. tasks' = [tasks EXCEPT ![t] = row]
        BY <2>1, Zenon
    <2> HIDE DEF row
    <2>5. PlacedOf(row)
        BY <2>1, <2>3 DEF PlacedOf, LeaseInv
    <2>6. \A u \in Task : Quits(u)
        BY <2>3, <2>4, <2>5, OneTaskQuits, Zenon
    <2> QED
        BY <1>0, <2>1, <2>6, SameChunksUnlock, QuietKeepsLeases
<1> QED
    BY <1>1, <1>2, <1>3, <1>4, <1>5, <1>6, <1>7, <1>8, <1>9, <1>10, <1>11,
       Zenon DEF TaskStep

(* Every step.                                                             *)
LEMMA NextKeepsLeases ==
    ASSUME TypeOK, TypeOK', LeaseInv, [Next]_vars PROVE LeaseInv'
<1>0. clock \in Nat
    BY Zenon DEF TypeOK
<1>1. ASSUME NEW t \in Task, TaskStep(t) PROVE LeaseInv'
    BY <1>1, TaskStepKeepsLeases, Zenon
<1>2. CASE Tick \/ CancelControl \/ BeginDrain \/ Cutover \/ AbortMove \/ UNCHANGED vars
    <2>1. chunks' = chunks /\ tasks' = tasks /\ lastToken' = lastToken /\ clock' \in {clock, clock + 1}
        BY <1>2
           DEF Tick, CancelControl, BeginDrain, Cutover, AbortMove, rows, vars
    <2>2. clock' >= clock
        BY <1>0, <2>1
    <2> QED
        BY <2>1, <2>2, SameTasksQuit, SameChunksUnlock, QuietKeepsLeases
<1>3. ASSUME NEW w \in Worker, Crash(w) PROVE LeaseInv'
    <2>1. chunks' = chunks /\ clock' = clock /\ lastToken' = lastToken
        BY <1>3 DEF Crash, rows
    <2> DEFINE dead == [IdleTask EXCEPT !.pc = "dead"]
    <2>2. dead.token = 0 /\ dead.pc = "dead"
        BY DEF IdleTask
    <2>3. \A t \in Task : tasks'[t] = dead \/ tasks'[t] = tasks[t]
        BY <1>3, Zenon DEF Crash
    <2> HIDE DEF dead
    <2>4. \A t \in Task : Quits(t)
        BY <2>2, <2>3, Zenon DEF Quits, PlacedOf, LeaseInv
    <2> QED
        BY <1>0, <2>1, <2>4, SameChunksUnlock, QuietKeepsLeases
<1>4. ASSUME NEW R \in SUBSET Chunk, NEW F \in SUBSET Chunk, Recover(R, F) PROVE LeaseInv'
    <2>1. clock' = clock /\ lastToken' = lastToken /\ tasks' = tasks
        BY <1>4 DEF Recover
    <2>2. \A c \in Chunk : Unlocks(c)
        BY <1>4, Zenon DEF Recover, Unlocks, Unleased
    <2> QED
        BY <1>0, <2>1, <2>2, SameTasksQuit, QuietKeepsLeases
<1>5. CASE CancelExecution
    <2>1. clock' = clock /\ lastToken' = lastToken /\ tasks' = tasks
        BY <1>5, Zenon DEF CancelExecution
    <2>2. \A c \in Chunk : Unlocks(c)
        BY <1>5, Zenon DEF CancelExecution, Unlocks, Unleased
    <2> QED
        BY <1>0, <2>1, <2>2, SameTasksQuit, QuietKeepsLeases
<1> QED
    BY <1>1, <1>2, <1>3, <1>4, <1>5, Zenon DEF Next

(* In the beginning nothing is leased.                                     *)
LEMMA InitLeases == Init => LeaseInv
BY DEF Init, LeaseInv, LeaseOf, Leased, DelayOf, PlacedOf, IdleTask

(* The inductive invariant holds in every reachable state.                 *)
LEMMA LeaseInvariance == Spec => []LeaseInv
<1>1. IInv => TypeOK
    BY DEF IInv, TypeInv
<1>2. TypeOK /\ TypeOK' /\ LeaseInv /\ [Next]_vars => LeaseInv'
    BY NextKeepsLeases
<1> QED
    BY <1>1, <1>2, InitLeases, Invariance, PTL DEF Spec

(* A delivery that was delayed after a database error comes back only when *)
(* the lease of its former claim is over: contain_worker_database_error    *)
(* waits for longer than any lease that the claim can still have, and no   *)
(* one else can have renewed it.                                           *)
THEOREM DelaysOutliveLeases == Spec => []DelayedOutlivesLease
<1>1. IInv => TypeOK
    BY DEF IInv, TypeInv
<1>2. ASSUME TypeOK, LeaseInv PROVE DelayedOutlivesLease
    <2> SUFFICES ASSUME NEW t \in Task, tasks[t].pc = "delayed", clock >= tasks[t].resumeAt,
                        chunks[tasks[t].chunk].status = "leased",
                        chunks[tasks[t].chunk].token = tasks[t].token,
                        chunks[tasks[t].chunk].until >= clock
                 PROVE  FALSE
        BY Zenon DEF DelayedOutlivesLease
    <2>1. tasks[t].chunk \in Chunk /\ chunks[tasks[t].chunk].until < tasks[t].resumeAt
        BY <1>2, Zenon DEF LeaseInv, DelayOf
    <2>2. chunks[tasks[t].chunk].until \in Int /\ tasks[t].resumeAt \in Int /\ clock \in Nat
        BY <1>2, <2>1, Zenon DEF TypeOK, TaskRow, ChunkRow
    <2> QED
        BY <2>1, <2>2
<1> QED
    BY <1>1, <1>2, LeaseInvariance, Invariance, PTL

-----------------------------------------------------------------------------
(* The closed shard.                                                       *)

(* A task cannot have a chunk that is leased, whoever leased it, when      *)
(* nothing is.                                                             *)
LEMMA ClosedLeasesNothing ==
    ASSUME ClosedIsQuiet, admission.state = "closed"
    PROVE  /\ \A c \in Chunk : chunks[c].status # "leased"
           /\ \A k \in Case, n \in AttemptNo : attempts[k][n].status # "running"
BY Zenon DEF ClosedIsQuiet, ActiveWork, Leased

(* A worker's step writes no row of a closed shard: it needs a lease at    *)
(* the epoch of its claim, a lease of anyone, or a running attempt.        *)
LEMMA ClosedTaskStep ==
    ASSUME TypeOK, LeaseInv, ClosedIsQuiet, admission.state = "closed",
           NEW t \in Task, TaskStep(t)
    PROVE  UNCHANGED rows
<1>1. /\ \A c \in Chunk : chunks[c].status # "leased"
      /\ \A k \in Case, n \in AttemptNo : attempts[k][n].status # "running"
    BY ClosedLeasesNothing, Zenon
<1>2. \A now : ~HoldsLease(t, now)
    BY DEF HoldsLease, Admits
<1>3. CASE \E c \in Chunk : Claim(t, c)
    BY <1>3 DEF Claim
<1>4. CASE ExtendLease(t) \/ HeartbeatRenew(t) \/ Complete(t) \/ FailExhausted(t) \/ Release(t)
    BY <1>2, <1>4, Zenon
       DEF ExtendLease, HeartbeatRenew, Complete, FailExhausted, Release
<1>5. CASE \E B \in SUBSET Case : Allocate(t, B)
    BY <1>2, <1>5, Zenon DEF Allocate
<1>6. CASE HeartbeatAttempts(t)
    <2>1. UNCHANGED <<chunks, executions, aggregates, receipts>>
        BY <1>6, Zenon DEF HeartbeatAttempts
    <2>2. attempts' = [k \in Case |-> [n \in AttemptNo |-> attempts[k][n]]]
        BY <1>1, <1>6, Zenon DEF HeartbeatAttempts
    <2>3. attempts' = attempts
        BY <2>2, Zenon DEF TypeOK
    <2> QED
        BY <2>1, <2>3, Zenon DEF rows
<1>7. ASSUME NEW outcome \in [Case -> Outcome], Persist(t, outcome) PROVE UNCHANGED rows
    <2>1. UNCHANGED <<chunks, executions, attempts, receipts>>
        BY <1>7, Zenon DEF Persist
    <2>2. {a \in tasks[t].batch : outcome[a.case] = "completed"} = {}
        BY <1>2, <1>7, Zenon DEF Persist
    <2>3. aggregates' = [k \in Case |-> aggregates[k]]
        BY <1>7, <2>2, Zenon DEF Persist
    <2>4. aggregates' = aggregates
        BY <2>3 DEF TypeOK
    <2> QED
        BY <2>1, <2>4 DEF rows
<1>8. CASE Finalize(t) \/ FinalizeRejected(t)
    <2>1. tasks[t].chunk \in Chunk
        BY <1>8, Zenon DEF Finalize, FinalizeRejected, LeaseInv, PlacedOf
    <2>2. \A now : ~ChunkIsLive(t, now)
        BY <1>1, <2>1, Zenon DEF ChunkIsLive, Leased
    <2> QED
        BY <1>8, <2>2, Zenon DEF Finalize, FinalizeRejected, rows
<1>9. CASE \/ ExtendLost(t) \/ HeartbeatLost(t) \/ HeartbeatError(t) \/ ProcessingFails(t)
           \/ EndOfCases(t) \/ Summarize(t) \/ SettleStale(t) \/ DatabaseError(t)
           \/ SummaryReadError(t) \/ Redeliver(t)
    BY <1>9
       DEF ExtendLost, HeartbeatLost, HeartbeatError, ProcessingFails,
           EndOfCases,
                Summarize, SettleStale, DatabaseError, SummaryReadError,
                Redeliver
<1> QED
    BY <1>3, <1>4, <1>5, <1>6, <1>7, <1>8, <1>9, Zenon DEF TaskStep

(* No row of a closed shard changes, although allocation, persistence,     *)
(* finalization and the heartbeat do not take the shard's fence.           *)
THEOREM ClosedShardIsFrozen == Spec => ClosedIsFrozen
<1>1. IInv => TypeOK /\ ClosedIsQuiet
    BY Zenon DEF IInv, TypeInv
<1>2. TypeOK /\ ClosedIsQuiet /\ LeaseInv /\ [Next]_vars => [ClosedIsFrozenStep]_vars
    <2> SUFFICES ASSUME TypeOK, ClosedIsQuiet, LeaseInv, [Next]_vars,
                        admission.state = "closed"
                 PROVE  UNCHANGED rows
        BY Zenon DEF ClosedIsFrozenStep
    <2>1. \A c \in Chunk : chunks[c].status # "leased"
        BY ClosedLeasesNothing, Zenon
    <2>2. CASE \E t \in Task : TaskStep(t)
        BY <2>2, ClosedTaskStep
    <2>3. CASE Tick \/ (\E w \in Worker : Crash(w)) \/ CancelControl \/ BeginDrain \/ Cutover \/ AbortMove
        BY <2>3 DEF Tick, Crash, CancelControl, BeginDrain, Cutover, AbortMove
    <2>4. ASSUME NEW R \in SUBSET Chunk, NEW F \in SUBSET Chunk, Recover(R, F)
          PROVE  FALSE
        BY <2>1, <2>4 DEF Recover, ExpiredLeases, Leased
    <2>5. CASE CancelExecution
        BY <2>5, Zenon DEF CancelExecution
    <2>6. CASE UNCHANGED vars
        BY <2>6, Zenon DEF vars, rows
    <2> QED
        BY <2>2, <2>3, <2>4, <2>5, <2>6 DEF Next
<1> QED
    BY <1>1, <1>2, LeaseInvariance, Invariance, PTL DEF Spec, ClosedIsFrozen

-----------------------------------------------------------------------------
(* The inductive invariant: what a task has yet to report, and where it is.*)

Item(a) == [case |-> a.case, attempt |-> a.attempt]

Allocated(row) == {Item(a) : a \in row.batch}

Reported(row) == {Item(x) : x \in {x \in row.transitions : x.outcome # "exhausted"}}

Failed(row) == {Item(x) : x \in {x \in row.transitions : x.outcome \in {"retryable", "terminal"}}}

Items(row) == Allocated(row) \cup Reported(row)

(* No result is stored for what the task has yet to evaluate or has seen   *)
(* fail, while the attempt runs: no other task may store one.              *)
ItemInv(row) ==
    /\ \A i \in Items(row) : i.attempt <= Current(i.case)
    /\ \A i \in Allocated(row) \cup Failed(row) :
          attempts[i.case][i.attempt].status = "running" => aggregates[i.case].attempt # i.attempt
    /\ Allocated(row) \cap Reported(row) = {}

Exclusive == \A t, u \in Task : t # u => Items(tasks[t]) \cap Items(tasks[u]) = {}

Covered == {"batch", "evaluate", "finalize", "summarize"}

PlaceInv(row) ==
    /\ row.pc \in Covered =>
          \A k \in CasesOf(row.chunk) : k \in row.todo \/ executions[k].status # "absent"
    /\ row.pc \in {"finalize", "summarize"} => row.todo = {}
    /\ row.pc = "completing" =>
          \A k \in CasesOf(row.chunk) : executions[k].status \in TerminalExecution

RInv == /\ IInv
        /\ \A k \in Case : CaseInv(k)
        /\ \A t \in Task : ItemInv(tasks[t]) /\ PlaceInv(tasks[t])
        /\ Exclusive

-----------------------------------------------------------------------------
(* What each action does to the rows of a case.                            *)

(* The heartbeat renews attempts that run.                                 *)
LEMMA HeartbeatKeepsCases ==
    ASSUME TypeInv, NEW t \in Task, HeartbeatAttempts(t), NEW k \in Case PROVE Keeps(k)
<1>1. ASSUME NEW n \in AttemptNo PROVE Fades(k, n, {"stale"})
    <2>1. attempts'[k][n].status = attempts[k][n].status
        BY HeartbeatKeepsStatuses, Zenon
    <2>2. attempts[k][n].status # "running" => attempts'[k][n] = attempts[k][n]
        BY DEF HeartbeatAttempts
    <2> QED
        BY <2>1, <2>2, Zenon DEF Fades
<1> QED
    BY <1>1, Zenon DEF HeartbeatAttempts, Keeps

(* Persistence stores results of attempts that run.                        *)
LEMMA PersistCases ==
    ASSUME TypeInv, NEW t \in Task, NEW outcome, Persist(t, outcome), NEW k \in Case
    PROVE  \/ Keeps(k)
           \/ /\ Stores(k)
              /\ [case |-> k, attempt |-> Current(k)] \in Allocated(tasks[t])
              /\ outcome[k] = "completed"
<1> DEFINE done == {a \in tasks[t].batch : outcome[a.case] = "completed"}
<1>1. /\ done # {} => \E now \in Now : \A a \in done : OwnsAttempt(t, a.case, a.attempt, now)
      /\ aggregates' = [j \in Case |->
                IF \E a \in done : a.case = j
                THEN [attempt |-> executions[j].attemptNo, kind |-> "result"]
                ELSE aggregates[j]]
      /\ UNCHANGED <<executions, attempts>>
    BY Zenon DEF Persist
<1>2. CASE \E a \in done : a.case = k
    <2>1. PICK a \in done : a.case = k
        BY <1>2, Zenon
    <2>2. PICK now \in Now : OwnsAttempt(t, a.case, a.attempt, now)
        BY <1>1, Zenon
    <2>3. a \in Allocation
        BY Zenon DEF TypeInv, TypeOK, TaskRow
    <2>4. a.attempt = Current(k) /\ a.attempt \in AttemptNo /\ attempts[k][a.attempt].status = "running"
        BY <2>1, <2>2, <2>3, Zenon DEF OwnsAttempt, IsCurrent, Current, Allocation
    <2>5. Item(a) \in Allocated(tasks[t]) /\ Item(a) = [case |-> k, attempt |-> Current(k)]
        BY <2>1, <2>4, Zenon DEF Allocated, Item
    <2>6. aggregates'[k] = [attempt |-> Current(k), kind |-> "result"]
        BY <1>1, <1>2, Zenon DEF Current
    <2>7. Stores(k)
        BY <1>1, <2>4, <2>6, Zenon DEF Stores
    <2> QED
        BY <2>1, <2>5, <2>7, Zenon
<1>3. CASE ~\E a \in done : a.case = k
    <2>1. aggregates'[k] = aggregates[k]
        BY <1>1, <1>3, Zenon
    <2> QED
        BY <1>1, <2>1, Zenon DEF Keeps, Fades
<1> QED
    BY <1>2, <1>3, Zenon

(* Finalization closes the cases of its transitions.                       *)
LEMMA FinalizeCases ==
    ASSUME RInv, NEW t \in Task, Finalize(t), NEW k \in Case
    PROVE  Keeps(k) \/ Closes(k)
<1> DEFINE X == tasks[t].transitions
           x == For(X, k)
<1>0. TypeInv /\ TypeOK /\ Settled /\ TaskScope /\ OneRunningAttempt /\ CaseInv(k) /\ AggregateHasKind
    BY DEF RInv, IInv, TypeInv
<1>1. CASE X = {}
    BY <1>0, <1>1, SameRowsKeep, Zenon DEF Finalize
<1>2. CASE X # {}
    <2>1. PICK now \in Now, delay \in [Case -> RetryDelays] :
            /\ ChunkIsLive(t, now)
            /\ Applicable(t, now)
            /\ ApplyTransitions(X, now, delay)
        BY <1>2, Zenon DEF Finalize
    <2>2. X \in SUBSET Transition
        BY <1>0 DEF TypeOK, TaskRow
    <2>3. CASE k \notin {y.case : y \in X}
        <3> HIDE DEF X
        <3> QED
            BY <2>1, <2>3, Zenon DEF ApplyTransitions, Keeps, Fades
    <2>4. CASE k \in {y.case : y \in X}
        <3>1. x \in X /\ x.case = k /\ x \in Transition
            BY <2>2, <2>4, ForType, Zenon
        <3>2. x.attempt \in AttemptNo /\ x.outcome \in Outcome \cup {"exhausted"}
            BY <3>1, Zenon DEF Transition
        <3>3. Authoritative(t, x, now) /\ HasAggregate(x)
            BY <2>1, <3>1, Zenon DEF Applicable
        <3>4. /\ x.attempt = Current(k)
              /\ attempts[k][x.attempt].status \in {"running", "stale"}
              /\ x.outcome # "exhausted" => attempts[k][x.attempt].status = "running"
            BY <3>1, <3>3, Zenon
               DEF Authoritative, OwnsAttempt, IsCurrent, Current
        <3>5. /\ \A n \in AttemptNo : n # x.attempt => attempts'[k][n] = attempts[k][n]
              /\ attempts'[k][x.attempt]
                    = Ended(IF x.outcome = "completed" THEN "completed" ELSE "finished")
              /\ executions'[k] = IF Retries(x)
                    THEN [executions[k] EXCEPT !.status = "retry_scheduled",
                                               !.retryAfter = now + delay[k]]
                    ELSE [executions[k] EXCEPT
                            !.status = IF x.outcome = "completed" THEN "completed" ELSE "failed",
                            !.retryAfter = 0]
              /\ aggregates'[k] = IF x.outcome # "completed" /\ ~Retries(x)
                    THEN [attempt |-> x.attempt, kind |-> "error"]
                    ELSE aggregates[k]
            <4> HIDE DEF X
            <4> QED
                BY <2>1, <2>4, <3>2, Zenon DEF ApplyTransitions
        <3>6. ChunkOf[k] \in Chunk /\ ChunkOf[k] = tasks[t].chunk
            BY <1>0, <3>1, ChunkAssumption, Zenon
               DEF TaskScope, ScopeOf, CasesOf
        <3>7. OpenChunk(ChunkOf[k])
            BY Zenon, <1>0, <2>1, <3>6
            DEF OpenChunk, Settled, ReceiptMatchesChunk, TerminalChunks,
            TerminalChunk, ChunkIsLive, Leased
        <3>9. executions[k].status \in OpenExecution
            BY <1>0, <3>2, <3>4, <3>7, UnfinishedIsOpen, Zenon
        <3>10. x.outcome \in {"retryable", "terminal"} => aggregates[k].attempt # Current(k)
            <4>1. ASSUME x.outcome \in {"retryable", "terminal"}
                  PROVE  Item(x) \in Failed(tasks[t])
                BY <3>1, <4>1, Zenon DEF Failed
            <4>2. Item(x).case = k /\ Item(x).attempt = x.attempt
                BY <3>1, Zenon DEF Item
            <4>3. ItemInv(tasks[t])
                BY Zenon DEF RInv
            <4> HIDE DEF x
            <4> QED
                BY <3>4, <4>1, <4>2, <4>3, Zenon DEF ItemInv
        <3>11. x.outcome = "completed" =>
                    aggregates[k] = [attempt |-> Current(k), kind |-> "result"]
            <4>1. aggregates[k] \in AggregateRow
                BY <1>0 DEF TypeOK
            <4>2. x.outcome = "completed" =>
                    aggregates[k].attempt = Current(k) /\ aggregates[k].kind = "result"
                BY <1>0, <3>1, <3>3, <3>4, ResultIsCurrent, Zenon
            <4> QED
                BY <4>1, <4>2, Zenon DEF AggregateRow
        <3>12. executions[k] \in ExecutionRow
            BY <1>0, Zenon DEF TypeOK
        <3> HIDE DEF x, X
        <3>13. CASE Retries(x)
            <4>1. executions'[k].status = "retry_scheduled" /\ executions'[k].attemptNo = Current(k)
                BY <3>5, <3>12, <3>13 DEF ExecutionRow, Current
            <4>2. aggregates'[k] = aggregates[k] /\ attempts'[k][Current(k)].status = "finished"
                BY <3>4, <3>5, <3>13 DEF Retries, Ended
            <4> QED
                BY <3>2, <3>4, <3>5, <3>9, <3>10, <3>13, <4>1, <4>2, Zenon
                   DEF Closes, Retries
        <3>14. CASE x.outcome = "completed"
            <4>1. executions'[k].status = "completed" /\ executions'[k].attemptNo = Current(k)
                BY <3>5, <3>12, <3>14, Zenon DEF ExecutionRow, Current, Retries
            <4>2. aggregates'[k] = aggregates[k] /\ attempts'[k][Current(k)].status = "completed"
                BY <3>4, <3>5, <3>14 DEF Ended
            <4> QED
                BY <3>2, <3>4, <3>5, <3>9, <3>11, <3>14, <4>1, <4>2, Zenon
                   DEF Closes
        <3>15. CASE ~Retries(x) /\ x.outcome # "completed"
            <4>1. executions'[k].status = "failed" /\ executions'[k].attemptNo = Current(k)
                BY <3>5, <3>12, <3>15, Zenon DEF ExecutionRow, Current
            <4>2. /\ aggregates'[k] = [attempt |-> Current(k), kind |-> "error"]
                  /\ attempts'[k][Current(k)].status = "finished"
                BY <3>4, <3>5, <3>15 DEF Ended
            <4> QED
                BY <3>2, <3>4, <3>5, <3>9, <3>15, <4>1, <4>2, Zenon DEF Closes
        <3> QED
            BY <3>13, <3>14, <3>15, Zenon
    <2> QED
        BY <2>3, <2>4
<1> QED
    BY <1>1, <1>2, Zenon

(* A rejected finalization retires attempts that run.                      *)
LEMMA RejectedKeepsCases ==
    ASSUME TypeInv, NEW t \in Task, FinalizeRejected(t), NEW k \in Case PROVE Keeps(k)
<1>1. UNCHANGED <<executions, aggregates>>
    BY Zenon DEF FinalizeRejected
<1>2. ASSUME NEW n \in AttemptNo PROVE Fades(k, n, {"stale"})
    <2>1. \/ attempts'[k][n] = attempts[k][n]
          \/ attempts[k][n].status = "running" /\ attempts'[k][n] = Ended("stale")
        <3>1. \/ attempts' = attempts
              \/ \E now \in Now : attempts' = [j \in Case |-> [m \in AttemptNo |->
                    IF LostAttempt(t, j, m, now) THEN Ended("stale") ELSE attempts[j][m]]]
            BY Zenon DEF FinalizeRejected
        <3>2. CASE attempts' = attempts
            BY <3>2, Zenon
        <3>3. ASSUME NEW now \in Now, attempts' = [j \in Case |-> [m \in AttemptNo |->
                    IF LostAttempt(t, j, m, now) THEN Ended("stale") ELSE attempts[j][m]]]
              PROVE \/ attempts'[k][n] = attempts[k][n]
                    \/ attempts[k][n].status = "running" /\ attempts'[k][n] = Ended("stale")
            BY <3>3, Zenon DEF LostAttempt
        <3> QED
            BY <3>1, <3>2, <3>3, Zenon
    <2> QED
        BY <2>1 DEF Fades, Ended
<1> QED
    BY <1>1, <1>2, Zenon DEF Keeps

(* Settlement ends the cases of the chunks that have no receipt yet.       *)
LEMMA SettleCases ==
    ASSUME NEW C, NEW exe \in [Case -> ExecutionRow], NEW att,
           Settle(C, exe, att), aggregates' = aggregates,
           NEW k \in Case, ChunkOf[k] \in C, OpenChunk(ChunkOf[k]),
           chunks'[ChunkOf[k]].status \in TerminalChunk,
           executions[k].status \notin OpenExecution => exe[k] = executions[k],
           executions[k].status \in OpenExecution =>
                exe[k].attemptNo = Current(k) /\ exe[k].status \in OpenExecution \cup {"cancelled"},
           \A n \in AttemptNo :
                /\ attempts[k][n].status # "running" => att[k][n] = attempts[k][n]
                /\ attempts[k][n].status = "running" =>
                        att[k][n].status \in {"running", "stale", "cancelled"}
    PROVE  Ends(k)
<1> DEFINE fresh == Unsettled(C)
           retired == Retire(att, {j \in Case : ChunkOf[j] \in fresh}, "stale")
           resolved == Resolved(fresh, exe)
           s == IF chunks'[ChunkOf[k]].status = "cancelled" THEN "cancelled" ELSE "failed"
<1>1. attempts' = retired /\ executions' = resolved
    BY Zenon DEF Settle
<1>2. ChunkOf[k] \in fresh /\ ChunkOf[k] \in Chunk
    BY ChunkAssumption, Zenon DEF Unsettled, OpenChunk
<1>3. receipts'[ChunkOf[k]].disposition = chunks'[ChunkOf[k]].status
    BY <1>2, SettleFresh, Zenon DEF WritesReceipt, OpenChunk
<1>4. resolved[k] = IF exe[k].status \in OpenExecution
                    THEN [status |-> s, attemptNo |-> exe[k].attemptNo, retryAfter |-> 0]
                    ELSE exe[k]
    BY <1>2, Zenon DEF Resolved
<1>5. ASSUME NEW n \in AttemptNo PROVE Fades(k, n, {"stale", "cancelled"})
    <2>1. retired[k][n] = IF att[k][n].status = "running" THEN Ended("stale") ELSE att[k][n]
        BY <1>2, Zenon DEF Retire
    <2> HIDE DEF retired
    <2> QED
        BY <1>1, <2>1, RetiredFades, Zenon
<1>6. s \in {"failed", "cancelled"}
    BY Zenon
<1> HIDE DEF s, resolved
<1>7. /\ executions[k].status \notin OpenExecution => executions'[k] = executions[k]
      /\ executions[k].status \in OpenExecution =>
            executions'[k].status \in {"failed", "cancelled"} /\ executions'[k].attemptNo = Current(k)
    BY <1>1, <1>4, <1>6, SMTT(30), Z3T(30)
<1>8. receipts'[ChunkOf[k]].disposition # "none"
    BY <1>3, Zenon DEF TerminalChunk
<1> QED
    BY <1>5, <1>7, <1>8, Zenon DEF Ends

(* A step that settles the chunks of C with disposition d.                 *)
SettlesAll(C, d) ==
    /\ C \subseteq Chunk
    /\ d \in TerminalChunk
    /\ \A c \in Chunk : IF c \in C THEN SettlesChunk(c) /\ chunks'[c].status = d
                        ELSE receipts'[c] = receipts[c]
    /\ \A k \in Case : IF ChunkOf[k] \in C THEN Ends(k) ELSE Keeps(k)
    /\ d = "completed" =>
          \A k \in Case : ChunkOf[k] \in C => executions[k].status \in TerminalExecution

(* A step that settles nothing.                                            *)
Works ==
    /\ receipts' = receipts
    /\ \A k \in Case : Keeps(k) \/ Starts(k) \/ Stores(k) \/ Closes(k)

(* A worker settles its own chunk, completed only when nothing is open.    *)
LEMMA WorkerSettles ==
    ASSUME RInv, NEW t \in Task, Complete(t) \/ FailExhausted(t)
    PROVE  \E C \in SUBSET Chunk, d \in TerminalChunk : SettlesAll(C, d)
<1> DEFINE c == tasks[t].chunk
           C == {e \in Chunk : e = c}
<1>0. TypeInv /\ TypeOK /\ Settled
    BY DEF RInv, IInv, TypeInv
<1>1. PICK d \in {"completed", "failed"} :
            /\ chunks' = [chunks EXCEPT ![c] = Unleased(@, d)]
            /\ d = "completed" => Complete(t)
    BY Zenon DEF Complete, FailExhausted
<1>2. /\ Settle({c}, executions, attempts) /\ aggregates' = aggregates
      /\ chunks[c].status = "leased"
    BY Zenon DEF Complete, FailExhausted, HoldsLease
<1>3. d \in TerminalChunk /\ "leased" \notin TerminalChunk
    BY DEF TerminalChunk
<1>4. c \in Chunk => chunks'[c].status = d
    <2>1. c \in Chunk => chunks'[c] = Unleased(chunks[c], d)
        BY <1>0, <1>1, Zenon DEF TypeOK
    <2> HIDE DEF c
    <2> QED
        BY <2>1, UnleasedStatus, Zenon
<1>5. ASSUME NEW e \in C PROVE SettlesChunk(e) /\ chunks'[e].status = d
    <2>1. ChunkStep
        BY <1>0, WorkerSettlementIsChunkStep, Zenon
    <2> QED
        BY <1>2, <1>3, <1>4, <2>1, Zenon
           DEF ChunkStep, LeavesChunk, WorksOnChunk
<1>6. ASSUME NEW e \in Chunk, e \notin C
      PROVE  /\ receipts'[e] = receipts[e]
             /\ \A k \in CasesOf(e) :
                    /\ executions'[k] = executions[k]
                    /\ \A n \in AttemptNo : attempts'[k][n] = attempts[k][n]
    <2>1. e # c /\ Settle({c}, executions, attempts)
        BY <1>2, <1>6, Zenon
    <2> QED
        BY <2>1, SettleOneOther, Zenon
<1>7. ASSUME NEW k \in Case PROVE IF ChunkOf[k] \in C THEN Ends(k) ELSE Keeps(k)
    <2>1. ChunkOf[k] \in Chunk /\ k \in CasesOf(ChunkOf[k])
        BY ChunkAssumption, Zenon DEF CasesOf
    <2>2. CASE ChunkOf[k] \in C
        <3>1. OpenChunk(ChunkOf[k])
            BY <1>0, <1>2, <1>3, <2>2, Zenon
               DEF OpenChunk, Settled, ReceiptMatchesChunk, TerminalChunks
        <3>2. executions \in [Case -> ExecutionRow]
            BY <1>0, Zenon DEF TypeOK
        <3>3. ChunkOf[k] \in {c} /\ chunks'[ChunkOf[k]].status \in TerminalChunk
            BY <1>3, <1>5, <2>2, Zenon
        <3> DEFINE D == {c}
        <3>4. Settle(D, executions, attempts) /\ ChunkOf[k] \in D
            BY <1>2, <3>3, Zenon
        <3> HIDE DEF D
        <3>5. Ends(k)
            BY <1>2, <3>1, <3>2, <3>3, <3>4, SettleCases, Zenon DEF Current
        <3> QED
            BY <2>2, <3>5, Zenon
    <2>3. CASE ChunkOf[k] \notin C
        <3>1. Keeps(k)
            BY <1>2, <1>6, <2>1, <2>3, Zenon DEF Keeps, Fades
        <3> QED
            BY <2>3, <3>1, Zenon
    <2> QED
        BY <2>2, <2>3, Zenon
<1>8. ASSUME d = "completed", NEW k \in Case, ChunkOf[k] \in C
      PROVE  executions[k].status \in TerminalExecution
    <2>1. tasks[t].pc = "completing"
        BY <1>1, <1>8, Zenon DEF Complete
    <2>2. k \in CasesOf(tasks[t].chunk)
        BY <1>8, Zenon DEF CasesOf
    <2> QED
        BY <2>1, <2>2, Zenon DEF RInv, PlaceInv
<1> HIDE DEF C
<1>9. C \subseteq Chunk
    BY Zenon DEF C
<1>10. SettlesAll(C, d)
    BY <1>3, <1>5, <1>6, <1>7, <1>8, <1>9, Zenon DEF SettlesAll
<1> QED
    BY <1>3, <1>9, <1>10, Zenon

(* Recovery settles the chunks that it fails.                              *)
LEMMA RecoverSettles ==
    ASSUME RInv, NEW R \in SUBSET Chunk, NEW F \in SUBSET Chunk, Recover(R, F)
    PROVE  \E C \in SUBSET Chunk, d \in TerminalChunk : SettlesAll(C, d)
<1> DEFINE att == Retire(attempts, {k \in Case : ChunkOf[k] \in R \cup F}, "stale")
<1>0. TypeInv /\ TypeOK /\ Settled
    BY DEF RInv, IInv, TypeInv
<1>1. Settle(F, executions, att) /\ aggregates' = aggregates
    BY Zenon DEF Recover
<1>2. ASSUME NEW c \in F PROVE chunks[c].status = "leased" /\ chunks'[c].status = "failed"
    <2>1. chunks[c].recoveries \in Nat
        BY <1>0 DEF TypeOK, ChunkRow
    <2>2. c \notin R
        BY <2>1, BudgetAssumption DEF Recover
    <2> QED
        BY <2>2, Zenon DEF Recover, ExpiredLeases, Leased, Unleased
<1>3. "failed" \in TerminalChunk /\ "leased" \notin TerminalChunk
    BY Zenon DEF TerminalChunk
<1>4. ASSUME NEW c \in F PROVE SettlesChunk(c) /\ chunks'[c].status = "failed"
    <2>1. ChunkStep
        BY <1>0, RecoverIsChunkStep, Zenon
    <2> QED
        BY <1>2, <1>3, <2>1, Zenon DEF ChunkStep, LeavesChunk, WorksOnChunk
<1>5. ASSUME NEW k \in Case, NEW n \in AttemptNo
      PROVE  /\ attempts[k][n].status # "running" => att[k][n] = attempts[k][n]
             /\ attempts[k][n].status = "running" => att[k][n].status \in {"running", "stale"}
    BY Zenon DEF Retire, Ended
<1> HIDE DEF att
<1>6. ASSUME NEW c \in Chunk, c \notin F
      PROVE  /\ receipts'[c] = receipts[c]
             /\ \A k \in CasesOf(c) :
                    /\ executions'[k] = executions[k]
                    /\ \A n \in AttemptNo : attempts'[k][n] = att[k][n]
    BY <1>1, <1>6, SettleOther
<1>7. ASSUME NEW k \in Case PROVE IF ChunkOf[k] \in F THEN Ends(k) ELSE Keeps(k)
    <2>1. ChunkOf[k] \in Chunk /\ k \in CasesOf(ChunkOf[k])
        BY ChunkAssumption, Zenon DEF CasesOf
    <2>2. CASE ChunkOf[k] \in F
        <3>1. OpenChunk(ChunkOf[k])
            BY Zenon, <1>0, <1>2, <1>3, <2>1, <2>2
            DEF OpenChunk, Settled, ReceiptMatchesChunk, TerminalChunks
        <3>2. executions \in [Case -> ExecutionRow]
            BY <1>0, Zenon DEF TypeOK
        <3>3. chunks'[ChunkOf[k]].status \in TerminalChunk
            BY <1>3, <1>4, <2>2, Zenon
        <3>4. \A n \in AttemptNo :
                /\ attempts[k][n].status # "running" => att[k][n] = attempts[k][n]
                /\ attempts[k][n].status = "running" =>
                        att[k][n].status \in {"running", "stale", "cancelled"}
            BY <1>5, Zenon
        <3>5. Current(k) = executions[k].attemptNo
            BY DEF Current
        <3>6. Ends(k)
            BY <1>1, <2>2, <3>1, <3>2, <3>3, <3>4, <3>5, SettleCases, Zenon
        <3> QED
            BY <2>2, <3>6, Zenon
    <2>3. CASE ChunkOf[k] \notin F
        <3>1. Keeps(k)
            BY <1>1, <1>5, <1>6, <2>1, <2>3 DEF Keeps, Fades
        <3> QED
            BY <2>3, <3>1, Zenon
    <2> QED
        BY <2>2, <2>3, Zenon
<1>8. SettlesAll(F, "failed")
    BY <1>3, <1>4, <1>6, <1>7, Zenon DEF SettlesAll
<1> QED
    BY <1>3, <1>8, Zenon

(* Cancellation settles every chunk that has no receipt.                   *)
LEMMA CancelSettles ==
    ASSUME RInv, CancelExecution
    PROVE  \E C \in SUBSET Chunk, d \in TerminalChunk : SettlesAll(C, d)
<1> DEFINE C == {c \in Chunk : receipts[c].disposition = "none"}
           att == Retire(attempts, Case, "cancelled")
<1>0. TypeInv /\ TypeOK /\ Settled
    BY DEF RInv, IInv, TypeInv
<1>1. Settle(C, CancelledExecutions, att) /\ aggregates' = aggregates
    BY DEF CancelExecution, CancelledExecutions
<1>2. CancelledExecutions \in [Case -> ExecutionRow]
    BY <1>0, CancelledType, Zenon
<1>3. ASSUME NEW c \in C
      PROVE  chunks[c].status \notin TerminalChunk /\ chunks'[c].status = "cancelled"
    <2>1. chunks[c].status \notin TerminalChunk
        BY <1>0, Zenon
           DEF Settled, ReceiptMatchesChunk, TerminalChunks, TerminalChunk
    <2>2. chunks[c].status \in ChunkStatus
        BY <1>0, Zenon DEF TypeOK, ChunkRow
    <2> QED
        BY <2>1, <2>2, Zenon DEF CancelExecution, Unleased, ChunkStatus
<1>4. "cancelled" \in TerminalChunk /\ C \subseteq Chunk
    BY Zenon DEF TerminalChunk
<1>5. ASSUME NEW c \in C PROVE SettlesChunk(c) /\ chunks'[c].status = "cancelled"
    <2>1. ChunkStep
        BY <1>0, CancelIsChunkStep, Zenon
    <2> QED
        BY <1>3, <1>4, <2>1 DEF ChunkStep, LeavesChunk, WorksOnChunk
<1>6. ASSUME NEW c \in Chunk, c \notin C PROVE LeavesChunk(c)
    <2>1. ChunkStep /\ chunks[c].status \in TerminalChunk
        BY <1>0, <1>6, CancelIsChunkStep, Zenon
           DEF Settled, ReceiptMatchesChunk, TerminalChunks
    <2> QED
        BY <2>1, Zenon DEF ChunkStep, WorksOnChunk, SettlesChunk
<1>7. ASSUME NEW k \in Case, NEW n \in AttemptNo
      PROVE  /\ attempts[k][n].status # "running" => att[k][n] = attempts[k][n]
             /\ attempts[k][n].status = "running" => att[k][n].status = "cancelled"
    BY DEF Retire, Ended
<1>8. ASSUME NEW k \in Case
      PROVE  /\ executions[k].status \notin OpenExecution => CancelledExecutions[k] = executions[k]
             /\ executions[k].status \in OpenExecution =>
                    /\ CancelledExecutions[k].attemptNo = Current(k)
                    /\ CancelledExecutions[k].status = "cancelled"
    BY <1>0, Zenon DEF CancelledExecutions, TypeOK, ExecutionRow, Current
<1> HIDE DEF att
<1>9. ASSUME NEW k \in Case PROVE IF ChunkOf[k] \in C THEN Ends(k) ELSE Keeps(k)
    <2>1. ChunkOf[k] \in Chunk /\ k \in CasesOf(ChunkOf[k])
        BY ChunkAssumption, Zenon DEF CasesOf
    <2>2. CASE ChunkOf[k] \in C
        <3>1. OpenChunk(ChunkOf[k]) /\ chunks'[ChunkOf[k]].status \in TerminalChunk
            BY <1>3, <1>4, <2>2, Zenon DEF OpenChunk
        <3> HIDE DEF C
        <3>2. Ends(k)
            <4>1. executions[k].status \in OpenExecution =>
                      /\ CancelledExecutions[k].attemptNo = Current(k)
                      /\ CancelledExecutions[k].status \in OpenExecution \cup {"cancelled"}
                BY <1>8, Zenon
            <4>2. \A n \in AttemptNo :
                    /\ attempts[k][n].status # "running" => att[k][n] = attempts[k][n]
                    /\ attempts[k][n].status = "running" =>
                            att[k][n].status \in {"running", "stale", "cancelled"}
                BY <1>7, Zenon
            <4> QED
                BY <1>1, <1>2, <1>8, <2>2, <3>1, <4>1, <4>2, SettleCases, Zenon
        <3> QED
            BY <2>2, <3>2, Zenon
    <2>3. CASE ChunkOf[k] \notin C
        <3> HIDE DEF C
        <3>1. LeavesChunk(ChunkOf[k]) /\ chunks[ChunkOf[k]].status \in TerminalChunk
            BY <1>0, <1>6, <2>1, <2>3, Zenon
               DEF C, Settled, ReceiptMatchesChunk, TerminalChunks
        <3>2. \A n \in AttemptNo : attempts[k][n].status # "running"
            BY <1>0, <2>1, <3>1, Zenon
               DEF Settled, SettledHasNoOpenWork, TerminalChunks
        <3>3. \A n \in AttemptNo : attempts'[k][n] = att[k][n]
            BY <2>1, <2>3, CancelOtherAttempts, Zenon DEF C, att
        <3>4. Keeps(k)
            BY <1>7, <2>1, <3>1, <3>2, <3>3, Zenon
               DEF Keeps, Fades, LeavesChunk
        <3> QED
            BY <2>3, <3>4, Zenon
    <2> QED
        BY <2>2, <2>3, Zenon
<1> HIDE DEF C
<1>10. SettlesAll(C, "cancelled")
    BY <1>4, <1>5, <1>6, <1>9, Zenon DEF SettlesAll, LeavesChunk
<1> QED
    BY <1>4, <1>10, Zenon
=============================================================================
