----------------------- MODULE ChunkSettlementProofs ------------------------
(***************************************************************************)
(* ChunkExecution implements ChunkSettlement, for every value of the       *)
(* constants.  ChunkExecutionProofs says what a step does to the rows of a *)
(* case (CaseStep, CaseInv).  The rest is here.                            *)
(*                                                                         *)
(*  - The tasks: what they have yet to report (ItemInv) decides which of   *)
(*    the five things a finalization may do to a case, and where a task is *)
(*    (PlaceInv) says that it has seen every case of a chunk that it       *)
(*    completes.  So RInv of ChunkExecutionProofs is inductive.            *)
(*  - The refinement: a step never changes the outcome of a case that has  *)
(*    one, and a chunk is settled with the outcomes of all its cases.  The *)
(*    properties of the rows follow from the same invariant.               *)
(***************************************************************************)
EXTENDS ChunkExecutionProofs

(* The provers a leaf that names none is given to, in this order.          *)
USE SMT, Zenon, Z3

-----------------------------------------------------------------------------
(* What a step does to the tasks.                                          *)

Narrows(u) ==
    /\ tasks'[u].batch \subseteq tasks[u].batch
    /\ tasks'[u].transitions \subseteq tasks[u].transitions

Stays(u) ==
    /\ tasks'[u].pc = tasks[u].pc
    /\ tasks'[u].chunk = tasks[u].chunk
    /\ tasks'[u].todo = tasks[u].todo
    /\ Narrows(u)

Rests(u) ==
    /\ tasks'[u].pc \notin Covered \cup {"completing"}
    /\ Narrows(u)

(* An execution keeps its number of attempts and, once terminal, its       *)
(* status.                                                                 *)
Advances(k) ==
    /\ Current(k) <= executions'[k].attemptNo
    /\ executions[k].status # "absent" => executions'[k].status # "absent"
    /\ executions[k].status \in TerminalExecution => executions'[k].status = executions[k].status

(* Whatever a step does to a case, the case does not go back.              *)
LEMMA CaseAdvances ==
    ASSUME TypeOK, NEW k \in Case, CaseStep(k) PROVE Advances(k)
<1>1. Current(k) \in Nat
    BY CaseTypes, BudgetAssumption
<1> QED
    BY <1>1, SMTT(30), Z3T(30) DEF CaseStep, Keeps, Starts, Stores, Closes, Ends, Advances, Current, OpenExecution,
                TerminalExecution

(* What tasks that take on nothing have to report stays as it should be,   *)
(* unless a result is stored.                                              *)
LEMMA NarrowItems ==
    ASSUME RInv, \A k \in Case : Keeps(k) \/ Starts(k) \/ Closes(k) \/ Ends(k),
           NEW u \in Task, Narrows(u)
    PROVE  /\ Items(tasks'[u]) \subseteq Items(tasks[u])
           /\ ItemInv(tasks[u])'
<1>0. TypeOK /\ ItemInv(tasks[u]) /\ tasks[u] \in TaskRow
    BY DEF RInv, IInv, TypeInv, TypeOK
<1>1. /\ Allocated(tasks'[u]) \subseteq Allocated(tasks[u])
      /\ Reported(tasks'[u]) \subseteq Reported(tasks[u])
      /\ Failed(tasks'[u]) \subseteq Failed(tasks[u])
    BY DEF Narrows, Allocated, Reported, Failed
<1>2. Failed(tasks[u]) \subseteq Reported(tasks[u])
    BY DEF Failed, Reported
<1>3. \A i \in Items(tasks[u]) : i.case \in Case /\ i.attempt \in AttemptNo
    BY <1>0 DEF Items, Allocated, Reported, Item, TaskRow, Allocation, Transition
<1>4. ASSUME NEW i \in Items(tasks'[u])
      PROVE  i.attempt <= executions'[i.case].attemptNo
    <2>1. i \in Items(tasks[u])
        BY <1>1 DEF Items
    <2>2. i.case \in Case /\ i.attempt \in AttemptNo /\ i.attempt <= Current(i.case)
        BY <1>0, <1>3, <2>1 DEF ItemInv
    <2>3. Advances(i.case)
        BY <1>0, <2>2, CaseAdvances DEF CaseStep
    <2>4. Current(i.case) \in Nat /\ executions'[i.case].attemptNo \in Nat
        <3>1. Current(i.case) \in Nat
            BY <1>0, <2>2, CaseTypes, BudgetAssumption
        <3>2. Keeps(i.case) \/ Starts(i.case) \/ Closes(i.case) \/ Ends(i.case)
            BY <2>2
        <3>3. executions'[i.case].attemptNo \in {Current(i.case), Current(i.case) + 1}
            BY <3>2, Zenon DEF Keeps, Starts, Closes, Ends, Current
        <3> QED
            BY <3>1, <3>3
    <2> QED
        BY <2>2, <2>3, <2>4 DEF Advances, AttemptNo
<1>5. ASSUME NEW i \in Allocated(tasks'[u]) \cup Failed(tasks'[u]),
             attempts'[i.case][i.attempt].status = "running"
      PROVE  aggregates'[i.case].attempt # i.attempt
    <2>1. i \in Allocated(tasks[u]) \cup Failed(tasks[u]) /\ i \in Items(tasks[u])
        BY <1>1, <1>2 DEF Items
    <2>2. /\ i.case \in Case /\ i.attempt \in AttemptNo /\ i.attempt <= Current(i.case)
          /\ attempts[i.case][i.attempt].status = "running" =>
                aggregates[i.case].attempt # i.attempt
        BY <1>0, <1>3, <2>1 DEF ItemInv
    <2>3. Current(i.case) \in Nat
        BY <1>0, <2>2, CaseTypes, BudgetAssumption
    <2> DEFINE k == i.case
               n == i.attempt
    <2>4. Keeps(k) \/ Starts(k) \/ Closes(k) \/ Ends(k)
        BY <2>2
    <2>5. k \in Case /\ n \in AttemptNo /\ n <= Current(k) /\ attempts'[k][n].status = "running"
        BY <1>5, <2>2
    <2>6. attempts[k][n].status = "running" => aggregates[k].attempt # n
        BY <2>2
    <2> HIDE DEF k, n
    <2>7. Current(k) \in Nat /\ n \in Nat
        BY <2>3, <2>5 DEF k, AttemptNo
    <2>8. aggregates'[k].attempt # n
        <3>1. CASE Keeps(k) \/ Ends(k)
            BY <2>5, <2>6, <3>1 DEF Keeps, Ends, Fades
        <3>2. CASE Starts(k)
            BY <2>5, <2>6, <2>7, <3>2, SMTT(30), Z3T(30) DEF Starts, Fades
        <3>3. CASE Closes(k)
            BY <2>5, <2>6, <2>7, <3>3, SMTT(30), Z3T(30) DEF Closes
        <3> QED
            BY <2>4, <3>1, <3>2, <3>3
    <2> QED
        BY <2>8 DEF k, n
<1>6. Allocated(tasks'[u]) \cap Reported(tasks'[u]) = {}
    BY <1>0, <1>1 DEF ItemInv
<1>7. ItemInv(tasks[u])'
    BY <1>4, <1>5, <1>6 DEF ItemInv, Current
<1> QED
    BY <1>1, <1>7 DEF Items

(* Tasks that take on nothing stay exclusive.                              *)
LEMMA NarrowExclusive ==
    ASSUME Exclusive, \A u \in Task : Items(tasks'[u]) \subseteq Items(tasks[u])
    PROVE  Exclusive'
<1> SUFFICES ASSUME NEW t \in Task, NEW u \in Task, t # u
             PROVE  Items(tasks'[t]) \cap Items(tasks'[u]) = {}
    BY DEF Exclusive, Items, Allocated, Reported, Item
<1>1. Items(tasks[t]) \cap Items(tasks[u]) = {}
    BY DEF Exclusive
<1> QED
    BY <1>1

(* A task that stays where it is, or leaves its chunk, is where it should  *)
(* be.                                                                     *)
LEMMA CalmPlace ==
    ASSUME RInv, \A k \in Case : CaseStep(k), NEW u \in Task, Stays(u) \/ Rests(u)
    PROVE  PlaceInv(tasks[u])'
<1>1. PlaceInv(tasks[u]) /\ TypeOK
    BY DEF RInv, IInv, TypeInv
<1>2. \A k \in Case : Advances(k)
    BY <1>1, CaseAdvances
<1>3. CASE Stays(u)
    BY <1>1, <1>2, <1>3 DEF PlaceInv, Stays, Advances, CasesOf
<1>4. CASE Rests(u)
    BY <1>4 DEF PlaceInv, Rests, Covered
<1> QED
    BY <1>3, <1>4

TasksInv == (\A t \in Task : ItemInv(tasks[t]) /\ PlaceInv(tasks[t])) /\ Exclusive

(* Tasks that stay or rest keep their part of the invariant.               *)
LEMMA CalmTasks ==
    ASSUME RInv, \A k \in Case : Keeps(k) \/ Starts(k) \/ Closes(k) \/ Ends(k),
           \A u \in Task : Stays(u) \/ Rests(u)
    PROVE  TasksInv'
<1>1. \A u \in Task : Narrows(u)
    BY DEF Stays, Rests
<1>2. \A u \in Task : Items(tasks'[u]) \subseteq Items(tasks[u]) /\ ItemInv(tasks[u])'
    BY <1>1, NarrowItems
<1>3. Exclusive'
    BY <1>2, NarrowExclusive DEF RInv
<1>4. \A u \in Task : PlaceInv(tasks[u])'
    BY CalmPlace DEF CaseStep
<1> QED
    BY <1>2, <1>3, <1>4 DEF TasksInv

(* The same, when one task goes to another place.                          *)
LEMMA OneTaskMoves ==
    ASSUME RInv, \A k \in Case : Keeps(k) \/ Starts(k) \/ Closes(k) \/ Ends(k),
           NEW t \in Task, \A u \in Task : u # t => tasks'[u] = tasks[u],
           Narrows(t), PlaceInv(tasks[t])'
    PROVE  TasksInv'
<1>1. \A u \in Task : Narrows(u)
    BY DEF Narrows
<1>2. \A u \in Task : Items(tasks'[u]) \subseteq Items(tasks[u]) /\ ItemInv(tasks[u])'
    BY <1>1, NarrowItems
<1>3. Exclusive'
    BY <1>2, NarrowExclusive DEF RInv
<1>4. \A u \in Task : u # t => PlaceInv(tasks[u])'
    BY <1>1, CalmPlace DEF CaseStep, Stays
<1> QED
    BY <1>2, <1>3, <1>4 DEF TasksInv


-----------------------------------------------------------------------------
(* What each action does to the tasks.                                     *)

(* Replacing the row of one task.                                          *)
LEMMA RowReplaced ==
    ASSUME TypeOK, NEW t \in Task, NEW row, tasks' = [tasks EXCEPT ![t] = row]
    PROVE  tasks'[t] = row /\ \A u \in Task : u # t => tasks'[u] = tasks[u]
BY DEF TypeOK

(* A task that is replaced by one with nothing to do.                      *)
LEMMA EmptyRests ==
    ASSUME TypeOK, NEW t \in Task, NEW row, tasks' = [tasks EXCEPT ![t] = row],
           row.pc \notin Covered \cup {"completing"}, row.batch = {}, row.transitions = {}
    PROVE  \A u \in Task : Stays(u) \/ Rests(u)
<1>1. tasks'[t] = row /\ \A u \in Task : u # t => tasks'[u] = tasks[u]
    BY RowReplaced, Zenon
<1> QED
    BY <1>1 DEF Stays, Rests, Narrows

(* A task that goes on in its next state.                                  *)
LEMMA ContinueMoves ==
    ASSUME TypeOK, NEW t \in Task, NEW pc, Continue(t, pc)
    PROVE  /\ \A u \in Task : u # t => tasks'[u] = tasks[u]
           /\ tasks'[t].pc = pc
           /\ tasks'[t].chunk = tasks[t].chunk
           /\ tasks'[t].todo = IF pc = "finalize" THEN tasks[t].todo ELSE {}
           /\ Narrows(t)
<1>1. tasks[t] \in TaskRow
    BY DEF TypeOK
<1> DEFINE kept == [tasks[t] EXCEPT !.pc = pc]
           bare == [tasks[t] EXCEPT !.pc = pc, !.todo = {}, !.batch = {}, !.transitions = {}]
<1>2. /\ kept.pc = pc /\ kept.chunk = tasks[t].chunk /\ kept.todo = tasks[t].todo
      /\ kept.batch = tasks[t].batch /\ kept.transitions = tasks[t].transitions
    BY <1>1 DEF TaskRow
<1>3. /\ bare.pc = pc /\ bare.chunk = tasks[t].chunk /\ bare.todo = {}
      /\ bare.batch = {} /\ bare.transitions = {}
    BY <1>1 DEF TaskRow
<1>4. tasks' = [tasks EXCEPT ![t] = IF pc = "finalize" THEN kept ELSE bare]
    BY DEF Continue
<1> HIDE DEF kept, bare
<1>5. /\ tasks'[t] = IF pc = "finalize" THEN kept ELSE bare
      /\ \A u \in Task : u # t => tasks'[u] = tasks[u]
    BY <1>4, RowReplaced, Zenon
<1> QED
    BY <1>2, <1>3, <1>5 DEF Narrows

(* The heartbeat does not touch what the handler does.                     *)
LEMMA BeatStays ==
    ASSUME TypeOK, NEW t \in Task, NEW b, tasks' = [tasks EXCEPT ![t].beat = b]
    PROVE  \A u \in Task : Stays(u) \/ Rests(u)
<1> DEFINE row == [tasks[t] EXCEPT !.beat = b]
<1>1. tasks[t] \in TaskRow
    BY DEF TypeOK
<1>2. /\ row.pc = tasks[t].pc /\ row.chunk = tasks[t].chunk /\ row.todo = tasks[t].todo
      /\ row.batch = tasks[t].batch /\ row.transitions = tasks[t].transitions
    BY <1>1 DEF TaskRow
<1>3. tasks' = [tasks EXCEPT ![t] = row]
    OBVIOUS
<1> HIDE DEF row
<1>4. tasks'[t] = row /\ \A u \in Task : u # t => tasks'[u] = tasks[u]
    BY <1>3, RowReplaced, Zenon
<1> QED
    BY <1>2, <1>4 DEF Stays, Narrows

CalmAction(t) ==
    \/ \E c \in Chunk : Claim(t, c)
    \/ ExtendLost(t)
    \/ HeartbeatRenew(t) \/ HeartbeatLost(t) \/ HeartbeatAttempts(t) \/ HeartbeatError(t)
    \/ ProcessingFails(t) \/ FinalizeRejected(t)
    \/ Complete(t) \/ FailExhausted(t) \/ Release(t) \/ SettleStale(t)
    \/ DatabaseError(t) \/ SummaryReadError(t) \/ Redeliver(t)

(* The actions in which a task takes on nothing.                           *)
LEMMA CalmActions ==
    ASSUME TypeOK, NEW t \in Task, CalmAction(t)
    PROVE  \A u \in Task : Stays(u) \/ Rests(u)
<1>0. {"claimed", "idle", "failing", "delayed", "orphan"} \cap (Covered \cup {"completing"}) = {}
    BY DEF Covered
<1>1. ASSUME NEW c \in Chunk, Claim(t, c) PROVE \A u \in Task : Stays(u) \/ Rests(u)
    <2> DEFINE row == [IdleTask EXCEPT !.pc = "claimed", !.chunk = c,
                             !.token = lastToken + 1, !.epoch = admission.epoch]
    <2>1. row.pc = "claimed" /\ row.batch = {} /\ row.transitions = {}
        BY DEF IdleTask
    <2>2. tasks' = [tasks EXCEPT ![t] = row]
        BY <1>1 DEF Claim
    <2> HIDE DEF row
    <2> QED
        BY <1>0, <2>1, <2>2, EmptyRests, Zenon
<1>2. CASE Finish(t)
    <2>1. IdleTask.pc = "idle" /\ IdleTask.batch = {} /\ IdleTask.transitions = {}
        BY DEF IdleTask
    <2> QED
        BY <1>0, <1>2, <2>1, EmptyRests, Zenon DEF Finish
<1>3. CASE HeartbeatRenew(t) \/ HeartbeatLost(t) \/ HeartbeatAttempts(t) \/ HeartbeatError(t)
    BY <1>3, BeatStays DEF HeartbeatRenew, HeartbeatLost, HeartbeatAttempts, HeartbeatError
<1>4. CASE Continue(t, "failing")
    <2>1. /\ tasks'[t].pc = "failing" /\ Narrows(t)
          /\ \A u \in Task : u # t => tasks'[u] = tasks[u]
        BY <1>4, ContinueMoves
    <2> QED
        BY <1>0, <2>1 DEF Stays, Rests, Narrows
<1>5. CASE DatabaseError(t)
    <2> DEFINE row == [IdleTask EXCEPT !.pc = "delayed", !.chunk = tasks[t].chunk,
                             !.token = tasks[t].token, !.resumeAt = RedeliverAt]
    <2>1. row.pc = "delayed" /\ row.batch = {} /\ row.transitions = {}
        BY DEF IdleTask
    <2>2. tasks' = [tasks EXCEPT ![t] = row]
        BY <1>5 DEF DatabaseError
    <2> HIDE DEF row
    <2> QED
        BY <1>0, <2>1, <2>2, EmptyRests, Zenon
<1>6. CASE SummaryReadError(t)
    <2> DEFINE row == [tasks[t] EXCEPT !.pc = "orphan", !.resumeAt = RedeliverAt]
    <2>1. tasks[t] \in TaskRow
        BY DEF TypeOK
    <2>2. row.pc = "orphan" /\ row.batch = tasks[t].batch /\ row.transitions = tasks[t].transitions
        BY <2>1 DEF TaskRow
    <2>3. tasks' = [tasks EXCEPT ![t] = row]
        BY <1>6 DEF SummaryReadError
    <2> HIDE DEF row
    <2>4. tasks'[t] = row /\ \A u \in Task : u # t => tasks'[u] = tasks[u]
        BY <2>3, RowReplaced, Zenon
    <2> QED
        BY <1>0, <2>2, <2>4 DEF Stays, Rests, Narrows
<1> QED
    BY <1>1, <1>2, <1>3, <1>4, <1>5, <1>6
    DEF CalmAction, ExtendLost, ProcessingFails, FinalizeRejected, Complete, FailExhausted, Release,
        SettleStale, Redeliver

(* A crash leaves its tasks with nothing to do.                            *)
LEMMA CrashRests ==
    ASSUME TypeOK, NEW w \in Worker, Crash(w)
    PROVE  \A u \in Task : Stays(u) \/ Rests(u)
<1> DEFINE row == [IdleTask EXCEPT !.pc = "dead"]
<1>1. row.pc = "dead" /\ row.batch = {} /\ row.transitions = {}
    BY DEF IdleTask
<1>2. tasks' = [t \in Task |-> IF WorkerOf[t] = w THEN row ELSE tasks[t]]
    BY DEF Crash
<1> HIDE DEF row
<1> QED
    BY <1>1, <1>2 DEF Stays, Rests, Narrows, Covered

(* The first extension of the lease, with every case still to be seen.     *)
LEMMA ExtendLeaseTasks ==
    ASSUME RInv, NEW t \in Task, ExtendLease(t) PROVE TasksInv'
<1> DEFINE row == [tasks[t] EXCEPT !.pc = "batch", !.todo = CasesOf(tasks[t].chunk), !.beat = "on"]
<1>0. TypeOK /\ tasks[t] \in TaskRow
    BY DEF RInv, IInv, TypeInv, TypeOK
<1>1. /\ row.pc = "batch" /\ row.todo = CasesOf(tasks[t].chunk) /\ row.chunk = tasks[t].chunk
      /\ row.batch = tasks[t].batch /\ row.transitions = tasks[t].transitions
    BY <1>0 DEF TaskRow
<1>2. tasks' = [tasks EXCEPT ![t] = row]
    BY DEF ExtendLease
<1> HIDE DEF row
<1>3. tasks'[t] = row /\ \A u \in Task : u # t => tasks'[u] = tasks[u]
    BY <1>0, <1>2, RowReplaced, Zenon
<1>4. Narrows(t)
    BY <1>1, <1>3 DEF Narrows
<1>5. PlaceInv(tasks[t])'
    BY <1>1, <1>3 DEF PlaceInv, CasesOf
<1>6. \A k \in Case : Keeps(k)
    BY <1>0, SameRowsKeep DEF ExtendLease
<1> QED
    BY <1>3, <1>4, <1>5, <1>6, OneTaskMoves

(* The end of the cases.                                                   *)
LEMMA EndOfCasesTasks ==
    ASSUME RInv, NEW t \in Task, EndOfCases(t) PROVE TasksInv'
<1>0. TypeOK /\ PlaceInv(tasks[t])
    BY DEF RInv, IInv, TypeInv
<1>1. /\ \A u \in Task : u # t => tasks'[u] = tasks[u]
      /\ tasks'[t].pc = "finalize" /\ tasks'[t].chunk = tasks[t].chunk /\ tasks'[t].todo = {}
      /\ Narrows(t)
    BY <1>0, ContinueMoves DEF EndOfCases
<1>2. /\ executions' = executions
      /\ \A k \in Case : Keeps(k)
    BY <1>0, SameRowsKeep DEF EndOfCases, rows
<1>3. PlaceInv(tasks[t])'
    BY <1>0, <1>1, <1>2 DEF PlaceInv, EndOfCases, CasesOf, Covered
<1> QED
    BY <1>1, <1>2, <1>3, OneTaskMoves

(* Finalization, after which every case of the chunk is still present.     *)
LEMMA FinalizeTasks ==
    ASSUME RInv, NEW t \in Task, Finalize(t) PROVE TasksInv'
<1>0. TypeOK /\ PlaceInv(tasks[t])
    BY DEF RInv, IInv, TypeInv
<1>1. /\ \A u \in Task : u # t => tasks'[u] = tasks[u]
      /\ tasks'[t].pc = "summarize" /\ tasks'[t].chunk = tasks[t].chunk /\ tasks'[t].todo = {}
      /\ Narrows(t)
    BY <1>0, ContinueMoves, SMTT(30), Z3T(30) DEF Finalize
<1>2. \A k \in Case : Keeps(k) \/ Closes(k)
    BY FinalizeCases
<1>3. \A k \in Case : Advances(k)
    BY <1>0, <1>2, CaseAdvances DEF CaseStep
<1>4. PlaceInv(tasks[t])'
    BY <1>0, <1>1, <1>3 DEF PlaceInv, Finalize, CasesOf, Covered, Advances
<1> QED
    BY <1>1, <1>2, <1>4, OneTaskMoves, Zenon

(* The summary, which leads to completion only if nothing is open.         *)
LEMMA SummarizeTasks ==
    ASSUME RInv, NEW t \in Task, Summarize(t) PROVE TasksInv'
<1>0. TypeOK /\ PlaceInv(tasks[t])
    BY DEF RInv, IInv, TypeInv
<1>1. PICK pc \in {"waiting", "completing"} :
        /\ Continue(t, pc)
        /\ pc = "completing" =>
              ~\E k \in CasesOf(tasks[t].chunk) : executions[k].status \in OpenExecution
    BY Zenon DEF Summarize
<1>2. /\ \A u \in Task : u # t => tasks'[u] = tasks[u]
      /\ tasks'[t].pc = pc /\ tasks'[t].chunk = tasks[t].chunk
      /\ Narrows(t)
    BY <1>0, <1>1, ContinueMoves
<1>3. /\ executions' = executions
      /\ \A k \in Case : Keeps(k)
    BY <1>0, SameRowsKeep DEF Summarize, rows
<1>4. PlaceInv(tasks[t])'
    <2>1. \A k \in CasesOf(tasks[t].chunk) : executions[k].status \in ExecutionStatus \ {"absent"}
        BY <1>0, CaseTypes DEF PlaceInv, Summarize, Covered, CasesOf
    <2>2. pc = "completing" =>
            \A k \in CasesOf(tasks[t].chunk) : executions[k].status \in TerminalExecution
        BY <1>1, <2>1 DEF ExecutionStatus
    <2> QED
        BY <1>2, <1>3, <2>2, Zenon DEF PlaceInv, CasesOf, Covered
<1> QED
    BY <1>2, <1>3, <1>4, OneTaskMoves

(* Allocation: the new attempts are beyond everything that a task has to   *)
(* report and everything that is stored.                                   *)
LEMMA AllocateTasks ==
    ASSUME RInv, NEW t \in Task, NEW B \in SUBSET Case, Allocate(t, B) PROVE TasksInv'
<1>0. TypeInv /\ TypeOK /\ tasks[t] \in TaskRow /\ PlaceInv(tasks[t]) /\ ItemInv(tasks[t])
    BY DEF RInv, IInv, TypeInv, TypeOK
<1>1. PICK now \in Now :
        /\ StartAttempts(t, Eligible(B, now), now)
        /\ tasks' = [tasks EXCEPT ![t] = [@ EXCEPT
                !.pc = "evaluate",
                !.todo = tasks[t].todo \ B,
                !.batch = {[case |-> k, attempt |-> executions[k].attemptNo + 1] :
                                k \in Eligible(B, now)},
                !.transitions = tasks[t].transitions \cup
                    {[case |-> k, attempt |-> executions[k].attemptNo,
                      outcome |-> "exhausted"] : k \in Exhausted(B)}]]
    BY Zenon DEF Allocate
<1> DEFINE K == Eligible(B, now)
           new == {[case |-> k, attempt |-> executions[k].attemptNo + 1] : k \in K}
           spent == {[case |-> k, attempt |-> executions[k].attemptNo, outcome |-> "exhausted"] :
                        k \in Exhausted(B)}
           row == [tasks[t] EXCEPT !.pc = "evaluate", !.todo = tasks[t].todo \ B, !.batch = new,
                                   !.transitions = tasks[t].transitions \cup spent]
<1>2. /\ row.pc = "evaluate" /\ row.todo = tasks[t].todo \ B /\ row.chunk = tasks[t].chunk
      /\ row.batch = new /\ row.transitions = tasks[t].transitions \cup spent
    BY <1>0, Zenon DEF TaskRow
<1>3. tasks' = [tasks EXCEPT ![t] = row]
    BY <1>1
<1>4. K \subseteq Case /\ K \subseteq B
    BY DEF Eligible
<1>5. StartAttempts(t, K, now) /\ K = Eligible(B, now) /\ aggregates' = aggregates
    BY <1>1 DEF Allocate
<1>6. \A x \in spent : x.outcome = "exhausted"
    OBVIOUS
<1>7. \A i \in new : i.case \in K /\ i.attempt = Current(i.case) + 1 /\ Item(i) = i
    BY DEF Current, Item
<1> HIDE DEF new, spent, row, K
<1>8. tasks'[t] = row /\ \A u \in Task : u # t => tasks'[u] = tasks[u]
    BY <1>0, <1>3, RowReplaced, Zenon
<1>9. \A k \in Case : IF k \in K THEN Starts(k) ELSE Keeps(k)
    BY <1>0, <1>4, <1>5, AllocateCases
<1>10. \A k \in Case : CaseStep(k) /\ Advances(k)
    BY <1>0, <1>9, CaseAdvances DEF CaseStep
<1>11. /\ Allocated(tasks'[t]) = new
       /\ Reported(tasks'[t]) = Reported(tasks[t])
       /\ Failed(tasks'[t]) = Failed(tasks[t])
    <2>1. Allocated(row) = new
        BY <1>2, <1>7 DEF Allocated
    <2>2. Reported(row) = Reported(tasks[t]) /\ Failed(row) = Failed(tasks[t])
        <3>1. {x \in row.transitions : x.outcome # "exhausted"}
                = {x \in tasks[t].transitions : x.outcome # "exhausted"}
            BY <1>2, <1>6
        <3>2. {x \in row.transitions : x.outcome \in {"retryable", "terminal"}}
                = {x \in tasks[t].transitions : x.outcome \in {"retryable", "terminal"}}
            BY <1>2, <1>6, Zenon
        <3> QED
            BY <3>1, <3>2, Zenon DEF Reported, Failed
    <2> QED
        BY <1>8, <2>1, <2>2
(* Every item of a task is at most at the current attempt of its case.     *)
<1>12. ASSUME NEW u \in Task, NEW i \in Items(tasks[u])
       PROVE  /\ i.case \in Case /\ i.attempt \in AttemptNo
              /\ i.attempt <= Current(i.case) /\ Current(i.case) \in Nat
    <2>1. tasks[u] \in TaskRow /\ ItemInv(tasks[u])
        BY DEF RInv, IInv, TypeInv, TypeOK
    <2>2. i.case \in Case /\ i.attempt \in AttemptNo
        BY <2>1 DEF Items, Allocated, Reported, Item, TaskRow, Allocation, Transition
    <2> QED
        BY <1>0, <2>1, <2>2, CaseTypes, BudgetAssumption, SMTT(30), Z3T(30) DEF ItemInv
<1>13. ASSUME NEW u \in Task, NEW i \in Items(tasks[u]) PROVE i \notin new
    BY <1>7, <1>12 DEF AttemptNo
<1>14. \A u \in Task : u # t => ItemInv(tasks[u])'
    BY <1>8, <1>9, NarrowItems DEF Narrows
<1>15. ItemInv(tasks[t])'
    <2>1. ASSUME NEW i \in new \cup Reported(tasks[t])
          PROVE  i.attempt <= executions'[i.case].attemptNo
        <3>1. CASE i \in new
            <4>1. i.case \in Case /\ Starts(i.case) /\ i.attempt = Current(i.case) + 1
                BY <1>4, <1>7, <1>9, <3>1, Zenon
            <4>2. Current(i.case) \in Nat
                BY <1>0, <4>1, CaseTypes, BudgetAssumption, SMTT(30), Z3T(30)
            <4> QED
                BY <4>1, <4>2 DEF Starts
        <3>2. CASE i \in Reported(tasks[t])
            <4>1. i.case \in Case /\ i.attempt <= Current(i.case) /\ i.attempt \in AttemptNo
                  /\ Current(i.case) \in Nat
                BY <1>12, <3>2 DEF Items
            <4>2. Advances(i.case)
                BY <1>10, <4>1
            <4>3. executions'[i.case].attemptNo \in {Current(i.case), Current(i.case) + 1}
                BY <1>9, <4>1 DEF Starts, Keeps, Current
            <4> QED
                BY <4>1, <4>2, <4>3, SMTT(30), Z3T(30) DEF Advances, AttemptNo
        <3> QED
            BY <3>1, <3>2
    <2>2. ASSUME NEW i \in new \cup Failed(tasks[t]),
                 attempts'[i.case][i.attempt].status = "running"
          PROVE  aggregates'[i.case].attempt # i.attempt
        <3>1. CASE i \in new
            <4>1. i.case \in Case /\ i.attempt = Current(i.case) + 1
                BY <1>4, <1>7, <3>1
            <4>2. CaseInv(i.case) /\ Current(i.case) \in Nat /\ aggregates[i.case].attempt \in Nat
                BY <1>0, <4>1, CaseTypes, BudgetAssumption DEF RInv
            <4>3. aggregates[i.case].attempt <= Current(i.case)
                BY <4>2, Zenon DEF CaseInv
            <4> QED
                BY <1>5, <4>1, <4>2, <4>3
        <3>2. CASE i \in Failed(tasks[t])
            <4>1. i \in Items(tasks[t])
                BY <3>2 DEF Items, Failed, Reported
            <4>2. i.case \in Case /\ i.attempt <= Current(i.case) /\ i.attempt \in AttemptNo
                  /\ Current(i.case) \in Nat
                BY <1>12, <4>1
            <4>3. i.attempt # Current(i.case) + 1
                BY <4>2 DEF AttemptNo
            <4>4. Fades(i.case, i.attempt, {"stale"})
                BY <1>9, <4>2, <4>3 DEF Starts, Keeps
            <4>5. attempts[i.case][i.attempt].status = "running"
                BY <2>2, <4>4 DEF Fades
            <4> QED
                BY <1>0, <1>5, <3>2, <4>5, Zenon DEF ItemInv
        <3> QED
            BY <3>1, <3>2
    <2>3. new \cap Reported(tasks[t]) = {}
        BY <1>13 DEF Items
    <2> QED
        BY <1>11, <2>1, <2>2, <2>3 DEF ItemInv, Items, Current
<1>16. Exclusive'
    <2> SUFFICES ASSUME NEW s \in Task, NEW u \in Task, s # u
                 PROVE  Items(tasks'[s]) \cap Items(tasks'[u]) = {}
        BY DEF Exclusive, Items, Allocated, Reported, Item
    <2>1. Items(tasks[s]) \cap Items(tasks[u]) = {}
        BY DEF RInv, Exclusive
    <2>2. Items(tasks'[t]) \subseteq new \cup Items(tasks[t])
        BY <1>11 DEF Items
    <2>3. \A v \in Task : v # t => Items(tasks'[v]) = Items(tasks[v])
        BY <1>8
    <2> QED
        BY <1>13, <2>1, <2>2, <2>3
<1>17. \A u \in Task : u # t => PlaceInv(tasks[u])'
    BY <1>8, <1>10, CalmPlace DEF Stays, Narrows
<1>18. PlaceInv(tasks[t])'
    <2>1. ASSUME NEW k \in CasesOf(tasks[t].chunk)
          PROVE  k \in row.todo \/ executions'[k].status # "absent"
        <3>1. k \in Case /\ (k \in tasks[t].todo \/ executions[k].status # "absent")
            BY <1>0 DEF PlaceInv, Allocate, Covered, CasesOf
        <3>2. CASE k \in tasks[t].todo \ B
            BY <1>2, <3>2
        <3>3. CASE k \in B
            <4>1. executions[k].status = "absent" => Current(k) = 0
                BY <3>1, Zenon DEF RInv, CaseInv
            <4>2. executions[k].status = "absent" => k \in K
                BY <3>3, <4>1, BudgetAssumption, SMTT(30), Z3T(30) DEF K, Eligible, Current
            <4> QED
                BY <1>9, <1>10, <3>1, <4>2 DEF Starts, Advances
        <3>4. CASE executions[k].status # "absent"
            BY <1>10, <3>1, <3>4 DEF Advances
        <3> QED
            BY <3>1, <3>2, <3>3, <3>4
    <2> QED
        BY <1>2, <1>8, <2>1 DEF PlaceInv, CasesOf
<1> QED
    BY <1>14, <1>15, <1>16, <1>17, <1>18, Zenon DEF TasksInv

(* Persistence: what was allocated becomes reported, and a result is       *)
(* stored only for what the task itself has evaluated.                     *)
LEMMA PersistTasks ==
    ASSUME RInv, NEW t \in Task, NEW outcome \in [Case -> Outcome], Persist(t, outcome)
    PROVE  TasksInv'
<1>0. TypeInv /\ TypeOK /\ tasks[t] \in TaskRow /\ PlaceInv(tasks[t]) /\ ItemInv(tasks[t])
    BY DEF RInv, IInv, TypeInv, TypeOK
<1> DEFINE moved == {[case |-> a.case, attempt |-> a.attempt, outcome |-> outcome[a.case]] :
                        a \in tasks[t].batch}
           row == [tasks[t] EXCEPT !.pc = "batch", !.batch = {},
                                   !.transitions = tasks[t].transitions \cup moved]
<1>1. /\ row.pc = "batch" /\ row.todo = tasks[t].todo /\ row.chunk = tasks[t].chunk
      /\ row.batch = {} /\ row.transitions = tasks[t].transitions \cup moved
    BY <1>0, Zenon DEF TaskRow
<1>2. tasks' = [tasks EXCEPT ![t] = row]
    BY Zenon DEF Persist
<1>3. \A x \in moved :
        /\ x.outcome = outcome[x.case] /\ x.outcome # "exhausted"
        /\ Item(x) \in Allocated(tasks[t])
    BY <1>0, SMTT(30), Z3T(30) DEF TaskRow, Allocation, Outcome, Item, Allocated
<1>4. ASSUME NEW i \in Allocated(tasks[t]) PROVE \E x \in moved : i = Item(x)
    <2>1. PICK a \in tasks[t].batch : i = Item(a)
        BY DEF Allocated
    <2> DEFINE x == [case |-> a.case, attempt |-> a.attempt, outcome |-> outcome[a.case]]
    <2>2. x \in moved
        OBVIOUS
    <2>3. Item(x) = i
        BY <2>1 DEF Item
    <2> QED
        BY <2>2, <2>3
<1> HIDE DEF moved, row
<1>5. tasks'[t] = row /\ \A u \in Task : u # t => tasks'[u] = tasks[u]
    BY <1>0, <1>2, RowReplaced, Zenon
<1>6. /\ executions' = executions
      /\ attempts' = attempts
    BY Zenon DEF Persist
<1>7. ASSUME NEW k \in Case
      PROVE  \/ aggregates'[k] = aggregates[k]
             \/ /\ [case |-> k, attempt |-> Current(k)] \in Allocated(tasks[t])
                /\ outcome[k] = "completed"
                /\ aggregates'[k].attempt = Current(k)
    <2>1. \/ Keeps(k)
          \/ /\ Stores(k)
             /\ [case |-> k, attempt |-> Current(k)] \in Allocated(tasks[t])
             /\ outcome[k] = "completed"
        BY <1>0, PersistCases
    <2> QED
        BY <2>1, SMTT(30), Z3T(30) DEF Keeps, Stores
<1>8. Allocated(tasks'[t]) = {}
    BY <1>1, <1>5 DEF Allocated
<1>9. Reported(tasks'[t]) = Reported(tasks[t]) \cup Allocated(tasks[t])
    <2>1. Reported(row) \subseteq Reported(tasks[t]) \cup Allocated(tasks[t])
        BY <1>1, <1>3 DEF Reported
    <2>2. Reported(tasks[t]) \subseteq Reported(row)
        BY <1>1 DEF Reported
    <2>3. Allocated(tasks[t]) \subseteq Reported(row)
        BY <1>1, <1>3, <1>4, Zenon DEF Reported
    <2> QED
        BY <1>5, <2>1, <2>2, <2>3
<1>10. ASSUME NEW i \in Failed(tasks'[t])
       PROVE  \/ i \in Failed(tasks[t])
              \/ i \in Allocated(tasks[t]) /\ outcome[i.case] # "completed"
    <2>1. PICK x \in row.transitions : x.outcome \in {"retryable", "terminal"} /\ i = Item(x)
        BY <1>5 DEF Failed
    <2>2. CASE x \in tasks[t].transitions
        BY <2>1, <2>2 DEF Failed
    <2>3. CASE x \in moved
        <3>1. i.case = x.case
            BY <2>1 DEF Item
        <3> QED
            BY <1>3, <2>1, <2>3, <3>1
    <2> QED
        BY <1>1, <2>1, <2>2, <2>3
<1>11. Items(tasks'[t]) = Items(tasks[t])
    BY <1>8, <1>9 DEF Items
<1>12. ASSUME NEW u \in Task, NEW i \in Items(tasks[u])
       PROVE  i.case \in Case /\ i = [case |-> i.case, attempt |-> i.attempt]
    <2>1. tasks[u] \in TaskRow
        BY <1>0 DEF TypeOK
    <2> QED
        BY <2>1 DEF Items, Allocated, Reported, Item, TaskRow, Allocation, Transition
(* Nothing that another task has allocated or seen fail gets a result.     *)
<1>13. ASSUME NEW u \in Task, u # t PROVE ItemInv(tasks[u])'
    <2>1. ItemInv(tasks[u]) /\ Items(tasks[t]) \cap Items(tasks[u]) = {} /\ tasks'[u] = tasks[u]
        BY <1>5, <1>13 DEF RInv, Exclusive
    <2>2. ASSUME NEW i \in Allocated(tasks[u]) \cup Failed(tasks[u]),
                 attempts[i.case][i.attempt].status = "running"
          PROVE  aggregates'[i.case].attempt # i.attempt
        <3>1. i \in Items(tasks[u])
            BY DEF Items, Failed, Reported
        <3>2. i.case \in Case /\ i = [case |-> i.case, attempt |-> i.attempt]
            BY <1>12, <3>1
        <3>3. aggregates[i.case].attempt # i.attempt
            BY <2>1, <2>2 DEF ItemInv
        <3>4. ASSUME i.attempt = Current(i.case)
              PROVE  [case |-> i.case, attempt |-> Current(i.case)] \notin Allocated(tasks[t])
            BY <2>1, <3>1, <3>2, <3>4, Zenon DEF Items
        <3> QED
            BY <1>7, <3>2, <3>3, <3>4
    <2> QED
        BY <1>6, <2>1, <2>2, Zenon DEF ItemInv, Items, Current
<1>14. ItemInv(tasks[t])'
    <2>1. ASSUME NEW i \in Failed(tasks'[t]), attempts[i.case][i.attempt].status = "running"
          PROVE  aggregates'[i.case].attempt # i.attempt
        <3>1. i \in Items(tasks[t])
            BY <1>10 DEF Items, Failed, Reported
        <3>2. i.case \in Case /\ i = [case |-> i.case, attempt |-> i.attempt]
            BY <1>12, <3>1
        <3>3. aggregates[i.case].attempt # i.attempt
            BY <1>0, <1>10, <2>1 DEF ItemInv
        <3>4. CASE i \in Failed(tasks[t])
            <4>1. i \in Reported(tasks[t])
                BY <3>4 DEF Failed, Reported
            <4>2. i \notin Allocated(tasks[t])
                BY <1>0, <4>1 DEF ItemInv
            <4>3. i.attempt = Current(i.case) =>
                    [case |-> i.case, attempt |-> Current(i.case)] \notin Allocated(tasks[t])
                BY <3>2, <4>2
            <4> QED
                BY <1>7, <3>2, <3>3, <4>3
        <3>5. CASE outcome[i.case] # "completed"
            BY <1>7, <3>2, <3>3, <3>5, Zenon
        <3> QED
            BY <1>10, <3>4, <3>5
    <2> QED
        BY <1>0, <1>6, <1>8, <1>11, <2>1, Zenon DEF ItemInv, Items, Current
<1>15. Exclusive'
    <2>1. \A u \in Task : Items(tasks'[u]) \subseteq Items(tasks[u])
        BY <1>5, <1>11
    <2> QED
        BY <2>1, NarrowExclusive DEF RInv
<1>16. \A u \in Task : PlaceInv(tasks[u])'
    BY <1>0, <1>1, <1>5, <1>6 DEF RInv, PlaceInv, Persist, Covered, CasesOf
<1> QED
    BY <1>13, <1>14, <1>15, <1>16 DEF TasksInv

-----------------------------------------------------------------------------
(* Every step, and the invariant.                                          *)

Refines == Works \/ \E C \in SUBSET Chunk, d \in TerminalChunk : SettlesAll(C, d)

(* What the step of a task does to the cases and to the tasks.             *)
LEMMA TaskStepRefines ==
    ASSUME RInv, NEW t \in Task, TaskStep(t) PROVE Refines /\ TasksInv'
<1>0. TypeInv /\ TypeOK
    BY DEF RInv, IInv, TypeInv
<1>1. CASE CalmAction(t)
    <2>1. \A u \in Task : Stays(u) \/ Rests(u)
        BY <1>0, <1>1, CalmActions
    <2>2. CASE Complete(t) \/ FailExhausted(t)
        <3>1. PICK C \in SUBSET Chunk, d \in TerminalChunk : SettlesAll(C, d)
            BY <2>2, WorkerSettles
        <3>2. \A k \in Case : Ends(k) \/ Keeps(k)
            BY <3>1 DEF SettlesAll
        <3> QED
            BY <2>1, <3>1, <3>2, CalmTasks DEF Refines
    <2>3. CASE HeartbeatAttempts(t) \/ FinalizeRejected(t)
        <3>1. \A k \in Case : Keeps(k)
            BY <1>0, <2>3, HeartbeatKeepsCases, RejectedKeepsCases
        <3>2. receipts' = receipts
            BY <2>3 DEF HeartbeatAttempts, FinalizeRejected
        <3> QED
            BY <2>1, <3>1, <3>2, CalmTasks DEF Refines, Works
    <2>4. CASE UNCHANGED <<executions, attempts, aggregates, receipts>>
        <3>1. \A k \in Case : Keeps(k)
            BY <1>0, <2>4, SameRowsKeep
        <3> QED
            BY <2>1, <2>4, <3>1, CalmTasks DEF Refines, Works
    <2> QED
        BY Zenon, <1>1, <2>2, <2>3, <2>4
        DEF CalmAction, Claim, ExtendLost, HeartbeatRenew, HeartbeatLost, HeartbeatError,
            ProcessingFails, Release, SettleStale, DatabaseError, SummaryReadError, Redeliver, rows
<1>2. CASE ExtendLease(t) \/ EndOfCases(t) \/ Summarize(t)
    <2>1. UNCHANGED <<executions, attempts, aggregates, receipts>>
        BY <1>2 DEF ExtendLease, EndOfCases, Summarize, rows
    <2>2. \A k \in Case : Keeps(k)
        BY <1>0, <2>1, SameRowsKeep
    <2> QED
        BY <1>2, <2>1, <2>2, ExtendLeaseTasks, EndOfCasesTasks, SummarizeTasks DEF Refines, Works
<1>3. ASSUME NEW B \in SUBSET Case, Allocate(t, B) PROVE Refines /\ TasksInv'
    <2>1. PICK now \in Now : StartAttempts(t, Eligible(B, now), now)
        BY <1>3 DEF Allocate
    <2>2. Eligible(B, now) \in SUBSET Case /\ aggregates' = aggregates /\ receipts' = receipts
        BY <1>3 DEF Eligible, Allocate
    <2>3. \A k \in Case : Starts(k) \/ Keeps(k)
        BY <1>0, <2>1, <2>2, AllocateCases
    <2> QED
        BY <1>3, <2>2, <2>3, AllocateTasks DEF Refines, Works
<1>4. ASSUME NEW outcome \in [Case -> Outcome], Persist(t, outcome) PROVE Refines /\ TasksInv'
    <2>1. \A k \in Case : Keeps(k) \/ Stores(k)
        BY <1>0, <1>4, PersistCases, Zenon
    <2>2. receipts' = receipts
        BY <1>4 DEF Persist
    <2> QED
        BY <1>4, <2>1, <2>2, PersistTasks DEF Refines, Works
<1>5. CASE Finalize(t)
    <2>1. \A k \in Case : Keeps(k) \/ Closes(k)
        BY <1>5, FinalizeCases
    <2>2. receipts' = receipts
        BY <1>5 DEF Finalize
    <2> QED
        BY <1>5, <2>1, <2>2, FinalizeTasks DEF Refines, Works
<1> QED
    BY <1>1, <1>2, <1>3, <1>4, <1>5 DEF TaskStep, CalmAction

(* The same for every step.                                                *)
LEMMA NextRefines ==
    ASSUME RInv, [Next]_vars PROVE Refines /\ TasksInv'
<1>0. TypeInv /\ TypeOK
    BY DEF RInv, IInv, TypeInv
<1>1. ASSUME NEW t \in Task, TaskStep(t) PROVE Refines /\ TasksInv'
    BY <1>1, TaskStepRefines
<1>2. ASSUME UNCHANGED <<executions, attempts, aggregates, receipts>>,
             \A u \in Task : Stays(u) \/ Rests(u)
      PROVE  Refines /\ TasksInv'
    <2>1. \A k \in Case : Keeps(k)
        BY <1>0, <1>2, SameRowsKeep
    <2> QED
        BY <1>2, <2>1, CalmTasks DEF Refines, Works
<1>3. tasks' = tasks => \A u \in Task : Stays(u)
    BY DEF Stays, Narrows
<1>4. ASSUME NEW w \in Worker, Crash(w) PROVE Refines /\ TasksInv'
    <2>1. \A u \in Task : Stays(u) \/ Rests(u)
        BY <1>0, <1>4, CrashRests
    <2>2. UNCHANGED <<executions, attempts, aggregates, receipts>>
        BY <1>4 DEF Crash, rows
    <2> QED
        BY <1>2, <2>1, <2>2
<1>5. ASSUME tasks' = tasks, NEW C \in SUBSET Chunk, NEW d \in TerminalChunk, SettlesAll(C, d)
      PROVE  Refines /\ TasksInv'
    <2>1. \A k \in Case : Ends(k) \/ Keeps(k)
        BY <1>5 DEF SettlesAll
    <2> QED
        BY <1>3, <1>5, <2>1, CalmTasks DEF Refines
<1>6. ASSUME NEW R \in SUBSET Chunk, NEW F \in SUBSET Chunk, Recover(R, F)
      PROVE  Refines /\ TasksInv'
    <2>1. tasks' = tasks
        BY <1>6 DEF Recover
    <2> QED
        BY <1>5, <1>6, <2>1, RecoverSettles
<1>7. CASE CancelExecution
    <2>1. tasks' = tasks
        BY <1>7 DEF CancelExecution
    <2> QED
        BY <1>5, <1>7, <2>1, CancelSettles
<1>8. CASE Tick \/ CancelControl \/ BeginDrain \/ Cutover \/ AbortMove \/ UNCHANGED vars
    <2>1. UNCHANGED <<executions, attempts, aggregates, receipts>> /\ tasks' = tasks
        BY <1>8 DEF Tick, CancelControl, BeginDrain, Cutover, AbortMove, vars, rows
    <2> QED
        BY <1>2, <1>3, <2>1
<1> QED
    BY <1>1, <1>4, <1>6, <1>7, <1>8 DEF Next

(* The invariant holds at first.                                           *)
LEMMA InitRInv == Init => RInv
<1> SUFFICES ASSUME Init PROVE RInv
    OBVIOUS
<1>1. IInv
    BY InitIInv
<1>2. ASSUME NEW k \in Case PROVE CaseInv(k)
    <2>1. /\ executions[k] = [status |-> "absent", attemptNo |-> 0, retryAfter |-> 0]
          /\ aggregates[k] = [attempt |-> 0, kind |-> "none"]
          /\ \A n \in AttemptNo : attempts[k][n].status = "absent"
        BY DEF Init
    <2> QED
        BY <2>1, SMTT(30), Z3T(30) DEF CaseInv, Current, OpenExecution, TerminalExecution
<1>3. ASSUME NEW t \in Task
      PROVE  ItemInv(tasks[t]) /\ PlaceInv(tasks[t]) /\ Items(tasks[t]) = {}
    <2>1. /\ tasks[t].pc = "idle" /\ tasks[t].batch = {} /\ tasks[t].transitions = {}
        BY DEF Init, IdleTask
    <2>2. Allocated(tasks[t]) = {} /\ Reported(tasks[t]) = {} /\ Failed(tasks[t]) = {}
        BY <2>1 DEF Allocated, Reported, Failed
    <2> QED
        BY <2>1, <2>2, Zenon DEF ItemInv, PlaceInv, Items, Covered
<1>4. Exclusive
    BY <1>3 DEF Exclusive
<1> QED
    BY <1>1, <1>2, <1>3, <1>4 DEF RInv

(* What a settling step settles was open, and the rest keeps its receipt.  *)
LEMMA SettledWasOpen ==
    ASSUME RInv, NEW C \in SUBSET Chunk, NEW d \in TerminalChunk, SettlesAll(C, d), NEW c \in Chunk
    PROVE  IF c \in C THEN OpenChunk(c) ELSE receipts'[c] = receipts[c]
<1>1. ReceiptMatchesChunk
    BY DEF RInv, IInv, Settled
<1> QED
    BY <1>1 DEF SettlesAll, SettlesChunk, ReceiptMatchesChunk, TerminalChunks, OpenChunk

(* Every step does one of the five things to a case.                       *)
LEMMA RefinesCases ==
    ASSUME RInv, Refines, NEW k \in Case
    PROVE  CaseStep(k) /\ (OpenChunk(ChunkOf[k])' => OpenChunk(ChunkOf[k]))
<1>1. ChunkOf[k] \in Chunk
    BY ChunkAssumption
<1>2. CASE Works
    BY <1>2, Zenon DEF Works, CaseStep, OpenChunk
<1>3. ASSUME NEW C \in SUBSET Chunk, NEW d \in TerminalChunk, SettlesAll(C, d)
      PROVE  CaseStep(k) /\ (OpenChunk(ChunkOf[k])' => OpenChunk(ChunkOf[k]))
    <2>1. Ends(k) \/ Keeps(k)
        BY <1>3 DEF SettlesAll
    <2>2. IF ChunkOf[k] \in C THEN OpenChunk(ChunkOf[k])
          ELSE receipts'[ChunkOf[k]] = receipts[ChunkOf[k]]
        BY <1>1, <1>3, SettledWasOpen
    <2> QED
        BY <2>1, <2>2 DEF CaseStep, OpenChunk
<1> QED
    BY <1>2, <1>3 DEF Refines

(* Every step keeps the invariant.                                         *)
LEMMA NextRInv == RInv /\ [Next]_vars => RInv'
<1> SUFFICES ASSUME RInv, [Next]_vars PROVE RInv'
    OBVIOUS
<1>1. IInv /\ IInv'
    BY NextIInv DEF RInv
<1>2. TypeOK'
    BY <1>1 DEF IInv, TypeInv
<1>3. Refines /\ TasksInv'
    BY NextRefines
<1>4. ASSUME NEW k \in Case PROVE CaseInv(k)'
    <2>1. CaseInv(k) /\ TypeOK /\ OneRunningAttempt
        BY <1>1 DEF RInv, IInv, TypeInv
    <2> QED
        BY <1>2, <1>3, <2>1, RefinesCases, CaseStepInv
<1> QED
    BY <1>1, <1>3, <1>4 DEF RInv, TasksInv

(* The invariant of the refinement holds of every reachable state.         *)
LEMMA RInvariance == Spec => []RInv
BY InitRInv, NextRInv, PTL DEF Spec

-----------------------------------------------------------------------------
(* The outcome of a case.                                                  *)

(* What the outcome of a case may be.                                      *)
LEMMA Outcomes ==
    ASSUME RInv, NEW k \in Case
    PROVE  /\ Counted(k, executions, attempts) =>
                /\ OutcomeOf(k) = aggregates[k].kind
                /\ OutcomeOf(k) \in {"result", "error"}
           /\ ~Counted(k, executions, attempts) =>
                OutcomeOf(k) = IF OpenChunk(ChunkOf[k]) THEN "open" ELSE "unscored"
<1>1. /\ aggregates[k].kind \in {"none", "result", "error"}
      /\ aggregates[k].attempt > 0 => aggregates[k].kind # "none"
    BY CaseTypes DEF RInv, IInv, TypeInv, AggregateHasKind
<1> QED
    BY <1>1 DEF OutcomeOf, Counted, OpenChunk

(* A finished attempt stays so, and no attempt finishes by fading.         *)
LEMMA FadesFinish ==
    ASSUME NEW k \in Case, NEW n \in AttemptNo, NEW S \in SUBSET {"stale", "cancelled"},
           Fades(k, n, S)
    PROVE  attempts'[k][n].status \in FinishedAttempt <=> attempts[k][n].status \in FinishedAttempt
BY Zenon DEF Fades, FinishedAttempt

(* What is kept keeps its outcome, if its chunk keeps its receipt.         *)
LEMMA KeepsOutcome ==
    ASSUME RInv, NEW k \in Case, Keeps(k), receipts'[ChunkOf[k]] = receipts[ChunkOf[k]]
    PROVE  OutcomeOf(k)' = OutcomeOf(k)
<1>1. Current(k) \in 0 .. MaxAttempts /\ MaxAttempts \in Nat
    BY CaseTypes, BudgetAssumption DEF RInv, IInv, TypeInv
<1>2. Current(k) > 0 =>
        (attempts'[k][Current(k)].status \in FinishedAttempt
            <=> attempts[k][Current(k)].status \in FinishedAttempt)
    BY <1>1, FadesFinish DEF Keeps, AttemptNo
<1>3. Counted(k, executions, attempts)' <=> Counted(k, executions, attempts)
    BY <1>1, <1>2 DEF Keeps, Counted, Current
<1> QED
    BY <1>3 DEF OutcomeOf, Keeps

(* A working step keeps the outcome of a case, or gives an open case of an *)
(* open chunk its result or error.                                         *)
LEMMA WorkOutcome ==
    ASSUME RInv, Works, NEW k \in Case
    PROVE  \/ OutcomeOf(k)' = OutcomeOf(k)
           \/ /\ OutcomeOf(k) = "open" /\ OpenChunk(ChunkOf[k])
              /\ OutcomeOf(k)' \in {"result", "error"}
<1>0. /\ OneRunningAttempt /\ ReceiptMatchesChunk /\ SettledHasNoOpenWork
      /\ ChunkOf[k] \in Chunk /\ k \in CasesOf(ChunkOf[k])
    BY ChunkAssumption DEF RInv, IInv, Settled, CasesOf
<1>1. receipts' = receipts /\ (Keeps(k) \/ Starts(k) \/ Stores(k) \/ Closes(k))
    BY DEF Works
<1>2. "running" \in OpenExecution /\ OpenExecution \cap TerminalExecution = {}
      /\ "absent" \notin TerminalExecution /\ "retry_scheduled" \notin TerminalExecution
    BY DEF OpenExecution, TerminalExecution
<1>3. CASE Keeps(k)
    BY <1>1, <1>3, KeepsOutcome, Zenon
<1>4. CASE Starts(k) \/ Stores(k)
    <2>1. executions[k].status \in OpenExecution \cup {"absent"}
        BY <1>0, <1>2, <1>4, Zenon DEF Starts, Stores, OneRunningAttempt
    <2>2. executions'[k].status \in OpenExecution \cup {"absent"}
        BY <1>2, <1>4, <2>1, Zenon DEF Starts, Stores
    <2>3. ~Counted(k, executions, attempts) /\ ~Counted(k, executions, attempts)'
        BY <1>2, <2>1, <2>2 DEF Counted
    <2> QED
        BY <1>1, <2>3, Zenon DEF OutcomeOf
<1>5. CASE Closes(k)
    <2>1. executions[k].status \in OpenExecution /\ ~Counted(k, executions, attempts)
        BY <1>2, <1>5 DEF Closes, Counted
    <2>2. OpenChunk(ChunkOf[k])
        BY <1>0, <2>1 DEF SettledHasNoOpenWork, ReceiptMatchesChunk, OpenChunk
    <2>3. OutcomeOf(k) = "open"
        BY <2>1, <2>2, Outcomes, Zenon
    <2>4. CASE executions'[k].status = "retry_scheduled"
        <3>1. ~Counted(k, executions, attempts)'
            BY <1>2, <2>4, Zenon DEF Counted
        <3> QED
            BY <1>1, <2>1, <3>1, Zenon DEF OutcomeOf
    <2>5. CASE executions'[k].status # "retry_scheduled"
        <3>1. /\ executions'[k].status \in {"completed", "failed"}
              /\ executions'[k].attemptNo = Current(k) /\ Current(k) \in AttemptNo
              /\ attempts'[k][Current(k)].status \in FinishedAttempt
              /\ aggregates'[k].attempt = Current(k)
              /\ aggregates'[k].kind \in {"result", "error"}
            BY <1>5, <2>5 DEF Closes, FinishedAttempt
        <3>2. Counted(k, executions, attempts)'
            BY <3>1 DEF Counted, TerminalExecution, AttemptNo
        <3>3. OutcomeOf(k)' = aggregates'[k].kind
            BY <3>2, Zenon DEF OutcomeOf
        <3> QED
            BY <2>2, <2>3, <3>1, <3>3, Zenon
    <2> QED
        BY <2>4, <2>5, Zenon
<1> QED
    BY <1>1, <1>3, <1>4, <1>5

(* A case that ends keeps its result or error, and what was open stays     *)
(* without one.                                                            *)
LEMMA EndOutcome ==
    ASSUME RInv, NEW k \in Case, Ends(k)
    PROVE  /\ OutcomeOf(k)' = IF OutcomeOf(k) = "open" THEN "unscored" ELSE OutcomeOf(k)
           /\ Counted(k, executions, attempts)' <=> Counted(k, executions, attempts)
<1>1. /\ Current(k) \in 0 .. MaxAttempts /\ MaxAttempts \in Nat /\ CaseInv(k)
      /\ executions[k].status \in ExecutionStatus
    BY CaseTypes, BudgetAssumption, Zenon DEF RInv, IInv, TypeInv
<1>2. Current(k) > 0 =>
        (attempts'[k][Current(k)].status \in FinishedAttempt
            <=> attempts[k][Current(k)].status \in FinishedAttempt)
    BY <1>1, FadesFinish, SMTT(30), Z3T(30) DEF Ends, AttemptNo
<1>3. executions'[k].attemptNo = Current(k) /\ aggregates'[k] = aggregates[k]
    BY DEF Ends, Current
<1>4. Counted(k, executions, attempts)' <=> Counted(k, executions, attempts)
    <2>1. CASE executions[k].status \in OpenExecution
        BY <1>1, <1>2, <1>3, <2>1, ZenonT(40) DEF Counted, Current, CaseInv, OpenExecution, TerminalExecution
    <2>2. CASE executions[k].status \notin OpenExecution
        BY <1>1, <1>2, <1>3, <2>2, Zenon DEF Counted, Current, Ends
    <2> QED
        BY <2>1, <2>2, Zenon
<1>5. Counted(k, executions, attempts) => OutcomeOf(k) = aggregates[k].kind /\ OutcomeOf(k) # "open"
    BY Outcomes, Zenon
<1>6. ~Counted(k, executions, attempts) => OutcomeOf(k) = "open"
    BY Outcomes, Zenon DEF Ends
<1>7. receipts'[ChunkOf[k]].disposition # "none"
    BY DEF Ends
<1>8. OutcomeOf(k)' = IF Counted(k, executions, attempts)' THEN aggregates'[k].kind ELSE "unscored"
    BY <1>7 DEF OutcomeOf
<1> QED
    BY <1>3, <1>4, <1>5, <1>6, <1>8, Zenon

-----------------------------------------------------------------------------
(* The refinement.                                                         *)

(* A working step resolves cases.                                          *)
LEMMA WorkResolves ==
    ASSUME RInv, Works PROVE Settlement!Resolve
<1>1. receipts' = receipts
    BY DEF Works
<1>2. \A k \in Case :
           \/ OutcomeOf(k)' = OutcomeOf(k)
           \/ /\ OutcomeOf(k) = "open" /\ receipts[ChunkOf[k]].disposition = "none"
              /\ OutcomeOf(k)' \in {"result", "error"}
    BY WorkOutcome, Zenon DEF OpenChunk
<1> QED
    BY <1>1, <1>2 DEF Settlement!Resolve, Settlement!Open

(* What a settlement counts is what the cases have.                        *)
LEMMA EvidenceIsScored ==
    ASSUME RInv, TypeOK', NEW c \in Chunk, SettlesChunk(c), \A k \in CasesOf(c) : Ends(k)
    PROVE  receipts'[c].evidence = Settlement!Scored([k \in Case |-> OutcomeOf(k)], c)
<1> DEFINE counted == {k \in CasesOf(c) : Counted(k, executions, attempts)}
<1>1. ASSUME NEW k \in CasesOf(c)
      PROVE  /\ k \in Case /\ ChunkOf[k] = c
             /\ Counted(k, executions, attempts)' <=> Counted(k, executions, attempts)
             /\ aggregates'[k] = aggregates[k]
             /\ Counted(k, executions, attempts) <=> OutcomeOf(k) \in {"result", "error"}
             /\ Counted(k, executions, attempts) => OutcomeOf(k) = aggregates[k].kind
    <2>1. k \in Case /\ ChunkOf[k] = c
        BY Zenon DEF CasesOf
    <2> QED
        BY <2>1, EndOutcome, Outcomes, Zenon DEF Ends
<1>2. receipts'[c].evidence
        = {[case |-> k, kind |-> aggregates'[k].kind] :
                k \in {k \in CasesOf(c) : Counted(k, executions, attempts)'}}
    BY ZenonT(40) DEF SettlesChunk, WritesReceipt, Evidence, CasesOf
<1>3. {k \in CasesOf(c) : Counted(k, executions, attempts)'} = counted
    BY <1>1, Zenon
<1>4. {k \in Case : ChunkOf[k] = c /\ OutcomeOf(k) \in {"result", "error"}} = counted
    BY <1>1, Zenon DEF CasesOf
<1>5. \A k \in counted : k \in Case /\ OutcomeOf(k) = aggregates'[k].kind
    BY <1>1
<1>6. Settlement!Scored([k \in Case |-> OutcomeOf(k)], c)
        = {[case |-> k, kind |-> [j \in Case |-> OutcomeOf(j)][k]] :
              k \in {k \in Case : ChunkOf[k] = c
                                  /\ [j \in Case |-> OutcomeOf(j)][k] \in {"result", "error"}}}
    BY DEF Settlement!Scored
<1> DEFINE out == [j \in Case |-> OutcomeOf(j)]
<1>7. \A k \in Case : out[k] = OutcomeOf(k)
    OBVIOUS
<1> HIDE DEF counted, out
<1>8. {k \in Case : ChunkOf[k] = c /\ out[k] \in {"result", "error"}} = counted
    BY <1>4, <1>7
<1> QED
    BY <1>2, <1>3, <1>5, <1>6, <1>7, <1>8, SMTT(30), Z3T(30) DEF out

(* A settling step settles.                                                *)
LEMMA SettlementSettles ==
    ASSUME RInv, TypeOK', NEW C \in SUBSET Chunk, NEW d \in TerminalChunk, SettlesAll(C, d)
    PROVE  Settlement!Settle(C, d)
<1>1. ASSUME NEW c \in C PROVE receipts[c].disposition = "none"
    BY SettledWasOpen, Zenon DEF OpenChunk
<1>2. ASSUME d = "completed", NEW k \in Case, ChunkOf[k] \in C PROVE OutcomeOf(k) # "open"
    <2>1. executions[k].status \in TerminalExecution /\ OpenChunk(ChunkOf[k])
        BY <1>1, <1>2 DEF SettlesAll, OpenChunk
    <2>2. Counted(k, executions, attempts)
        BY <2>1, Zenon DEF RInv, CaseInv
    <2> QED
        BY <2>2, Outcomes, Zenon
<1>3. ASSUME NEW k \in Case
      PROVE  OutcomeOf(k)' = IF ChunkOf[k] \in C /\ OutcomeOf(k) = "open"
                             THEN "unscored" ELSE OutcomeOf(k)
    <2>1. CASE ChunkOf[k] \in C
        <3>1. Ends(k)
            BY <2>1 DEF SettlesAll
        <3> QED
            BY <2>1, <3>1, EndOutcome
    <2>2. CASE ChunkOf[k] \notin C
        <3>1. Keeps(k) /\ receipts'[ChunkOf[k]] = receipts[ChunkOf[k]]
            BY <2>2, ChunkAssumption DEF SettlesAll
        <3> QED
            BY <2>2, <3>1, KeepsOutcome
    <2> QED
        BY <2>1, <2>2
<1>4. ASSUME NEW c \in Chunk
      PROVE  receipts'[c] = IF c \in C
                THEN [disposition |-> d,
                      evidence |-> Settlement!Scored([k \in Case |-> OutcomeOf(k)], c)]
                ELSE receipts[c]
    <2>1. CASE c \in C
        <3>1. /\ SettlesChunk(c) /\ chunks'[c].status = d
              /\ \A k \in CasesOf(c) : Ends(k)
            BY <2>1, Zenon DEF SettlesAll, CasesOf
        <3>2. receipts'[c].disposition = d
            BY <3>1 DEF SettlesChunk, WritesReceipt
        <3>3. receipts'[c].evidence = Settlement!Scored([k \in Case |-> OutcomeOf(k)], c)
            BY <3>1, EvidenceIsScored
        <3>4. receipts'[c] \in ReceiptRow
            BY Zenon DEF TypeOK
        <3> QED
            BY <2>1, <3>2, <3>3, <3>4, Zenon DEF ReceiptRow
    <2>2. CASE c \notin C
        BY <2>2 DEF SettlesAll
    <2> QED
        BY <2>1, <2>2, Zenon
<1>5. receipts' = [c \in Chunk |-> receipts'[c]]
    BY DEF TypeOK
<1>6. receipts' = [c \in Chunk |->
            IF c \in C
            THEN [disposition |-> d,
                  evidence |-> Settlement!Scored([k \in Case |-> OutcomeOf(k)], c)]
            ELSE receipts[c]]
    BY <1>4, <1>5, Zenon
<1>7. \A c \in C : Settlement!Open(c)
    BY <1>1 DEF Settlement!Open
<1> QED
    BY <1>2, <1>3, <1>6, <1>7 DEF Settlement!Settle

(* The rows that workers, coordinator, cancellation and mover write are    *)
(* what those who count the results are promised: a case's outcome is      *)
(* final, a receipt counts what the cases of its chunk have and is never   *)
(* written again, and a chunk is completed only when all its cases have    *)
(* their outcome.                                                          *)
THEOREM ExecutionImplementsSettlement == Spec => ImplementsSettlement
<1>1. Init => Settlement!Init
    <2> SUFFICES ASSUME Init PROVE Settlement!Init
        OBVIOUS
    <2>1. ASSUME NEW k \in Case PROVE OutcomeOf(k) = "open"
        <3>1. executions[k].status = "absent" /\ ChunkOf[k] \in Chunk
            BY ChunkAssumption, Zenon DEF Init
        <3>2. receipts[ChunkOf[k]].disposition = "none"
            BY <3>1 DEF Init
        <3> QED
            BY <3>1, <3>2, Zenon DEF OutcomeOf, Counted, TerminalExecution
    <2> QED
        BY <2>1, Zenon DEF Init, Settlement!Init
<1>2. RInv /\ [Next]_vars => [Settlement!Next]_<<[k \in Case |-> OutcomeOf(k)], receipts>>
    <2> SUFFICES ASSUME RInv, [Next]_vars PROVE Settlement!Next
        OBVIOUS
    <2>1. Refines
        BY NextRefines, Zenon
    <2>2. TypeOK'
        BY NextRInv DEF RInv, IInv, TypeInv
    <2>3. CASE Works
        BY <2>3, WorkResolves DEF Settlement!Next
    <2>4. ASSUME NEW C \in SUBSET Chunk, NEW d \in TerminalChunk, SettlesAll(C, d)
          PROVE  Settlement!Next
        <3>1. Settlement!Settle(C, d)
            BY <2>2, <2>4, SettlementSettles
        <3> QED
            BY <3>1 DEF Settlement!Next, TerminalChunk
    <2> QED
        BY <2>1, <2>3, <2>4 DEF Refines
<1> QED
    BY <1>1, <1>2, RInvariance, PTL DEF Spec, ImplementsSettlement, Settlement!Spec

-----------------------------------------------------------------------------
(* What the invariant says of results and attempts.                        *)

(* A completed execution has the result of its current attempt, and that   *)
(* attempt completed: no result of an attempt that lost its authority is   *)
(* promoted.                                                               *)
THEOREM CompletedExecutionsHaveResults == Spec => []CompletedHasResult
<1>1. RInv => CompletedHasResult
    BY Zenon DEF RInv, CaseInv, CompletedHasResult, Current
<1> QED
    BY <1>1, RInvariance, PTL

(* An open execution that has used up its attempts can still be closed as  *)
(* exhausted.                                                              *)
THEOREM ExhaustedExecutionsCanClose == Spec => []ExhaustedCanClose
<1>1. ASSUME RInv, NEW k \in Case, executions[k].status \in OpenExecution,
             executions[k].attemptNo = MaxAttempts
      PROVE  attempts[k][MaxAttempts].status \in {"running", "stale"}
    <2>1. CaseInv(k) /\ MaxAttempts \in Nat
        BY <1>1, BudgetAssumption DEF RInv
    <2> QED
        BY <1>1, <2>1, SMTT(30), Z3T(30) DEF CaseInv, Current, OpenExecution
<1>2. RInv => ExhaustedCanClose
    BY <1>1 DEF ExhaustedCanClose
<1> QED
    BY <1>2, RInvariance, PTL

(* An attempt that ended for good is not touched again.                    *)
LEMMA EndedAttemptStays ==
    ASSUME RInv, NEW k \in Case, CaseStep(k), NEW n \in AttemptNo,
           attempts[k][n].status \in FinishedAttempt \cup {"cancelled"}
    PROVE  attempts'[k][n] = attempts[k][n]
<1>1. CaseInv(k) /\ Current(k) \in Nat /\ n \in Nat
    BY CaseTypes, BudgetAssumption, SMTT(30), Z3T(30) DEF RInv, IInv, TypeInv, AttemptNo
<1>2. attempts[k][n].status \notin {"running", "stale", "absent"}
    BY Zenon DEF FinishedAttempt
<1>3. CASE Keeps(k) \/ Ends(k)
    BY <1>2, <1>3, Zenon DEF Keeps, Ends, Fades
<1>4. CASE Starts(k)
    <2>1. n # Current(k) + 1
        BY <1>1, <1>2, SMTT(30), Z3T(30) DEF CaseInv
    <2> QED
        BY <1>2, <1>4, <2>1, Zenon DEF Starts, Fades
<1>5. CASE Stores(k)
    BY <1>5, Zenon DEF Stores
<1>6. CASE Closes(k)
    BY <1>2, <1>6 DEF Closes
<1> QED
    BY <1>3, <1>4, <1>5, <1>6, Zenon DEF CaseStep

(* A terminal chunk keeps its status.                                      *)
LEMMA TerminalChunkStays ==
    ASSUME RInv, RInv', Refines, NEW c \in TerminalChunks
    PROVE  chunks'[c].status = chunks[c].status /\ receipts'[c] = receipts[c]
<1>1. ReceiptMatchesChunk /\ ReceiptMatchesChunk' /\ c \in Chunk
    BY ZenonT(40) DEF RInv, IInv, Settled, TerminalChunks
<1>2. ~OpenChunk(c) /\ receipts[c].disposition = chunks[c].status
    BY <1>1, Zenon DEF ReceiptMatchesChunk, OpenChunk, TerminalChunks, TerminalChunk
<1>3. receipts'[c] = receipts[c]
    <2>1. CASE Works
        BY <2>1, Zenon DEF Works
    <2>2. ASSUME NEW C \in SUBSET Chunk, NEW d \in TerminalChunk, SettlesAll(C, d)
          PROVE  receipts'[c] = receipts[c]
        BY <1>1, <1>2, <2>2, SettledWasOpen, Zenon
    <2> QED
        BY <2>1, <2>2 DEF Refines
<1>4. chunks'[c].status = chunks[c].status
    BY <1>1, <1>2, <1>3 DEF ReceiptMatchesChunk, TerminalChunks, OpenChunk
<1> QED
    BY <1>3, <1>4, Zenon

(* Nothing terminal is reopened, and no attempt that ended changes, except *)
(* that a stale current attempt may be closed as exhausted.                *)
THEOREM NothingIsReopened == Spec => NoReopen
<1>1. RInv /\ [Next]_vars =>
       [/\ \A c \in TerminalChunks : chunks'[c].status = chunks[c].status
        /\ \A k \in Case : executions[k].status \in TerminalExecution =>
                executions'[k].status = executions[k].status
        /\ \A k \in Case, n \in AttemptNo :
                attempts[k][n].status \in FinishedAttempt \cup {"cancelled"} =>
                    attempts'[k][n] = attempts[k][n]]_vars
    <2> SUFFICES ASSUME RInv, [Next]_vars
                 PROVE  /\ \A c \in TerminalChunks : chunks'[c].status = chunks[c].status
                        /\ \A k \in Case : executions[k].status \in TerminalExecution =>
                                executions'[k].status = executions[k].status
                        /\ \A k \in Case, n \in AttemptNo :
                                attempts[k][n].status \in FinishedAttempt \cup {"cancelled"} =>
                                    attempts'[k][n] = attempts[k][n]
        BY Zenon
    <2>1. Refines /\ RInv' /\ TypeOK
        BY NextRefines, NextRInv, Zenon DEF RInv, IInv, TypeInv
    <2>2. \A k \in Case : CaseStep(k)
        BY <2>1, RefinesCases
    <2>3. \A k \in Case : Advances(k)
        BY <2>1, <2>2, CaseAdvances
    <2> QED
        BY <2>1, <2>2, <2>3, TerminalChunkStays, EndedAttemptStays, Zenon DEF Advances
<1> QED
    BY <1>1, RInvariance, PTL DEF Spec, NoReopen

(* A chunk is completed only when every execution of it is terminal,       *)
(* although the worker reads that outside the completing transaction.      *)
THEOREM CompletedChunksAreResolved == Spec => CompletesResolvedChunk
<1>1. RInv /\ [Next]_vars => [CompletesResolvedChunkStep]_vars
    <2> SUFFICES ASSUME RInv, [Next]_vars, NEW c \in Chunk,
                        chunks[c].status # "completed", chunks'[c].status = "completed",
                        NEW k \in CasesOf(c)
                 PROVE  executions[k].status \in TerminalExecution
        BY Zenon DEF CompletesResolvedChunkStep
    <2>1. Refines /\ RInv'
        BY NextRefines, NextRInv, Zenon
    <2>2. c \notin TerminalChunks
        BY <2>1, TerminalChunkStays
    <2>3. ReceiptMatchesChunk /\ ReceiptMatchesChunk'
        BY <2>1 DEF RInv, IInv, Settled
    <2>4. receipts'[c] # receipts[c]
        BY <2>2, <2>3, Zenon DEF ReceiptMatchesChunk, TerminalChunks, TerminalChunk
    <2>5. PICK C \in SUBSET Chunk, d \in TerminalChunk : SettlesAll(C, d)
        BY <2>1, <2>4, Zenon DEF Refines, Works
    <2>6. c \in C /\ d = "completed"
        BY <2>4, <2>5 DEF SettlesAll
    <2> QED
        BY <2>5, <2>6, Zenon DEF SettlesAll, CasesOf
<1> QED
    BY <1>1, RInvariance, PTL DEF Spec, CompletesResolvedChunk
=============================================================================
