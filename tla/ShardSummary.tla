---------------------------- MODULE ShardSummary ----------------------------
(***************************************************************************)
(* How coordinators aggregate settlement receipts into shard summaries.    *)
(*                                                                         *)
(* Workers commit one receipt per chunk, in any order.  A coordinator pass *)
(* discovers shards with pending receipts, oldest updated_at first, and    *)
(* drains them with a bounded scheduler.  A page is one transaction under  *)
(* a nonblocking advisory lock and the shard's shared movement fence.      *)
(* Phase one folds whatever receipts are not consumed yet; when all        *)
(* planned chunks are counted, phase two folds the receipts again, in the  *)
(* order of the frozen plan, and seals the result.                         *)
(*                                                                         *)
(* A summary is represented by the sequence of the chunks folded into it:  *)
(* its counters depend on the set, its floating-point score sum on the     *)
(* order.  The chunks of a shard are 1 .. Chunks, in plan order.           *)
(***************************************************************************)
EXTENDS Integers, Sequences, FiniteSets, SequencesExt

CONSTANTS
    Shard,        \* the run shards of one execution database
    Chunks,       \* how many chunks the frozen plan gives each shard
    Coordinator,  \* coordinator processes that run aggregation passes
    Nobody,       \* the owner of a free lock
    Poison,       \* the shards with a receipt that no fold accepts
    PageRows,     \* COMPACT_PAGE_ROWS, GATED_PAGE_ROWS, or what PAGE_BYTES admits
    MaxPages,     \* aggregation page budget of one pass
    Parallelism,  \* active pages of one pass
    MaxFaults,    \* bound: crashes and failed statements
    MaxEpoch      \* bound: the highest write epoch

VARIABLES
    admission,  \* local_shard_admissions; "open" is open or draining
    receipts,   \* run_chunk_settlements: the result of each settled chunk
    consumed,   \* run_chunk_settlement_consumptions with consumed = true
    summaries,  \* run_shard_summaries, aggregation_state included
    order,      \* the shards with a summary row, by updated_at
    lock,       \* the ':summary' advisory lock of each shard
    passes,     \* the coordinators' passes
    faults      \* crashes and failed statements so far

vars == <<admission, receipts, consumed, summaries, order, lock, passes, faults>>

-----------------------------------------------------------------------------
Chunk  == 1 .. Chunks
Result == {"clean", "failed"}
Plan   == [i \in Chunk |-> i]

Unsettled == "none"

(* counted is the published progress, or the final fold once sealed; final *)
(* is state.final_summary with state.folded; started says that there is an *)
(* aggregation_state.                                                      *)
SummaryRow ==
    [present: BOOLEAN, started: BOOLEAN, sealed: BOOLEAN,
     status: {"running", "completed", "failed"},
     counted: Seq(Chunk), final: Seq(Chunk)]

NoSummary == [present |-> FALSE, started |-> FALSE, sealed |-> FALSE,
              status |-> "running", counted |-> <<>>, final |-> <<>>]

PageState == {"none", "rotate", "read", "store"}
Page == [pc: PageState, row: SummaryRow, take: SUBSET Chunk, again: BOOLEAN,
         progressed: BOOLEAN, epoch: Nat]
NoPage == [pc |-> "none", row |-> NoSummary, take |-> {}, again |-> FALSE,
           progressed |-> FALSE, epoch |-> 0]

Candidate == [shard: Shard, epoch: Nat]

IdlePass == [waiting |-> <<>>, attempts |-> 0, admits |-> FALSE,
             pages |-> [s \in Shard |-> NoPage]]

Active(c) == {s \in Shard : passes[c].pages[s].pc # "none"}

(* Every table holds rows of its columns, and every pass respects its      *)
(* budget of page attempts and of pages that run at the same time.         *)
TypeOK ==
    /\ admission \in [Shard -> [epoch: 1 .. MaxEpoch, state: {"open", "closed"}]]
    /\ receipts \in [Shard -> [Chunk -> Result \cup {Unsettled}]]
    /\ consumed \in [Shard -> SUBSET Chunk]
    /\ summaries \in [Shard -> SummaryRow]
    /\ order \in Seq(Shard)
    /\ lock \in [Shard -> Coordinator \cup {Nobody}]
    /\ faults \in 0 .. MaxFaults
    /\ \A c \in Coordinator :
        /\ passes[c].waiting \in Seq(Candidate)
        /\ passes[c].attempts \in 0 .. MaxPages
        /\ passes[c].pages \in [Shard -> Page]
        /\ Cardinality(Active(c)) <= Parallelism

Init ==
    /\ admission = [s \in Shard |-> [epoch |-> 1, state |-> "open"]]
    /\ receipts = [s \in Shard |-> [k \in Chunk |-> Unsettled]]
    /\ consumed = [s \in Shard |-> {}]
    /\ summaries = [s \in Shard |-> NoSummary]
    /\ order = <<>>
    /\ lock = [s \in Shard |-> Nobody]
    /\ passes = [c \in Coordinator |-> IdlePass]
    /\ faults = 0

Pending(s) == {k \in Chunk : receipts[s][k] # Unsettled} \ consumed[s]

(* updated_at = now() puts the row behind the others.                      *)
Touched(s) == Append(SelectSeq(order, LAMBDA x : x # s), s)

-----------------------------------------------------------------------------
(* What the rest of the system does to these tables.                       *)

(* Dispatch of a window prepares the summary; a row that exists stays.     *)
PrepareAgain(s) ==   \* mutant: a later window overwrites the progress
    /\ \A c \in Coordinator : passes[c].pages[s].pc # "store"
    /\ summaries' = [summaries EXCEPT ![s] = [NoSummary EXCEPT !.present = TRUE]]
    /\ order' = Touched(s)
    /\ UNCHANGED <<admission, receipts, consumed, lock, passes, faults>>

Prepare(s) ==
    /\ ~summaries[s].present
    /\ summaries' = [summaries EXCEPT ![s] = [NoSummary EXCEPT !.present = TRUE]]
    /\ order' = Touched(s)
    /\ UNCHANGED <<admission, receipts, consumed, lock, passes, faults>>

(* A worker, recovery or cancellation settles a chunk of an admitted shard.*)
Settle(s, k, result) ==
    /\ admission[s].state = "open" /\ summaries[s].present
    /\ receipts[s][k] = Unsettled
    /\ receipts' = [receipts EXCEPT ![s][k] = result]
    /\ UNCHANGED <<admission, consumed, summaries, order, lock, passes, faults>>

HoldsNoFence(s) == FALSE   \* mutant: pages do not take the shared fence

HoldsFence(s) == lock[s] # Nobody

(* A move closes the shard here under the exclusive fence, and opens its   *)
(* copy under the next epoch.                                              *)
CloseForMove(s) ==
    /\ admission[s].state = "open" /\ admission[s].epoch < MaxEpoch
    /\ ~HoldsFence(s)
    /\ admission' = [admission EXCEPT ![s].state = "closed"]
    /\ UNCHANGED <<receipts, consumed, summaries, order, lock, passes, faults>>

OpenMoved(s) ==
    /\ admission[s].state = "closed"
    /\ admission' = [admission EXCEPT ![s] = [epoch |-> @.epoch + 1, state |-> "open"]]
    /\ UNCHANGED <<receipts, consumed, summaries, order, lock, passes, faults>>

-----------------------------------------------------------------------------
(* One pass of a coordinator.                                              *)

(* The candidates of advance_pending_summaries.                            *)
Ready(s) ==
    /\ summaries[s].present /\ ~summaries[s].sealed
    /\ admission[s].state = "open"
    /\ \/ Len(summaries[s].counted) >= Chunks
       \/ Pending(s) # {}

Discover(c) ==
    LET ready == SelectSeq(order, Ready)
        limit == IF Len(ready) < MaxPages THEN Len(ready) ELSE MaxPages
    IN  /\ Active(c) = {} /\ passes[c].waiting = <<>> /\ ~passes[c].admits
        /\ ready # <<>>
        /\ passes' = [passes EXCEPT ![c] =
                [IdlePass EXCEPT !.admits = TRUE,
                 !.waiting = [i \in 1 .. limit |->
                     [shard |-> ready[i], epoch |-> admission[ready[i]].epoch]]]]
        /\ UNCHANGED <<admission, receipts, consumed, summaries, order, lock, faults>>

MayStartBeyondBudget(c) ==   \* mutant: page attempts are not counted
    /\ passes[c].admits /\ passes[c].waiting # <<>>
    /\ Cardinality(Active(c)) < Parallelism

MayStart(c) ==
    /\ passes[c].admits /\ passes[c].waiting # <<>>
    /\ passes[c].attempts < MaxPages
    /\ Cardinality(Active(c)) < Parallelism

(* The pass ends when nothing runs and nothing may start.                  *)
EndPass(c) ==
    /\ passes[c] # IdlePass
    /\ Active(c) = {} /\ ~MayStart(c)
    /\ passes' = [passes EXCEPT ![c] = IdlePass]
    /\ UNCHANGED <<admission, receipts, consumed, summaries, order, lock, faults>>

(* The time budget stops new pages; the first check follows discovery at   *)
(* once and always finds time.                                             *)
TimeEnds(c) ==
    /\ passes[c].admits /\ passes[c].attempts > 0
    /\ passes' = [passes EXCEPT ![c].admits = FALSE]
    /\ UNCHANGED <<admission, receipts, consumed, summaries, order, lock, faults>>

Admitted(s, epoch) == admission[s].state = "open" /\ admission[s].epoch = epoch

(* Begins a page: the nonblocking claim, then the shared fence, then       *)
(* load_context.  A claim held elsewhere, a lost admission and a sealed    *)
(* summary end the page, and only the candidate's rotation is left.        *)
StartUnclaimed(c) ==   \* mutant: the ':summary' claim is not taken
    /\ MayStart(c)
    /\ LET s     == Head(passes[c].waiting).shard
           epoch == Head(passes[c].waiting).epoch
           owns  == Admitted(s, epoch) /\ ~summaries[s].sealed
       IN passes' = [passes EXCEPT ![c] =
                [@ EXCEPT !.waiting = Tail(@), !.attempts = @ + 1,
                          !.pages[s] = [NoPage EXCEPT !.epoch = epoch, !.row = summaries[s],
                                        !.pc = IF owns THEN "read" ELSE "rotate"]]]
    /\ UNCHANGED <<admission, receipts, consumed, summaries, order, lock, faults>>

StartPage(c) ==
    /\ MayStart(c)
    /\ LET s     == Head(passes[c].waiting).shard
           epoch == Head(passes[c].waiting).epoch
           owns  == lock[s] = Nobody /\ Admitted(s, epoch) /\ ~summaries[s].sealed
       IN /\ lock' = IF owns THEN [lock EXCEPT ![s] = c] ELSE lock
          /\ passes' = [passes EXCEPT ![c] =
                [@ EXCEPT !.waiting = Tail(@), !.attempts = @ + 1,
                          !.pages[s] = IF owns
                                       THEN [NoPage EXCEPT !.pc = "read", !.epoch = epoch,
                                                           !.row = summaries[s]]
                                       ELSE [NoPage EXCEPT !.pc = "rotate"]]]
    /\ UNCHANGED <<admission, receipts, consumed, summaries, order, faults>>

(* The first PageRows elements of a set of chunks, by ordinal.             *)
FirstRows(K) == {k \in K : Cardinality({j \in K : j < k}) < PageRows}

InOrder(K) == SetToSortSeq(K, LAMBDA a, b : a < b)

Failing(s) == \E k \in Chunk : receipts[s][k] = "failed"

(* Phase one: the page of receipts that no page has consumed.              *)
CountPage(s, row) ==
    LET take    == FirstRows(Pending(s))
        counted == row.counted \o InOrder(take)
    IN  [take |-> take,
         progressed |-> ~row.started \/ take # {},
         again |-> Len(counted) = Chunks \/ Pending(s) # take,
         row |-> [row EXCEPT !.started = TRUE, !.counted = counted]]

(* Phase two: the next page of planned chunks, from the folded manifest's  *)
(* last identity on; the last page seals.  It takes the final fold as the  *)
(* summary, in place of the progress.                                      *)
FinalPageUnverified(s, row) ==   \* mutant: the progress itself is sealed
    [take |-> {}, progressed |-> TRUE, again |-> TRUE,
     row |-> [row EXCEPT !.sealed = TRUE,
                         !.status = IF Failing(s) THEN "failed" ELSE "completed"]]

FinalPage(s, row) ==
    LET done  == Len(row.final)
        final == row.final \o InOrder(FirstRows(Chunk \ (1 .. done)))
        seals == Len(final) = Chunks
    IN  [take |-> {}, progressed |-> TRUE, again |-> TRUE,
         row |-> IF seals
                 THEN [row EXCEPT !.final = final, !.counted = final, !.sealed = TRUE,
                                  !.status = IF Failing(s) THEN "failed" ELSE "completed"]
                 ELSE [row EXCEPT !.final = final]]

(* The page reads its receipts in one statement and folds them.            *)
ReadPage(c, s) ==
    LET p == passes[c].pages[s]
        f == IF Len(p.row.counted) < Chunks THEN CountPage(s, p.row) ELSE FinalPage(s, p.row)
    IN  /\ p.pc = "read"
        /\ s \notin Poison
        /\ passes' = [passes EXCEPT ![c].pages[s] =
                [@ EXCEPT !.pc = "store", !.row = f.row, !.take = f.take,
                          !.again = f.again, !.progressed = f.progressed]]
        /\ UNCHANGED <<admission, receipts, consumed, summaries, order, lock, faults>>

(* A fold is refused (an overflow, a mismatch): the transaction rolls back.*)
ReadFails(c, s) ==
    /\ passes[c].pages[s].pc = "read"
    /\ s \in Poison
    /\ lock' = [lock EXCEPT ![s] = Nobody]
    /\ passes' = [passes EXCEPT ![c].pages[s] = [NoPage EXCEPT !.pc = "rotate"]]
    /\ UNCHANGED <<admission, receipts, consumed, summaries, order, faults>>

(* store_with: the counters, the checkpoint and the consumptions commit    *)
(* together, and the outcome goes to the scheduler.                        *)
StorePage(c, s) ==
    LET p == passes[c].pages[s] IN
    /\ p.pc = "store" /\ p.progressed /\ ~summaries[s].sealed
    /\ summaries' = [summaries EXCEPT ![s] = p.row]
    /\ consumed' = [consumed EXCEPT ![s] = @ \cup p.take]
    /\ order' = Touched(s)
    /\ lock' = [lock EXCEPT ![s] = Nobody]
    /\ passes' = [passes EXCEPT ![c] =
            [@ EXCEPT !.pages[s] = NoPage,
                      !.waiting = IF p.again /\ ~p.row.sealed
                                  THEN Append(@, [shard |-> s, epoch |-> p.epoch]) ELSE @]]
    /\ UNCHANGED <<admission, receipts, faults>>

(* Nothing was read: the page is deferred.                                 *)
EmptyPage(c, s) ==
    LET p == passes[c].pages[s] IN
    /\ p.pc = "store" /\ ~p.progressed
    /\ lock' = [lock EXCEPT ![s] = Nobody]
    /\ passes' = [passes EXCEPT ![c].pages[s] = [NoPage EXCEPT !.pc = "rotate"]]
    /\ UNCHANGED <<admission, receipts, consumed, summaries, order, faults>>

(* A deferred or failed candidate goes behind the others, in a statement   *)
(* of its own.                                                             *)
RotateNothing(c, s) ==   \* mutant: a deferred candidate keeps its place
    /\ passes[c].pages[s].pc = "rotate"
    /\ passes' = [passes EXCEPT ![c].pages[s] = NoPage]
    /\ UNCHANGED <<admission, receipts, consumed, summaries, order, lock, faults>>

Rotate(c, s) ==
    /\ passes[c].pages[s].pc = "rotate"
    /\ order' = IF summaries[s].sealed THEN order ELSE Touched(s)
    /\ passes' = [passes EXCEPT ![c].pages[s] = NoPage]
    /\ UNCHANGED <<admission, receipts, consumed, summaries, lock, faults>>

(* The rotation fails: the pass admits no further page and ends in an      *)
(* error after the active ones.                                            *)
RotateFails(c, s) ==
    /\ passes[c].pages[s].pc = "rotate"
    /\ faults < MaxFaults /\ faults' = faults + 1
    /\ passes' = [passes EXCEPT ![c] = [@ EXCEPT !.pages[s] = NoPage, !.admits = FALSE]]
    /\ UNCHANGED <<admission, receipts, consumed, summaries, order, lock>>

(* The coordinator dies, or the operation deadline drops the pass: every   *)
(* open transaction rolls back and releases its locks.                     *)
Crash(c) ==
    /\ passes[c] # IdlePass
    /\ faults < MaxFaults /\ faults' = faults + 1
    /\ lock' = [s \in Shard |-> IF lock[s] = c THEN Nobody ELSE lock[s]]
    /\ passes' = [passes EXCEPT ![c] = IdlePass]
    /\ UNCHANGED <<admission, receipts, consumed, summaries, order>>

-----------------------------------------------------------------------------
Next ==
    \/ \E s \in Shard :
        \/ Prepare(s) \/ CloseForMove(s) \/ OpenMoved(s)
        \/ \E k \in Chunk, result \in Result : Settle(s, k, result)
    \/ \E c \in Coordinator :
        \/ Discover(c) \/ StartPage(c) \/ TimeEnds(c) \/ EndPass(c) \/ Crash(c)
        \/ \E s \in Shard :
            \/ ReadPage(c, s) \/ ReadFails(c, s) \/ StorePage(c, s)
            \/ EmptyPage(c, s) \/ Rotate(c, s) \/ RotateFails(c, s)

(* Chunks settle, moves end, and a coordinator runs pass after pass; a     *)
(* started page ends.  Nothing makes time end or a process crash.          *)
Fairness ==
    /\ \A s \in Shard :
        /\ WF_vars(Prepare(s)) /\ WF_vars(OpenMoved(s))
        /\ \A k \in Chunk : WF_vars(\E r \in Result : Settle(s, k, r))
    /\ \A c \in Coordinator :
        /\ WF_vars(Discover(c)) /\ WF_vars(StartPage(c)) /\ WF_vars(EndPass(c))
        /\ \A s \in Shard :
            /\ WF_vars(ReadPage(c, s)) /\ WF_vars(ReadFails(c, s))
            /\ WF_vars(StorePage(c, s)) /\ WF_vars(EmptyPage(c, s)) /\ WF_vars(Rotate(c, s))

Spec == Init /\ [][Next]_vars /\ Fairness

-----------------------------------------------------------------------------
(* The published progress of an unsealed shard counts each consumed        *)
(* receipt once and no other: advance_shard_summary_page commits counters  *)
(* and consumption marks together, whatever order receipts arrive in and   *)
(* whichever coordinators crash or race.                                   *)
CountsConsumed ==
    \A s \in Shard : ~summaries[s].sealed =>
        /\ Len(summaries[s].counted) = Cardinality(consumed[s])
        /\ {summaries[s].counted[i] : i \in 1 .. Len(summaries[s].counted)} = consumed[s]

(* A sealed summary is the fold of all planned receipts in plan order, so  *)
(* that its floating-point sum does not depend on when chunks settled, and *)
(* its status is that of the receipts.                                     *)
SealedIsCanonical ==
    \A s \in Shard : summaries[s].sealed =>
        /\ summaries[s].counted = Plan
        /\ \A k \in Chunk : receipts[s][k] # Unsettled
        /\ summaries[s].status = IF Failing(s) THEN "failed" ELSE "completed"

(* Published progress never shrinks, and a sealed summary never changes,   *)
(* through crashes, competing coordinators and moves of the shard.         *)
ProgressNeverLostStep ==
    \A s \in Shard :
     /\ Len(summaries'[s].counted) >= Len(summaries[s].counted)
     /\ Len(summaries'[s].final) >= Len(summaries[s].final)
     /\ summaries[s].sealed => summaries'[s] = summaries[s]
ProgressNeverLost == [][ProgressNeverLostStep]_vars

(* Aggregation writes to a shard only where and while it is admitted: the  *)
(* shared fence keeps a move from closing the shard under an open page.    *)
WritesOnlyAdmittedStep ==
    \A s \in Shard :
     summaries[s].started /\ summaries'[s] # summaries[s] => admission[s].state = "open"
WritesOnlyAdmitted == [][WritesOnlyAdmittedStep]_vars

(* Every shard whose receipts can be folded is sealed in the end, although *)
(* other shards fail on every visit and take places in each pass.          *)
Sealed(s) == summaries[s].sealed
EverySealed == \A s \in Shard \ Poison : <>Sealed(s)

=============================================================================
