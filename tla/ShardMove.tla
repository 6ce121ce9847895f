----------------------------- MODULE ShardMove -----------------------------
(***************************************************************************)
(* Moving one run shard between execution databases, online.               *)
(*                                                                         *)
(* A move is claimed in the control database, backfills the target while   *)
(* workers go on writing at the source, replays the keys a trigger of the  *)
(* source recorded meanwhile, drains the source, and cuts over: it closes  *)
(* the source's admission, hands the route over and opens the target.      *)
(* Those are commits of up to three databases, and a mover may stop        *)
(* between any two of them.  Claims expire, so a second mover may go on    *)
(* while the first is only slow; an abort may give the shard back to its   *)
(* source at any time; and a move command may be repeated.                 *)
(*                                                                         *)
(* The rows of the shard are Keys work items, copied one page of one row   *)
(* at a time in key order.  truth is no table of the program: it is what   *)
(* the admitted writes made of every row.                                  *)
(***************************************************************************)
EXTENDS Integers, FiniteSets, FiniteSetsExt

CONSTANTS
    Alias,          \* aliases of database placements, all active
    Physical,       \* the PostgreSQL database behind an alias
    Control,        \* the alias of the control database
    Keys,           \* how many rows the shard may have
    Mover,          \* processes that run `shard move`
    Aborter,        \* a process that runs `shard move-abort`
    Nobody,         \* no process, and no alias
    OnlineBatches,  \* SHARD_MOVE_ONLINE_REPLAY_BATCHES
    FinalKeyLimit,  \* SHARD_MOVE_FINAL_DIRTY_KEY_LIMIT
    MaxMoves,       \* bound: move operations
    MaxClaims,      \* bound: claims of one operation
    MaxAborts,      \* bound: abort commands that find a move
    MaxFaults       \* bound: crashes

VARIABLES
    route,      \* the shard's row of shard_placements
    ops,        \* shard_move_operations, with shard_move_table_progress
    admission,  \* local_shard_admissions of every database
    rows,       \* the shard's rows in every database
    capture,    \* shard_move_captures: the capturing move, 0 for none
    dirty,      \* shard_move_dirty_keys: change_version, 0 for no entry
    truth,      \* what admitted writes made of the rows
    fence,      \* who holds the shard's exclusive write fence, per database
    movers,     \* the move commands
    aborter,    \* the abort command
    aborts,     \* abort commands so far
    faults      \* crashes so far

moveVars == <<route, ops, admission, rows, capture, dirty, truth, fence,
              movers, aborter, aborts, faults>>

-----------------------------------------------------------------------------
Key      == 1 .. Keys
Database == {Physical[a] : a \in Alias}
Item     == {"absent", "queued", "leased", "done"}
AdmissionState == {"none", "prepared", "open", "draining", "closed"}

MaxEpoch   == 1 + MaxMoves + MaxAborts
MaxVersion == 1 + 4 * (MaxMoves + MaxAborts)

Route == [owner: Alias, status: {"active", "copying", "draining", "moving"},
          target: Alias \cup {Nobody}, version: 1 .. MaxVersion,
          epoch: 1 .. MaxEpoch]

(* The token of a claim is known by its generation: every claim raises it. *)
Operation == [status: {"unused", "active", "completed", "aborted"},
              source: Alias \cup {Nobody}, target: Alias \cup {Nobody},
              phase: {"reserved", "backfill", "catch_up", "draining",
                      "cutover"},
              reset: BOOLEAN, cursor: 0 .. Keys,
              claim: {"none", "held", "expired"}, gen: 0 .. MaxClaims]

Admission == [alias: Alias \cup {Nobody}, epoch: 0 .. MaxEpoch + 1,
              state: AdmissionState, op: 0 .. MaxMoves, gen: 0 .. MaxClaims]

NoMove == [status |-> "unused", source |-> Nobody, target |-> Nobody,
           phase |-> "reserved", reset |-> FALSE, cursor |-> 0,
           claim |-> "none", gen |-> 0]

NoAdmission == [alias |-> Nobody, epoch |-> 0, state |-> "none", op |-> 0,
                gen |-> 0]

NoKeys == [k \in Key |-> 0]

Rest == [at |-> "idle", goal |-> Nobody, route |-> <<>>, op |-> 0, gen |-> 0,
         phase |-> "reserved", reset |-> FALSE, cursor |-> 0,
         page |-> "absent", keys |-> NoKeys, batches |-> 0, final |-> FALSE]

Done == [at |-> "idle", route |-> <<>>, op |-> 0, source |-> Nobody,
         target |-> Nobody, epoch |-> 0, prepared |-> FALSE]

Steps == {"idle", "claim", "reconcile", "confirm", "restore", "capture",
          "reserve", "install", "reset", "markReset", "backfill", "page",
          "copy", "checkpoint", "caughtUp", "replay", "current", "upsert",
          "settleKeys", "renew", "reread", "drain", "markDraining",
          "phaseDraining", "count", "fence", "freeze", "phaseCutover",
          "close", "activate", "open", "settle", "release", "closeOld",
          "openNew", "dropOld", "settleOld"}

Init ==
    \E home \in Alias :
        /\ route = [owner |-> home, status |-> "active", target |-> Nobody,
                    version |-> 1, epoch |-> 1]
        /\ ops = [o \in 1 .. MaxMoves |-> NoMove]
        /\ admission = [d \in Database |->
               IF d = Physical[home]
               THEN [NoAdmission EXCEPT !.alias = home, !.epoch = 1,
                                        !.state = "open"]
               ELSE NoAdmission]
        /\ truth \in [Key -> {"absent", "queued"}]
        /\ rows = [d \in Database |-> IF d = Physical[home] THEN truth
                                      ELSE [k \in Key |-> "absent"]]
        /\ capture = [d \in Database |-> 0]
        /\ dirty = [d \in Database |-> NoKeys]
        /\ fence = [d \in Database |-> Nobody]
        /\ movers = [m \in Mover |-> Rest]
        /\ aborter = Done
        /\ aborts = 0
        /\ faults = 0

-----------------------------------------------------------------------------
(* Local admission.                                                        *)

SameDatabase(a, b) == Physical[a] = Physical[b]

(* mutant: a transition that does not compare the epochs.                  *)
MayTransitionAnyEpoch(d, epoch, from) == TRUE

(* transition_local_shard_admission: the epoch advances, or is kept from   *)
(* one of the given states.                                                *)
MayTransition(d, epoch, from) ==
    \/ admission[d].state = "none"
    \/ admission[d].epoch < epoch
    \/ admission[d].epoch = epoch /\ admission[d].state \in from

Transition(a, epoch, state) ==
    admission' = [admission EXCEPT ![Physical[a]] =
        [alias |-> a, epoch |-> epoch, state |-> state, op |-> 0, gen |-> 0]]

(* mutant: a later claimant of the same move cannot take the fence over.   *)
MayInstallOnce(a, epoch, op, gen) ==
    \/ admission[Physical[a]].state = "none"
    \/ admission[Physical[a]].epoch < epoch

(* install_local_shard_move_fence.                                         *)
MayInstall(a, epoch, op, gen) ==
    LET local == admission[Physical[a]]
    IN \/ local.state = "none"
       \/ local.epoch < epoch
       \/ /\ local.epoch = epoch
          /\ local.state = "prepared"
          /\ local.op = op
          /\ local.gen <= gen

(* validate_local_shard_move_fence.                                        *)
HoldsTarget(m) ==
    admission[Physical[m.goal]] =
        [alias |-> m.goal, epoch |-> m.route.epoch + 1, state |-> "prepared",
         op |-> m.op, gen |-> m.gen]

Free(d) == fence[d] = Nobody

-----------------------------------------------------------------------------
(* Work admitted at an execution database.  A writer holds the shared      *)
(* fence from its admission check to its commit.  The trigger records the  *)
(* key of every changed row while a capture is active.                     *)

(* record_shard_move_dirty_key.                                            *)
Captured(d, k) ==
    IF capture[d] = 0 THEN dirty ELSE [dirty EXCEPT ![d][k] = @ + 1]

Store(d, k, value) ==
    /\ rows' = [rows EXCEPT ![d][k] = value]
    /\ truth' = [truth EXCEPT ![k] = value]
    /\ dirty' = Captured(d, k)
    /\ UNCHANGED <<route, ops, admission, capture, fence, movers, aborter,
                   aborts, faults>>

NewWork(d, k) ==
    /\ Free(d)
    /\ admission[d].state = "open"
    /\ \/ rows[d][k] = "absent" /\ Store(d, k, "queued")
       \/ rows[d][k] = "queued" /\ Store(d, k, "leased")

SettleWork(d, k) ==
    /\ Free(d)
    /\ admission[d].state \in {"open", "draining"}
    /\ rows[d][k] = "leased"
    /\ Store(d, k, "done")

(* count_active_shard_work.                                                *)
ActiveWork(d) == \E k \in Key : rows[d][k] = "leased"

-----------------------------------------------------------------------------
(* The claim of a move.  A step that finds its claim taken over, its fence *)
(* refused or the route changed gives up.                                  *)

Active(o) == ops[o].status = "active"

Claimed(m) == /\ Active(m.op)
              /\ ops[m.op].claim # "none"
              /\ ops[m.op].gen = m.gen

Goto(p, step) == movers' = [movers EXCEPT ![p].at = step]
Stop(p)       == movers' = [movers EXCEPT ![p] = Rest]

(* release_shard_move_claim follows the error.                             *)
GiveUp(p) == movers' = [movers EXCEPT ![p] =
                 [Rest EXCEPT !.at = "release", !.op = movers[p].op,
                              !.gen = movers[p].gen]]

(* renews claimed_until with every update that checks the token.           *)
Renewed(o) == [ops[o] EXCEPT !.claim = "held"]

Release(p) ==
    LET m == movers[p]
    IN /\ m.at = "release"
       /\ ops' = IF Claimed(m) THEN [ops EXCEPT ![m.op].claim = "none"]
                 ELSE ops
       /\ Stop(p)
       /\ UNCHANGED <<route, admission, rows, capture, dirty, truth, fence,
                      aborter, aborts, faults>>

(* claimed_until passes.                                                   *)
ClaimExpires(o) ==
    /\ ops[o].claim = "held"
    /\ ops' = [ops EXCEPT ![o].claim = "expired"]
    /\ UNCHANGED <<route, admission, rows, capture, dirty, truth, fence,
                   movers, aborter, aborts, faults>>

-----------------------------------------------------------------------------
(* move_shard_placement up to its claim, and the retry of a move whose     *)
(* route already reached the target.                                       *)

(* select_latest_move_to_target.                                           *)
MovesTo(a) == {o \in DOMAIN ops : /\ ops[o].target = a
                                  /\ ops[o].status \in {"active", "completed"}}
LatestMoveTo(a) ==
    IF \E o \in MovesTo(a) : Active(o) THEN CHOOSE o \in MovesTo(a) : Active(o)
    ELSE Max(MovesTo(a))

Start(p, goal) ==
    /\ movers[p].at = "idle"
    /\ \/ /\ route.owner = goal
          /\ route.status = "active"
          /\ MovesTo(goal) # {}
          /\ movers' = [movers EXCEPT ![p] =
                [Rest EXCEPT !.at = "closeOld", !.goal = goal,
                             !.route = route, !.op = LatestMoveTo(goal),
                             !.final = Active(LatestMoveTo(goal))]]
       \/ /\ route.owner # goal
          /\ route.status = "active" \/ route.target = goal
          /\ movers' = [movers EXCEPT ![p] =
                [Rest EXCEPT !.at = "claim", !.goal = goal, !.route = route]]
    /\ UNCHANGED <<route, ops, admission, rows, capture, dirty, truth, fence,
                   aborter, aborts, faults>>

CloseOld(p) ==
    LET m   == movers[p]
        old == ops[m.op].source
    IN /\ m.at = "closeOld"
       /\ IF SameDatabase(old, m.goal)
          THEN Goto(p, "openNew") /\ UNCHANGED admission
          ELSE /\ Free(Physical[old])
               /\ IF MayTransition(Physical[old], m.route.epoch, {"closed"})
                  THEN /\ Transition(old, m.route.epoch, "closed")
                       /\ Goto(p, "openNew")
                  ELSE Stop(p) /\ UNCHANGED admission
       /\ UNCHANGED <<route, ops, rows, capture, dirty, truth, fence,
                      aborter, aborts, faults>>

OpenNew(p) ==
    LET m == movers[p]
    IN /\ m.at = "openNew"
       /\ Free(Physical[m.goal])
       /\ IF MayTransition(Physical[m.goal], m.route.epoch,
                           {"prepared", "closed", "open"})
          THEN /\ Transition(m.goal, m.route.epoch, "open")
               /\ IF m.final THEN Goto(p, "dropOld") ELSE Stop(p)
          ELSE Stop(p) /\ UNCHANGED admission
       /\ UNCHANGED <<route, ops, rows, capture, dirty, truth, fence,
                      aborter, aborts, faults>>

(* delete_move_capture; its dirty keys go with it.                         *)
WithoutCapture(d, o) ==
    /\ capture' = [capture EXCEPT ![d] = IF @ = o THEN 0 ELSE @]
    /\ dirty' = IF capture[d] = o THEN [dirty EXCEPT ![d] = NoKeys] ELSE dirty

DropOld(p) ==
    LET m == movers[p]
        d == Physical[ops[m.op].source]
    IN /\ m.at = "dropOld"
       /\ Free(d)
       /\ WithoutCapture(d, m.op)
       /\ Goto(p, "settleOld")
       /\ UNCHANGED <<route, ops, admission, rows, truth, fence, aborter,
                      aborts, faults>>

(* settle_completed_move_operation without a token.                        *)
SettleOld(p) ==
    LET m == movers[p]
    IN /\ m.at = "settleOld"
       /\ ops' = IF Active(m.op)
                 THEN [ops EXCEPT ![m.op].status = "completed",
                                  ![m.op].claim = "none"]
                 ELSE ops
       /\ Stop(p)
       /\ UNCHANGED <<route, admission, rows, capture, dirty, truth, fence,
                      aborter, aborts, faults>>

-----------------------------------------------------------------------------
(* claim_shard_move_operation: one active operation per shard, taken when  *)
(* it is unclaimed or its claim expired.                                   *)

ActiveMove == {o \in DOMAIN ops : Active(o)}
UnusedMove == {o \in DOMAIN ops : ops[o].status = "unused"}

Claim(p) ==
    LET m == movers[p]
        o == IF ActiveMove # {} THEN CHOOSE x \in ActiveMove : TRUE
             ELSE Min(UnusedMove)
        old == IF ActiveMove # {} THEN ops[o]
               ELSE [NoMove EXCEPT !.status = "active", !.target = m.goal,
                                   !.source = m.route.owner]
    IN /\ m.at = "claim"
       /\ ActiveMove \cup UnusedMove # {}                        \* bound
       /\ IF /\ old.source = m.route.owner
             /\ old.target = m.goal
             /\ old.claim # "held"
          THEN /\ old.gen < MaxClaims                            \* bound
               /\ ops' = [ops EXCEPT ![o] =
                     [old EXCEPT !.claim = "held", !.gen = @ + 1]]
               /\ movers' = [movers EXCEPT ![p].op = o,
                     ![p].gen = old.gen + 1, ![p].phase = old.phase,
                     ![p].reset = old.reset, ![p].at = "reconcile"]
          ELSE Stop(p) /\ UNCHANGED ops
       /\ UNCHANGED <<route, admission, rows, capture, dirty, truth, fence,
                      aborter, aborts, faults>>

-----------------------------------------------------------------------------
(* prepare_online_shard_move.                                              *)

(* reconcile_source_admission_with_fence: a drain that the route does not  *)
(* show yet is kept.                                                       *)
Reconcile(p) ==
    LET m     == movers[p]
        d     == Physical[m.route.owner]
        local == admission[d]
        kept  == /\ m.route.status = "copying"
                 /\ local.alias = m.route.owner
                 /\ local.epoch = m.route.epoch
                 /\ local.state = "draining"
        state == IF m.route.status = "draining" \/ kept THEN "draining"
                 ELSE "open"
        from  == IF state = "draining" THEN {"open", "draining"} ELSE {"open"}
    IN /\ m.at = "reconcile"
       /\ IF m.route.status = "moving"
          THEN Goto(p, "confirm") /\ UNCHANGED admission
          ELSE /\ Free(d)
               /\ IF MayTransition(d, m.route.epoch, from)
                  THEN /\ Transition(m.route.owner, m.route.epoch, state)
                       /\ Goto(p, "confirm")
                  ELSE GiveUp(p) /\ UNCHANGED admission
       /\ UNCHANGED <<route, ops, rows, capture, dirty, truth, fence, aborter,
                      aborts, faults>>

(* The authoritative route, read after the admission was reconciled.       *)
Confirm(p) ==
    LET m == movers[p]
    IN /\ m.at = "confirm"
       /\ IF m.route = route
          THEN Goto(p, IF SameDatabase(route.owner, m.goal) THEN "reserve"
                       ELSE "capture")
          ELSE movers' = [movers EXCEPT ![p].route = route,
                                        ![p].at = "restore"]
       /\ UNCHANGED <<route, ops, admission, rows, capture, dirty, truth,
                      fence, aborter, aborts, faults>>

(* The route changed: the source's admission is put back to what the route *)
(* said, and the move fails.                                               *)
Restore(p) ==
    LET m      == movers[p]
        source == ops[m.op].source
        state  == IF m.route.owner # source THEN "closed"
                  ELSE IF m.route.status = "draining" THEN "draining"
                  ELSE "open"
    IN /\ m.at = "restore"
       /\ Free(Physical[source])
       /\ IF MayTransition(Physical[source], m.route.epoch,
                           {"open", "draining", "closed"})
          THEN Transition(source, m.route.epoch, state)
          ELSE UNCHANGED admission
       /\ GiveUp(p)
       /\ UNCHANGED <<route, ops, rows, capture, dirty, truth, fence, aborter,
                      aborts, faults>>

(* mutant: the copy starts before the source captures what changes.        *)
EnableCaptureLate(p) ==
    LET m == movers[p]
        d == Physical[m.route.owner]
    IN /\ m.at = "capture"
       /\ Free(d)
       /\ Goto(p, IF m.route.status = "active" THEN "reserve" ELSE "install")
       /\ UNCHANGED <<route, ops, admission, rows, capture, dirty, truth,
                      fence, aborter, aborts, faults>>

(* enable_shard_move_capture.                                              *)
EnableCapture(p) ==
    LET m == movers[p]
        d == Physical[m.route.owner]
    IN /\ m.at = "capture"
       /\ Free(d)
       /\ IF capture[d] \in {0, m.op}
          THEN /\ capture' = [capture EXCEPT ![d] = m.op]
               /\ Goto(p, IF m.route.status = "active" THEN "reserve"
                          ELSE "install")
          ELSE GiveUp(p) /\ UNCHANGED capture
       /\ UNCHANGED <<route, ops, admission, rows, dirty, truth, fence,
                      aborter, aborts, faults>>

(* The compare-and-swap of every route update.                             *)
RouteIs(owner, version, status) == /\ route.owner = owner
                                   /\ route.version = version
                                   /\ route.status = status

(* reserve_active_move_target_and_mark_copying, for an active route; the   *)
(* same-database move then only marks itself ready.                        *)
Reserve(p) ==
    LET m    == movers[p]
        next == IF SameDatabase(m.route.owner, m.goal) THEN "caughtUp"
                ELSE "install"
    IN /\ m.at = "reserve"
       /\ IF m.route.status # "active"
          THEN Goto(p, next) /\ UNCHANGED route
          ELSE IF RouteIs(ops[m.op].source, m.route.version, "active")
          THEN /\ route' = [route EXCEPT !.status = "copying",
                                !.target = m.goal, !.version = @ + 1]
               /\ Goto(p, next)
          ELSE GiveUp(p) /\ UNCHANGED route
       /\ UNCHANGED <<ops, admission, rows, capture, dirty, truth, fence,
                      aborter, aborts, faults>>

(* install_target_move_write_fence.                                        *)
Install(p) ==
    LET m == movers[p]
    IN /\ m.at = "install"
       /\ Free(Physical[m.goal])
       /\ IF MayInstall(m.goal, m.route.epoch + 1, m.op, m.gen)
          THEN /\ admission' = [admission EXCEPT ![Physical[m.goal]] =
                     [alias |-> m.goal, epoch |-> m.route.epoch + 1,
                      state |-> "prepared", op |-> m.op, gen |-> m.gen]]
               /\ Goto(p, IF m.reset THEN "backfill" ELSE "reset")
          ELSE GiveUp(p) /\ UNCHANGED admission
       /\ UNCHANGED <<route, ops, rows, capture, dirty, truth, fence, aborter,
                      aborts, faults>>

(* reset_target_move_rows: the target may keep rows of an earlier stay.    *)
Reset(p) ==
    LET m == movers[p]
        d == Physical[m.goal]
    IN /\ m.at = "reset"
       /\ Free(d)
       /\ IF HoldsTarget(m)
          THEN /\ rows' = [rows EXCEPT ![d] = [k \in Key |-> "absent"]]
               /\ Goto(p, "markReset")
          ELSE GiveUp(p) /\ UNCHANGED rows
       /\ UNCHANGED <<route, ops, admission, capture, dirty, truth, fence,
                      aborter, aborts, faults>>

(* mark_move_target_reset.                                                 *)
MarkReset(p) ==
    LET m == movers[p]
    IN /\ m.at = "markReset"
       /\ IF Claimed(m) /\ ~ops[m.op].reset
          THEN /\ ops' = [ops EXCEPT ![m.op] =
                     [Renewed(m.op) EXCEPT !.reset = TRUE,
                                           !.phase = "backfill"]]
               /\ Goto(p, "backfill")
          ELSE GiveUp(p) /\ UNCHANGED ops
       /\ UNCHANGED <<route, admission, rows, capture, dirty, truth, fence,
                      aborter, aborts, faults>>

-----------------------------------------------------------------------------
(* backfill_shard_move: from the last checkpoint, page by page in the      *)
(* order of the keys.                                                      *)

(* The row of a page, or of a batch of the replay.                         *)
Selected(m) == CHOOSE k \in Key : m.keys[k] # 0

(* select_last_move_page, unless the operation was past its backfill when  *)
(* it was claimed.                                                         *)
Backfill(p) ==
    LET m == movers[p]
    IN /\ m.at = "backfill"
       /\ movers' = [movers EXCEPT
             ![p].cursor = ops[m.op].cursor,
             ![p].at = IF m.phase \in {"catch_up", "draining", "cutover"}
                       THEN "replay" ELSE "page"]
       /\ UNCHANGED <<route, ops, admission, rows, capture, dirty, truth,
                      fence, aborter, aborts, faults>>

(* select_move_source_page.                                                *)
ReadPage(p) ==
    LET m    == movers[p]
        left == {k \in Key : /\ k > m.cursor
                             /\ rows[Physical[m.route.owner]][k] # "absent"}
    IN /\ m.at = "page"
       /\ movers' = [movers EXCEPT ![p] =
             IF left = {} THEN [m EXCEPT !.at = "caughtUp"]
             ELSE [m EXCEPT !.keys = [NoKeys EXCEPT ![Min(left)] = 1],
                     !.page = rows[Physical[m.route.owner]][Min(left)],
                     !.at = "copy"]]
       /\ UNCHANGED <<route, ops, admission, rows, capture, dirty, truth,
                      fence, aborter, aborts, faults>>

(* upsert_json_rows.                                                       *)
UpsertRow(d, k, value) == rows' = [rows EXCEPT ![d][k] = value]

(* copy_and_checkpoint_move_page, under the target's shared fence.         *)
CopyPage(p) ==
    LET m == movers[p]
        d == Physical[m.goal]
    IN /\ m.at = "copy"
       /\ Free(d)
       /\ IF HoldsTarget(m)
          THEN /\ UpsertRow(d, Selected(m), m.page)
               /\ movers' = [movers EXCEPT ![p].at = "checkpoint",
                                           ![p].page = "absent"]
          ELSE GiveUp(p) /\ UNCHANGED rows
       /\ UNCHANGED <<route, ops, admission, capture, dirty, truth, fence,
                      aborter, aborts, faults>>

(* record_completed_move_page: the next page of the claimed move, or the   *)
(* page recorded last.                                                     *)
Checkpoint(p) ==
    LET m == movers[p]
    IN /\ m.at = "checkpoint"
       /\ IF Claimed(m) /\ ops[m.op].cursor \in {m.cursor, Selected(m)}
          THEN /\ ops' = [ops EXCEPT ![m.op] =
                     [Renewed(m.op) EXCEPT !.phase = "backfill",
                                           !.cursor = Selected(m)]]
               /\ movers' = [movers EXCEPT ![p].at = "page",
                     ![p].cursor = Selected(m), ![p].keys = NoKeys]
          ELSE GiveUp(p) /\ UNCHANGED ops
       /\ UNCHANGED <<route, admission, rows, capture, dirty, truth, fence,
                      aborter, aborts, faults>>

(* update_claimed_move_phase or mark_same_database_move_ready.             *)
CaughtUp(p) ==
    LET m == movers[p]
    IN /\ m.at = "caughtUp"
       /\ IF Claimed(m)
          THEN /\ ops' = [ops EXCEPT ![m.op] =
                     [Renewed(m.op) EXCEPT !.phase = "catch_up",
                                           !.reset = TRUE]]
               /\ Goto(p, IF SameDatabase(m.route.owner, m.goal)
                          THEN "renew" ELSE "replay")
          ELSE GiveUp(p) /\ UNCHANGED ops
       /\ UNCHANGED <<route, admission, rows, capture, dirty, truth, fence,
                      aborter, aborts, faults>>

-----------------------------------------------------------------------------
(* replay_dirty_shard_keys: a batch selects dirty keys, reads their        *)
(* current rows, writes them to the target and drops the entries whose     *)
(* change_version is still the selected one.  Online, the batches are      *)
(* bounded and may leave a few keys; in the cutover nothing may be left.   *)

Source(m) == Physical[ops[m.op].source]
Left(m)   == {k \in Key : /\ capture[Source(m)] = m.op
                          /\ dirty[Source(m)][k] # 0}

Fail(p) == IF movers[p].final THEN Stop(p) ELSE GiveUp(p)
Unfence(p) == IF movers[p].final
              THEN fence' = [fence EXCEPT ![Source(movers[p])] = Nobody]
              ELSE UNCHANGED fence

Replay(p) ==
    LET m == movers[p]
    IN /\ m.at = "replay"
       /\ \/ /\ Left(m) # {}
             /\ m.final \/ m.batches < OnlineBatches
             /\ \E k \in Left(m) :
                   movers' = [movers EXCEPT ![p].at = "current",
                      ![p].keys = [NoKeys EXCEPT ![k] = dirty[Source(m)][k]],
                      ![p].batches = IF m.final THEN 0 ELSE @ + 1]
          \/ /\ Left(m) = {} \/ (~m.final /\ m.batches = OnlineBatches)
             /\ IF m.final THEN Goto(p, "close")
                ELSE IF Cardinality(Left(m)) > FinalKeyLimit THEN GiveUp(p)
                ELSE Goto(p, "renew")
       /\ UNCHANGED <<route, ops, admission, rows, capture, dirty, truth,
                      fence, aborter, aborts, faults>>

(* select_current_rows_for_dirty_keys.                                     *)
ReadCurrent(p) ==
    LET m == movers[p]
    IN /\ m.at = "current"
       /\ movers' = [movers EXCEPT ![p].at = "upsert",
                        ![p].page = rows[Source(m)][Selected(m)]]
       /\ UNCHANGED <<route, ops, admission, rows, capture, dirty, truth,
                      fence, aborter, aborts, faults>>

Upsert(p) ==
    LET m == movers[p]
        d == Physical[m.goal]
    IN /\ m.at = "upsert"
       /\ Free(d)
       /\ IF HoldsTarget(m)
          THEN /\ UpsertRow(d, Selected(m), m.page)
               /\ movers' = [movers EXCEPT ![p].at = "settleKeys",
                                           ![p].page = "absent"]
               /\ UNCHANGED fence
          ELSE Fail(p) /\ Unfence(p) /\ UNCHANGED rows
       /\ UNCHANGED <<route, ops, admission, capture, dirty, truth, aborter,
                      aborts, faults>>

(* mutant: an entry changed again since it was read is dropped too.        *)
ReplayedAnyVersion(m) == capture[Source(m)] = m.op

(* settle_replayed_dirty_keys.                                             *)
Replayed(m) == capture[Source(m)] = m.op
               /\ dirty[Source(m)][Selected(m)] = m.keys[Selected(m)]

SettleKeys(p) ==
    LET m == movers[p]
    IN /\ m.at = "settleKeys"
       /\ dirty' = IF Replayed(m)
                   THEN [dirty EXCEPT ![Source(m)][Selected(m)] = 0]
                   ELSE dirty
       /\ movers' = [movers EXCEPT ![p].at = "replay", ![p].keys = NoKeys]
       /\ UNCHANGED <<route, ops, admission, rows, capture, truth, fence,
                      aborter, aborts, faults>>

-----------------------------------------------------------------------------
(* The end of prepare_online_shard_move: the source drains.                *)

(* renew_shard_move_claim.                                                 *)
Renew(p) ==
    LET m == movers[p]
    IN /\ m.at = "renew"
       /\ IF Claimed(m)
          THEN ops' = [ops EXCEPT ![m.op] = Renewed(m.op)] /\ Goto(p, "reread")
          ELSE GiveUp(p) /\ UNCHANGED ops
       /\ UNCHANGED <<route, admission, rows, capture, dirty, truth, fence,
                      aborter, aborts, faults>>

Reread(p) ==
    LET m == movers[p]
    IN /\ m.at = "reread"
       /\ movers' = [movers EXCEPT ![p].route = route,
             ![p].cursor = 0, ![p].batches = 0, ![p].reset = FALSE,
             ![p].phase = "reserved",
             ![p].at = IF route.status = "copying" THEN "drain"
                       ELSE "phaseDraining"]
       /\ UNCHANGED <<route, ops, admission, rows, capture, dirty, truth,
                      fence, aborter, aborts, faults>>

Drain(p) ==
    LET m      == movers[p]
        source == ops[m.op].source
    IN /\ m.at = "drain"
       /\ Free(Physical[source])
       /\ IF MayTransition(Physical[source], m.route.epoch,
                           {"open", "draining"})
          THEN /\ Transition(source, m.route.epoch, "draining")
               /\ Goto(p, "markDraining")
          ELSE GiveUp(p) /\ UNCHANGED admission
       /\ UNCHANGED <<route, ops, rows, capture, dirty, truth, fence, aborter,
                      aborts, faults>>

(* mark_shard_placement_draining.                                          *)
MarkDraining(p) ==
    LET m == movers[p]
    IN /\ m.at = "markDraining"
       /\ IF /\ RouteIs(ops[m.op].source, m.route.version, "copying")
             /\ route.target = m.goal
          THEN /\ route' = [route EXCEPT !.status = "draining",
                                         !.version = @ + 1]
               /\ movers' = [movers EXCEPT ![p].route = route',
                                           ![p].at = "phaseDraining"]
          ELSE GiveUp(p) /\ UNCHANGED route
       /\ UNCHANGED <<ops, admission, rows, capture, dirty, truth, fence,
                      aborter, aborts, faults>>

PhaseDraining(p) ==
    LET m == movers[p]
    IN /\ m.at = "phaseDraining"
       /\ IF Claimed(m)
          THEN /\ ops' = [ops EXCEPT ![m.op] =
                     [Renewed(m.op) EXCEPT !.phase = "draining"]]
               /\ Goto(p, "count")
          ELSE GiveUp(p) /\ UNCHANGED ops
       /\ UNCHANGED <<route, admission, rows, capture, dirty, truth, fence,
                      aborter, aborts, faults>>

-----------------------------------------------------------------------------
(* The cutover of move_shard_placement.                                    *)

CountWork(p) ==
    LET m == movers[p]
    IN /\ m.at = "count"
       /\ IF ActiveWork(Source(m)) THEN GiveUp(p) ELSE Goto(p, "fence")
       /\ UNCHANGED <<route, ops, admission, rows, capture, dirty, truth,
                      fence, aborter, aborts, faults>>

(* The exclusive source fence is held from here to the commit.  A route    *)
(* that changed meanwhile, that another mover handed over or that leads    *)
(* elsewhere ends the command, which keeps its claim.                      *)
TakeFence(p) ==
    LET m == movers[p]
        d == Source(m)
    IN /\ m.at = "fence"
       /\ Free(d)
       /\ IF \/ route # m.route
             \/ route.status = "active" /\ route.owner = m.goal
             \/ route.status # "active" /\ route.target # m.goal
          THEN Stop(p) /\ UNCHANGED fence
          ELSE IF ActiveWork(d) THEN GiveUp(p) /\ UNCHANGED fence
          ELSE /\ fence' = [fence EXCEPT ![d] = p]
               /\ movers' = [movers EXCEPT ![p].at = "freeze",
                                           ![p].final = TRUE]
       /\ UNCHANGED <<route, ops, admission, rows, capture, dirty, truth,
                      aborter, aborts, faults>>

(* mark_shard_placement_moving, which the source's transaction contains    *)
(* when the source is the control database: nobody else sees it then.      *)
Frozen(r) == [r EXCEPT !.status = "moving", !.version = @ + 1]

Freeze(p) ==
    LET m == movers[p]
    IN /\ m.at = "freeze"
       /\ IF m.route.status # "draining"
          THEN Goto(p, "phaseCutover") /\ UNCHANGED <<route, fence>>
          ELSE IF /\ RouteIs(m.route.owner, m.route.version, "draining")
                  /\ route.target = m.goal
          THEN /\ movers' = [movers EXCEPT ![p].route = Frozen(m.route),
                                           ![p].at = "phaseCutover"]
               /\ route' = IF m.route.owner = Control THEN route
                           ELSE Frozen(route)
               /\ UNCHANGED fence
          ELSE Stop(p) /\ Unfence(p) /\ UNCHANGED route
       /\ UNCHANGED <<ops, admission, rows, capture, dirty, truth, aborter,
                      aborts, faults>>

PhaseCutover(p) ==
    LET m == movers[p]
    IN /\ m.at = "phaseCutover"
       /\ IF Claimed(m)
          THEN /\ ops' = [ops EXCEPT ![m.op] =
                     [Renewed(m.op) EXCEPT !.phase = "cutover"]]
               /\ Goto(p, IF SameDatabase(ops[m.op].source, m.goal)
                          THEN "close" ELSE "replay")
               /\ UNCHANGED fence
          ELSE Stop(p) /\ Unfence(p) /\ UNCHANGED ops
       /\ UNCHANGED <<route, admission, rows, capture, dirty, truth, aborter,
                      aborts, faults>>

(* activate_moved_shard_placement.                                         *)
Activated(r, goal) == [owner |-> goal, status |-> "active", target |-> Nobody,
                       version |-> r.version + 1, epoch |-> r.epoch + 1]

(* The source closes at the next epoch and its capture goes.  On the       *)
(* control database the route is handed over by the same commit.  The      *)
(* alias is the one of the route as it was read last, the database the one *)
(* of the claimed move: they agree, because one move is active at a time   *)
(* (proved in ShardMoveProofs).                                            *)
Close(p) ==
    LET m       == movers[p]
        d       == Source(m)
        inside  == m.route.owner = Control
        handsOver == /\ m.route.status = "moving"
                     /\ m.route.target = m.goal
                     /\ route.owner = m.route.owner
                     /\ route.version \in {m.route.version - 1,
                                           m.route.version}
    IN /\ m.at = "close"
       /\ fence' = [fence EXCEPT ![d] = Nobody]
       /\ IF /\ MayTransition(d, m.route.epoch + 1, {"closed"})
             /\ inside => handsOver
          THEN /\ admission' = [admission EXCEPT ![d] =
                     [alias |-> m.route.owner, epoch |-> m.route.epoch + 1,
                      state |-> "closed", op |-> 0, gen |-> 0]]
               /\ WithoutCapture(d, m.op)
               /\ route' = IF inside THEN Activated(m.route, m.goal) ELSE route
               /\ Goto(p, IF inside THEN "open" ELSE "activate")
          ELSE /\ Stop(p)
               /\ UNCHANGED <<route, admission, capture, dirty>>
       /\ UNCHANGED <<ops, rows, truth, aborter, aborts, faults>>

Activate(p) ==
    LET m == movers[p]
    IN /\ m.at = "activate"
       /\ IF /\ RouteIs(m.route.owner, m.route.version, "moving")
             /\ route.target = m.goal
          THEN /\ route' = Activated(route, m.goal)
               /\ Goto(p, "open")
          ELSE Stop(p) /\ UNCHANGED route
       /\ UNCHANGED <<ops, admission, rows, capture, dirty, truth, fence,
                      aborter, aborts, faults>>

Open(p) ==
    LET m == movers[p]
        d == Physical[m.goal]
    IN /\ m.at = "open"
       /\ Free(d)
       /\ IF MayTransition(d, m.route.epoch + 1,
                           {"prepared", "closed", "open"})
          THEN /\ Transition(m.goal, m.route.epoch + 1, "open")
               /\ Goto(p, "settle")
          ELSE Stop(p) /\ UNCHANGED admission
       /\ UNCHANGED <<route, ops, rows, capture, dirty, truth, fence, aborter,
                      aborts, faults>>

(* settle_completed_move_operation with the claim's token.                 *)
Settle(p) ==
    LET m == movers[p]
    IN /\ m.at = "settle"
       /\ ops' = IF Claimed(m)
                 THEN [ops EXCEPT ![m.op].status = "completed",
                                  ![m.op].claim = "none"]
                 ELSE ops
       /\ Stop(p)
       /\ UNCHANGED <<route, admission, rows, capture, dirty, truth, fence,
                      aborter, aborts, faults>>

-----------------------------------------------------------------------------
(* abort_shard_move.                                                       *)

PreparedMove(source, target) ==
    {o \in ActiveMove : ops[o].source = source /\ ops[o].target = target}

StartAbort(source, target) ==
    /\ aborter.at = "idle"
    /\ aborts < MaxAborts                                        \* bound
    /\ source # target
    /\ route.status = "active" => PreparedMove(source, target) # {}
    /\ aborts' = aborts + 1
    /\ aborter' = [at |-> "fence", route |-> route, source |-> source,
                   target |-> target, epoch |-> 0,
                   op |-> IF PreparedMove(source, target) = {} THEN 0
                          ELSE CHOOSE o \in PreparedMove(source, target) : TRUE,
                   prepared |-> route.status = "active"]
    /\ UNCHANGED <<route, ops, admission, rows, capture, dirty, truth, fence,
                   movers, faults>>

(* fence_active_shard_placement or abort_shard_placement_move.             *)
Aborted(r) == [r EXCEPT !.status = "active", !.target = Nobody,
                        !.version = @ + 1,
                        !.epoch = IF r.status \in {"draining", "moving"}
                                  THEN @ + 1 ELSE @]

MayAbort(a) == /\ route = a.route
               /\ route.owner = a.source
               /\ route.status # "active" => route.target = a.target

Reopens(a, r) == MayTransition(Physical[a.source], r.epoch,
                     IF a.prepared THEN {"open"}
                     ELSE {"open", "draining", "closed"})

(* Under the source's exclusive fence: the route goes back, then the       *)
(* source reopens and its capture goes.  One commit on the control         *)
(* database, two elsewhere.                                                *)
AbortRoute ==
    LET d == Physical[aborter.source]
    IN /\ aborter.at = "fence"
       /\ Free(d)
       /\ IF MayAbort(aborter)
          THEN /\ \/ /\ aborter.source # Control
                     /\ route' = Aborted(route)
                     /\ fence' = [fence EXCEPT ![d] = Aborter]
                     /\ aborter' = [aborter EXCEPT !.at = "reopen"]
                     /\ UNCHANGED <<admission, capture, dirty>>
                  \/ /\ aborter.source = Control
                     /\ IF Reopens(aborter, Aborted(route))
                        THEN /\ route' = Aborted(route)
                             /\ Transition(Control, route'.epoch, "open")
                             /\ IF aborter.op = 0
                                THEN UNCHANGED <<capture, dirty>>
                                ELSE WithoutCapture(d, aborter.op)
                             /\ aborter' = [aborter EXCEPT
                                   !.at = "closeTarget",
                                   !.epoch = aborter.route.epoch + 1]
                        ELSE /\ aborter' = Done
                             /\ UNCHANGED <<route, admission, capture, dirty>>
                     /\ UNCHANGED fence
          ELSE /\ aborter' = Done
               /\ UNCHANGED <<route, admission, capture, dirty, fence>>
       /\ UNCHANGED <<ops, rows, truth, movers, aborts, faults>>

Reopen ==
    LET d == Physical[aborter.source]
        r == Aborted(aborter.route)
    IN /\ aborter.at = "reopen"
       /\ fence' = [fence EXCEPT ![d] = Nobody]
       /\ IF Reopens(aborter, r)
          THEN /\ Transition(aborter.source, r.epoch, "open")
               /\ IF aborter.op = 0 THEN UNCHANGED <<capture, dirty>>
                  ELSE WithoutCapture(d, aborter.op)
               /\ aborter' = [aborter EXCEPT !.at = "closeTarget",
                                !.epoch = aborter.route.epoch + 1]
          ELSE aborter' = Done /\ UNCHANGED <<admission, capture, dirty>>
       /\ UNCHANGED <<route, ops, rows, truth, movers, aborts, faults>>

CloseTarget ==
    LET d == Physical[aborter.target]
    IN /\ aborter.at = "closeTarget"
       /\ IF SameDatabase(aborter.source, aborter.target)
          THEN /\ aborter' = [aborter EXCEPT !.at = "settle"]
               /\ UNCHANGED admission
          ELSE /\ Free(d)
               /\ IF MayTransition(d, aborter.epoch, {"prepared", "closed"})
                  THEN /\ Transition(aborter.target, aborter.epoch, "closed")
                       /\ aborter' = [aborter EXCEPT !.at = "settle"]
                  ELSE aborter' = Done /\ UNCHANGED admission
       /\ UNCHANGED <<route, ops, rows, capture, dirty, truth, fence, movers,
                      aborts, faults>>

(* settle_aborted_move_operation.                                          *)
SettleAborted ==
    LET o == aborter.op
    IN /\ aborter.at = "settle"
       /\ ops' = IF o # 0 /\ Active(o)
                 THEN [ops EXCEPT ![o].status = "aborted", ![o].claim = "none"]
                 ELSE ops
       /\ aborter' = Done
       /\ UNCHANGED <<route, admission, rows, capture, dirty, truth, fence,
                      movers, aborts, faults>>

-----------------------------------------------------------------------------
(* A process stops; its open transaction rolls back.                       *)
Crash(p) ==
    /\ faults < MaxFaults                                        \* bound
    /\ faults' = faults + 1
    /\ \/ p \in Mover /\ movers[p].at # "idle" /\ Stop(p) /\ UNCHANGED aborter
       \/ p = Aborter /\ aborter.at # "idle" /\ aborter' = Done
          /\ UNCHANGED movers
    /\ fence' = [d \in Database |-> IF fence[d] = p THEN Nobody ELSE fence[d]]
    /\ UNCHANGED <<route, ops, admission, rows, capture, dirty, truth, aborts>>

MoverStep(p) ==
    \/ Claim(p) \/ Reconcile(p) \/ Confirm(p) \/ Restore(p)
    \/ EnableCapture(p) \/ Reserve(p) \/ Install(p) \/ Reset(p)
    \/ MarkReset(p) \/ Backfill(p) \/ ReadPage(p) \/ CopyPage(p)
    \/ Checkpoint(p) \/ CaughtUp(p) \/ Replay(p) \/ ReadCurrent(p)
    \/ Upsert(p) \/ SettleKeys(p) \/ Renew(p) \/ Reread(p) \/ Drain(p)
    \/ MarkDraining(p) \/ PhaseDraining(p) \/ CountWork(p) \/ TakeFence(p)
    \/ Freeze(p) \/ PhaseCutover(p) \/ Close(p) \/ Activate(p) \/ Open(p)
    \/ Settle(p) \/ Release(p) \/ CloseOld(p) \/ OpenNew(p) \/ DropOld(p)
    \/ SettleOld(p)

Next ==
    \/ \E d \in Database, k \in Key : NewWork(d, k) \/ SettleWork(d, k)
    \/ \E p \in Mover, goal \in Alias : Start(p, goal)
    \/ \E p \in Mover : MoverStep(p)
    \/ \E o \in 1 .. MaxMoves : ClaimExpires(o)
    \/ \E s, t \in Alias : StartAbort(s, t)
    \/ AbortRoute \/ Reopen \/ CloseTarget \/ SettleAborted
    \/ \E p \in Mover \cup {Aborter} : Crash(p)

Spec == Init /\ [][Next]_moveVars

-----------------------------------------------------------------------------
(* Every table and every command holds what its columns and steps allow.   *)
TypeOK ==
    /\ route \in Route
    /\ ops \in [1 .. MaxMoves -> Operation]
    /\ admission \in [Database -> Admission]
    /\ rows \in [Database -> [Key -> Item]]
    /\ capture \in [Database -> 0 .. MaxMoves]
    /\ dirty \in [Database -> [Key -> 0 .. 3]]
    /\ truth \in [Key -> Item]
    /\ fence \in [Database -> Mover \cup {Aborter, Nobody}]
    /\ \A p \in Mover : movers[p].at \in Steps
    /\ aborter.at \in {"idle", "fence", "reopen", "closeTarget", "settle"}
    /\ aborts \in 0 .. MaxAborts
    /\ faults \in 0 .. MaxFaults

Admits(d) == admission[d].state \in {"open", "draining"}

(* Whatever movers, aborts and crashes leave behind, only the database of  *)
(* the route's owner takes new work for the shard: a source closes before  *)
(* the route is handed over, and no snapshot of an older route reopens it  *)
(* (the epochs of transition_local_shard_admission).                       *)
OneOpenOwner ==
    \A d \in Database : admission[d].state = "open" => d = Physical[route.owner]

(* The database that admits writes holds every write that was ever         *)
(* admitted: backfill and replay together bring each of them over before   *)
(* the target opens, although the source changes under the copy.           *)
NothingLost == \A d \in Database : Admits(d) => rows[d] = truth

Idle == aborter = Done /\ \A p \in Mover : movers[p] = Rest

(* An operator who aborts a move whose mover is dead, and starts no other  *)
(* mover until the abort has ended, takes no step but these.  Nothing in   *)
(* the code enforces it.                                                   *)
QuietAborts == aborter'.at # "idle" => \A p \in Mover : movers'[p] = Rest

(* What even such an abort leaves behind.  It closes the target at the     *)
(* epoch after its route's, and raises the route's epoch only when the     *)
(* route was draining or frozen; and away from the control database the    *)
(* route is active again one commit before the source is reopened: an      *)
(* abort that stops between the two leaves the source draining or closed,  *)
(* and the move unsettled.                                                 *)
LeftByAbort(d) ==
    /\ aborts > 0
    /\ \/ /\ d # Physical[route.owner]
          /\ admission[d].state = "closed"
          /\ admission[d].epoch = route.epoch + 1
       \/ /\ d = Physical[route.owner] /\ route.owner # Control
          /\ admission[d].state \in {"draining", "closed"}
          /\ admission[d].epoch = route.epoch
          /\ ActiveMove # {}

Accepts(a, op, gen) ==
    LET d == Physical[route.owner]
    IN /\ \/ CASE route.status = "moving" ->
                    MayTransition(d, route.epoch + 1, {"closed"})
               [] route.status = "draining" ->
                    MayTransition(d, route.epoch, {"open", "draining"})
               [] OTHER -> \/ MayTransition(d, route.epoch, {"open"})
                           \/ /\ route.status = "copying"
                              /\ admission[d].state = "draining"
          \/ LeftByAbort(d)
       /\ \/ SameDatabase(route.owner, a)
          \/ MayInstall(a, route.epoch + 1, op, gen)
          \/ LeftByAbort(Physical[a])

(* When no command runs, a move can be started or taken up again: the      *)
(* source's admission can be reconciled, the target's fence installed, and *)
(* a route that was handed over already finished ("make retries            *)
(* resumable", move_shard_placement).  Without aborts nothing refuses it;  *)
(* with quiet ones only what LeftByAbort names does: the target of an      *)
(* aborted prepared or copying move accepts no later move at that epoch.   *)
(* With a mover running through the abort it does not hold.                *)
RetryIsResumable ==
    Idle =>
        /\ \A o \in ActiveMove :
              IF route.owner = ops[o].target
              THEN /\ \/ SameDatabase(ops[o].source, route.owner)
                      \/ MayTransition(Physical[ops[o].source], route.epoch,
                                       {"closed"})
                   /\ MayTransition(Physical[route.owner], route.epoch,
                                    {"prepared", "closed", "open"})
              ELSE Accepts(ops[o].target, o, ops[o].gen + 1)
        /\ ActiveMove = {} =>
              \A a \in Alias \ {route.owner} : Accepts(a, MaxMoves + 1, 1)

(* The owner of an active route takes new work, or will once its local     *)
(* admission follows the route: no admission of the same or a later epoch  *)
(* fences it out, except for a moment the one of its other name and what   *)
(* an abort that stopped leaves.  It holds without aborts and with quiet   *)
(* ones.  abort_shard_move says more (an abort "cannot race a copy or      *)
(* route activation, and stale movers cannot restart"), which the code     *)
(* does not keep: a mover that read the copying route before the abort     *)
(* still freezes and closes its source at the next epoch, its activation   *)
(* then fails, and the active route's owner stays closed.                  *)
ActiveRouteReopens ==
    LET d == Physical[route.owner]
    IN route.status = "active" =>
           \/ admission[d].epoch < route.epoch
           \/ /\ admission[d].epoch = route.epoch
              /\ \/ admission[d].state \notin {"draining", "closed"}
                 \/ admission[d].alias # route.owner
           \/ LeftByAbort(d)
=============================================================================
