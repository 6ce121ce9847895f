------------------------------ MODULE Topology ------------------------------
(***************************************************************************)
(* The catalog of database placements and the ownership of run shards:     *)
(* registering, activating, draining and disabling a database, assigning   *)
(* an empty shard, moving a shard, and rebalancing.                        *)
(*                                                                         *)
(* The lifecycle of a database and the ownership of shards meet in the     *)
(* control database only: whoever gives a shard to a database holds its    *)
(* row FOR SHARE, whoever drains or disables it holds the row FOR UPDATE   *)
(* and then counts what refers to it.  Everything else is checked before   *)
(* and may be stale by then.  A move appears here by its route updates     *)
(* (ShardMove has its copy); a rebalance applies a plan of moves with      *)
(* leased items.                                                           *)
(***************************************************************************)
EXTENDS Integers, Sequences, FiniteSets, FiniteSetsExt, SequencesExt

CONSTANTS
    Alias,       \* aliases of database placements
    Rank,        \* the order of the aliases
    Control,     \* the control database, which may own shards too
    Shards,      \* how many run shards there are
    Admin,       \* processes that activate a database or assign a shard
    Worker,      \* processes that apply the rebalance
    Nobody,      \* no alias
    MaxItems,    \* --max-items of the plan
    MaxVersion,  \* bound: route versions
    MaxClaims,   \* bound: claims of one item
    MaxFaults    \* bound: crashes of admins

VARIABLES
    dbs,      \* database_placements: the status of every alias
    routes,   \* shard_placements
    local,    \* local_shard_admissions of every database
    rows,     \* the shards that own rows
    outbox,   \* the databases with undelivered outbox events
    op,       \* shard_rebalance_operations: the one operation
    items,    \* shard_rebalance_items, by sequence_no
    admins,   \* the activations and assignments that run
    workers,  \* the apply commands that run
    faults    \* crashes so far

topologyVars == <<dbs, routes, local, rows, outbox, op, items, admins,
                  workers, faults>>

-----------------------------------------------------------------------------
Shard == 1 .. Shards

Route == [owner: Alias,
          status: {"active", "copying", "draining", "moving"},
          target: Alias \cup {Nobody}, version: 1 .. MaxVersion,
          epoch: 1 .. MaxVersion]

Local == [epoch: 0 .. MaxVersion + 1, open: BOOLEAN]

Item == [shard: Shard, source: Alias, target: Alias, version: 1 .. MaxVersion,
         status: {"pending", "running", "completed", "failed", "cancelled"},
         expired: BOOLEAN, claims: 0 .. MaxClaims]

Terminal == {"completed", "failed", "cancelled"}

Idle == [at |-> "idle", alias |-> Nobody, shard |-> 0, route |-> <<>>]
Rest == [at |-> "idle", item |-> 0, token |-> 0]

(* The migrations register the control database as an active placement.    *)
Init ==
    /\ dbs = [a \in Alias |-> IF a = Control THEN "active" ELSE "none"]
    /\ routes = [s \in Shard |-> [owner |-> Control, status |-> "active",
                     target |-> Nobody, version |-> 1, epoch |-> 1]]
    /\ local = [s \in Shard |-> [a \in Alias |->
                    [epoch |-> IF a = Control THEN 1 ELSE 0,
                     open |-> a = Control]]]
    /\ rows = {}
    /\ outbox = {}
    /\ op = "none"
    /\ items = <<>>
    /\ admins = [p \in Admin |-> Idle]
    /\ workers = [w \in Worker |-> Rest]
    /\ faults = 0

-----------------------------------------------------------------------------
(* DatabasePlacement: accepts_new_shards, can_serve_owned_shards.          *)
AcceptsNew(a) == dbs[a] = "active"
Serves(a)     == dbs[a] \in {"active", "draining"}

Routed(a)        == \E s \in Shard : routes[s].owner = a
InflightTarget(a) == \E s \in Shard : routes[s].target = a

(* The rebalance items that keep a database from being disabled.           *)
Unfinished(a) == /\ op \in {"planned", "running"}
                 /\ \E i \in DOMAIN items :
                       /\ items[i].status \in {"pending", "running"}
                       /\ a \in {items[i].source, items[i].target}

(* select_database_placement_references.  Runs under creation, which count *)
(* too, are not part of this module: they only make an activation and a    *)
(* disabling refuse more often.                                            *)
Referenced(a) == Routed(a) \/ Unfinished(a)

(* add_shard_database_placement.                                           *)
Register(a) ==
    /\ dbs[a] = "none"
    /\ dbs' = [dbs EXCEPT ![a] = "provisioning"]
    /\ UNCHANGED <<routes, local, rows, outbox, op, items, admins, workers,
                   faults>>

(* activate_database_placement: the placement is read, the target probed   *)
(* without a lock, and the lifecycle and the references checked again      *)
(* under the lock.                                                         *)
BeginActivate(p, a) ==
    /\ admins[p] = Idle
    /\ dbs[a] = "provisioning"
    /\ admins' = [admins EXCEPT ![p] = [Idle EXCEPT !.at = "probe",
                                                    !.alias = a]]
    /\ UNCHANGED <<dbs, routes, local, rows, outbox, op, items, workers,
                   faults>>

(* verify_database_placement_readiness: no shard was ever admitted there.  *)
Ready(a) == \A s \in Shard : local[s][a].epoch = 0

Probe(p) ==
    /\ admins[p].at = "probe"
    /\ admins' = [admins EXCEPT ![p] =
          IF Ready(admins[p].alias) THEN [@ EXCEPT !.at = "activate"] ELSE Idle]
    /\ UNCHANGED <<dbs, routes, local, rows, outbox, op, items, workers,
                   faults>>

Activate(p) ==
    LET a == admins[p].alias
    IN /\ admins[p].at = "activate"
       /\ dbs' = IF dbs[a] = "provisioning" /\ ~Referenced(a)
                 THEN [dbs EXCEPT ![a] = "active"] ELSE dbs
       /\ admins' = [admins EXCEPT ![p] = Idle]
       /\ UNCHANGED <<routes, local, rows, outbox, op, items, workers, faults>>

(* mutant: a drain that overlooks the moves toward the database.           *)
MayDrainTarget(a) == a # Control /\ dbs[a] = "active"

(* drain_database_placement.                                               *)
MayDrain(a) == a # Control /\ dbs[a] = "active" /\ ~InflightTarget(a)

Drain(a) ==
    /\ MayDrain(a)
    /\ dbs' = [dbs EXCEPT ![a] = "draining"]
    /\ UNCHANGED <<routes, local, rows, outbox, op, items, admins, workers,
                   faults>>

(* mutant: the outbox of the database is not asked.                        *)
MayDisableUndelivered(a) ==
    /\ a # Control
    /\ dbs[a] = "draining"
    /\ ~InflightTarget(a)
    /\ ~Referenced(a)

(* disable_database_placement.                                             *)
MayDisable(a) ==
    /\ a # Control
    /\ dbs[a] = "draining"
    /\ ~InflightTarget(a)
    /\ ~Referenced(a)
    /\ a \notin outbox

Disable(a) ==
    /\ MayDisable(a)
    /\ dbs' = [dbs EXCEPT ![a] = "disabled"]
    /\ UNCHANGED <<routes, local, rows, outbox, op, items, admins, workers,
                   faults>>

-----------------------------------------------------------------------------
(* Work on an owned shard writes rows and outbox events where the local    *)
(* admission is open at the epoch of the route; the first work of a shard  *)
(* opens it.  The publisher serves every database that serves shards.      *)
Write(s) ==
    LET r == routes[s]
    IN /\ r.status \in {"active", "copying"}
       /\ Serves(r.owner)
       /\ \/ local[s][r.owner].epoch = 0
          \/ local[s][r.owner] = [epoch |-> r.epoch, open |-> TRUE]
       /\ local' = [local EXCEPT ![s][r.owner] = [epoch |-> r.epoch,
                                                  open |-> TRUE]]
       /\ rows' = rows \cup {s}
       /\ outbox' = outbox \cup {r.owner}
       /\ UNCHANGED <<dbs, routes, op, items, admins, workers, faults>>

Publish(a) ==
    /\ a \in outbox
    /\ Serves(a)
    /\ outbox' = outbox \ {a}
    /\ UNCHANGED <<dbs, routes, local, rows, op, items, admins, workers,
                   faults>>

-----------------------------------------------------------------------------
(* transition_local_shard_admission toward closed, and toward open.        *)
MayClose(s, a, epoch) == \/ local[s][a].epoch < epoch
                         \/ local[s][a] = [epoch |-> epoch, open |-> FALSE]
Closing(s, a, epoch) == [local EXCEPT ![s][a] = [epoch |-> epoch,
                                                 open |-> FALSE]]
Opening(s, a, epoch) == [local EXCEPT ![s][a] =
    IF @.epoch <= epoch THEN [epoch |-> epoch, open |-> TRUE] ELSE @]

(* set_shard_placement for a shard that owns no rows.  (One that has no    *)
(* route yet gets one at a database that accepts shards, in one commit;    *)
(* here every shard has its route from the start.)                         *)
BeginAssign(p, s, a) ==
    /\ admins[p] = Idle
    /\ routes[s].status = "active"
    /\ routes[s].owner # a
    /\ AcceptsNew(a)
    /\ admins' = [admins EXCEPT ![p] = [at |-> "assign", alias |-> a,
                                        shard |-> s, route |-> routes[s]]]
    /\ UNCHANGED <<dbs, routes, local, rows, outbox, op, items, workers,
                   faults>>

Assigned(r, a) == [r EXCEPT !.owner = a, !.version = @ + 1, !.epoch = @ + 1]

(* change_empty_shard_placement under the source's write fence: the source *)
(* closes first, in a commit of its own unless it is the control database. *)
CloseEmpty(p) ==
    LET m     == admins[p]
        r     == m.route
        valid == /\ routes[m.shard] = r
                 /\ m.shard \notin rows
                 /\ MayClose(m.shard, r.owner, r.epoch + 1)
    IN /\ m.at = "assign"
       /\ \/ /\ valid
             /\ r.owner # Control
             /\ local' = Closing(m.shard, r.owner, r.epoch + 1)
             /\ admins' = [admins EXCEPT ![p].at = "change"]
             /\ UNCHANGED routes
          \/ /\ valid
             /\ r.owner = Control
             /\ AcceptsNew(m.alias)
             /\ r.version < MaxVersion                           \* bound
             /\ local' = Closing(m.shard, r.owner, r.epoch + 1)
             /\ routes' = [routes EXCEPT ![m.shard] = Assigned(r, m.alias)]
             /\ admins' = [admins EXCEPT ![p].at = "open"]
          \/ /\ ~valid \/ (r.owner = Control /\ ~AcceptsNew(m.alias))
             /\ admins' = [admins EXCEPT ![p] = Idle]
             /\ UNCHANGED <<local, routes>>
       /\ UNCHANGED <<dbs, rows, outbox, op, items, workers, faults>>

Changes(m) == routes[m.shard] = m.route /\ AcceptsNew(m.alias)

ChangeRoute(p) ==
    LET m == admins[p]
    IN /\ m.at = "change"
       /\ \/ /\ Changes(m)
             /\ m.route.version < MaxVersion                     \* bound
             /\ routes' = [routes EXCEPT ![m.shard] =
                               Assigned(m.route, m.alias)]
             /\ admins' = [admins EXCEPT ![p].at = "open"]
          \/ /\ ~Changes(m)
             /\ admins' = [admins EXCEPT ![p] = Idle]
             /\ UNCHANGED routes
       /\ UNCHANGED <<dbs, local, rows, outbox, op, items, workers, faults>>

OpenAssigned(p) ==
    LET m == admins[p]
    IN /\ m.at = "open"
       /\ local' = Opening(m.shard, m.alias, m.route.epoch + 1)
       /\ admins' = [admins EXCEPT ![p] = Idle]
       /\ UNCHANGED <<dbs, routes, rows, outbox, op, items, workers, faults>>

-----------------------------------------------------------------------------
(* The route updates of a move, whoever runs it: an operator's command or  *)
(* an item of the rebalance.                                               *)

(* reserve_active_move_target_and_mark_copying, under FOR SHARE.           *)
Reserve(s, a) ==
    /\ routes[s].status = "active"
    /\ routes[s].owner # a
    /\ AcceptsNew(a)
    /\ routes[s].version + 4 <= MaxVersion                       \* bound
    /\ \/ local[s][routes[s].owner].epoch < routes[s].epoch
       \/ local[s][routes[s].owner] = [epoch |-> routes[s].epoch, open |-> TRUE]
    /\ routes' = [routes EXCEPT ![s].status = "copying", ![s].target = a,
                                ![s].version = @ + 1]
    /\ local' = [local EXCEPT ![s][routes[s].owner] =
                    [epoch |-> routes[s].epoch, open |-> TRUE]]

Following == [copying |-> "draining", draining |-> "moving"]

(* mark_shard_placement_draining, then _moving, then the handover, which   *)
(* reads the target's status once more.                                    *)
Advance(s) ==
    LET r == routes[s]
    IN \/ /\ r.status \in DOMAIN Following
          /\ routes' = [routes EXCEPT ![s].status = Following[r.status],
                                      ![s].version = @ + 1]
          /\ UNCHANGED local
       \/ /\ r.status = "moving"
          /\ AcceptsNew(r.target)
          /\ routes' = [routes EXCEPT ![s] =
                [owner |-> r.target, status |-> "active", target |-> Nobody,
                 version |-> r.version + 1, epoch |-> r.epoch + 1]]
          /\ local' = [local EXCEPT
                ![s][r.owner] = [epoch |-> r.epoch + 1, open |-> FALSE],
                ![s][r.target] = [epoch |-> r.epoch + 1, open |-> TRUE]]

(* abort_shard_move.                                                       *)
Abort(s) ==
    LET r == routes[s]
        epoch == IF r.status = "copying" THEN r.epoch ELSE r.epoch + 1
    IN /\ r.status # "active"
       /\ r.version < MaxVersion                                 \* bound
       /\ routes' = [routes EXCEPT ![s] =
             [r EXCEPT !.status = "active", !.target = Nobody,
                       !.version = @ + 1, !.epoch = epoch]]
       /\ local' = [local EXCEPT
             ![s][r.owner] = [epoch |-> epoch, open |-> TRUE],
             ![s][r.target] = [epoch |-> r.epoch + 1, open |-> FALSE]]

OperatorMoves(s) ==
    /\ (\E a \in Alias : Reserve(s, a)) \/ Advance(s) \/ Abort(s)
    /\ UNCHANGED <<dbs, rows, outbox, op, items, admins, workers, faults>>

-----------------------------------------------------------------------------
(* plan_shard_rebalance.                                                   *)

(* list_active_rebalance_candidates.                                       *)
Candidates == {s \in Shard : /\ routes[s].status = "active"
                             /\ Serves(routes[s].owner)}

Count(a) == Cardinality({s \in Candidates : routes[s].owner = a})

(* By alias, then by shard.                                                *)
Ordered(S) == SetToSortSeq(S, LAMBDA s, t :
    \/ Rank[routes[s].owner] < Rank[routes[t].owner]
    \/ routes[s].owner = routes[t].owner /\ s < t)

Take(seq, n) == SubSeq(seq, 1, IF n < Len(seq) THEN n ELSE Len(seq))

DivCeil(n, k) == (n + k - 1) \div k

Desired(aliases) ==
    DivCeil(FoldSet(LAMBDA a, n : n + Count(a), 0, aliases),
            Cardinality(aliases))

(* select_rebalance_candidates.                                            *)
SelectCandidates(source, target) ==
    LET aliases == {a \in Alias : AcceptsNew(a)} \ {source}
        others  == {s \in Candidates : routes[s].owner # target}
        needed  == Desired(aliases) - Count(target)
    IN IF source # Nobody
       THEN Take(Ordered({s \in others : routes[s].owner = source}), MaxItems)
       ELSE IF Cardinality(aliases) < 2 \/ needed <= 0 THEN <<>>
       ELSE Take(Ordered({s \in others :
                             /\ routes[s].owner \in aliases
                             /\ Count(routes[s].owner) > Desired(aliases)}),
                 IF needed < MaxItems THEN needed ELSE MaxItems)

(* insert_rebalance_operation; the placements were only read before.       *)
Plan(source, target) ==
    LET selected == SelectCandidates(source, target)
    IN /\ op = "none"
       /\ AcceptsNew(target)
       /\ source # target
       /\ source # Nobody => Serves(source)
       /\ op' = "planned"
       /\ items' = [i \in DOMAIN selected |->
             [shard |-> selected[i], source |-> routes[selected[i]].owner,
              target |-> target, version |-> routes[selected[i]].version,
              status |-> "pending", expired |-> FALSE, claims |-> 0]]
       /\ UNCHANGED <<dbs, routes, local, rows, outbox, admins, workers,
                      faults>>

-----------------------------------------------------------------------------
(* apply_shard_rebalance: items are claimed one by one with a lease, and   *)
(* every settlement is fenced by the claim's token.                        *)

Claimable(i) == \/ items[i].status = "pending"
                \/ items[i].status = "running" /\ items[i].expired

(* claim_next_rebalance_apply_item: the first claimable item by            *)
(* sequence_no, of an operation that is planned or running.                *)
ClaimItem(w) ==
    LET free == {i \in DOMAIN items : Claimable(i)}
        i    == Min(free)
    IN /\ workers[w] = Rest
       /\ op \in {"planned", "running"}
       /\ free # {}
       /\ items[i].claims < MaxClaims                            \* bound
       /\ op' = "running"
       /\ items' = [items EXCEPT ![i].status = "running",
                       ![i].expired = FALSE, ![i].claims = @ + 1]
       /\ workers' = [workers EXCEPT ![w] =
             [at |-> "check", item |-> i, token |-> items[i].claims + 1]]
       /\ UNCHANGED <<dbs, routes, local, rows, outbox, admins, faults>>

(* claimed_until passes.                                                   *)
ClaimExpires(i) ==
    /\ items[i].status = "running"
    /\ ~items[i].expired
    /\ items' = [items EXCEPT ![i].expired = TRUE]
    /\ UNCHANGED <<dbs, routes, local, rows, outbox, op, admins, workers,
                   faults>>

(* mutant: a settlement without the token.                                 *)
HoldsAnyItem(w) == items[workers[w].item].status = "running"

HoldsItem(w) == /\ items[workers[w].item].status = "running"
                /\ items[workers[w].item].claims = workers[w].token

(* mark_rebalance_item_status, defer_rebalance_item.                       *)
SettleItem(w, status) ==
    items' = IF HoldsItem(w)
             THEN [items EXCEPT ![workers[w].item].status = status,
                                ![workers[w].item].expired = FALSE]
             ELSE items

(* rebalance_operation_is_cancelled.                                       *)
CheckItem(w) ==
    /\ workers[w].at = "check"
    /\ IF op = "cancelled"
       THEN SettleItem(w, "cancelled") /\ workers' = [workers EXCEPT ![w] = Rest]
       ELSE /\ workers' = [workers EXCEPT ![w].at = "apply"]
            /\ UNCHANGED items
    /\ UNCHANGED <<dbs, routes, local, rows, outbox, op, admins, faults>>

(* How many updates past the planned version a move of this item is.       *)
Ahead == [active |-> 0, copying |-> 1, draining |-> 2, moving |-> 3]

(* apply_rebalance_item: the route is the planned one, or in a move of     *)
(* this plan that was interrupted.                                         *)
FitsPlan(it) ==
    LET r == routes[it.shard]
    IN /\ r.owner = it.source
       /\ r.version = it.version + Ahead[r.status]
       /\ r.status # "active" => r.target = it.target

Arrived(it) == /\ routes[it.shard].owner = it.target
               /\ routes[it.shard].status = "active"

ApplyItem(w) ==
    LET it == items[workers[w].item]
    IN /\ workers[w].at = "apply"
       /\ workers' = [workers EXCEPT ![w].at =
             IF Arrived(it) THEN "done"
             ELSE IF FitsPlan(it) THEN "move" ELSE "failed"]
       /\ UNCHANGED <<dbs, routes, local, rows, outbox, op, items, admins,
                      faults>>

(* The move runs, is not finished because work drains or is caught up, or  *)
(* fails.                                                                  *)
MoveItem(w) ==
    LET it == items[workers[w].item]
        s  == it.shard
    IN /\ workers[w].at = "move"
       /\ \/ /\ routes[s].status = "active" /\ Reserve(s, it.target)
             /\ UNCHANGED workers
          \/ /\ routes[s].target = it.target /\ Advance(s)
             /\ UNCHANGED workers
          \/ /\ \/ Arrived(it)
                   /\ workers' = [workers EXCEPT ![w].at = "done"]
                \/ ~Arrived(it)
                   /\ workers' = [workers EXCEPT ![w].at = "failed"]
                \/ routes[s].status \in {"copying", "draining"}
                   /\ workers' = [workers EXCEPT ![w].at = "pending"]
             /\ UNCHANGED <<routes, local>>
       /\ UNCHANGED <<dbs, rows, outbox, op, items, admins, faults>>

(* An item that is deferred ends the command, which refreshes the          *)
(* operation; the others go on to the next item.                           *)
EndItem(w) ==
    /\ workers[w].at \in {"done", "failed", "pending"}
    /\ SettleItem(w, CASE workers[w].at = "done" -> "completed"
                       [] workers[w].at = "failed" -> "failed"
                       [] OTHER -> "pending")
    /\ workers' = [workers EXCEPT ![w] = Rest]
    /\ UNCHANGED <<dbs, routes, local, rows, outbox, op, admins, faults>>

(* mutant: an operation with running items can end.                        *)
RefreshedEarly ==
    IF op \in Terminal THEN op
    ELSE IF \E i \in DOMAIN items : items[i].status = "pending"
    THEN "running"
    ELSE IF \E i \in DOMAIN items : items[i].status = "failed" THEN "failed"
    ELSE "completed"

(* refresh_rebalance_operation_status.                                     *)
Refreshed ==
    IF op \in Terminal THEN op
    ELSE IF \E i \in DOMAIN items : items[i].status \in {"pending", "running"}
    THEN "running"
    ELSE IF \E i \in DOMAIN items : items[i].status = "failed" THEN "failed"
    ELSE "completed"

(* The end of an apply command; it also runs when nothing was claimable.   *)
Refresh(w) ==
    /\ workers[w] = Rest
    /\ op \in {"planned", "running"}
    /\ op' = Refreshed
    /\ UNCHANGED <<dbs, routes, local, rows, outbox, items, admins, workers,
                   faults>>

(* cancel_shard_rebalance; items with a live claim are left to their       *)
(* worker.                                                                 *)
Cancel ==
    /\ op \in {"planned", "running"}
    /\ op' = "cancelled"
    /\ items' = [i \in DOMAIN items |->
          IF Claimable(i) THEN [items[i] EXCEPT !.status = "cancelled",
                                                !.expired = FALSE]
          ELSE items[i]]
    /\ UNCHANGED <<dbs, routes, local, rows, outbox, admins, workers, faults>>

(* An activation or assignment stops between its commits.  A worker that   *)
(* stops is one that takes no step: its claim expires.                     *)
Crash ==
    \E p \in Admin :
        /\ admins[p] # Idle
        /\ faults < MaxFaults                                    \* bound
        /\ faults' = faults + 1
        /\ admins' = [admins EXCEPT ![p] = Idle]
        /\ UNCHANGED <<dbs, routes, local, rows, outbox, op, items, workers>>

Next ==
    \/ \E a \in Alias : Register(a) \/ Drain(a) \/ Disable(a) \/ Publish(a)
    \/ \E p \in Admin, a \in Alias :
          BeginActivate(p, a) \/ \E s \in Shard : BeginAssign(p, s, a)
    \/ \E p \in Admin : \/ Probe(p) \/ Activate(p) \/ CloseEmpty(p) \/ ChangeRoute(p)
                        \/ OpenAssigned(p)
    \/ \E s \in Shard : Write(s) \/ OperatorMoves(s)
    \/ \E source \in Alias \cup {Nobody}, target \in Alias :
          Plan(source, target)
    \/ \E w \in Worker : \/ ClaimItem(w) \/ CheckItem(w) \/ ApplyItem(w)
                         \/ MoveItem(w) \/ EndItem(w) \/ Refresh(w)
    \/ \E i \in DOMAIN items : ClaimExpires(i)
    \/ Cancel
    \/ Crash

Spec == Init /\ [][Next]_topologyVars

-----------------------------------------------------------------------------
(* Every row and every command is of its type.                             *)
TypeOK ==
    /\ dbs \in [Alias -> {"none", "provisioning", "active", "draining",
                          "disabled"}]
    /\ routes \in [Shard -> Route]
    /\ local \in [Shard -> [Alias -> Local]]
    /\ rows \subseteq Shard
    /\ outbox \subseteq Alias
    /\ op \in {"none", "planned", "running"} \cup Terminal
    /\ items \in Seq(Item)
    /\ faults \in 0 .. MaxFaults

(* Whatever lifecycle command races whatever reservation, assignment or    *)
(* handover, a shard is owned by a database that serves it, and a move     *)
(* goes to a database that accepts it (validate_new_ownership_target:      *)
(* either admission commits first or the lifecycle transition wins).       *)
OwnerServes ==
    \A s \in Shard : /\ Serves(routes[s].owner)
                     /\ routes[s].status # "active" =>
                            AcceptsNew(routes[s].target)

(* A disabled database, which no publisher visits, holds no undelivered    *)
(* event: every event was written while a shard was owned there.           *)
NoStrandedOutbox == \A a \in outbox : Serves(a)

(* An operation that ended leaves no item to do, and one that completed    *)
(* has no failed item, although items settle while others are claimed.     *)
EndedIsWhole ==
    /\ op \in {"completed", "failed"} =>
          \A i \in DOMAIN items : items[i].status \in Terminal
    /\ op = "completed" =>
          \A i \in DOMAIN items : items[i].status # "failed"

(* An item whose claim expired under its worker is settled by the worker   *)
(* that claimed it last: the other one changes nothing.                    *)
FencedSettlementStep ==
    \A i \in DOMAIN items :
       (items[i].status = "running" /\ items'[i].status # "running") =>
           \/ \E w \in Worker : /\ workers[w].item = i
                                /\ workers[w].token = items[i].claims
                                /\ workers'[w] = Rest
           \/ op' = "cancelled" /\ items[i].expired
FencedSettlement == [][FencedSettlementStep]_topologyVars
=============================================================================
