-------------------------- MODULE ShardMoveProofs ---------------------------
(***************************************************************************)
(* Only the owner's database is open for a shard, whatever movers, aborts  *)
(* and crashes do: the inductive invariant, and its preservation by every  *)
(* step of a move and of an abort.                                         *)
(*                                                                         *)
(* Every admission is opened by a process that acts on a route it read     *)
(* some time ago.  What was read may be stale, so the argument is about    *)
(* stale routes (Known): a route read at an epoch names the database that  *)
(* still owns the shard, or one whose admission has a later epoch, which   *)
(* refuses the transition.  That the source is closed at the next epoch    *)
(* before the route leaves it (RowOf of "activate") needs the mover to     *)
(* close the database of the route it hands over.  The code never compares *)
(* the two; it holds because of the claims: one move is active at a time,  *)
(* and a mover that hands the route over and one that holds the claim of   *)
(* the active move have the same target (RuleInv).                         *)
(***************************************************************************)
EXTENDS ShardMove, TLAPS

(* The provers a leaf that names none is given to, in this order.          *)
USE SMT, Zenon, Z3

(* The number of moves is a number, and the processes differ from each     *)
(* other and from "none".                                                  *)
MoveConstants ==
    /\ MaxMoves \in Nat
    /\ Nobody \notin Mover
    /\ Aborter \notin Mover
    /\ Aborter # Nobody

-----------------------------------------------------------------------------
MoverFields == {"at", "goal", "route", "op", "gen", "phase", "reset", "cursor",
                "page", "keys", "batches", "final"}
OpFields == {"status", "source", "target", "phase", "reset", "cursor", "claim",
             "gen"}
AborterFields == {"at", "route", "op", "source", "target", "epoch", "prepared"}

Shaped(x, fields) == x = [f \in fields |-> x[f]]

RouteRow == [owner : Alias, status : {"active", "copying", "draining", "moving"},
             target : Alias \cup {Nobody}, version : Nat, epoch : Nat]

Op == 1 .. MaxMoves

Used(o) == ops[o].status # "unused"

(* The tables, without their bounds.  An admission that was never written  *)
(* has no epoch.                                                           *)
AdmissionsTyped ==
    /\ Shaped(admission, Database)
    /\ \A d \in Database :
          /\ admission[d].epoch \in Nat
          /\ admission[d].state = "none" => admission[d].epoch = 0

OpsTyped ==
    /\ Shaped(ops, Op)
    /\ \A o \in Op :
          /\ Shaped(ops[o], OpFields)
          /\ ops[o].gen \in Nat
          /\ Used(o) => /\ ops[o].source \in Alias
                        /\ ops[o].target \in Alias
                        /\ ops[o].source # ops[o].target

TypeInv ==
    /\ route \in RouteRow
    /\ AdmissionsTyped
    /\ OpsTyped
    /\ Shaped(fence, Database)
    /\ Shaped(movers, Mover)
    /\ \A p \in Mover : Shaped(movers[p], MoverFields) /\ movers[p].at \in Steps
    /\ Shaped(aborter, AborterFields)

(* One move at a time is active, and the moves are numbered as they come.  *)
OpsInv ==
    /\ \A o, x \in Op : Active(o) /\ Active(x) => o = x
    /\ \E n \in Nat : \A o \in Op : Used(o) <=> o <= n

RouteInv ==
    /\ route.status # "active" => route.target # route.owner
    /\ route.owner = Control => route.status # "moving"

OpenInv == \A d \in Database :
    admission[d].state = "open" => /\ d = Physical[route.owner]
                                   /\ admission[d].epoch <= route.epoch

(* What is known of an alias that owned the shard at an epoch: it is still *)
(* the owner's database, or it is fenced off.                              *)
Owned(a, epoch) ==
    /\ epoch <= route.epoch
    /\ \/ Physical[a] = Physical[route.owner]
       \/ epoch < admission[Physical[a]].epoch

(* What is known of a route that was read.                                 *)
Known(r) ==
    /\ r.version <= route.version
    /\ r.version = route.version => r = route
    /\ Owned(r.owner, r.epoch)

OldSteps == {"closeOld", "openNew", "dropOld", "settleOld"}

OnlineSteps == {"capture", "reserve", "install", "reset", "markReset",
                "backfill", "page", "copy", "checkpoint", "caughtUp", "replay",
                "current", "upsert", "settleKeys", "renew", "reread", "drain",
                "markDraining", "phaseDraining"}

HeldSteps == {"freeze", "phaseCutover", "replay", "current", "upsert",
              "settleKeys", "close"}

Online(m) == ~m.final /\ m.at \in OnlineSteps
Held(m)   == m.final /\ m.at \in HeldSteps

(* On the control database the frozen route is not committed before the    *)
(* handover.                                                               *)
Pending(m) == /\ route.owner = Control
              /\ route.status = "draining"
              /\ m.route = Frozen(route)

HasRoute(m) == m.at \notin {"idle", "release"}
HasClaim(m) == m.at \notin {"idle", "release", "claim"} \cup OldSteps

Fits(m) == m.route.status = "active" \/ m.route.target = m.goal

RouteOf(m) ==
    /\ HasRoute(m) => /\ m.route \in RouteRow
                      /\ Known(m.route) \/ (Held(m) /\ Pending(m))
    /\ m.at = "claim" => m.goal \in Alias /\ m.route.owner # m.goal /\ Fits(m)
    /\ m.at \in OldSteps => m.route.owner = m.goal

ClaimOf(m) ==
    HasClaim(m) => /\ m.op \in Op
                   /\ Used(m.op)
                   /\ ops[m.op].target = m.goal
                   /\ m.gen \in Nat
                   /\ m.gen <= ops[m.op].gen

StageOf(m) ==
    /\ m.at \in {"reconcile", "confirm"} =>
          ops[m.op].source = m.route.owner /\ Fits(m)
    /\ m.at \in {"claim", "reconcile", "confirm", "restore", "count", "fence"}
                \cup (OnlineSteps \ HeldSteps) => m.final = FALSE
    /\ m.at \in HeldSteps \ OnlineSteps => m.final = TRUE
    /\ m.at \in HeldSteps => m.final \in BOOLEAN
    /\ m.at \in {"count", "fence"} =>
          \/ m.route.version < route.version
          \/ m.route.owner \in {ops[m.op].source, m.goal}
    /\ Held(m) \/ m.at = "activate" => m.route.owner = ops[m.op].source
    /\ m.at = "activate" =>
          m.route.epoch < admission[Physical[m.route.owner]].epoch
    /\ m.at = "open" => Owned(m.goal, m.route.epoch + 1)

RowOf(m) == RouteOf(m) /\ ClaimOf(m) /\ StageOf(m)

FenceInv == \A p \in Mover :
    Held(movers[p]) => fence[Source(movers[p])] = p

AbortInv ==
    /\ aborter.at # "idle" => /\ aborter.route \in RouteRow
                              /\ aborter.source \in Alias
                              /\ aborter.target \in Alias
    /\ aborter.at = "reopen" =>
          /\ fence[Physical[aborter.source]] = Aborter
          /\ Owned(aborter.source, Aborted(aborter.route).epoch)
    /\ aborter.at = "closeTarget" => aborter.epoch \in Nat

(* A mover that may still begin to drain the source of the active move,    *)
(* and one that may hand the route over.                                   *)
Seeks(m) == Online(m) /\ Claimed(m)

Rules(m) == /\ m.at \in {"count", "fence", "activate"} \/ Held(m)
            /\ m.route.version = route.version \/ Pending(m)
            /\ route.status # "active"
            /\ route.target = m.goal

SeekInv == \A p \in Mover :
    LET m == movers[p]
    IN Seeks(m) => route.owner \in {ops[m.op].source, m.goal}

RuleInv == \A p, q \in Mover :
    Rules(movers[p]) /\ Seeks(movers[q]) => movers[q].goal = movers[p].goal

IInv ==
    /\ TypeInv /\ OpsInv /\ RouteInv /\ OpenInv
    /\ \A p \in Mover : RowOf(movers[p])
    /\ FenceInv /\ AbortInv /\ SeekInv /\ RuleInv

-----------------------------------------------------------------------------
(* What every step does to the tables.                                     *)

Live(o, g) == Active(o) /\ ops[o].claim # "none" /\ ops[o].gen = g

RouteStep ==
    /\ route' \in RouteRow
    /\ \/ route' = route
       \/ /\ route.version < route'.version
          /\ route.epoch <= route'.epoch
          /\ \/ route'.owner = route.owner
             \/ route.epoch < admission'[Physical[route.owner]].epoch

EpochsStep ==
    /\ AdmissionsTyped'
    /\ \A d \in Database : admission[d].epoch <= admission'[d].epoch

(* A move that was claimed keeps its ends, and no claim comes back.        *)
OpsStep ==
    /\ OpsTyped'
    /\ \A o \in Op : Used(o) =>
          /\ Used(o)'
          /\ ops'[o].source = ops[o].source
          /\ ops'[o].target = ops[o].target
          /\ ops[o].gen <= ops'[o].gen
          /\ \A g \in Nat : g <= ops[o].gen /\ Live(o, g)' => Live(o, g)

Grows == RouteStep /\ EpochsStep /\ OpsStep

(* The database behind an alias.                                           *)
LEMMA PhysicalType == \A a \in Alias : Physical[a] \in Database
BY Zenon DEF Database

(* An alias that owned the shard at an epoch stays the owner's database,   *)
(* or is fenced off by a later epoch.                                      *)
LEMMA OwnedStays ==
    ASSUME TypeInv, RouteStep, EpochsStep, NEW a \in Alias, NEW e \in Nat,
           Owned(a, e)
    PROVE  Owned(a, e)'
<1>1. /\ route \in RouteRow
      /\ route' \in RouteRow
      /\ route.epoch <= route'.epoch
  BY DEF TypeInv, RouteStep, RouteRow
<1>2. Physical[a] \in Database /\ Physical[route.owner] \in Database
  BY <1>1, PhysicalType, Zenon DEF RouteRow
<1>3. /\ admission[Physical[a]].epoch \in Nat
      /\ admission'[Physical[a]].epoch \in Nat
      /\ admission[Physical[a]].epoch <= admission'[Physical[a]].epoch
  BY <1>2, Zenon DEF TypeInv, EpochsStep, AdmissionsTyped
<1>4. e <= route'.epoch
  BY <1>1 DEF Owned, RouteRow
<1>5. CASE e < admission[Physical[a]].epoch
  BY <1>3, <1>4, <1>5 DEF Owned
<1>6. CASE Physical[a] = Physical[route.owner]
  <2>1. CASE Physical[route'.owner] = Physical[route.owner]
    BY <1>4, <1>6, <2>1, Zenon DEF Owned
  <2>2. CASE route.epoch < admission'[Physical[route.owner]].epoch
    <3>1. e < admission'[Physical[a]].epoch
      BY <1>1, <1>3, <1>6, <2>2 DEF Owned, RouteRow
    <3> QED
      BY <1>4, <3>1, Zenon DEF Owned
  <2> QED
    BY <2>1, <2>2 DEF RouteStep
<1> QED
  BY <1>5, <1>6, Zenon DEF Owned

(* What is known of a route that was read stays true when the route moves  *)
(* on.                                                                     *)
LEMMA KnownStays ==
    ASSUME TypeInv, RouteStep, EpochsStep, NEW r \in RouteRow, Known(r)
    PROVE  /\ Known(r)'
           /\ route' # route => r.version < route'.version
<1>1. /\ route \in RouteRow
      /\ route' \in RouteRow
      /\ route' = route \/ route.version < route'.version
      /\ r.owner \in Alias
      /\ r.epoch \in Nat
      /\ r.version \in Nat
      /\ route.version \in Nat
      /\ route'.version \in Nat
  BY DEF TypeInv, RouteStep, RouteRow
<1>2. Owned(r.owner, r.epoch)'
  BY <1>1, OwnedStays, Zenon DEF Known
<1>3. route' # route => r.version < route'.version
  BY <1>1 DEF Known
<1>4. r.version <= route'.version /\ (r.version = route'.version => r = route')
  BY <1>1 DEF Known
<1> QED
  BY <1>2, <1>3, <1>4, Zenon DEF Known

-----------------------------------------------------------------------------
(* What a process knows outlives the steps of the others.                  *)

(* What holds of a mover stays true under steps of others.                 *)
LEMMA RowStays ==
    ASSUME TypeInv, Grows, NEW m, m.at \in Steps, RowOf(m),
           Held(m) /\ Pending(m) => route' = route
    PROVE  RowOf(m)'
<1> USE DEF Grows
<1>1. ClaimOf(m)'
  BY DEF RowOf, ClaimOf, HasClaim, OpsStep, TypeInv, OpsTyped
<1>2. HasClaim(m) => /\ ops'[m.op].source = ops[m.op].source
                     /\ m.goal \in Alias
  BY Zenon DEF RowOf, ClaimOf, OpsStep, TypeInv, OpsTyped
<1>3. HasRoute(m) => /\ Known(m.route)' \/ (Held(m) /\ Pending(m))'
                     /\ Known(m.route) /\ route' # route =>
                          m.route.version < route'.version
  <2>1. CASE HasRoute(m) /\ Known(m.route)
    BY <2>1, KnownStays DEF RowOf, RouteOf
  <2>2. CASE HasRoute(m) /\ ~Known(m.route)
    BY <2>2, Zenon DEF RowOf, RouteOf, Held, Pending, Frozen
  <2> QED
    BY <2>1, <2>2, Zenon
<1>4. RouteOf(m)'
  BY <1>3, Zenon DEF RowOf, RouteOf, HasRoute, Fits
<1>5. m.at = "open" => Owned(m.goal, m.route.epoch + 1)'
  <2> SUFFICES ASSUME m.at = "open" PROVE Owned(m.goal, m.route.epoch + 1)'
    BY Zenon
  <2>1. m.goal \in Alias /\ m.route.epoch + 1 \in Nat
    BY <1>2 DEF RowOf, RouteOf, HasRoute, HasClaim, OldSteps, RouteRow
  <2> QED
    BY <2>1, OwnedStays, Zenon DEF RowOf, StageOf
<1>6. m.at = "activate" =>
          m.route.epoch < admission'[Physical[m.route.owner]].epoch
  <2> SUFFICES ASSUME m.at = "activate"
               PROVE  m.route.epoch < admission'[Physical[m.route.owner]].epoch
    OBVIOUS
  <2>1. m.route.epoch \in Nat /\ Physical[m.route.owner] \in Database
    BY PhysicalType, Zenon DEF RowOf, RouteOf, HasRoute, RouteRow
  <2>2. /\ m.route.epoch < admission[Physical[m.route.owner]].epoch
        /\ admission[Physical[m.route.owner]].epoch \in Nat
        /\ admission'[Physical[m.route.owner]].epoch \in Nat
    BY <2>1, Zenon DEF RowOf, StageOf, EpochsStep, TypeInv, AdmissionsTyped
  <2> QED
    BY <2>1, <2>2 DEF EpochsStep
<1>7. m.at \in {"count", "fence"} =>
          \/ m.route.version < route'.version
          \/ m.route.owner \in {ops'[m.op].source, m.goal}
  <2> SUFFICES ASSUME m.at \in {"count", "fence"},
                      m.route.version < route.version
               PROVE  m.route.version < route'.version
    BY <1>2 DEF RowOf, StageOf, HasClaim, OldSteps
  <2>1. /\ m.route.version \in Nat
        /\ route.version \in Nat
        /\ route'.version \in Nat
        /\ route' = route \/ route.version < route'.version
    BY Zenon DEF RowOf, RouteOf, HasRoute, RouteRow, TypeInv, RouteStep
  <2> QED
    BY <2>1
<1>8. StageOf(m)'
  <2>1. Held(m) \/ m.at \in {"activate", "reconcile", "confirm"} => HasClaim(m)
    BY Zenon DEF Held, HeldSteps, HasClaim, OldSteps
  <2> QED
    BY <1>2, <1>5, <1>6, <1>7, <2>1 DEF RowOf, StageOf, Held, Fits
<1> QED
  BY <1>1, <1>4, <1>8, Zenon DEF RowOf

(* A claim that was lost does not come back, and a claimed move keeps its  *)
(* ends.                                                                   *)
LEMMA SeeksStays ==
    ASSUME TypeInv, Grows, NEW m, RowOf(m)
    PROVE  /\ Online(m) \/ Held(m) \/ m.at \in {"count", "fence", "activate"}
                => HasClaim(m)
           /\ HasClaim(m) => ops'[m.op].source = ops[m.op].source
           /\ HasClaim(m) /\ Claimed(m)' => Claimed(m)
           /\ Seeks(m)' => Seeks(m)
<1>1. Online(m) \/ Held(m) \/ m.at \in {"count", "fence", "activate"}
        => HasClaim(m)
  BY Zenon DEF Online, OnlineSteps, Held, HeldSteps, HasClaim, OldSteps
<1>2. HasClaim(m) => ops'[m.op].source = ops[m.op].source
  BY Zenon DEF RowOf, ClaimOf, Grows, OpsStep
<1>3. HasClaim(m) /\ Claimed(m)' => Claimed(m)
  <2> SUFFICES ASSUME HasClaim(m), Claimed(m)' PROVE Claimed(m)
    BY Zenon
  <2>1. Live(m.op, m.gen)'
    BY Zenon DEF Claimed, Live, Active
  <2>2. Live(m.op, m.gen)
    BY <2>1 DEF RowOf, ClaimOf, Grows, OpsStep
  <2> QED
    BY <2>2 DEF Claimed, Live, Active
<1> QED
  BY <1>1, <1>2, <1>3, Zenon DEF Seeks, Online

(* Nobody becomes able to hand the route over by a step of others.         *)
LEMMA RulesStays ==
    ASSUME TypeInv, Grows, NEW m, RowOf(m),
           Held(m) /\ Pending(m) => route' = route,
           Rules(m)'
    PROVE  Rules(m) /\ route' = route
<1>1. HasRoute(m)
  BY Zenon DEF Rules, Held, HeldSteps, HasRoute
<1>2. CASE Known(m.route)
  <2>1. /\ Known(m.route)' /\ m.route \in RouteRow
        /\ route' # route => m.route.version < route'.version
    BY <1>1, <1>2, KnownStays, Zenon DEF RowOf, RouteOf, Grows
  <2>2. /\ m.route.version \in Nat /\ route'.version \in Nat
        /\ route'.epoch \in Nat
    BY <2>1, Zenon DEF RouteRow, Grows, RouteStep
  <2>3. ~Pending(m)'
    <3>1. Frozen(route').version = route'.version + 1
      BY Zenon DEF Frozen, RouteRow, Grows, RouteStep
    <3> QED
      BY <2>1, <2>2, <3>1 DEF Pending, Known
  <2>4. route' = route
    BY <2>1, <2>2, <2>3 DEF Rules
  <2> QED
    BY <2>4, Zenon DEF Rules, Pending, Held
<1>3. CASE ~Known(m.route)
  BY <1>1, <1>3, Zenon DEF RowOf, RouteOf, Rules, Pending, Held
<1> QED
  BY <1>2, <1>3

-----------------------------------------------------------------------------
(* The part of the invariant about the movers.  A step leaves a mover      *)
(* alone when it leaves its fence and its pending route alone, and hands   *)
(* the route over to nobody but the target of the claimed move.            *)

MoversTyped ==
    /\ Shaped(movers, Mover)
    /\ \A p \in Mover : Shaped(movers[p], MoverFields) /\ movers[p].at \in Steps

MoversInv ==
    /\ MoversTyped
    /\ \A p \in Mover : RowOf(movers[p])
    /\ FenceInv /\ SeekInv /\ RuleInv

Kept(q) ==
    /\ Held(movers[q]) => /\ fence'[Source(movers[q])] = q
                          /\ Pending(movers[q]) => route' = route
    /\ Seeks(movers[q]) => route'.owner \in {route.owner, movers[q].goal}

(* A mover that another's step leaves alone.                               *)
LEMMA KeptMover ==
    ASSUME IInv, Grows, NEW q \in Mover, movers'[q] = movers[q], Kept(q)
    PROVE  /\ RowOf(movers[q])'
           /\ Held(movers[q])' => fence'[Source(movers[q])'] = q
           /\ Seeks(movers[q])' =>
                 /\ Seeks(movers[q])
                 /\ route'.owner \in {ops'[movers'[q].op].source, movers'[q].goal}
           /\ Rules(movers[q])' => Rules(movers[q]) /\ route' = route
<1> PICK m : m = movers[q]
  BY Zenon
<1>0. TypeInv /\ RowOf(m) /\ m.at \in Steps
  BY Zenon DEF IInv, TypeInv
<1>1. Held(m) /\ Pending(m) => route' = route
  BY Zenon DEF Kept
<1>2. RowOf(m)'
  BY <1>0, <1>1, RowStays, Zenon
<1>3. /\ Online(m) \/ Held(m) => HasClaim(m)
      /\ HasClaim(m) => ops'[m.op].source = ops[m.op].source
      /\ Seeks(m)' => Seeks(m)
  BY <1>0, SeeksStays
<1>4. Rules(m)' => Rules(m) /\ route' = route
  BY <1>0, <1>1, RulesStays, Zenon
<1>5. Held(m) => fence'[Physical[ops'[m.op].source]] = q
  BY <1>3, Zenon DEF Kept, Source
<1>6. Seeks(m)' => route'.owner \in {ops'[m.op].source, m.goal}
  BY <1>3, Zenon DEF Kept, IInv, SeekInv, Seeks
<1> QED
  BY <1>2, <1>3, <1>4, <1>5, <1>6 DEF Held, Source

Moves(p, z) ==
    /\ movers' = [movers EXCEPT ![p] = z]
    /\ Shaped(z, MoverFields)
    /\ z.at \in Steps

(* A step of one mover keeps what holds of all movers.                     *)
LEMMA OneMoves ==
    ASSUME IInv, Grows, NEW p \in Mover, NEW z, Moves(p, z), RowOf(z)',
           \A q \in Mover \ {p} : Kept(q),
           Held(z) => fence'[Physical[ops'[z.op].source]] = p,
           Seeks(z)' => route'.owner \in {ops'[z.op].source, z.goal},
           Rules(z)' => \A q \in Mover \ {p} :
                           Seeks(movers[q]) => movers[q].goal = z.goal,
           Seeks(z)' => \A q \in Mover \ {p} :
                           Rules(movers[q]) /\ route' = route
                              => movers[q].goal = z.goal
    PROVE  MoversInv'
<1> USE DEF Moves
<1>0. MoversTyped /\ p \in DOMAIN movers
  BY Zenon DEF IInv, TypeInv, MoversTyped, Shaped
<1>1. movers'[p] = z /\ \A q \in Mover \ {p} : movers'[q] = movers[q]
  BY <1>0 DEF MoversTyped, Shaped
<1>2. MoversTyped'
  BY <1>0, <1>1, Zenon DEF MoversTyped, Shaped
<1>3. \A q \in Mover \ {p} :
          /\ RowOf(movers[q])'
          /\ Held(movers[q])' => fence'[Source(movers[q])'] = q
          /\ Seeks(movers[q])' =>
                /\ Seeks(movers[q])
                /\ route'.owner \in {ops'[movers'[q].op].source, movers'[q].goal}
          /\ Rules(movers[q])' => Rules(movers[q]) /\ route' = route
  BY <1>1, KeptMover, Zenon
<1>4. /\ RowOf(movers[p])'
      /\ Held(movers[p])' => fence'[Source(movers[p])'] = p
      /\ Seeks(movers[p])' =>
            route'.owner \in {ops'[movers'[p].op].source, movers'[p].goal}
  BY <1>1, Zenon DEF Held, Source
<1>5. \A q \in Mover : RowOf(movers[q])'
  BY <1>3, <1>4, Zenon
<1>6. FenceInv'
  BY <1>3, <1>4, Zenon DEF FenceInv
<1>7. SeekInv'
  BY <1>3, <1>4, Zenon DEF SeekInv
<1>8. RuleInv'
  <2> SUFFICES ASSUME NEW r \in Mover, NEW q \in Mover,
                      Rules(movers[r])', Seeks(movers[q])'
               PROVE  movers'[q].goal = movers'[r].goal
    BY Zenon DEF RuleInv
  <2>1. CASE r = p /\ q = p
    BY <2>1
  <2>2. CASE r = p /\ q # p
    <3>1. Seeks(movers[q]) /\ movers'[q] = movers[q] /\ Rules(z)'
      BY <1>1, <1>3, <2>2, Zenon
    <3> QED
      BY <1>1, <2>2, <3>1, Zenon
  <2>3. CASE r # p /\ q = p
    <3>1. Rules(movers[r]) /\ route' = route /\ Seeks(z)'
      BY <1>1, <1>3, <2>3, Zenon
    <3> QED
      BY <1>1, <2>3, <3>1, Zenon
  <2>4. CASE r # p /\ q # p
    BY <1>1, <1>3, <2>4 DEF IInv, RuleInv
  <2> QED
    BY <2>1, <2>2, <2>3, <2>4, Zenon
<1> QED
  BY <1>2, <1>5, <1>6, <1>7, <1>8, Zenon DEF MoversInv

(* A step of no mover keeps what holds of all movers.                      *)
LEMMA NoneMoves ==
    ASSUME IInv, Grows, movers' = movers, \A q \in Mover : Kept(q)
    PROVE  MoversInv'
<1>1. \A q \in Mover :
          /\ RowOf(movers[q])'
          /\ Held(movers[q])' => fence'[Source(movers[q])'] = q
          /\ Seeks(movers[q])' =>
                /\ Seeks(movers[q])
                /\ route'.owner \in {ops'[movers'[q].op].source, movers'[q].goal}
          /\ Rules(movers[q])' => Rules(movers[q]) /\ route' = route
  BY KeptMover, Zenon
<1>2. MoversTyped'
  BY DEF IInv, TypeInv, MoversTyped
<1>3. FenceInv' /\ SeekInv'
  BY <1>1, Zenon DEF FenceInv, SeekInv
<1>4. RuleInv'
  BY <1>1, Zenon DEF IInv, RuleInv
<1> QED
  BY <1>1, <1>2, <1>3, <1>4, Zenon DEF MoversInv

-----------------------------------------------------------------------------
(* The tables and the fences.                                              *)

(* A process takes free fences and gives back its own.                     *)
FenceStep(p) ==
    /\ Shaped(fence', Database)
    /\ \A d \in Database : fence'[d] # fence[d] => fence[d] \in {Nobody, p}

(* A mover in the cutover holds the fence of its source, which is that of  *)
(* the route's owner when the frozen route is not committed.               *)
LEMMA HeldFence ==
    ASSUME IInv, NEW q \in Mover, Held(movers[q])
    PROVE  /\ Source(movers[q]) \in Database
           /\ fence[Source(movers[q])] = q
           /\ Pending(movers[q]) => fence[Physical[route.owner]] = q
<1> PICK m : m = movers[q]
  BY Zenon
<1>0. RowOf(m)
  BY DEF IInv
<1>1. HasClaim(m)
  BY Zenon DEF Held, HeldSteps, HasClaim, OldSteps
<1>2. m.op \in Op /\ Used(m.op) /\ m.route.owner = ops[m.op].source
  BY <1>0, <1>1, Zenon DEF RowOf, ClaimOf, StageOf
<1>3. Source(m) \in Database
  BY <1>2, PhysicalType, Zenon DEF IInv, TypeInv, OpsTyped, Source
<1>4. fence[Source(m)] = q
  BY Zenon DEF IInv, FenceInv
<1>5. Pending(m) => m.route.owner = route.owner
  BY Zenon DEF Pending, Frozen, IInv, TypeInv, RouteRow
<1> QED
  BY <1>2, <1>3, <1>4, <1>5 DEF Source

(* A step leaves the other movers alone if it does not change the route    *)
(* under one in the cutover, nor the owner under one that still seeks it.  *)
LEMMA OthersKept ==
    ASSUME MoveConstants, IInv, NEW p \in Mover \cup {Aborter}, FenceStep(p),
           \/ route' = route
           \/ route.status # "draining"
           \/ route.owner # Control
           \/ fence[Physical[route.owner]] \in {Nobody, p},
           \/ route'.owner = route.owner
           \/ \A q \in Mover \ {p} : Seeks(movers[q]) =>
                                        movers[q].goal = route'.owner
    PROVE  \A q \in Mover \ {p} : Kept(q)
<1> SUFFICES ASSUME NEW q \in Mover \ {p} PROVE Kept(q)
  BY Zenon
<1>1. q \in Mover /\ q # Nobody /\ q # p
  BY Zenon DEF MoveConstants
<1>2. Held(movers[q]) => fence'[Source(movers[q])] = q
  BY <1>1, HeldFence, Zenon DEF FenceStep
<1>3. Held(movers[q]) /\ Pending(movers[q]) => route' = route
  BY <1>1, HeldFence, Zenon DEF Pending
<1> QED
  BY <1>2, <1>3, Zenon DEF Kept

(* A mover's step keeps what holds of the abort.                           *)
LEMMA AbortStays ==
    ASSUME MoveConstants, IInv, Grows, NEW p \in Mover, FenceStep(p),
           aborter' = aborter
    PROVE  AbortInv' /\ Shaped(aborter, AborterFields)'
<1>1. aborter.at = "reopen" => fence'[Physical[aborter.source]] = Aborter
  BY PhysicalType, Zenon DEF IInv, AbortInv, FenceStep, MoveConstants
<1>2. aborter.at = "reopen" =>
          Owned(aborter.source, Aborted(aborter.route).epoch)'
  <2> SUFFICES ASSUME aborter.at = "reopen"
               PROVE  Owned(aborter.source, Aborted(aborter.route).epoch)'
    OBVIOUS
  <2> PICK a, e : a = aborter.source /\ e = Aborted(aborter.route).epoch
    BY Zenon
  <2>1. a \in Alias /\ e \in Nat /\ Owned(a, e)
    BY DEF IInv, AbortInv, Aborted, RouteRow
  <2>2. Owned(a, e)'
    BY <2>1, OwnedStays, Zenon DEF IInv, Grows
  <2> QED
    BY <2>2 DEF Owned, Aborted
<1> QED
  BY <1>1, <1>2, Zenon DEF IInv, TypeInv, AbortInv

(* The parts of the invariant.                                             *)
LEMMA Assembled ==
    ASSUME Grows, MoversInv', Shaped(fence', Database),
           Shaped(aborter, AborterFields)', OpsInv', RouteInv', OpenInv',
           AbortInv'
    PROVE  IInv'
BY Zenon
   DEF IInv, TypeInv, MoversInv, MoversTyped, Grows, RouteStep, EpochsStep,
       OpsStep

(* A step that leaves the route alone.                                     *)
LEMMA RouteSame ==
    ASSUME IInv, route' = route
    PROVE  RouteStep /\ RouteInv'
BY DEF IInv, TypeInv, RouteStep, RouteInv

(* A step that leaves the admissions and the owner alone.                  *)
LEMMA AdmissionSame ==
    ASSUME IInv, admission' = admission, RouteStep, route'.owner = route.owner
    PROVE  EpochsStep /\ OpenInv'
<1>1. /\ route.epoch \in Nat /\ route'.epoch \in Nat
      /\ route.epoch <= route'.epoch
  BY DEF IInv, TypeInv, RouteStep, RouteRow
<1>2. AdmissionsTyped
  BY Zenon DEF IInv, TypeInv
<1>3. EpochsStep
  BY <1>2 DEF EpochsStep, AdmissionsTyped
<1>4. OpenInv'
  BY <1>1, <1>2 DEF IInv, OpenInv, AdmissionsTyped
<1> QED
  BY <1>3, <1>4, Zenon

(* An admission is written over an older one.                              *)
Overwrites(d, r) ==
    /\ admission' = [admission EXCEPT ![d] = r]
    /\ r.epoch \in Nat
    /\ r.state # "none"
    /\ d \in Database => \/ admission[d].state = "none"
                         \/ admission[d].epoch <= r.epoch

(* One admission is written, at an epoch that is not lower.                *)
LEMMA AdmissionEdited ==
    ASSUME IInv, NEW d, NEW r, Overwrites(d, r)
    PROVE  /\ EpochsStep
           /\ \A x \in Database :
                 \/ x # d /\ admission'[x] = admission[x]
                 \/ x = d /\ admission'[x] = r
<1> USE DEF Overwrites
<1>1. AdmissionsTyped
  BY Zenon DEF IInv, TypeInv
<1>2. \A x \in Database :
          \/ x # d /\ admission'[x] = admission[x]
          \/ x = d /\ admission'[x] = r
  BY <1>1, Zenon DEF AdmissionsTyped, Shaped
<1>3. Shaped(admission, Database)'
  BY <1>1, Zenon DEF AdmissionsTyped, Shaped
<1>4. AdmissionsTyped'
  BY <1>1, <1>2, <1>3, Zenon DEF AdmissionsTyped
<1>5. \A x \in Database : admission[x].epoch <= admission'[x].epoch
  BY <1>1, <1>2 DEF AdmissionsTyped
<1> QED
  BY <1>2, <1>4, <1>5, Zenon DEF EpochsStep

(* An admission that takes the transition of an alias that owned the shard *)
(* is the owner's: a later epoch would have refused it.                    *)
LEMMA OwnedOpens ==
    ASSUME TypeInv, NEW a \in Alias, NEW e \in Nat, Owned(a, e), NEW from,
           MayTransition(Physical[a], e, from)
    PROVE  Physical[a] = Physical[route.owner] /\ e <= route.epoch
<1>1. Physical[a] \in Database
  BY PhysicalType, Zenon
<1>2. ~(e < admission[Physical[a]].epoch)
  BY <1>1 DEF MayTransition, TypeInv, AdmissionsTyped
<1> QED
  BY <1>2, Zenon DEF Owned

(* set_shard_admission opens a database only for an alias that owns the    *)
(* shard.                                                                  *)
LEMMA Transitions ==
    ASSUME IInv, route' = route, NEW a, NEW e \in Nat, NEW state, NEW from,
           MayTransition(Physical[a], e, from), Transition(a, e, state),
           state # "none", state = "open" => a \in Alias /\ Owned(a, e)
    PROVE  EpochsStep /\ OpenInv'
<1> PICK d, r : /\ d = Physical[a]
                /\ r = [alias |-> a, epoch |-> e, state |-> state, op |-> 0,
                        gen |-> 0]
  BY Zenon
<1>1. /\ admission' = [admission EXCEPT ![d] = r]
      /\ r.epoch = e /\ r.state = state
  BY Zenon DEF Transition
<1>2. d \in Database => \/ admission[d].state = "none"
                        \/ admission[d].epoch <= r.epoch
  BY <1>1 DEF MayTransition, IInv, TypeInv, AdmissionsTyped
<1>3. /\ EpochsStep
      /\ \A x \in Database :
            \/ x # d /\ admission'[x] = admission[x]
            \/ x = d /\ admission'[x] = r
  <2>1. Overwrites(d, r)
    BY <1>1, <1>2 DEF Overwrites
  <2> QED
    BY <2>1, AdmissionEdited
<1>4. state = "open" => d = Physical[route.owner] /\ e <= route.epoch
  BY OwnedOpens, Zenon DEF IInv
<1>5. OpenInv'
  BY <1>1, <1>3, <1>4, Zenon DEF IInv, OpenInv
<1> QED
  BY <1>3, <1>5

(* A step that leaves the moves alone.                                     *)
LEMMA OpsSame ==
    ASSUME IInv, ops' = ops
    PROVE  OpsStep /\ OpsInv'
BY DEF IInv, TypeInv, OpsTyped, Used, Active, Live, OpsStep, OpsInv

(* A claim is renewed or dropped, or the move settled.                     *)
Rewrites(o, r) ==
    /\ ops' = [ops EXCEPT ![o] = r]
    /\ Shaped(r, OpFields)
    /\ r.source = ops[o].source
    /\ r.target = ops[o].target
    /\ r.gen = ops[o].gen
    /\ \/ r.status = ops[o].status
       \/ Used(o) /\ r.status \in {"completed", "aborted"}
    /\ r.claim # "none" => ops[o].claim # "none"

(* One move is rewritten and keeps its ends and its number.                *)
LEMMA OpEdited ==
    ASSUME IInv, NEW o \in Op, NEW r, Rewrites(o, r)
    PROVE  OpsStep /\ OpsInv'
<1> USE DEF Rewrites
<1>1. OpsTyped
  BY Zenon DEF IInv, TypeInv
<1>2. \A x \in Op : \/ x # o /\ ops'[x] = ops[x]
                    \/ x = o /\ ops'[x] = r
  BY <1>1, Zenon DEF OpsTyped, Shaped
<1>3. Shaped(ops, Op)'
  BY <1>1 DEF OpsTyped, Shaped
<1>4. \A x \in Op : /\ Used(x)' <=> Used(x)
                    /\ Active(x)' => Active(x)
                    /\ ops'[x].source = ops[x].source
                    /\ ops'[x].target = ops[x].target
                    /\ ops'[x].gen = ops[x].gen
                    /\ ops'[x].claim # "none" => ops[x].claim # "none"
  BY <1>2, Zenon DEF Used, Active
<1>5. OpsTyped'
  BY <1>1, <1>2, <1>3, <1>4, Zenon DEF OpsTyped
<1>6. OpsStep
  BY <1>1, <1>4, <1>5 DEF OpsStep, OpsTyped, Live
<1>7. OpsInv'
  BY <1>4, Zenon DEF IInv, OpsInv
<1> QED
  BY <1>6, <1>7, Zenon

-----------------------------------------------------------------------------
(* The kinds of steps of a mover.                                          *)

(* A mover ends.                                                           *)
LEMMA Leaves ==
    ASSUME IInv, Grows, NEW p \in Mover, NEW z, Moves(p, z),
           z.at \in {"idle", "release"}, \A q \in Mover \ {p} : Kept(q)
    PROVE  MoversInv'
<1>1. ~Held(z) /\ ~Online(z) /\ z.at \notin {"count", "fence", "activate"}
  BY Zenon DEF Held, HeldSteps, Online, OnlineSteps
<1>2. RowOf(z)'
  BY Zenon, <1>1
     DEF RowOf, RouteOf, ClaimOf, StageOf, HasRoute, HasClaim, OldSteps,
              OnlineSteps, HeldSteps, Held
<1>3. ~Seeks(z)' /\ ~Rules(z)'
  BY <1>1, Zenon DEF Seeks, Rules, Online, Held
<1> QED
  BY <1>1, <1>2, <1>3, OneMoves

(* A step to where a mover neither may drain the source nor may hand the   *)
(* route over.                                                             *)
Beside == {"claim", "reconcile", "confirm", "restore", "open", "settle"}
              \cup OldSteps

(* A mover goes where it neither seeks the route nor holds a fence.        *)
LEMMA StepsAside ==
    ASSUME IInv, Grows, NEW p \in Mover, NEW z, Moves(p, z), z.at \in Beside,
           RowOf(z)', \A q \in Mover \ {p} : Kept(q)
    PROVE  MoversInv'
<1>1. ~Held(z) /\ ~Online(z) /\ z.at \notin {"count", "fence", "activate"}
  BY Zenon DEF Beside, OldSteps, Held, HeldSteps, Online, OnlineSteps
<1>2. ~Seeks(z)' /\ ~Rules(z)'
  BY <1>1, Zenon DEF Seeks, Rules, Online, Held
<1> QED
  BY <1>1, <1>2, OneMoves, Zenon

SameClaim(m, z) == z.op = m.op /\ z.gen = m.gen /\ z.goal = m.goal

(* A mover that goes on under the same claim.                              *)
LEMMA SameClaimOf ==
    ASSUME IInv, Grows, NEW m, NEW z, RowOf(m), HasClaim(m), SameClaim(m, z)
    PROVE  /\ ClaimOf(z)'
           /\ Claimed(z)' => Claimed(m)
           /\ ops'[z.op].source = ops[m.op].source
           /\ m.op \in Op
           /\ ops[m.op].source \in Alias
           /\ m.goal \in Alias
           /\ ops[m.op].source # m.goal
           /\ Source(m) \in Database
<1>1. m.op \in Op /\ Used(m.op) /\ ops[m.op].target = m.goal
  BY DEF RowOf, ClaimOf
<1>2. /\ m.op \in Op
      /\ ops[m.op].source \in Alias
      /\ m.goal \in Alias
      /\ ops[m.op].source # m.goal
  BY <1>1, Zenon DEF IInv, TypeInv, OpsTyped
<1>3. ClaimOf(m)'
  BY DEF RowOf, ClaimOf, HasClaim, Grows, OpsStep, IInv, TypeInv, OpsTyped
<1>4. ClaimOf(z)'
  BY <1>3, Zenon DEF ClaimOf, SameClaim, HasClaim
<1>5. Claimed(m)' => Claimed(m)
  BY SeeksStays, Zenon DEF IInv
<1>6. Claimed(z)' => Claimed(m)
  BY <1>5 DEF SameClaim, Claimed, Active
<1>7. ops'[z.op].source = ops[m.op].source
  BY <1>1, Zenon DEF SameClaim, Grows, OpsStep
<1> QED
  BY <1>2, <1>4, <1>6, <1>7, PhysicalType, Zenon DEF Source

(* The preparation of a move goes on.                                      *)
LEMMA GoesOn ==
    ASSUME IInv, Grows, NEW p \in Mover, NEW m, m = movers[p], NEW z,
           Moves(p, z), SameClaim(m, z), Online(m), Online(z), z.final = FALSE,
           z.route \in RouteRow, Known(z.route)',
           route'.owner = route.owner, \A q \in Mover \ {p} : Kept(q)
    PROVE  MoversInv'
<1>0. RowOf(m) /\ HasClaim(m)
  BY Zenon DEF IInv, Online, OnlineSteps, HasClaim, OldSteps
<1>1. /\ Claimed(z)' => Claimed(m)
      /\ ClaimOf(z)'
      /\ ops'[z.op].source = ops[m.op].source
  BY <1>0, SameClaimOf, Zenon
<1>2. /\ ~Held(z) /\ z.at \in OnlineSteps
      /\ z.at \notin {"claim", "reconcile", "confirm", "restore", "count",
                      "fence", "activate", "open"} \cup OldSteps
  BY DEF Held, Online, OnlineSteps, OldSteps
<1>3. StageOf(z)'
  <2>1. z.at \notin HeldSteps \ OnlineSteps
    BY <1>2, Zenon
  <2> QED
    BY <1>2, <2>1, Zenon DEF StageOf, Held
<1>4. RowOf(z)'
  BY <1>1, <1>2, <1>3, Zenon DEF RowOf, RouteOf
<1>5. ~Rules(z)'
  BY <1>2 DEF Rules, Held
<1>6. Seeks(z)' => Seeks(m)
  BY <1>1, Zenon DEF Seeks
<1>7. Seeks(z)' => route'.owner \in {ops'[z.op].source, z.goal}
  BY <1>1, <1>6, Zenon DEF IInv, SeekInv, SameClaim
<1>8. Seeks(z)' => \A q \in Mover \ {p} :
                      Rules(movers[q]) => movers[q].goal = z.goal
  BY <1>6, Zenon DEF IInv, RuleInv, SameClaim
<1> QED
  BY <1>2, <1>4, <1>5, <1>7, <1>8, OneMoves, Zenon

(* The cutover goes on, under its fence, with the route it has.            *)
LEMMA HoldsOn ==
    ASSUME IInv, Grows, NEW p \in Mover, NEW m, m = movers[p], NEW z,
           Moves(p, z), SameClaim(m, z), Held(m), Held(z), z.final = TRUE,
           z.route = m.route, route' = route, fence' = fence,
           \A q \in Mover \ {p} : Kept(q)
    PROVE  MoversInv'
<1>0. RowOf(m) /\ HasClaim(m)
  BY Zenon DEF IInv, Held, HeldSteps, HasClaim, OldSteps
<1>1. /\ ClaimOf(z)'
      /\ ops'[z.op].source = ops[m.op].source
  BY <1>0, SameClaimOf, Zenon
<1>2. /\ ~Online(z) /\ z.at \in HeldSteps /\ m.at \in HeldSteps
      /\ z.at \notin {"claim", "reconcile", "confirm", "restore", "count",
                      "fence", "activate", "open"} \cup OldSteps
  BY DEF Held, HeldSteps, Online, OldSteps
<1>3. StageOf(z)'
  <2>1. z.at \notin OnlineSteps \ HeldSteps
    BY <1>2, Zenon
  <2>2. m.route.owner = ops[m.op].source
    BY <1>0, Zenon DEF RowOf, StageOf
  <2> QED
    BY <1>1, <1>2, <2>1, <2>2, Zenon DEF StageOf
<1>4. RouteOf(z)'
  <2>1. /\ m.route \in RouteRow
        /\ Known(m.route) \/ Pending(m)
    BY <1>0, <1>2, Zenon DEF RowOf, RouteOf, HasRoute, HeldSteps
  <2>2. Known(m.route) => Known(z.route)'
    BY <2>1, KnownStays, Zenon DEF IInv, Grows
  <2>3. Pending(m) => Pending(z)'
    BY Zenon DEF Pending, Frozen
  <2> QED
    BY <1>2, <2>1, <2>2, <2>3, Zenon DEF RouteOf, Held
<1>5. RowOf(z)'
  BY <1>1, <1>3, <1>4, Zenon DEF RowOf
<1>6. Rules(z)' => Rules(m)
  BY Zenon DEF Rules, Pending, Frozen, Held, SameClaim
<1>7. ~Seeks(z)'
  BY <1>2 DEF Seeks, Online
<1>8. Rules(z)' => \A q \in Mover \ {p} :
                      Seeks(movers[q]) => movers[q].goal = z.goal
  BY <1>6, Zenon DEF IInv, RuleInv, SameClaim
<1>9. fence'[Physical[ops'[z.op].source]] = p
  BY <1>1 DEF IInv, FenceInv, Source
<1> QED
  BY <1>5, <1>7, <1>8, <1>9, OneMoves, Zenon

-----------------------------------------------------------------------------
(* Steps that leave the route alone.                                       *)

(* A mover goes to another step with its claim and its route, or ends.     *)
Turns(p, step) ==
    \E z : /\ Moves(p, z)
           /\ z.at = step
           /\ SameClaim(movers[p], z)
           /\ z.route = movers[p].route
           /\ z.final = movers[p].final

Quits(p) == \E z : Moves(p, z) /\ z.at \in {"idle", "release"}

(* Goto changes where a mover is, and nothing else of it.                  *)
LEMMA GotoTurns ==
    ASSUME IInv, NEW p \in Mover, NEW step \in Steps, Goto(p, step)
    PROVE  Turns(p, step)
<1> PICK z : z = [movers[p] EXCEPT !.at = step]
  BY Zenon
<1>1. Shaped(movers, Mover) /\ Shaped(movers[p], MoverFields)
  BY DEF IInv, TypeInv
<1>2. movers' = [movers EXCEPT ![p] = z]
  BY <1>1 DEF Goto, Shaped
<1>3. /\ Shaped(z, MoverFields)
      /\ z.at = step
      /\ SameClaim(movers[p], z)
      /\ z.route = movers[p].route
      /\ z.final = movers[p].final
  BY <1>1, Zenon DEF Shaped, MoverFields, SameClaim
<1> QED
  BY <1>2, <1>3, Zenon DEF Turns, Moves

(* A mover that stops or gives up is done, or has its claim to release.    *)
LEMMA StopQuits ==
    ASSUME NEW p \in Mover, Stop(p) \/ GiveUp(p)
    PROVE  Quits(p)
<1>1. ASSUME Stop(p) PROVE Quits(p)
  <2>1. Shaped(Rest, MoverFields) /\ Rest.at = "idle"
    BY DEF Shaped, Rest, MoverFields
  <2> QED
    BY <1>1, <2>1, Zenon DEF Quits, Moves, Stop, Steps
<1>2. ASSUME GiveUp(p) PROVE Quits(p)
  <2> PICK z : z = [Rest EXCEPT !.at = "release", !.op = movers[p].op,
                                !.gen = movers[p].gen]
    OBVIOUS
  <2>1. Shaped(z, MoverFields) /\ z.at = "release"
    BY Zenon DEF Shaped, Rest, MoverFields
  <2> QED
    BY <1>2, <2>1, Zenon DEF Quits, Moves, GiveUp, Steps
<1> QED
  BY <1>1, <1>2

(* What the place of a mover says of it.                                   *)
LEMMA Placed ==
    ASSUME IInv, NEW p \in Mover
    PROVE  /\ RowOf(movers[p])
           /\ movers[p].at \in OnlineSteps \ HeldSteps => Online(movers[p])
           /\ movers[p].at \in HeldSteps \ OnlineSteps => Held(movers[p])
           /\ movers[p].at \in OnlineSteps \cap HeldSteps =>
                 Online(movers[p]) \/ Held(movers[p])
           /\ movers[p].at \in HeldSteps => movers[p].final \in BOOLEAN
           /\ Online(movers[p]) => movers[p].final = FALSE
           /\ Held(movers[p]) => movers[p].final = TRUE
<1>1. RowOf(movers[p])
  BY Zenon DEF IInv
<1>2. /\ movers[p].at \in OnlineSteps \ HeldSteps => movers[p].final = FALSE
      /\ movers[p].at \in HeldSteps \ OnlineSteps => movers[p].final = TRUE
      /\ movers[p].at \in HeldSteps => movers[p].final \in BOOLEAN
  BY <1>1, Zenon DEF RowOf, StageOf
<1> QED
  BY <1>1, <1>2 DEF Online, Held

(* What a step of a mover may do to the tables without touching the route. *)
QuietStep(p) ==
    /\ route' = route
    /\ aborter' = aborter
    /\ FenceStep(p)
    /\ EpochsStep /\ OpenInv'
    /\ OpsStep /\ OpsInv'

(* A step that leaves the tables as the invariant asks, and changes one    *)
(* mover.                                                                  *)
LEMMA QuietKeeps ==
    ASSUME MoveConstants, IInv, NEW p \in Mover, QuietStep(p)
    PROVE  /\ Grows
           /\ \A q \in Mover \ {p} : Kept(q)
           /\ MoversInv' => IInv'
<1>1. RouteStep /\ RouteInv'
  BY RouteSame, Zenon DEF QuietStep
<1>2. Grows
  BY <1>1, Zenon DEF Grows, QuietStep
<1>3. \A q \in Mover \ {p} : Kept(q)
  BY OthersKept, Zenon DEF QuietStep
<1>4. AbortInv' /\ Shaped(aborter, AborterFields)'
  BY <1>2, AbortStays, Zenon DEF QuietStep
<1> QED
  BY <1>1, <1>2, <1>3, <1>4, Assembled, Zenon DEF QuietStep, FenceStep

(* A mover turns to another step of the same stage, or ends.               *)
LEMMA TurnKeeps ==
    ASSUME MoveConstants, IInv, NEW p \in Mover, QuietStep(p),
           \/ Quits(p)
           \/ \E step \in OnlineSteps : Turns(p, step) /\ Online(movers[p])
           \/ \E step \in HeldSteps : /\ Turns(p, step) /\ Held(movers[p])
                                      /\ fence' = fence
    PROVE  IInv'
<1>1. Grows /\ (\A q \in Mover \ {p} : Kept(q)) /\ (MoversInv' => IInv')
  BY QuietKeeps, Zenon
<1> PICK m : m = movers[p]
  BY Zenon
<1>2. CASE Quits(p)
  BY <1>1, <1>2, Leaves DEF Quits
<1>3. ASSUME NEW step \in OnlineSteps, Turns(p, step), Online(m) PROVE IInv'
  <2>1. PICK z : /\ Moves(p, z)
                 /\ z.at = step
                 /\ SameClaim(m, z)
                 /\ z.route = m.route
                 /\ z.final = m.final
    BY <1>3, Zenon DEF Turns
  <2>2. m.route \in RouteRow /\ Known(m.route)
    BY <1>3, Zenon
       DEF IInv, RowOf, RouteOf, HasRoute, Online, OnlineSteps, Held
  <2>3. Known(m.route)'
    BY <1>1, <2>2, KnownStays, Zenon DEF IInv, Grows
  <2>4. Online(z) /\ z.final = FALSE /\ Known(z.route)' /\ z.route \in RouteRow
    BY <1>3, <2>1, <2>2, <2>3, Placed DEF Online
  <2>5. MoversInv'
    BY <1>1, <1>3, <2>1, <2>4, GoesOn, Zenon DEF QuietStep
  <2> QED
    BY <1>1, <2>5, Zenon
<1>4. ASSUME NEW step \in HeldSteps, Turns(p, step), Held(m), fence' = fence
      PROVE  IInv'
  <2>1. PICK z : /\ Moves(p, z)
                 /\ z.at = step
                 /\ SameClaim(m, z)
                 /\ z.route = m.route
                 /\ z.final = m.final
    BY <1>4, Zenon DEF Turns
  <2>2. Held(z) /\ z.final = TRUE
    BY <1>4, <2>1, Placed DEF Held
  <2>3. MoversInv'
    BY <1>1, <1>4, <2>1, <2>2, HoldsOn, Zenon DEF QuietStep
  <2> QED
    BY <1>1, <2>3, Zenon
<1> QED
  BY <1>2, <1>3, <1>4, Zenon

(* A step that leaves the fences alone.                                    *)
LEMMA FencesSame ==
    ASSUME IInv, NEW p, fence' = fence
    PROVE  FenceStep(p)
BY Zenon DEF IInv, TypeInv, FenceStep

(* A step that leaves the tables alone.                                    *)
LEMMA TablesSame ==
    ASSUME IInv, NEW p, UNCHANGED <<route, ops, admission, fence, aborter>>
    PROVE  QuietStep(p)
BY FencesSame, RouteSame, AdmissionSame, OpsSame, Zenon DEF QuietStep

-----------------------------------------------------------------------------
(* The preparation of a move, and the replay of the cutover.               *)

(* Capture, backfill and the copying of pages concern the data only.       *)
LEMMA PreparationLocal ==
    ASSUME MoveConstants, IInv, NEW p \in Mover,
           EnableCapture(p) \/ Reset(p) \/ Backfill(p) \/ ReadPage(p)
              \/ CopyPage(p)
    PROVE  IInv'
<1> PICK m : m = movers[p]
  OBVIOUS
<1>1. QuietStep(p) /\ m.at \in OnlineSteps \ HeldSteps
  BY Zenon, TablesSame DEF EnableCapture, Reset, Backfill, ReadPage, CopyPage,
                    OnlineSteps, HeldSteps
<1>2. Online(m)
  BY <1>1, Placed, Zenon
<1>3. Shaped(movers, Mover) /\ Shaped(m, MoverFields)
  BY Zenon DEF IInv, TypeInv
<1>4. CASE EnableCapture(p)
  <2>1. GiveUp(p) \/ Goto(p, "reserve") \/ Goto(p, "install")
    BY <1>4 DEF EnableCapture
  <2>2. Quits(p) \/ Turns(p, "reserve") \/ Turns(p, "install")
    BY <2>1, GotoTurns, StopQuits, Zenon DEF Steps
  <2> QED
    BY <1>1, <1>2, <2>2, TurnKeeps, Zenon DEF OnlineSteps
<1>5. CASE Reset(p)
  <2>1. GiveUp(p) \/ Goto(p, "markReset")
    BY <1>5, Zenon DEF Reset
  <2>2. Quits(p) \/ Turns(p, "markReset")
    BY <2>1, GotoTurns, StopQuits, Zenon DEF Steps
  <2> QED
    BY <1>1, <1>2, <2>2, TurnKeeps, Zenon DEF OnlineSteps
<1>6. CASE Backfill(p)
  <2> PICK z : z = [m EXCEPT !.cursor = ops[m.op].cursor,
                       !.at = IF m.phase \in {"catch_up", "draining", "cutover"}
                              THEN "replay" ELSE "page"]
    OBVIOUS
  <2>1. movers' = [movers EXCEPT ![p] = z]
    BY <1>3, <1>6, Zenon DEF Backfill, Shaped
  <2>2. /\ Shaped(z, MoverFields) /\ SameClaim(m, z)
        /\ z.at \in {"replay", "page"}
        /\ z.route = m.route /\ z.final = m.final
    BY <1>3, Zenon DEF Shaped, MoverFields, SameClaim
  <2>3. Turns(p, z.at) /\ z.at \in OnlineSteps
    BY <2>1, <2>2, Zenon DEF Turns, Moves, Steps, OnlineSteps
  <2> QED
    BY <1>1, <1>2, <2>3, TurnKeeps
<1>7. CASE ReadPage(p)
  <2> PICK z : movers' = [movers EXCEPT ![p] = z]
               /\ \/ z = [m EXCEPT !.at = "caughtUp"]
                  \/ \E keys, page : z = [m EXCEPT !.keys = keys, !.page = page,
                                                   !.at = "copy"]
    BY <1>7, ZenonT(40) DEF ReadPage
  <2>2. /\ Shaped(z, MoverFields) /\ SameClaim(m, z)
        /\ z.at \in {"caughtUp", "copy"}
        /\ z.route = m.route /\ z.final = m.final
    BY <1>3, Zenon DEF Shaped, MoverFields, SameClaim
  <2>3. Turns(p, z.at) /\ z.at \in OnlineSteps
    BY <2>2, Zenon DEF Turns, Moves, Steps, OnlineSteps
  <2> QED
    BY <1>1, <1>2, <2>3, TurnKeeps, Zenon
<1>8. CASE CopyPage(p)
  <2>1. CASE GiveUp(p)
    BY <1>1, <2>1, StopQuits, TurnKeeps
  <2>2. CASE movers' = [movers EXCEPT ![p].at = "checkpoint",
                                      ![p].page = "absent"]
    <3> PICK z : z = [m EXCEPT !.at = "checkpoint", !.page = "absent"]
      OBVIOUS
    <3>1. movers' = [movers EXCEPT ![p] = z]
      BY <1>3, <2>2, Zenon DEF Shaped
    <3>2. /\ Shaped(z, MoverFields) /\ SameClaim(m, z)
          /\ z.at = "checkpoint"
          /\ z.route = m.route /\ z.final = m.final
      BY <1>3, Zenon DEF Shaped, MoverFields, SameClaim
    <3>3. Turns(p, z.at) /\ z.at \in OnlineSteps
      BY <3>1, <3>2, Zenon DEF Turns, Moves, Steps, OnlineSteps
    <3> QED
      BY <1>1, <1>2, <3>3, TurnKeeps
  <2> QED
    BY <1>8, <2>1, <2>2, Zenon DEF CopyPage
<1> QED
  BY <1>4, <1>5, <1>6, <1>7, <1>8, Zenon

(* Replaying dirty keys concerns the data only.                            *)
LEMMA ReplayLocal ==
    ASSUME MoveConstants, IInv, NEW p \in Mover,
           Replay(p) \/ ReadCurrent(p) \/ SettleKeys(p)
    PROVE  IInv'
<1> PICK m : m = movers[p]
  BY Zenon
<1>1. /\ QuietStep(p) /\ fence' = fence
      /\ m.at \in OnlineSteps \cap HeldSteps
  BY TablesSame, Zenon
     DEF Replay, ReadCurrent, SettleKeys, OnlineSteps, HeldSteps
<1>2. Online(m) \/ Held(m)
  BY <1>1, Placed, Zenon
<1>3. Shaped(movers, Mover) /\ Shaped(m, MoverFields)
  BY Zenon DEF IInv, TypeInv
<1>4. ASSUME NEW step \in OnlineSteps \cap HeldSteps, Turns(p, step)
      PROVE  IInv'
  BY <1>1, <1>2, <1>4, TurnKeeps, Zenon
<1>5. ASSUME NEW z, movers' = [movers EXCEPT ![p] = z],
             Shaped(z, MoverFields), SameClaim(m, z), z.route = m.route,
             z.final = m.final, z.at \in OnlineSteps \cap HeldSteps
      PROVE  IInv'
  <2>1. Turns(p, z.at)
    BY <1>5, Zenon DEF Turns, Moves, Steps, OnlineSteps, HeldSteps
  <2> QED
    BY <1>4, <1>5, <2>1, Zenon
<1>6. CASE Replay(p)
  <2>1. CASE \E k \in Left(m) :
                movers' = [movers EXCEPT ![p].at = "current",
                   ![p].keys = [NoKeys EXCEPT ![k] = dirty[Source(m)][k]],
                   ![p].batches = IF m.final THEN 0 ELSE @ + 1]
    <3> PICK k \in Left(m) :
                movers' = [movers EXCEPT ![p].at = "current",
                   ![p].keys = [NoKeys EXCEPT ![k] = dirty[Source(m)][k]],
                   ![p].batches = IF m.final THEN 0 ELSE @ + 1]
      BY <2>1, Zenon
    <3> PICK keys, n : /\ keys = [NoKeys EXCEPT ![k] = dirty[Source(m)][k]]
                       /\ n = IF m.final THEN 0 ELSE m.batches + 1
      BY Zenon
    <3> PICK z : z = [m EXCEPT !.at = "current", !.keys = keys, !.batches = n]
      OBVIOUS
    <3>1. movers' = [movers EXCEPT ![p] = z]
      BY <1>3, Zenon DEF Shaped, MoverFields
    <3>2. /\ Shaped(z, MoverFields) /\ SameClaim(m, z)
          /\ z.at = "current"
          /\ z.route = m.route /\ z.final = m.final
      BY <1>3, Zenon DEF Shaped, MoverFields, SameClaim
    <3> QED
      BY <1>5, <3>1, <3>2, Zenon DEF OnlineSteps, HeldSteps
  <2>2. CASE Held(m) /\ Goto(p, "close")
    <3>1. Turns(p, "close")
      BY <2>2, GotoTurns DEF Steps
    <3> QED
      BY <1>1, <2>2, <3>1, TurnKeeps, Zenon DEF HeldSteps
  <2>3. CASE GiveUp(p)
    BY <1>1, <2>3, StopQuits, TurnKeeps, Zenon
  <2>4. CASE Online(m) /\ Goto(p, "renew")
    <3>1. Turns(p, "renew")
      BY <2>4, GotoTurns, Zenon DEF Steps
    <3> QED
      BY <1>1, <2>4, <3>1, TurnKeeps, Zenon DEF OnlineSteps
  <2>5. /\ m.final => Held(m)
        /\ ~m.final => Online(m)
    BY <1>1 DEF Held, Online
  <2> QED
    BY <1>6, <2>1, <2>2, <2>3, <2>4, <2>5, Zenon DEF Replay
<1>7. CASE ReadCurrent(p)
  <2> PICK z : z = [m EXCEPT !.at = "upsert",
                             !.page = rows[Source(m)][Selected(m)]]
    OBVIOUS
  <2>1. movers' = [movers EXCEPT ![p] = z]
    BY <1>3, <1>7, Zenon DEF ReadCurrent, Shaped
  <2>2. /\ Shaped(z, MoverFields) /\ SameClaim(m, z)
        /\ z.at = "upsert"
        /\ z.route = m.route /\ z.final = m.final
    BY <1>3, Zenon DEF Shaped, MoverFields, SameClaim
  <2> QED
    BY <1>5, <2>1, <2>2, Zenon DEF OnlineSteps, HeldSteps
<1>8. CASE SettleKeys(p)
  <2> PICK z : z = [m EXCEPT !.at = "replay", !.keys = NoKeys]
    OBVIOUS
  <2>1. movers' = [movers EXCEPT ![p] = z]
    BY <1>3, <1>8, Zenon DEF SettleKeys, Shaped
  <2>2. /\ Shaped(z, MoverFields) /\ SameClaim(m, z)
        /\ z.at = "replay"
        /\ z.route = m.route /\ z.final = m.final
    BY <1>3, Zenon DEF Shaped, MoverFields, SameClaim
  <2> QED
    BY <1>5, <2>1, <2>2, Zenon DEF OnlineSteps, HeldSteps
<1> QED
  BY <1>6, <1>7, <1>8, Zenon

-----------------------------------------------------------------------------
(* Steps that write the move operation, an admission or a fence.           *)

(* A step that writes a move only.                                         *)
LEMMA OpsQuiet ==
    ASSUME IInv, NEW p, UNCHANGED <<route, admission, aborter>>,
           FenceStep(p), OpsStep, OpsInv'
    PROVE  QuietStep(p)
BY RouteSame, AdmissionSame DEF QuietStep

(* A step that writes an admission only.                                   *)
LEMMA AdmissionQuiet ==
    ASSUME IInv, NEW p, UNCHANGED <<route, ops, fence, aborter>>,
           EpochsStep, OpenInv'
    PROVE  QuietStep(p)
BY RouteSame, OpsSame, FencesSame, Zenon DEF QuietStep

(* The steps that renew or check the claim.                                *)
LEMMA ClaimSteps ==
    ASSUME MoveConstants, IInv, NEW p \in Mover,
           MarkReset(p) \/ Checkpoint(p) \/ CaughtUp(p) \/ Renew(p)
    PROVE  IInv'
<1> PICK m : m = movers[p]
  BY Zenon
<1>1. /\ UNCHANGED <<route, admission, aborter>> /\ fence' = fence
      /\ m.at \in OnlineSteps \ HeldSteps
  BY DEF MarkReset, Checkpoint, CaughtUp, Renew, OnlineSteps, HeldSteps
<1>2. Online(m) /\ RowOf(m) /\ HasClaim(m)
  BY <1>1, Placed, Zenon DEF HasClaim, OldSteps, OnlineSteps, HeldSteps
<1>3. m.op \in Op /\ Shaped(ops[m.op], OpFields)
  BY <1>2, Zenon DEF RowOf, ClaimOf, IInv, TypeInv, OpsTyped
<1>4. CASE GiveUp(p) /\ ops' = ops
  BY <1>1, <1>4, TablesSame, StopQuits, TurnKeeps
<1>5. ASSUME Claimed(m), OpsStep, OpsInv', NEW step \in OnlineSteps,
             Turns(p, step)
      PROVE  IInv'
  BY <1>1, <1>2, <1>5, OpsQuiet, FencesSame, TurnKeeps, Zenon
<1>6. CASE MarkReset(p) /\ Claimed(m) /\ ~ops[m.op].reset
  <2>1. /\ Goto(p, "backfill")
        /\ ops' = [ops EXCEPT ![m.op] = [Renewed(m.op) EXCEPT !.reset = TRUE,
                                                     !.phase = "backfill"]]
    BY <1>6 DEF MarkReset
  <2>2. OpsStep /\ OpsInv'
    <3> PICK r : r = [Renewed(m.op) EXCEPT !.reset = TRUE, !.phase = "backfill"]
      OBVIOUS
    <3>1. Rewrites(m.op, r)
      BY <1>3, <1>6, <2>1, Zenon
         DEF Rewrites, Renewed, Shaped, OpFields, Claimed
    <3> QED
      BY <1>3, <3>1, OpEdited
  <2>3. Turns(p, "backfill")
    BY <2>1, GotoTurns DEF Steps
  <2> QED
    BY <1>5, <1>6, <2>2, <2>3, Zenon DEF OnlineSteps
<1>7. CASE /\ Checkpoint(p) /\ Claimed(m)
           /\ ops[m.op].cursor \in {m.cursor, Selected(m)}
  <2>1. /\ movers' = [movers EXCEPT ![p].at = "page",
                     ![p].cursor = Selected(m), ![p].keys = NoKeys]
        /\ ops' = [ops EXCEPT ![m.op] = [Renewed(m.op) EXCEPT
                                !.phase = "backfill", !.cursor = Selected(m)]]
    BY <1>7 DEF Checkpoint
  <2>2. OpsStep /\ OpsInv'
    <3> PICK r : r = [Renewed(m.op) EXCEPT !.phase = "backfill",
                                        !.cursor = Selected(m)]
      OBVIOUS
    <3>1. Rewrites(m.op, r)
      BY <1>3, <1>7, <2>1, Zenon
         DEF Rewrites, Renewed, Shaped, OpFields, Claimed
    <3> QED
      BY <1>3, <3>1, OpEdited
  <2> PICK z : z = [m EXCEPT !.at = "page", !.cursor = Selected(m),
                             !.keys = NoKeys]
    OBVIOUS
  <2>3. Shaped(movers, Mover) /\ Shaped(m, MoverFields)
    BY DEF IInv, TypeInv
  <2>4. movers' = [movers EXCEPT ![p] = z]
    BY <2>1, <2>3, Zenon DEF Shaped
  <2>5. /\ Shaped(z, MoverFields) /\ SameClaim(m, z)
        /\ z.at = "page"
        /\ z.route = m.route /\ z.final = m.final
    BY <2>3, Zenon DEF Shaped, MoverFields, SameClaim
  <2>6. Turns(p, "page")
    BY <2>4, <2>5, Zenon DEF Turns, Moves, Steps
  <2> QED
    BY <1>5, <1>7, <2>2, <2>6, Zenon DEF OnlineSteps
<1>8. CASE CaughtUp(p) /\ Claimed(m)
  <2>1. /\ Goto(p, "renew") \/ Goto(p, "replay")
        /\ ops' = [ops EXCEPT ![m.op] = [Renewed(m.op) EXCEPT
                                            !.phase = "catch_up",
                                            !.reset = TRUE]]
    BY <1>8, Zenon DEF CaughtUp
  <2>2. OpsStep /\ OpsInv'
    <3> PICK r : r = [Renewed(m.op) EXCEPT !.phase = "catch_up", !.reset = TRUE]
      OBVIOUS
    <3>1. Rewrites(m.op, r)
      BY <1>3, <1>8, <2>1, Zenon
         DEF Rewrites, Renewed, Shaped, OpFields, Claimed
    <3> QED
      BY <1>3, <3>1, OpEdited
  <2>3. Turns(p, "renew") \/ Turns(p, "replay")
    BY <2>1, GotoTurns DEF Steps
  <2> QED
    BY <1>5, <1>8, <2>2, <2>3, Zenon DEF OnlineSteps
<1>9. CASE Renew(p) /\ Claimed(m)
  <2>1. Goto(p, "reread") /\ ops' = [ops EXCEPT ![m.op] = Renewed(m.op)]
    BY <1>9, Zenon DEF Renew
  <2>2. OpsStep /\ OpsInv'
    <3> PICK r : r = Renewed(m.op)
      BY Zenon
    <3>1. Rewrites(m.op, r)
      BY <1>3, <1>9, <2>1, Zenon
         DEF Rewrites, Renewed, Shaped, OpFields, Claimed
    <3> QED
      BY <1>3, <3>1, OpEdited
  <2>3. Turns(p, "reread")
    BY <2>1, GotoTurns DEF Steps
  <2> QED
    BY <1>5, <1>9, <2>2, <2>3, Zenon DEF OnlineSteps
<1> QED
  BY <1>4, <1>6, <1>7, <1>8, <1>9 DEF MarkReset, Checkpoint, CaughtUp, Renew

(* A mover lets go of the fence it holds.                                  *)
LEMMA UnfenceStep ==
    ASSUME IInv, NEW p \in Mover, movers[p].final => Held(movers[p]),
           Unfence(p)
    PROVE  FenceStep(p)
<1>1. Shaped(fence, Database)
  BY Zenon DEF IInv, TypeInv
<1>2. CASE movers[p].final
  <2>1. fence[Source(movers[p])] = p
    BY <1>2, HeldFence, Zenon
  <2> QED
    BY <1>1, <1>2, <2>1, Zenon DEF Unfence, FenceStep, Shaped
<1>3. CASE ~movers[p].final
  BY <1>3, FencesSame, Zenon DEF Unfence
<1> QED
  BY <1>2, <1>3, Zenon

(* Upserting a key and entering the cutover phase.                         *)
LEMMA CutoverSteps ==
    ASSUME MoveConstants, IInv, NEW p \in Mover, Upsert(p) \/ PhaseCutover(p)
    PROVE  IInv'
<1> PICK m : m = movers[p]
  BY Zenon
<1>1. m.at \in HeldSteps /\ UNCHANGED <<route, admission, aborter>>
  BY Zenon DEF Upsert, PhaseCutover, HeldSteps
<1>2. /\ Online(m) \/ Held(m)
      /\ m.final => Held(m)
      /\ RowOf(m) /\ HasClaim(m)
      /\ m.at \notin OnlineSteps => Held(m)
  <2>1. m.at = "phaseCutover" \/ m.at = "upsert"
    BY Zenon DEF Upsert, PhaseCutover
  <2>2. m.at \in HeldSteps \ OnlineSteps \/ m.at \in OnlineSteps \cap HeldSteps
    BY <2>1, Zenon DEF OnlineSteps, HeldSteps
  <2>3. HasClaim(m)
    BY <2>1 DEF HasClaim, OldSteps
  <2>4. /\ RowOf(m)
        /\ Online(m) \/ Held(m)
        /\ m.at \notin OnlineSteps => Held(m)
    BY <2>2, Placed, Zenon
  <2> QED
    BY <1>1, <2>3, <2>4 DEF Held
<1>3. m.op \in Op /\ Shaped(ops[m.op], OpFields)
  BY <1>2, Zenon DEF RowOf, ClaimOf, IInv, TypeInv, OpsTyped
<1>4. Unfence(p) => FenceStep(p)
  BY <1>2, UnfenceStep, Zenon
<1>5. ASSUME Stop(p) \/ GiveUp(p), Unfence(p), ops' = ops PROVE IInv'
  BY <1>1, <1>4, <1>5, OpsSame, OpsQuiet, StopQuits, TurnKeeps, Zenon
<1>6. CASE Upsert(p)
  <2>1. CASE ~HoldsTarget(m)
    BY <1>5, <1>6, <2>1, Zenon DEF Upsert, Fail
  <2>2. CASE HoldsTarget(m)
    <3> PICK z : z = [m EXCEPT !.at = "settleKeys", !.page = "absent"]
      BY Zenon
    <3>1. Shaped(movers, Mover) /\ Shaped(m, MoverFields)
      BY Zenon DEF IInv, TypeInv
    <3>2. movers' = [movers EXCEPT ![p] = z]
      BY <1>6, <2>2, <3>1 DEF Upsert, Shaped
    <3>3. /\ Shaped(z, MoverFields) /\ SameClaim(m, z)
          /\ z.at = "settleKeys"
          /\ z.route = m.route /\ z.final = m.final
      BY <3>1, Zenon DEF Shaped, MoverFields, SameClaim
    <3>4. Turns(p, "settleKeys")
      BY <3>2, <3>3, Zenon DEF Turns, Moves, Steps
    <3>5. QuietStep(p) /\ fence' = fence
      BY <1>6, <2>2, TablesSame, Zenon DEF Upsert
    <3> QED
      BY <1>2, <3>4, <3>5, TurnKeeps DEF OnlineSteps, HeldSteps
  <2> QED
    BY <2>1, <2>2, Zenon
<1>7. CASE PhaseCutover(p)
  <2>1. CASE ~Claimed(m)
    BY <1>5, <1>7, <2>1, Zenon DEF PhaseCutover
  <2>2. CASE Claimed(m)
    <3>1. /\ ops' = [ops EXCEPT ![m.op] =
                        [Renewed(m.op) EXCEPT !.phase = "cutover"]]
          /\ Goto(p, "close") \/ Goto(p, "replay")
          /\ fence' = fence
      BY <1>7, <2>2, Zenon DEF PhaseCutover
    <3>2. OpsStep /\ OpsInv'
      <4> PICK r : r = [Renewed(m.op) EXCEPT !.phase = "cutover"]
        BY Zenon
      <4>1. Rewrites(m.op, r)
        BY <1>3, <2>2, <3>1, Zenon
           DEF Rewrites, Renewed, Shaped, OpFields, Claimed
      <4> QED
        BY <1>3, <4>1, OpEdited
    <3>3. QuietStep(p)
      BY <1>1, <3>1, <3>2, FencesSame, OpsQuiet, Zenon
    <3>4. Turns(p, "close") \/ Turns(p, "replay")
      BY <3>1, GotoTurns DEF Steps
    <3>5. Held(m)
      BY <1>2, <1>7, Zenon DEF PhaseCutover, OnlineSteps
    <3> QED
      BY <3>1, <3>3, <3>4, <3>5, TurnKeeps, Zenon DEF HeldSteps
  <2> QED
    BY <2>1, <2>2
<1> QED
  BY <1>6, <1>7, Zenon

(* A route that was just read is known.                                    *)
LEMMA RouteKnown ==
    ASSUME IInv
    PROVE  route \in RouteRow /\ Known(route)
BY DEF IInv, TypeInv, Known, Owned, RouteRow

(* The target's admission is installed and the source's drained: no        *)
(* database is opened.                                                     *)
LEMMA InstallAndDrain ==
    ASSUME MoveConstants, IInv, NEW p \in Mover, Install(p) \/ Drain(p)
    PROVE  IInv'
<1> PICK m : m = movers[p]
  OBVIOUS
<1>1. /\ UNCHANGED <<route, ops, fence, aborter>>
      /\ m.at \in OnlineSteps \ HeldSteps
  BY DEF Install, Drain, OnlineSteps, HeldSteps
<1>2. Online(m) /\ RowOf(m) /\ HasRoute(m)
  BY <1>1, Placed, Zenon DEF HasRoute, OnlineSteps
<1>3. m.route.epoch \in Nat
  BY <1>2, Zenon DEF RowOf, RouteOf, RouteRow
<1>4. CASE admission' = admission /\ GiveUp(p)
  BY <1>1, <1>4, TablesSame, StopQuits, TurnKeeps, Zenon
<1>5. ASSUME EpochsStep, OpenInv', NEW step \in OnlineSteps \cap Steps,
             Goto(p, step)
      PROVE  IInv'
  BY <1>1, <1>2, <1>5, AdmissionQuiet, GotoTurns, TurnKeeps
<1>6. CASE Install(p)
  <2>1. CASE ~MayInstall(m.goal, m.route.epoch + 1, m.op, m.gen)
    BY <1>4, <1>6, <2>1, Zenon DEF Install
  <2>2. CASE MayInstall(m.goal, m.route.epoch + 1, m.op, m.gen)
    <3> PICK d, r : /\ d = Physical[m.goal]
                    /\ r = [alias |-> m.goal, epoch |-> m.route.epoch + 1,
                            state |-> "prepared", op |-> m.op, gen |-> m.gen]
      BY Zenon
    <3>1. /\ admission' = [admission EXCEPT ![d] = r]
          /\ Goto(p, "backfill") \/ Goto(p, "reset")
      BY <1>6, <2>2, Zenon DEF Install
    <3>2. Overwrites(d, r)
      BY <1>3, <2>2, <3>1 DEF Overwrites, MayInstall, IInv, TypeInv,
                              AdmissionsTyped
    <3>3. /\ EpochsStep
          /\ \A x \in Database :
                \/ x # d /\ admission'[x] = admission[x]
                \/ x = d /\ admission'[x] = r
      BY <3>2, AdmissionEdited
    <3>4. OpenInv'
      BY <1>1, <3>3 DEF IInv, OpenInv
    <3> QED
      BY <1>5, <3>1, <3>3, <3>4 DEF OnlineSteps, Steps
  <2> QED
    BY <2>1, <2>2, Zenon
<1>7. CASE Drain(p)
  <2> PICK source : source = ops[m.op].source
    BY Zenon
  <2>1. CASE ~MayTransition(Physical[source], m.route.epoch,
                            {"open", "draining"})
    BY <1>4, <1>7, <2>1, Zenon DEF Drain
  <2>2. CASE MayTransition(Physical[source], m.route.epoch,
                           {"open", "draining"})
    <3>1. /\ Transition(source, m.route.epoch, "draining")
          /\ Goto(p, "markDraining")
      BY <1>7, <2>2, Zenon DEF Drain
    <3>2. EpochsStep /\ OpenInv'
      BY <1>1, <1>3, <2>2, <3>1, Transitions, Zenon
    <3> QED
      BY <1>5, <3>1, <3>2, Zenon DEF OnlineSteps, Steps
  <2> QED
    BY <2>1, <2>2
<1> QED
  BY <1>6, <1>7

(* The mover reads the route again before it drains.                       *)
LEMMA RereadKeeps ==
    ASSUME MoveConstants, IInv, NEW p \in Mover, Reread(p)
    PROVE  IInv'
<1> PICK m, r : m = movers[p] /\ r = route
  OBVIOUS
<1> PICK z : z = [m EXCEPT !.route = r, !.cursor = 0, !.batches = 0,
                    !.reset = FALSE, !.phase = "reserved",
                    !.at = IF r.status = "copying" THEN "drain"
                           ELSE "phaseDraining"]
  OBVIOUS
<1>1. QuietStep(p) /\ route' = route /\ m.at = "reread"
  BY TablesSame, Zenon DEF Reread
<1>2. Grows /\ (\A q \in Mover \ {p} : Kept(q)) /\ (MoversInv' => IInv')
  BY <1>1, QuietKeeps
<1>3. Online(m) /\ m.final = FALSE
  <2>1. m.at \in OnlineSteps \ HeldSteps
    BY <1>1, Zenon DEF OnlineSteps, HeldSteps
  <2> QED
    BY <2>1, Placed, Zenon
<1>4. Shaped(movers, Mover) /\ Shaped(m, MoverFields)
  BY DEF IInv, TypeInv
<1>5. movers' = [movers EXCEPT ![p] = z]
  BY <1>4, Zenon DEF Reread, Shaped
<1>6. /\ Shaped(z, MoverFields) /\ SameClaim(m, z)
      /\ z.at \in {"drain", "phaseDraining"}
      /\ z.route = r /\ z.final = m.final
  BY <1>4, Zenon DEF Shaped, MoverFields, SameClaim
<1>7. Moves(p, z) /\ Online(z) /\ z.final = FALSE
  BY <1>3, <1>5, <1>6, Zenon DEF Moves, Online, OnlineSteps, Steps
<1>8. Known(r)' /\ r \in RouteRow
  BY <1>1, <1>2, RouteKnown, KnownStays DEF Grows, IInv
<1>9. MoversInv'
  BY <1>1, <1>2, <1>3, <1>6, <1>7, <1>8, GoesOn, Zenon
<1> QED
  BY <1>2, <1>9

(* The claim is checked once more before the cutover: the move is the      *)
(* active one, so that every other mover with a claim has the same target. *)
LEMMA PhaseDrainingKeeps ==
    ASSUME MoveConstants, IInv, NEW p \in Mover, PhaseDraining(p)
    PROVE  IInv'
<1> PICK m : m = movers[p]
  BY Zenon
<1>1. /\ UNCHANGED <<route, admission, aborter>> /\ fence' = fence
      /\ m.at = "phaseDraining"
  BY Zenon DEF PhaseDraining
<1>2. Online(m) /\ m.final = FALSE /\ RowOf(m) /\ HasClaim(m) /\ HasRoute(m)
  <2>1. m.at \in OnlineSteps \ HeldSteps
    BY <1>1, Zenon DEF OnlineSteps, HeldSteps
  <2> QED
    BY <1>1, <2>1, Placed, Zenon DEF HasClaim, OldSteps, HasRoute
<1>3. m.op \in Op /\ Shaped(ops[m.op], OpFields)
  BY <1>2, Zenon DEF RowOf, ClaimOf, IInv, TypeInv, OpsTyped
<1>4. CASE ~Claimed(m)
  <2>1. GiveUp(p) /\ ops' = ops
    BY <1>4, Zenon DEF PhaseDraining
  <2> QED
    BY <1>1, <2>1, TablesSame, StopQuits, TurnKeeps
<1>5. CASE Claimed(m)
  <2>1. /\ ops' = [ops EXCEPT ![m.op] =
                      [Renewed(m.op) EXCEPT !.phase = "draining"]]
        /\ Goto(p, "count")
    BY <1>5, Zenon DEF PhaseDraining
  <2>2. OpsStep /\ OpsInv'
    <3> PICK r : r = [Renewed(m.op) EXCEPT !.phase = "draining"]
      BY Zenon
    <3>1. Rewrites(m.op, r)
      BY <1>3, <1>5, <2>1, Zenon
         DEF Rewrites, Renewed, Shaped, OpFields, Claimed
    <3> QED
      BY <1>3, <3>1, OpEdited
  <2>3. QuietStep(p)
    BY <1>1, <2>2, FencesSame, OpsQuiet
  <2>4. Grows /\ (\A q \in Mover \ {p} : Kept(q)) /\ (MoversInv' => IInv')
    BY <2>3, QuietKeeps, Zenon
  <2>5. PICK z : /\ Moves(p, z)
                 /\ z.at = "count"
                 /\ SameClaim(m, z)
                 /\ z.route = m.route
                 /\ z.final = m.final
    BY <2>1, GotoTurns DEF Turns, Steps
  <2>6. /\ ClaimOf(z)'
        /\ ops'[z.op].source = ops[m.op].source
    BY <1>2, <2>4, <2>5, SameClaimOf, Zenon
  <2>7. /\ ~Held(z) /\ ~Online(z)
        /\ z.at \notin {"claim", "reconcile", "confirm", "restore", "fence",
                        "activate", "open"} \cup OldSteps \cup OnlineSteps
                          \cup HeldSteps
    BY <2>5, Zenon DEF Held, HeldSteps, Online, OnlineSteps, OldSteps
  <2>8. m.route \in RouteRow /\ Known(m.route)
    BY <1>2, Zenon DEF RowOf, RouteOf, Online, Held
  <2>9. RouteOf(z)'
    <3>1. Known(m.route)'
      BY <2>4, <2>8, KnownStays, Zenon DEF IInv, Grows
    <3> QED
      BY <2>5, <2>7, <2>8, <3>1, Zenon DEF RouteOf
  <2>10. route.owner \in {ops[m.op].source, m.goal}
    BY <1>2, <1>5, Zenon DEF IInv, SeekInv, Seeks
  <2>11. StageOf(z)'
    <3>1. \/ z.route.version < route'.version
          \/ z.route.owner \in {ops'[z.op].source, z.goal}
      BY <1>1, <2>5, <2>6, <2>8, <2>10 DEF Known, SameClaim, RouteRow, IInv,
                                           TypeInv
    <3> QED
      BY <1>2, <2>5, <2>7, <3>1, Zenon DEF StageOf
  <2>12. RowOf(z)'
    BY <2>6, <2>9, <2>11, Zenon DEF RowOf
  <2>13. \A q \in Mover \ {p} : Seeks(movers[q]) => movers[q].goal = z.goal
    <3> SUFFICES ASSUME NEW q \in Mover \ {p}, Seeks(movers[q])
                 PROVE  movers[q].goal = m.goal
      BY <2>5, Zenon DEF SameClaim
    <3>1. HasClaim(movers[q]) /\ RowOf(movers[q])
      BY Zenon DEF IInv, Seeks, Online, OnlineSteps, HasClaim, OldSteps
    <3>2. movers[q].op = m.op
      BY <1>2, <1>5, <3>1 DEF RowOf, ClaimOf, Seeks, Claimed, IInv, OpsInv
    <3> QED
      BY <1>2, <3>1, <3>2, Zenon DEF RowOf, ClaimOf
  <2>14. ~Seeks(z)'
    BY <2>7, Zenon DEF Seeks, Online
  <2>15. MoversInv'
    BY <2>4, <2>5, <2>7, <2>12, <2>13, <2>14, OneMoves, Zenon
  <2> QED
    BY <2>4, <2>15, Zenon
<1> QED
  BY <1>4, <1>5, Zenon

-----------------------------------------------------------------------------
(* The cutover: from the last count of the work to the handover.           *)

(* The mover waits for the work of the source to end.                      *)
LEMMA CountWorkKeeps ==
    ASSUME MoveConstants, IInv, NEW p \in Mover, CountWork(p)
    PROVE  IInv'
<1> PICK m : m = movers[p]
  OBVIOUS
<1>1. QuietStep(p) /\ ops' = ops /\ route' = route /\ m.at = "count"
  BY TablesSame DEF CountWork
<1>2. Grows /\ (\A q \in Mover \ {p} : Kept(q)) /\ (MoversInv' => IInv')
  BY <1>1, QuietKeeps, Zenon
<1>3. CASE GiveUp(p)
  BY <1>1, <1>3, StopQuits, TurnKeeps, Zenon
<1>4. CASE Goto(p, "fence")
  <2>1. PICK z : /\ Moves(p, z)
                 /\ z.at = "fence"
                 /\ SameClaim(m, z)
                 /\ z.route = m.route
                 /\ z.final = m.final
    BY <1>4, GotoTurns DEF Turns, Steps
  <2>2. RowOf(m) /\ HasClaim(m) /\ HasRoute(m) /\ ~Held(m)
    BY <1>1, Zenon DEF IInv, HasClaim, OldSteps, HasRoute, Held, HeldSteps
  <2>3. ClaimOf(z)'
    BY <1>2, <2>1, <2>2, SameClaimOf, Zenon
  <2>4. /\ ~Held(z) /\ ~Online(z)
        /\ z.at \notin {"claim", "reconcile", "confirm", "restore",
                        "activate", "open"} \cup OldSteps \cup OnlineSteps
                          \cup HeldSteps
    BY <2>1, Zenon DEF Held, HeldSteps, Online, OnlineSteps, OldSteps
  <2>5. RouteOf(z)'
    <3>1. m.route \in RouteRow /\ Known(m.route)
      BY <2>2, Zenon DEF RowOf, RouteOf
    <3>2. Known(m.route)'
      BY <1>2, <3>1, KnownStays DEF IInv, Grows
    <3> QED
      BY <2>1, <2>4, <3>1, <3>2, Zenon DEF RouteOf
  <2>6. StageOf(z)'
    <3>1. /\ m.final = FALSE
          /\ \/ m.route.version < route.version
             \/ m.route.owner \in {ops[m.op].source, m.goal}
      BY <1>1, <2>2 DEF RowOf, StageOf
    <3> QED
      BY <1>1, <2>1, <2>4, <3>1, Zenon DEF StageOf, SameClaim
  <2>7. Rules(z)' => Rules(m)
    BY <1>1, <2>1, Zenon DEF Rules, Pending, Frozen, SameClaim
  <2>8. Rules(z)' => \A q \in Mover \ {p} :
                        Seeks(movers[q]) => movers[q].goal = z.goal
    BY <2>1, <2>7, Zenon DEF IInv, RuleInv, SameClaim
  <2>9. ~Seeks(z)'
    BY <2>4 DEF Seeks, Online
  <2>10. RowOf(z)'
    BY <2>3, <2>5, <2>6, Zenon DEF RowOf
  <2>11. MoversInv'
    BY <1>2, <2>1, <2>4, <2>8, <2>9, <2>10, OneMoves, Zenon
  <2> QED
    BY <1>2, <2>11
<1> QED
  BY <1>3, <1>4, Zenon DEF CountWork

(* The fence is taken only when the route is the one last read.  Then its  *)
(* owner is the source of the move: the target would have ended the step.  *)
LEMMA TakeFenceKeeps ==
    ASSUME MoveConstants, IInv, NEW p \in Mover, TakeFence(p)
    PROVE  IInv'
<1> PICK m : m = movers[p]
  OBVIOUS
<1>1. /\ UNCHANGED <<route, ops, admission, aborter>>
      /\ m.at = "fence" /\ Free(Source(m))
  BY Zenon DEF TakeFence
<1>2. RowOf(m) /\ HasClaim(m) /\ HasRoute(m) /\ ~Held(m)
  BY <1>1, Zenon DEF IInv, HasClaim, OldSteps, HasRoute, Held, HeldSteps
<1>3. CASE fence' = fence /\ (Stop(p) \/ GiveUp(p))
  BY <1>1, <1>3, TablesSame, StopQuits, TurnKeeps
<1>4. CASE /\ fence' = [fence EXCEPT ![Source(m)] = p]
           /\ movers' = [movers EXCEPT ![p].at = "freeze", ![p].final = TRUE]
           /\ route = m.route
           /\ ~(route.status = "active" /\ route.owner = m.goal)
           /\ ~(route.status # "active" /\ route.target # m.goal)
  <2>1. Shaped(fence, Database) /\ Shaped(movers, Mover)
          /\ Shaped(m, MoverFields)
    BY Zenon DEF IInv, TypeInv
  <2>2. FenceStep(p)
    BY <1>1, <1>4, <2>1, Zenon DEF FenceStep, Shaped, Free
  <2>3. QuietStep(p)
    BY <1>1, <2>2, OpsSame, OpsQuiet, Zenon
  <2>4. Grows /\ (\A q \in Mover \ {p} : Kept(q)) /\ (MoversInv' => IInv')
    BY <2>3, QuietKeeps
  <2> PICK z : z = [m EXCEPT !.at = "freeze", !.final = TRUE]
    OBVIOUS
  <2>5. movers' = [movers EXCEPT ![p] = z]
    BY <1>4, <2>1, Zenon DEF Shaped
  <2>6. /\ Shaped(z, MoverFields) /\ SameClaim(m, z)
        /\ z.at = "freeze"
        /\ z.route = m.route /\ z.final = TRUE
    BY <2>1, Zenon DEF Shaped, MoverFields, SameClaim
  <2>7. Moves(p, z)
    BY <2>5, <2>6 DEF Moves, Steps
  <2>8. /\ ClaimOf(z)' /\ Source(m) \in Database
        /\ ops'[z.op].source = ops[m.op].source
    BY <1>2, <2>4, <2>6, SameClaimOf, Zenon
  <2>9. /\ Held(z) /\ ~Online(z)
        /\ z.at \notin {"claim", "reconcile", "confirm", "restore", "count",
                        "fence", "activate", "open"} \cup OldSteps
                          \cup OnlineSteps
        /\ z.at \in HeldSteps
    BY <2>6 DEF Held, HeldSteps, Online, OnlineSteps, OldSteps
  <2>10. m.route.owner = ops[m.op].source
    <3>1. \/ m.route.version < route.version
          \/ m.route.owner \in {ops[m.op].source, m.goal}
      BY <1>1, <1>2, Zenon DEF RowOf, StageOf
    <3>2. m.route.owner # m.goal
      BY <1>4, Zenon DEF IInv, RouteInv
    <3>3. ~(m.route.version < route.version)
      BY <1>4 DEF IInv, TypeInv, RouteRow
    <3> QED
      BY <3>1, <3>2, <3>3, Zenon
  <2>11. RouteOf(z)'
    <3>1. m.route \in RouteRow /\ Known(m.route)
      BY <1>2 DEF RowOf, RouteOf
    <3>2. Known(m.route)'
      BY <2>4, <3>1, KnownStays, Zenon DEF IInv, Grows
    <3> QED
      BY <2>6, <2>9, <3>1, <3>2, Zenon DEF RouteOf
  <2>12. StageOf(z)'
    BY <2>6, <2>8, <2>9, <2>10, Zenon DEF StageOf
  <2>13. RowOf(z)'
    BY <2>8, <2>11, <2>12, Zenon DEF RowOf
  <2>14. Rules(z)' => Rules(m)
    BY <1>1, <2>6 DEF Rules, Pending, Frozen, SameClaim
  <2>15. Rules(z)' => \A q \in Mover \ {p} :
                         Seeks(movers[q]) => movers[q].goal = z.goal
    BY <2>6, <2>14, Zenon DEF IInv, RuleInv, SameClaim
  <2>16. fence'[Physical[ops'[z.op].source]] = p
    BY <1>4, <2>1, <2>8 DEF Source, Shaped
  <2>17. ~Seeks(z)'
    BY <2>9 DEF Seeks, Online
  <2>18. MoversInv'
    BY <2>4, <2>7, <2>13, <2>15, <2>16, <2>17, OneMoves, Zenon
  <2> QED
    BY <2>4, <2>18, Zenon
<1> QED
  BY <1>3, <1>4 DEF TakeFence

(* The route is frozen: outside the control database in a commit of its    *)
(* own, inside it together with the handover.                              *)
LEMMA FreezeKeeps ==
    ASSUME MoveConstants, IInv, NEW p \in Mover, Freeze(p)
    PROVE  IInv'
<1> PICK m : m = movers[p]
  OBVIOUS
<1>1. /\ UNCHANGED <<ops, admission, aborter>>
      /\ m.at = "freeze"
  BY DEF Freeze
<1>2. Held(m) /\ m.final = TRUE /\ RowOf(m) /\ HasClaim(m) /\ HasRoute(m)
  <2>1. m.at \in HeldSteps \ OnlineSteps
    BY <1>1, Zenon DEF OnlineSteps, HeldSteps
  <2> QED
    BY <1>1, <2>1, Placed, Zenon DEF HasClaim, OldSteps, HasRoute
<1>3. CASE route' = route /\ Stop(p) /\ Unfence(p)
  BY <1>1, <1>2, <1>3, UnfenceStep, OpsSame, OpsQuiet, StopQuits, TurnKeeps,
     Zenon
<1>4. CASE route' = route /\ fence' = fence /\ Goto(p, "phaseCutover")
  <2>1. Turns(p, "phaseCutover")
    BY <1>4, GotoTurns DEF Steps
  <2> QED
    BY <1>1, <1>2, <1>4, <2>1, TablesSame, TurnKeeps, Zenon DEF HeldSteps
<1>5. CASE /\ m.route.status = "draining"
           /\ RouteIs(m.route.owner, m.route.version, "draining")
           /\ route.target = m.goal
           /\ movers' = [movers EXCEPT ![p].route = Frozen(m.route),
                                       ![p].at = "phaseCutover"]
           /\ route' = IF m.route.owner = Control THEN route ELSE Frozen(route)
           /\ fence' = fence
  <2>1. m.route = route /\ m.route \in RouteRow
    BY Zenon, <1>2, <1>5, RouteKnown
       DEF RowOf, RouteOf, Pending, Frozen, RouteRow,
                                  Known, RouteIs
  <2> PICK r : r = Frozen(m.route)
    BY Zenon
  <2>2. /\ r \in RouteRow
        /\ r.owner = route.owner /\ r.target = route.target
        /\ r.status = "moving"
        /\ r.version = route.version + 1 /\ r.epoch = route.epoch
    <3> PICK v : v = m.route.version + 1
      BY Zenon
    <3>1. v \in Nat
      BY <2>1 DEF RouteRow
    <3>2. r = [m.route EXCEPT !.status = "moving", !.version = v]
      BY DEF Frozen
    <3>3. /\ r \in RouteRow
          /\ r.owner = m.route.owner /\ r.target = m.route.target
          /\ r.status = "moving"
          /\ r.version = v /\ r.epoch = m.route.epoch
      BY <2>1, <3>1, <3>2, Zenon DEF RouteRow
    <3> QED
      BY <2>1, <3>3, Zenon
  <2>3. /\ RouteStep /\ RouteInv'
        /\ route'.owner = route.owner
        /\ \/ route' = route /\ route.owner = Control
           \/ route' = r /\ route.owner # Control
    <3>1. CASE m.route.owner = Control
      BY <1>5, <2>1, <3>1, RouteSame, Zenon
    <3>2. CASE m.route.owner # Control
      <4>1. route' = r /\ route.owner # Control
        BY <1>5, <2>1, <3>2, Zenon
      <4>2. RouteStep
        BY <2>1, <2>2, <4>1 DEF RouteStep, RouteRow
      <4>3. RouteInv'
        BY <1>5, <2>2, <4>1, Zenon DEF RouteInv, IInv, RouteIs
      <4> QED
        BY <2>2, <4>1, <4>2, <4>3
    <3> QED
      BY <3>1, <3>2, Zenon
  <2>4. EpochsStep /\ OpenInv' /\ OpsStep /\ OpsInv' /\ FenceStep(p)
    BY <1>1, <1>5, <2>3, AdmissionSame, OpsSame, FencesSame
  <2>5. Grows
    BY <2>3, <2>4, Zenon DEF Grows
  <2>6. \A q \in Mover \ {p} : Kept(q)
    BY <2>3, <2>4, OthersKept
  <2>7. AbortInv' /\ Shaped(aborter, AborterFields)'
    BY <1>1, <2>4, <2>5, AbortStays, Zenon
  <2>8. Shaped(movers, Mover) /\ Shaped(m, MoverFields)
    BY DEF IInv, TypeInv
  <2> PICK z : z = [m EXCEPT !.route = r, !.at = "phaseCutover"]
    OBVIOUS
  <2>9. movers' = [movers EXCEPT ![p] = z]
    BY <1>5, <2>8, Zenon DEF Shaped
  <2>10. /\ Shaped(z, MoverFields) /\ SameClaim(m, z)
         /\ z.at = "phaseCutover"
         /\ z.route = r /\ z.final = TRUE
    BY <1>2, <2>8, Zenon DEF Shaped, MoverFields, SameClaim
  <2>11. Moves(p, z)
    BY <2>9, <2>10 DEF Moves, Steps
  <2>12. ClaimOf(z)' /\ ops'[z.op].source = ops[m.op].source
    BY <1>2, <2>5, <2>10, SameClaimOf, Zenon
  <2>13. /\ Held(z) /\ ~Online(z)
         /\ z.at \notin {"idle", "release", "claim", "reconcile", "confirm",
                         "restore", "count", "fence", "activate", "open"}
                          \cup OldSteps \cup OnlineSteps
         /\ z.at \in HeldSteps
    BY <2>10, Zenon DEF Held, HeldSteps, Online, OnlineSteps, OldSteps
  <2>14. RouteOf(z)'
    <3>1. CASE route' = route /\ route.owner = Control
      <4>1. Pending(z)'
        BY <1>5, <2>1, <2>10, <3>1 DEF Pending, RouteIs
      <4> QED
        BY <2>2, <2>10, <2>13, <4>1, Zenon DEF RouteOf, Held
    <3>2. CASE route' = r
      <4>1. Known(r)'
        BY <2>2, <3>2 DEF Known, Owned, RouteRow
      <4> QED
        BY <2>2, <2>10, <2>13, <4>1, Zenon DEF RouteOf
    <3> QED
      BY <2>3, <3>1, <3>2, Zenon
  <2>15. StageOf(z)'
    <3>1. m.route.owner = ops[m.op].source
      BY <1>2, Zenon DEF RowOf, StageOf
    <3>2. z.route.owner = ops'[z.op].source
      BY <2>1, <2>2, <2>10, <2>12, <3>1, Zenon
    <3> QED
      BY <2>10, <2>13, <3>2, Zenon DEF StageOf
  <2>16. RowOf(z)'
    BY <2>12, <2>14, <2>15, Zenon DEF RowOf
  <2>17. Rules(m)
    BY <1>2, <1>5, <2>1 DEF Rules, RouteIs
  <2>18. \A q \in Mover \ {p} : Seeks(movers[q]) => movers[q].goal = z.goal
    BY <2>10, <2>17, Zenon DEF IInv, RuleInv, SameClaim
  <2>19. fence'[Physical[ops'[z.op].source]] = p
    BY <1>2, <1>5, <2>12, Zenon DEF IInv, FenceInv, Source
  <2>20. ~Seeks(z)'
    BY <2>13 DEF Seeks, Online
  <2>21. MoversInv'
    BY <2>5, <2>6, <2>11, <2>16, <2>18, <2>19, <2>20, OneMoves, Zenon
  <2> QED
    BY <2>3, <2>4, <2>5, <2>7, <2>21, Assembled DEF FenceStep
<1> QED
  BY <1>3, <1>4, <1>5, Zenon DEF Freeze

(* The tables of a handover: the source is closed at the next epoch, so no *)
(* admission is open, and who holds a claim seeks the new owner.           *)
LEMMA Handover ==
    ASSUME MoveConstants, IInv, NEW p \in Mover, NEW m, m = movers[p],
           NEW r, r \in RouteRow,
           RowOf(m), HasClaim(m), Rules(m),
           r.owner = route.owner, r.epoch = route.epoch,
           route.version <= r.version,
           route' = Activated(r, m.goal),
           EpochsStep, OpsStep, FenceStep(p),
           route.epoch < admission'[Physical[route.owner]].epoch,
           \A d \in Database : admission'[d].state # "open",
           \/ route.status # "draining"
           \/ fence[Physical[route.owner]] = p
    PROVE  /\ Grows /\ RouteInv' /\ OpenInv'
           /\ \A q \in Mover \ {p} : Kept(q)
           /\ Owned(m.goal, r.epoch + 1)'
           /\ Known(r)'
<1>1. m.goal \in Alias
  BY Zenon DEF RowOf, ClaimOf, IInv, TypeInv, OpsTyped
<1>2. /\ route'.owner = m.goal /\ route'.status = "active"
      /\ route'.target = Nobody
      /\ route'.version = r.version + 1 /\ route'.epoch = r.epoch + 1
      /\ route' \in RouteRow
  BY <1>1 DEF Activated, RouteRow
<1>3. RouteStep
  BY <1>2 DEF RouteStep, RouteRow, IInv, TypeInv
<1>4. Grows
  BY <1>3, Zenon DEF Grows
<1>5. RouteInv' /\ OpenInv'
  BY <1>2, Zenon DEF RouteInv, OpenInv
<1>6. \A q \in Mover \ {p} : Seeks(movers[q]) => movers[q].goal = route'.owner
  BY <1>2, Zenon DEF IInv, RuleInv
<1>7. \A q \in Mover \ {p} : Kept(q)
  BY <1>6, OthersKept, Zenon
<1>8. Owned(m.goal, r.epoch + 1)'
  BY <1>2 DEF Owned, RouteRow
<1>9. Known(r)'
  BY <1>2 DEF Known, Owned, RouteRow
<1> QED
  BY <1>4, <1>5, <1>7, <1>8, <1>9, Zenon

(* What the mover is after the handover.                                   *)
LEMMA OpensNext ==
    ASSUME IInv, Grows, NEW p \in Mover, NEW m, m = movers[p], RowOf(m),
           HasClaim(m), m.route \in RouteRow, Known(m.route)',
           Owned(m.goal, m.route.epoch + 1)', Goto(p, "open"),
           \A q \in Mover \ {p} : Kept(q)
    PROVE  MoversInv'
<1>1. PICK z : /\ Moves(p, z)
               /\ z.at = "open"
               /\ SameClaim(m, z)
               /\ z.route = m.route
               /\ z.final = m.final
  BY GotoTurns DEF Turns, Steps
<1>2. ClaimOf(z)'
  BY <1>1, SameClaimOf, Zenon
<1>3. z.at \notin {"claim", "reconcile", "confirm", "restore", "count",
                   "fence", "activate"} \cup OldSteps \cup OnlineSteps
                     \cup HeldSteps
  BY <1>1, Zenon DEF OldSteps, OnlineSteps, HeldSteps
<1>4. RouteOf(z)'
  BY <1>1, <1>3, Zenon DEF RouteOf
<1>5. StageOf(z)'
  BY <1>1, <1>3, Zenon DEF StageOf, Held, SameClaim
<1>6. RowOf(z)' /\ z.at \in Beside
  BY <1>1, <1>2, <1>4, <1>5, Zenon DEF RowOf, Beside
<1> QED
  BY <1>1, <1>6, StepsAside, Zenon

(* The route is handed over, by a compare-and-swap on its version, after   *)
(* the source was closed at the next epoch.                                *)
LEMMA ActivateKeeps ==
    ASSUME MoveConstants, IInv, NEW p \in Mover, Activate(p)
    PROVE  IInv'
<1> PICK m : m = movers[p]
  OBVIOUS
<1>1. /\ UNCHANGED <<ops, admission, fence, aborter>>
      /\ m.at = "activate"
  BY DEF Activate
<1>2. RowOf(m) /\ HasClaim(m) /\ HasRoute(m) /\ ~Held(m)
  BY <1>1, Zenon DEF IInv, HasClaim, OldSteps, HasRoute, Held, HeldSteps
<1>3. CASE route' = route /\ Stop(p)
  BY <1>1, <1>3, TablesSame, StopQuits, TurnKeeps, Zenon
<1>4. CASE /\ RouteIs(m.route.owner, m.route.version, "moving")
           /\ route.target = m.goal
           /\ route' = Activated(route, m.goal)
           /\ Goto(p, "open")
  <2>1. m.route = route /\ m.route \in RouteRow
    BY <1>2, <1>4, Zenon DEF RowOf, RouteOf, Known, RouteIs
  <2>2. Rules(m)
    BY <1>1, <1>4, <2>1, Zenon DEF Rules, RouteIs
  <2>3. route.epoch < admission[Physical[route.owner]].epoch
    BY <1>1, <1>2, <2>1, Zenon DEF RowOf, StageOf
  <2>4. \A d \in Database : admission[d].state # "open"
    <3> SUFFICES ASSUME NEW d \in Database, admission[d].state = "open"
                 PROVE  FALSE
      BY Zenon
    <3>1. d = Physical[route.owner] /\ admission[d].epoch <= route.epoch
      BY Zenon DEF IInv, OpenInv
    <3>2. admission[d].epoch \in Nat /\ route.epoch \in Nat
      BY DEF IInv, TypeInv, AdmissionsTyped, RouteRow
    <3> QED
      BY <2>3, <3>1, <3>2
  <2>5. EpochsStep /\ OpsStep /\ OpsInv' /\ FenceStep(p)
    <3>1. EpochsStep
      BY <1>1 DEF IInv, TypeInv, EpochsStep, AdmissionsTyped
    <3> QED
      BY <1>1, <3>1, OpsSame, FencesSame, Zenon
  <2>6. route.version <= m.route.version /\ route.status # "draining"
    BY <1>4, <2>1 DEF RouteRow, RouteIs
  <2>7. /\ Grows /\ RouteInv' /\ OpenInv'
        /\ \A q \in Mover \ {p} : Kept(q)
        /\ Owned(m.goal, m.route.epoch + 1)'
        /\ Known(m.route)'
    BY <1>1, <1>2, <1>4, <2>1, <2>2, <2>3, <2>4, <2>5, <2>6, Handover, Zenon
  <2>8. MoversInv'
    BY <1>2, <1>4, <2>1, <2>7, OpensNext, Zenon
  <2>9. AbortInv' /\ Shaped(aborter, AborterFields)'
    BY <1>1, <2>5, <2>7, AbortStays, Zenon
  <2> QED
    BY <2>5, <2>7, <2>8, <2>9, Assembled, Zenon DEF FenceStep
<1> QED
  BY <1>3, <1>4, Zenon DEF Activate

(* The source closes under its fence.  On the control database the route   *)
(* is still the one it was before it was frozen, since only this mover has *)
(* the fence.                                                              *)
LEMMA CloseKeeps ==
    ASSUME MoveConstants, IInv, NEW p \in Mover, Close(p)
    PROVE  IInv'
<1> PICK m, d : m = movers[p] /\ d = Source(m)
  BY Zenon
<1>1. /\ UNCHANGED <<ops, aborter>>
      /\ m.at = "close"
      /\ fence' = [fence EXCEPT ![d] = Nobody]
  BY Zenon DEF Close
<1>2. Held(m) /\ m.final = TRUE /\ RowOf(m) /\ HasClaim(m) /\ HasRoute(m)
  <2>1. m.at \in HeldSteps \ OnlineSteps
    BY <1>1 DEF OnlineSteps, HeldSteps
  <2> QED
    BY <1>1, <2>1, Placed, Zenon DEF HasClaim, OldSteps, HasRoute
<1>3. /\ d \in Database /\ fence[d] = p
      /\ m.route \in RouteRow
      /\ d = Physical[m.route.owner]
      /\ m.route.owner = ops[m.op].source
  BY <1>2, HeldFence, Zenon DEF RowOf, RouteOf, StageOf, Source
<1>4. FenceStep(p)
  BY <1>1, <1>3, Zenon DEF FenceStep, Shaped, IInv, TypeInv
<1>5. OpsStep /\ OpsInv'
  BY <1>1, OpsSame, Zenon
<1>6. CASE Stop(p) /\ UNCHANGED <<route, admission>>
  BY <1>1, <1>4, <1>5, <1>6, OpsQuiet, StopQuits, TurnKeeps
<1> PICK r : r = [alias |-> m.route.owner, epoch |-> m.route.epoch + 1,
                  state |-> "closed", op |-> 0, gen |-> 0]
  BY Zenon
<1>7. ASSUME MayTransition(d, m.route.epoch + 1, {"closed"}),
             admission' = [admission EXCEPT ![d] = r]
      PROVE  /\ EpochsStep
             /\ admission'[d].state = "closed"
             /\ m.route.epoch < admission'[d].epoch
             /\ \A x \in Database \ {d} : admission'[x] = admission[x]
  <2>1. Overwrites(d, r)
    <3> PICK e : e = m.route.epoch + 1
      BY Zenon
    <3>1. e \in Nat /\ r.epoch = e /\ r.state = "closed"
      <4>1. m.route.epoch \in Nat
        BY <1>3, Zenon DEF RouteRow
      <4>2. e \in Nat
        BY <4>1
      <4> QED
        BY <4>2, Zenon
    <3>2. admission[d].state = "none" \/ admission[d].epoch <= e
      <4>1. admission[d].epoch \in Nat
        BY <1>3, Zenon DEF IInv, TypeInv, AdmissionsTyped
      <4>2. MayTransition(d, e, {"closed"})
        BY <1>7, Zenon
      <4> QED
        BY <3>1, <4>1, <4>2 DEF MayTransition
    <3> QED
      BY <1>7, <3>1, <3>2, Zenon DEF Overwrites
  <2>2. /\ EpochsStep
        /\ \A x \in Database :
              \/ x # d /\ admission'[x] = admission[x]
              \/ x = d /\ admission'[x] = r
    BY <2>1, AdmissionEdited
  <2>3. admission'[d] = r
    BY <1>3, <2>2, Zenon
  <2>4. m.route.epoch < m.route.epoch + 1
    BY <1>3 DEF RouteRow
  <2> QED
    BY <2>2, <2>3, <2>4
<1>8. CASE /\ MayTransition(d, m.route.epoch + 1, {"closed"})
           /\ admission' = [admission EXCEPT ![d] = r]
           /\ m.route.owner # Control
           /\ route' = route
           /\ Goto(p, "activate")
  <2>1. /\ EpochsStep
        /\ admission'[d].state = "closed"
        /\ m.route.epoch < admission'[d].epoch
        /\ \A x \in Database \ {d} : admission'[x] = admission[x]
    BY <1>7, <1>8, Zenon
  <2>2. OpenInv'
    BY <1>8, <2>1, Zenon DEF IInv, OpenInv
  <2>3. QuietStep(p)
    BY <1>1, <1>4, <1>5, <1>8, <2>1, <2>2, Zenon DEF QuietStep
  <2>4. Grows /\ (\A q \in Mover \ {p} : Kept(q)) /\ (MoversInv' => IInv')
    BY <2>3, QuietKeeps, Zenon
  <2>5. PICK z : /\ Moves(p, z)
                 /\ z.at = "activate"
                 /\ SameClaim(m, z)
                 /\ z.route = m.route
                 /\ z.final = m.final
    BY <1>8, GotoTurns DEF Turns, Steps
  <2>6. ClaimOf(z)' /\ ops'[z.op].source = ops[m.op].source
    BY <1>2, <2>4, <2>5, SameClaimOf, Zenon
  <2>7. /\ ~Held(z) /\ ~Online(z)
        /\ z.at \notin {"claim", "reconcile", "confirm", "restore", "count",
                        "fence", "open"} \cup OldSteps \cup OnlineSteps
                          \cup HeldSteps
    BY <2>5, Zenon DEF Held, HeldSteps, Online, OnlineSteps, OldSteps
  <2>8. RouteOf(z)'
    <3>1. ~Pending(m)
      BY <1>8, Zenon DEF Pending, Frozen, IInv, TypeInv, RouteRow
    <3>2. Known(m.route)
      BY <1>2, <3>1, Zenon DEF RowOf, RouteOf
    <3>3. Known(m.route)'
      BY <1>3, <2>4, <3>2, KnownStays, Zenon DEF IInv, Grows
    <3> QED
      BY <1>3, <2>5, <2>7, <3>3, Zenon DEF RouteOf
  <2>9. StageOf(z)'
    BY <1>3, <2>1, <2>5, <2>6, <2>7, Zenon DEF StageOf
  <2>10. RowOf(z)'
    BY <2>6, <2>8, <2>9, Zenon DEF RowOf
  <2>11. Rules(z)' => Rules(m)
    BY <1>2, <1>8, <2>5, Zenon DEF Rules, Pending, Frozen, SameClaim
  <2>12. Rules(z)' => \A q \in Mover \ {p} :
                         Seeks(movers[q]) => movers[q].goal = z.goal
    BY <2>5, <2>11, Zenon DEF IInv, RuleInv, SameClaim
  <2>13. ~Seeks(z)'
    BY <2>7, Zenon DEF Seeks, Online
  <2>14. MoversInv'
    BY <2>4, <2>5, <2>7, <2>10, <2>12, <2>13, OneMoves, Zenon
  <2> QED
    BY <2>4, <2>14, Zenon
<1>9. CASE /\ MayTransition(d, m.route.epoch + 1, {"closed"})
           /\ admission' = [admission EXCEPT ![d] = r]
           /\ m.route.owner = Control
           /\ m.route.status = "moving"
           /\ m.route.target = m.goal
           /\ route.owner = m.route.owner
           /\ route.version \in {m.route.version - 1, m.route.version}
           /\ route' = Activated(m.route, m.goal)
           /\ Goto(p, "open")
  <2>1. /\ EpochsStep
        /\ admission'[d].state = "closed"
        /\ m.route.epoch < admission'[d].epoch
        /\ \A x \in Database \ {d} : admission'[x] = admission[x]
    BY <1>7, <1>9, Zenon
  <2>2. Pending(m)
    <3>1. ~Known(m.route)
      <4>1. route.status # "moving"
        BY <1>9, Zenon DEF IInv, RouteInv
      <4>2. m.route.version \in Nat /\ route.version \in Nat
        BY <1>3 DEF RouteRow, IInv, TypeInv
      <4> QED
        BY <1>9, <4>1, <4>2 DEF Known
    <3> QED
      BY <1>2, <3>1, Zenon DEF RowOf, RouteOf
  <2>3. /\ m.route.epoch = route.epoch
        /\ m.route.target = route.target
        /\ route.version <= m.route.version
    <3>1. m.route = Frozen(route) /\ route \in RouteRow
      BY <2>2, Zenon DEF Pending, IInv, TypeInv
    <3> QED
      BY <3>1 DEF Frozen, RouteRow
  <2>4. Rules(m)
    BY <1>2, <1>9, <2>2, <2>3, Zenon DEF Rules, Pending
  <2>5. \A x \in Database : admission'[x].state # "open"
    BY <1>3, <1>9, <2>1, Zenon DEF IInv, OpenInv
  <2>6. /\ Grows /\ RouteInv' /\ OpenInv'
        /\ \A q \in Mover \ {p} : Kept(q)
        /\ Owned(m.goal, m.route.epoch + 1)'
        /\ Known(m.route)'
    <3>1. /\ route.epoch < admission'[Physical[route.owner]].epoch
          /\ fence[Physical[route.owner]] = p
          /\ m.route.owner = route.owner
          /\ route' = Activated(m.route, m.goal)
      BY <1>3, <1>9, <2>1, <2>3, Zenon
    <3> QED
      BY <1>2, <1>3, <1>4, <1>5, <2>1, <2>3, <2>4, <2>5, <3>1, Handover, Zenon
  <2>7. MoversInv'
    BY <1>2, <1>3, <1>9, <2>6, OpensNext, Zenon
  <2>8. AbortInv' /\ Shaped(aborter, AborterFields)'
    BY <1>1, <1>4, <2>6, AbortStays, Zenon
  <2> QED
    BY <1>4, <1>5, <2>6, <2>7, <2>8, Assembled, Zenon DEF FenceStep
<1> QED
  BY <1>6, <1>8, <1>9 DEF Close


-----------------------------------------------------------------------------
(* The end of a move, and the retry of one whose route arrived already.    *)

(* A mover goes on beside the preparation and the cutover.                 *)
LEMMA AsideKeeps ==
    ASSUME MoveConstants, IInv, NEW p \in Mover, QuietStep(p),
           NEW z, Moves(p, z), z.at \in Beside, RowOf(z)'
    PROVE  IInv'
<1>1. Grows /\ (\A q \in Mover \ {p} : Kept(q)) /\ (MoversInv' => IInv')
  BY QuietKeeps
<1> QED
  BY <1>1, StepsAside

(* A mover stops.                                                          *)
LEMMA QuitKeeps ==
    ASSUME MoveConstants, IInv, NEW p \in Mover, QuietStep(p),
           Stop(p) \/ GiveUp(p)
    PROVE  IInv'
BY StopQuits, TurnKeeps

(* A mover whose route arrived already goes on with its retry.             *)
LEMMA OldRow ==
    ASSUME IInv, Grows, NEW m, m.route.owner = m.goal, m.route \in RouteRow,
           Known(m.route), NEW z, z.at \in OldSteps, z.route = m.route,
           z.goal = m.goal
    PROVE  RowOf(z)'
<1>1. z.at \notin {"idle", "release", "claim", "reconcile", "confirm",
                   "restore", "count", "fence", "activate", "open"}
                     \cup OnlineSteps \cup HeldSteps
  BY Zenon DEF OldSteps, OnlineSteps, HeldSteps
<1>2. Known(m.route)'
  BY KnownStays, Zenon DEF IInv, Grows
<1>3. RouteOf(z)' /\ ClaimOf(z)'
  BY <1>1, <1>2, Zenon DEF RouteOf, ClaimOf, HasClaim
<1>4. StageOf(z)'
  BY <1>1, Zenon DEF StageOf, Held
<1> QED
  BY <1>3, <1>4, Zenon DEF RowOf

(* What is known in the retry of a move whose route arrived.               *)
LEMMA OldSource ==
    ASSUME IInv, NEW p \in Mover, movers[p].at \in OldSteps
    PROVE  /\ movers[p].route.owner = movers[p].goal
           /\ movers[p].route \in RouteRow
           /\ Known(movers[p].route)
           /\ movers[p].goal \in Alias
           /\ movers[p].route.epoch \in Nat
           /\ Owned(movers[p].goal, movers[p].route.epoch)
<1> PICK m : m = movers[p]
  BY Zenon
<1>1. RowOf(m) /\ HasRoute(m) /\ ~Held(m)
  BY Zenon DEF IInv, OldSteps, HasRoute, Held, HeldSteps
<1>2. m.route.owner = m.goal /\ m.route \in RouteRow /\ Known(m.route)
  BY <1>1, Zenon DEF RowOf, RouteOf
<1> QED
  BY <1>2 DEF RouteRow, Known

(* The retry closes the old source, opens the new owner and drops the old  *)
(* data.                                                                   *)
LEMMA RetryKeeps ==
    ASSUME MoveConstants, IInv, NEW p \in Mover,
           CloseOld(p) \/ OpenNew(p) \/ DropOld(p)
    PROVE  IInv'
<1> PICK m : m = movers[p]
  BY Zenon
<1>1. /\ UNCHANGED <<route, ops, fence, aborter>>
      /\ m.at \in OldSteps
  BY Zenon DEF CloseOld, OpenNew, DropOld, OldSteps
<1>2. /\ m.route.owner = m.goal /\ m.route \in RouteRow /\ Known(m.route)
      /\ m.goal \in Alias /\ m.route.epoch \in Nat
      /\ Owned(m.goal, m.route.epoch)
  BY <1>1, OldSource, Zenon
<1>3. ASSUME QuietStep(p), NEW step \in OldSteps, Goto(p, step) PROVE IInv'
  <2>1. step \in Steps
    BY <1>3, Zenon DEF OldSteps, Steps
  <2>2. PICK z : /\ Moves(p, z)
                 /\ z.at = step
                 /\ SameClaim(m, z)
                 /\ z.route = m.route
                 /\ z.final = m.final
    BY <1>3, <2>1, GotoTurns DEF Turns
  <2>3. Grows
    BY <1>3, QuietKeeps, Zenon
  <2>4. RowOf(z)' /\ z.at \in Beside
    BY <1>2, <1>3, <2>2, <2>3, OldRow, Zenon DEF SameClaim, Beside
  <2> QED
    BY <1>3, <2>2, <2>4, AsideKeeps, Zenon
<1>4. CASE CloseOld(p)
  <2> PICK old : old = ops[m.op].source
    BY Zenon
  <2>1. CASE admission' = admission
    <3>1. Goto(p, "openNew") \/ Stop(p)
      BY <1>4, Zenon DEF CloseOld
    <3>2. QuietStep(p)
      BY <1>1, <2>1, TablesSame, Zenon
    <3> QED
      BY <1>3, <3>1, <3>2, QuitKeeps, Zenon DEF OldSteps
  <2>2. CASE /\ MayTransition(Physical[old], m.route.epoch, {"closed"})
             /\ Transition(old, m.route.epoch, "closed")
             /\ Goto(p, "openNew")
    <3>1. EpochsStep /\ OpenInv'
      BY <1>1, <1>2, <2>2, Transitions, Zenon
    <3> QED
      BY <1>1, <1>3, <2>2, <3>1, AdmissionQuiet DEF OldSteps
  <2> QED
    BY <1>4, <2>1, <2>2, Zenon DEF CloseOld
<1>5. CASE OpenNew(p)
  <2>1. CASE admission' = admission /\ Stop(p)
    BY <1>1, <2>1, TablesSame, QuitKeeps, Zenon
  <2>2. CASE /\ MayTransition(Physical[m.goal], m.route.epoch,
                              {"prepared", "closed", "open"})
             /\ Transition(m.goal, m.route.epoch, "open")
             /\ Goto(p, "dropOld") \/ Stop(p)
    <3>1. EpochsStep /\ OpenInv'
      BY <1>1, <1>2, <2>2, Transitions, Zenon
    <3> QED
      BY <1>1, <1>3, <2>2, <3>1, AdmissionQuiet, QuitKeeps, Zenon DEF OldSteps
  <2> QED
    BY <1>5, <2>1, <2>2, Zenon DEF OpenNew
<1>6. CASE DropOld(p)
  <2>1. QuietStep(p) /\ Goto(p, "settleOld")
    BY <1>6, TablesSame, Zenon DEF DropOld
  <2> QED
    BY <1>3, <2>1, Zenon DEF OldSteps
<1> QED
  BY <1>4, <1>5, <1>6

(* The move is settled, or its claim dropped.                              *)
LEMMA Settled ==
    ASSUME IInv, NEW o,
           \/ /\ Active(o)
              /\ \E status \in {"completed", "aborted"} :
                    ops' = [ops EXCEPT ![o].status = status, ![o].claim = "none"]
           \/ ops' = [ops EXCEPT ![o].claim = "none"]
           \/ ops[o].claim = "held" /\ ops' = [ops EXCEPT ![o].claim = "expired"]
    PROVE  OpsStep /\ OpsInv'
<1>1. OpsTyped
  BY Zenon DEF IInv, TypeInv
<1>2. CASE o \notin Op
  <2>1. ops' = ops
    BY <1>1, <1>2, Zenon DEF OpsTyped, Shaped
  <2> QED
    BY <2>1, OpsSame, Zenon
<1>3. CASE o \in Op
  <2>1. Shaped(ops, Op) /\ Shaped(ops[o], OpFields)
    BY <1>1, <1>3, Zenon DEF OpsTyped
  <2>2. CASE Active(o) /\ \E status \in {"completed", "aborted"} :
                 ops' = [ops EXCEPT ![o].status = status, ![o].claim = "none"]
    <3>1. PICK status \in {"completed", "aborted"} :
                 ops' = [ops EXCEPT ![o].status = status, ![o].claim = "none"]
      BY <2>2, Zenon
    <3> PICK r : r = [ops[o] EXCEPT !.status = status, !.claim = "none"]
      OBVIOUS
    <3>2. ops' = [ops EXCEPT ![o] = r]
      BY <1>3, <2>1, <3>1, Zenon DEF Shaped
    <3>3. Rewrites(o, r)
      BY <2>1, <2>2, <3>1, <3>2, Zenon
         DEF Rewrites, Shaped, OpFields, Used, Active
    <3> QED
      BY <1>3, <3>3, OpEdited
  <2>3. CASE ops' = [ops EXCEPT ![o].claim = "none"]
    <3> PICK r : r = [ops[o] EXCEPT !.claim = "none"]
      BY Zenon
    <3>1. ops' = [ops EXCEPT ![o] = r]
      BY <1>3, <2>1, <2>3, Zenon DEF Shaped
    <3>2. Rewrites(o, r)
      BY <2>1, <3>1, Zenon DEF Rewrites, Shaped, OpFields
    <3> QED
      BY <1>3, <3>2, OpEdited, Zenon
  <2>4. CASE ops[o].claim = "held" /\ ops' = [ops EXCEPT ![o].claim = "expired"]
    <3> PICK r : r = [ops[o] EXCEPT !.claim = "expired"]
      BY Zenon
    <3>1. ops' = [ops EXCEPT ![o] = r]
      BY <1>3, <2>1, <2>4, Zenon DEF Shaped
    <3>2. Rewrites(o, r)
      BY <2>1, <2>4, <3>1, Zenon DEF Rewrites, Shaped, OpFields
    <3> QED
      BY <1>3, <3>2, OpEdited
  <2> QED
    BY <2>2, <2>3, <2>4, Zenon
<1> QED
  BY <1>2, <1>3, Zenon

(* A move is settled, or its claim released.                               *)
LEMMA SettleSteps ==
    ASSUME MoveConstants, IInv, NEW p \in Mover,
           Settle(p) \/ SettleOld(p) \/ Release(p)
    PROVE  IInv'
<1> PICK o : o = movers[p].op
  BY Zenon
<1>1. UNCHANGED <<route, admission, aborter>> /\ fence' = fence /\ Stop(p)
  BY Zenon DEF Settle, SettleOld, Release
<1>2. \/ ops' = ops
      \/ /\ Active(o)
         /\ ops' = [ops EXCEPT ![o].status = "completed", ![o].claim = "none"]
      \/ ops' = [ops EXCEPT ![o].claim = "none"]
  BY Zenon DEF Settle, SettleOld, Release, Claimed
<1>3. OpsStep /\ OpsInv'
  <2>1. CASE ops' = ops
    BY <2>1, OpsSame
  <2>2. CASE /\ Active(o)
             /\ ops' = [ops EXCEPT ![o].status = "completed",
                                   ![o].claim = "none"]
    <3>1. \E status \in {"completed", "aborted"} :
             ops' = [ops EXCEPT ![o].status = status, ![o].claim = "none"]
      BY <2>2
    <3> QED
      BY <2>2, <3>1, Settled, Zenon
  <2>3. CASE ops' = [ops EXCEPT ![o].claim = "none"]
    BY <2>3, Settled, Zenon
  <2> QED
    BY <1>2, <2>1, <2>2, <2>3
<1> QED
  BY <1>1, <1>3, FencesSame, OpsQuiet, QuitKeeps, Zenon

(* The target is opened at the epoch it was handed the route.              *)
LEMMA OpenKeeps ==
    ASSUME MoveConstants, IInv, NEW p \in Mover, Open(p)
    PROVE  IInv'
<1> PICK m : m = movers[p]
  BY Zenon
<1>1. UNCHANGED <<route, ops, fence, aborter>> /\ m.at = "open"
  BY Zenon DEF Open
<1>2. RowOf(m) /\ HasClaim(m) /\ HasRoute(m) /\ ~Held(m)
  BY <1>1, Zenon DEF IInv, HasClaim, OldSteps, HasRoute, Held, HeldSteps
<1> PICK e : e = m.route.epoch + 1
  BY Zenon
<1>3. /\ m.route \in RouteRow /\ Known(m.route) /\ e \in Nat
      /\ m.goal \in Alias /\ Owned(m.goal, e)
  <2>1. m.route \in RouteRow /\ Known(m.route)
    BY <1>2, Zenon DEF RowOf, RouteOf
  <2>2. e \in Nat
    BY <2>1 DEF RouteRow
  <2>3. m.goal \in Alias
    BY <1>2, Zenon DEF RowOf, ClaimOf, IInv, TypeInv, OpsTyped
  <2>4. Owned(m.goal, e)
    BY <1>1, <1>2, Zenon DEF RowOf, StageOf
  <2> QED
    BY <2>1, <2>2, <2>3, <2>4, Zenon
<1>4. CASE admission' = admission /\ Stop(p)
  BY <1>1, <1>4, TablesSame, QuitKeeps, Zenon
<1>5. CASE /\ MayTransition(Physical[m.goal], e, {"prepared", "closed", "open"})
           /\ Transition(m.goal, e, "open")
           /\ Goto(p, "settle")
  <2>1. EpochsStep /\ OpenInv'
    BY <1>1, <1>3, <1>5, Transitions, Zenon
  <2>2. QuietStep(p)
    BY <1>1, <2>1, AdmissionQuiet, Zenon
  <2>3. Grows
    BY <2>2, QuietKeeps, Zenon
  <2>4. PICK z : /\ Moves(p, z)
                 /\ z.at = "settle"
                 /\ SameClaim(m, z)
                 /\ z.route = m.route
                 /\ z.final = m.final
    BY <1>5, GotoTurns DEF Turns, Steps
  <2>5. ClaimOf(z)'
    BY <1>2, <2>3, <2>4, SameClaimOf, Zenon
  <2>6. Known(m.route)'
    BY <1>3, <2>3, KnownStays, Zenon DEF IInv, Grows
  <2>7. /\ z.at \notin {"claim", "reconcile", "confirm", "restore", "count",
                        "fence", "activate", "open"} \cup OldSteps
                          \cup OnlineSteps \cup HeldSteps
        /\ z.at \in Beside
    BY <2>4, Zenon DEF OldSteps, OnlineSteps, HeldSteps, Beside
  <2>8. RouteOf(z)' /\ StageOf(z)'
    BY <1>3, <2>4, <2>6, <2>7 DEF RouteOf, StageOf, Held
  <2> QED
    BY <2>2, <2>4, <2>5, <2>7, <2>8, AsideKeeps, Zenon DEF RowOf
<1> QED
  BY <1>4, <1>5 DEF Open

-----------------------------------------------------------------------------
(* The beginning of a move.                                                *)

(* A move starts from the route it reads.                                  *)
LEMMA StartKeeps ==
    ASSUME MoveConstants, IInv, NEW p \in Mover, NEW goal \in Alias,
           Start(p, goal)
    PROVE  IInv'
<1>1. QuietStep(p) /\ route' = route
  BY TablesSame, Zenon DEF Start
<1>2. Grows
  BY <1>1, QuietKeeps, Zenon
<1> PICK r : r = route
  BY Zenon
<1>3. r \in RouteRow /\ Known(r)
  BY RouteKnown, Zenon
<1>4. CASE /\ route.owner = goal
           /\ movers' = [movers EXCEPT ![p] =
                 [Rest EXCEPT !.at = "closeOld", !.goal = goal,
                              !.route = route, !.op = LatestMoveTo(goal),
                              !.final = Active(LatestMoveTo(goal))]]
  <2> PICK o, f : o = LatestMoveTo(goal) /\ f = Active(LatestMoveTo(goal))
    BY Zenon
  <2> PICK z : z = [Rest EXCEPT !.at = "closeOld", !.goal = goal, !.route = r,
                                !.op = o, !.final = f]
    OBVIOUS
  <2>1. movers' = [movers EXCEPT ![p] = z]
    BY <1>4, Zenon
  <2>2. /\ Shaped(z, MoverFields) /\ z.at = "closeOld"
        /\ z.goal = goal /\ z.route = r
    BY Zenon DEF Rest, Shaped, MoverFields
  <2>3. Moves(p, z) /\ z.at \in OldSteps /\ z.at \in Beside
    BY <2>1, <2>2, Zenon DEF Moves, Steps, OldSteps, Beside
  <2>4. z.route.owner = z.goal /\ z.route \in RouteRow /\ Known(z.route)
    BY <1>3, <1>4, <2>2, Zenon
  <2>5. RowOf(z)'
    BY <1>2, <2>3, <2>4, OldRow, Zenon
  <2> QED
    BY <1>1, <2>3, <2>5, AsideKeeps, Zenon
<1>5. CASE /\ route.owner # goal
           /\ route.status = "active" \/ route.target = goal
           /\ movers' = [movers EXCEPT ![p] =
                 [Rest EXCEPT !.at = "claim", !.goal = goal, !.route = route]]
  <2> PICK z : z = [Rest EXCEPT !.at = "claim", !.goal = goal, !.route = r]
    OBVIOUS
  <2>1. movers' = [movers EXCEPT ![p] = z]
    BY <1>5
  <2>2. /\ Shaped(z, MoverFields) /\ z.at = "claim"
        /\ z.goal = goal /\ z.route = r /\ z.final = FALSE
    BY Zenon DEF Rest, Shaped, MoverFields
  <2>3. Moves(p, z) /\ z.at \in Beside
    BY <2>1, <2>2 DEF Moves, Steps, Beside
  <2>4. z.at \notin {"reconcile", "confirm", "count", "fence", "activate",
                     "open"} \cup OldSteps \cup OnlineSteps \cup HeldSteps
    BY <2>2 DEF OldSteps, OnlineSteps, HeldSteps
  <2>5. Known(r)'
    BY <1>2, <1>3, KnownStays, Zenon DEF IInv, Grows
  <2>6. RouteOf(z)'
    BY <1>3, <1>5, <2>2, <2>4, <2>5, Zenon DEF RouteOf, Fits
  <2>7. ClaimOf(z)' /\ StageOf(z)'
    BY <2>2, <2>4, Zenon DEF ClaimOf, HasClaim, StageOf, Held
  <2> QED
    BY <1>1, <2>3, <2>6, <2>7, AsideKeeps, Zenon DEF RowOf
<1> QED
  BY <1>4, <1>5, Zenon DEF Start

(* The move is reconciled with the route it resumes from.                  *)
LEMMA ReconcileKeeps ==
    ASSUME MoveConstants, IInv, NEW p \in Mover, Reconcile(p)
    PROVE  IInv'
<1> PICK m : m = movers[p]
  OBVIOUS
<1>1. UNCHANGED <<route, ops, fence, aborter>> /\ m.at = "reconcile"
  BY Zenon DEF Reconcile
<1>2. RowOf(m) /\ HasClaim(m) /\ HasRoute(m) /\ ~Held(m)
  BY <1>1, Zenon DEF IInv, HasClaim, OldSteps, HasRoute, Held, HeldSteps
<1>3. m.route \in RouteRow /\ Known(m.route)
  BY <1>2, Zenon DEF RowOf, RouteOf
<1>4. ASSUME QuietStep(p), Goto(p, "confirm") PROVE IInv'
  <2>1. Grows
    BY <1>4, QuietKeeps, Zenon
  <2>2. PICK z : /\ Moves(p, z)
                 /\ z.at = "confirm"
                 /\ SameClaim(m, z)
                 /\ z.route = m.route
                 /\ z.final = m.final
    BY <1>4, GotoTurns DEF Turns, Steps
  <2>3. ClaimOf(z)' /\ ops'[z.op].source = ops[m.op].source
    BY <1>2, <2>1, <2>2, SameClaimOf, Zenon
  <2>4. Known(m.route)'
    BY <1>3, <2>1, KnownStays, Zenon DEF IInv, Grows
  <2>5. /\ z.at \notin {"claim", "count", "fence", "activate", "open"}
                        \cup OldSteps \cup OnlineSteps \cup HeldSteps
        /\ z.at \in Beside
    BY <2>2, Zenon DEF OldSteps, OnlineSteps, HeldSteps, Beside
  <2>6. m.final = FALSE /\ ops[m.op].source = m.route.owner /\ Fits(m)
    BY <1>1, <1>2, Zenon DEF RowOf, StageOf
  <2>7. RouteOf(z)'
    BY <1>3, <2>2, <2>4, <2>5, Zenon DEF RouteOf
  <2>8. StageOf(z)'
    BY <2>2, <2>3, <2>5, <2>6, Zenon DEF StageOf, Held, Fits, SameClaim
  <2> QED
    BY <1>4, <2>2, <2>3, <2>5, <2>7, <2>8, AsideKeeps, Zenon DEF RowOf
<1>5. CASE admission' = admission
  <2>1. Goto(p, "confirm") \/ GiveUp(p)
    BY Zenon DEF Reconcile
  <2> QED
    BY <1>1, <1>4, <1>5, <2>1, TablesSame, QuitKeeps, Zenon
<1>6. CASE admission' # admission
  <2>1. PICK state, from : /\ MayTransition(Physical[m.route.owner],
                                            m.route.epoch, from)
                           /\ Transition(m.route.owner, m.route.epoch, state)
                           /\ state \in {"open", "draining"}
                           /\ Goto(p, "confirm")
    BY <1>6, Zenon DEF Reconcile
  <2>2. /\ m.route.owner \in Alias /\ m.route.epoch \in Nat
        /\ Owned(m.route.owner, m.route.epoch)
    BY <1>3, Zenon DEF RouteRow, Known
  <2>3. EpochsStep /\ OpenInv'
    BY <1>1, <2>1, <2>2, Transitions, Zenon
  <2> QED
    BY <1>1, <1>4, <2>1, <2>3, AdmissionQuiet, Zenon
<1> QED
  BY <1>5, <1>6, Zenon

(* A resumed move restores its phase.                                      *)
LEMMA RestoreKeeps ==
    ASSUME MoveConstants, IInv, NEW p \in Mover, Restore(p)
    PROVE  IInv'
<1> PICK m : m = movers[p]
  OBVIOUS
<1>1. /\ UNCHANGED <<route, ops, fence, aborter>> /\ m.at = "restore"
      /\ GiveUp(p)
  BY Zenon DEF Restore
<1>2. RowOf(m) /\ HasRoute(m) /\ ~Held(m)
  BY <1>1, Zenon DEF IInv, HasRoute, Held, HeldSteps
<1>3. /\ m.route \in RouteRow /\ Known(m.route)
      /\ m.route.owner \in Alias /\ m.route.epoch \in Nat
      /\ Owned(m.route.owner, m.route.epoch)
  <2>1. m.route \in RouteRow /\ Known(m.route)
    BY <1>2, Zenon DEF RowOf, RouteOf
  <2> QED
    BY <2>1, Zenon DEF RouteRow, Known
<1>4. CASE admission' = admission
  BY <1>1, <1>4, TablesSame, QuitKeeps, Zenon
<1>5. CASE admission' # admission
  <2> PICK source : source = ops[m.op].source
    OBVIOUS
  <2>1. PICK state : /\ MayTransition(Physical[source], m.route.epoch,
                                      {"open", "draining", "closed"})
                     /\ Transition(source, m.route.epoch, state)
                     /\ state \in {"open", "draining", "closed"}
                     /\ state = "open" => source = m.route.owner
    <3> PICK state : state = IF m.route.owner # source THEN "closed"
                             ELSE IF m.route.status = "draining" THEN "draining"
                             ELSE "open"
      BY Zenon
    <3>1. IF MayTransition(Physical[source], m.route.epoch,
                           {"open", "draining", "closed"})
          THEN Transition(source, m.route.epoch, state)
          ELSE UNCHANGED admission
      BY Zenon DEF Restore
    <3>2. /\ state \in {"open", "draining", "closed"}
          /\ state = "open" => source = m.route.owner
      BY Zenon
    <3> QED
      BY Zenon, <1>5, <3>1, <3>2
  <2>2. EpochsStep /\ OpenInv'
    BY <1>1, <1>3, <2>1, Transitions, Zenon
  <2> QED
    BY <1>1, <2>2, AdmissionQuiet, QuitKeeps, Zenon
<1> QED
  BY <1>4, <1>5

(* The mover confirms that the route is still the one it claimed for.      *)
LEMMA ConfirmKeeps ==
    ASSUME MoveConstants, IInv, NEW p \in Mover, Confirm(p)
    PROVE  IInv'
<1> PICK m, r : m = movers[p] /\ r = route
  OBVIOUS
<1>1. QuietStep(p) /\ route' = route /\ ops' = ops /\ m.at = "confirm"
  BY TablesSame, Zenon DEF Confirm
<1>2. Grows /\ (\A q \in Mover \ {p} : Kept(q)) /\ (MoversInv' => IInv')
  BY <1>1, QuietKeeps, Zenon
<1>3. RowOf(m) /\ HasClaim(m) /\ HasRoute(m) /\ ~Held(m)
  BY <1>1, Zenon DEF IInv, HasClaim, OldSteps, HasRoute, Held, HeldSteps
<1>4. /\ m.final = FALSE /\ ops[m.op].source = m.route.owner
      /\ Fits(m)
  BY <1>1, <1>3, Zenon DEF RowOf, StageOf
<1>5. r \in RouteRow /\ Known(r)'
  BY <1>1, <1>2, RouteKnown, KnownStays, Zenon DEF IInv, Grows
<1>6. ASSUME NEW step \in {"reserve", "capture"}, Goto(p, step), m.route = route
      PROVE  IInv'
  <2>1. PICK z : /\ Moves(p, z)
                 /\ z.at = step
                 /\ SameClaim(m, z)
                 /\ z.route = m.route
                 /\ z.final = m.final
    BY <1>6, GotoTurns DEF Turns, Steps
  <2>2. ClaimOf(z)' /\ ops'[z.op].source = ops[m.op].source
    BY <1>2, <1>3, <2>1, SameClaimOf, Zenon
  <2>3. /\ ~Held(z)
        /\ z.at \notin {"claim", "reconcile", "confirm", "count", "fence",
                        "activate", "open"} \cup OldSteps \cup HeldSteps
    BY <1>6, <2>1, Zenon DEF Held, HeldSteps, OldSteps
  <2>4. RouteOf(z)'
    BY <1>5, <1>6, <2>1, <2>3, Zenon DEF RouteOf
  <2>5. StageOf(z)'
    BY <1>4, <2>1, <2>3, Zenon DEF StageOf
  <2>6. RowOf(z)'
    BY <2>2, <2>4, <2>5, Zenon DEF RowOf
  <2>7. ~Rules(z)'
    BY <2>3, Zenon DEF Rules, Held
  <2>8. route'.owner = ops'[z.op].source
    BY <1>1, <1>4, <1>6, <2>2, Zenon
  <2>9. \A q \in Mover \ {p} : Rules(movers[q]) => movers[q].goal = z.goal
    BY <1>4, <1>6, <2>1, Zenon DEF Rules, Fits, SameClaim
  <2>10. MoversInv'
    BY <1>2, <2>1, <2>3, <2>6, <2>7, <2>8, <2>9, OneMoves, Zenon
  <2> QED
    BY <1>2, <2>10, Zenon
<1>7. CASE movers' = [movers EXCEPT ![p].route = route, ![p].at = "restore"]
  <2> PICK z : z = [m EXCEPT !.route = r, !.at = "restore"]
    BY Zenon
  <2>1. Shaped(movers, Mover) /\ Shaped(m, MoverFields)
    BY DEF IInv, TypeInv
  <2>2. movers' = [movers EXCEPT ![p] = z]
    BY <1>7, <2>1, Zenon DEF Shaped
  <2>3. /\ Shaped(z, MoverFields) /\ SameClaim(m, z)
        /\ z.at = "restore"
        /\ z.route = r /\ z.final = m.final
    BY <2>1, Zenon DEF Shaped, MoverFields, SameClaim
  <2>4. ClaimOf(z)'
    BY <1>2, <1>3, <2>3, SameClaimOf
  <2>5. /\ z.at \notin {"claim", "reconcile", "confirm", "count", "fence",
                        "activate", "open"} \cup OldSteps \cup HeldSteps
                          \cup OnlineSteps
        /\ Moves(p, z) /\ z.at \in Beside
    BY <2>2, <2>3, Zenon
       DEF HeldSteps, OldSteps, OnlineSteps, Moves, Steps, Beside
  <2>6. RouteOf(z)' /\ StageOf(z)'
    BY <1>4, <1>5, <2>3, <2>5, Zenon DEF RouteOf, StageOf, Held
  <2> QED
    BY <1>1, <2>4, <2>5, <2>6, AsideKeeps, Zenon DEF RowOf
<1> QED
  BY <1>6, <1>7, Zenon DEF Confirm

(* A preparing mover marks the route, whose owner stays.                   *)
LEMMA MarkKeeps ==
    ASSUME MoveConstants, IInv, NEW p \in Mover, NEW m, m = movers[p],
           Online(m), NEW z, Moves(p, z), SameClaim(m, z), Online(z),
           z.final = FALSE, z.route \in RouteRow, Known(z.route)',
           UNCHANGED <<ops, admission, fence, aborter>>,
           RouteStep, RouteInv', route'.owner = route.owner,
           route.status # "draining"
    PROVE  IInv'
<1>1. EpochsStep /\ OpenInv' /\ OpsStep /\ OpsInv' /\ FenceStep(p)
  BY AdmissionSame, OpsSame, FencesSame, Zenon
<1>2. Grows
  BY <1>1, Zenon DEF Grows
<1>3. \A q \in Mover \ {p} : Kept(q)
  BY <1>1, OthersKept, Zenon
<1>4. AbortInv' /\ Shaped(aborter, AborterFields)'
  BY <1>1, <1>2, AbortStays, Zenon
<1>5. MoversInv'
  BY <1>2, <1>3, GoesOn, Zenon
<1> QED
  BY <1>1, <1>2, <1>4, <1>5, Assembled, Zenon DEF FenceStep

(* The route is marked as copying to the target.                           *)
LEMMA ReserveKeeps ==
    ASSUME MoveConstants, IInv, NEW p \in Mover, Reserve(p)
    PROVE  IInv'
<1> PICK m : m = movers[p]
  OBVIOUS
<1>1. UNCHANGED <<ops, admission, fence, aborter>> /\ m.at = "reserve"
  BY DEF Reserve
<1>2. Online(m) /\ m.final = FALSE /\ RowOf(m) /\ HasClaim(m) /\ HasRoute(m)
  <2>1. m.at \in OnlineSteps \ HeldSteps
    BY <1>1, Zenon DEF OnlineSteps, HeldSteps
  <2> QED
    BY <1>1, <2>1, Placed, Zenon DEF HasClaim, OldSteps, HasRoute
<1>3. Quits(p) \/ \E step \in {"caughtUp", "install"} : Turns(p, step)
  <2>1. GiveUp(p) \/ Goto(p, "caughtUp") \/ Goto(p, "install")
    BY Zenon DEF Reserve
  <2> QED
    BY <2>1, GotoTurns, StopQuits, Zenon DEF Steps
<1>4. CASE route' = route
  BY <1>1, <1>2, <1>3, <1>4, TablesSame, TurnKeeps, Zenon DEF OnlineSteps
<1>5. CASE route' # route
  <2>1. /\ RouteIs(ops[m.op].source, m.route.version, "active")
        /\ route' = [route EXCEPT !.status = "copying", !.target = m.goal,
                                  !.version = @ + 1]
        /\ Goto(p, "caughtUp") \/ Goto(p, "install")
    BY <1>5, Zenon DEF Reserve
  <2>2. m.route \in RouteRow /\ Known(m.route)
    BY <1>2, Zenon DEF RowOf, RouteOf, Online, Held
  <2>3. m.goal \in Alias /\ ops[m.op].source # m.goal
    BY <1>2 DEF RowOf, ClaimOf, IInv, TypeInv, OpsTyped
  <2> PICK v : v = route.version + 1
    BY Zenon
  <2>4. route \in RouteRow /\ v \in Nat /\ route.version < v
    BY DEF IInv, TypeInv, RouteRow
  <2>5. /\ route' \in RouteRow
        /\ route'.owner = route.owner /\ route'.epoch = route.epoch
        /\ route'.target = m.goal /\ route'.status = "copying"
        /\ route'.version = v
    BY <2>1, <2>3, <2>4, Zenon DEF RouteRow
  <2>6. RouteStep
    BY <2>4, <2>5 DEF RouteStep, RouteRow
  <2>7. RouteInv' /\ route.status # "draining"
    BY <2>1, <2>3, <2>5, Zenon DEF RouteInv, RouteIs
  <2>8. EpochsStep
    BY <1>1, <2>5, <2>6, AdmissionSame, Zenon
  <2>9. Known(m.route)'
    BY <2>2, <2>6, <2>8, KnownStays, Zenon DEF IInv
  <2>10. PICK z : /\ Moves(p, z)
                  /\ z.at \in {"caughtUp", "install"}
                  /\ SameClaim(m, z)
                  /\ z.route = m.route
                  /\ z.final = m.final
    BY <2>1, GotoTurns DEF Turns, Steps
  <2>11. Online(z) /\ z.final = FALSE
    BY <1>2, <2>10, Zenon DEF Online, OnlineSteps
  <2> QED
    BY <1>1, <1>2, <2>2, <2>5, <2>6, <2>7, <2>9, <2>10, <2>11, MarkKeeps, Zenon
<1> QED
  BY <1>4, <1>5

(* The route is marked as draining.                                        *)
LEMMA MarkDrainingKeeps ==
    ASSUME MoveConstants, IInv, NEW p \in Mover, MarkDraining(p)
    PROVE  IInv'
<1> PICK m : m = movers[p]
  OBVIOUS
<1>1. UNCHANGED <<ops, admission, fence, aborter>> /\ m.at = "markDraining"
  BY DEF MarkDraining
<1>2. Online(m) /\ m.final = FALSE
  <2>1. m.at \in OnlineSteps \ HeldSteps
    BY <1>1, Zenon DEF OnlineSteps, HeldSteps
  <2> QED
    BY <1>1, <2>1, Placed, Zenon
<1>3. CASE GiveUp(p) /\ route' = route
  BY <1>1, <1>3, TablesSame, QuitKeeps
<1>4. CASE /\ RouteIs(ops[m.op].source, m.route.version, "copying")
           /\ route.target = m.goal
           /\ route' = [route EXCEPT !.status = "draining", !.version = @ + 1]
           /\ movers' = [movers EXCEPT ![p].route = route',
                                       ![p].at = "phaseDraining"]
  <2> PICK v, r : v = route.version + 1 /\ r = route'
    BY Zenon
  <2>1. route \in RouteRow /\ v \in Nat /\ route.version < v
    BY DEF IInv, TypeInv, RouteRow
  <2>2. /\ r \in RouteRow
        /\ r.owner = route.owner /\ r.epoch = route.epoch
        /\ r.target = route.target /\ r.status = "draining"
        /\ r.version = v
    BY <1>4, <2>1, Zenon DEF RouteRow
  <2>3. RouteStep
    BY <2>1, <2>2 DEF RouteStep, RouteRow
  <2>4. RouteInv' /\ route.status # "draining"
    BY <1>4, <2>2, Zenon DEF IInv, RouteInv, RouteIs
  <2>5. Known(r)'
    BY <2>2 DEF Known, Owned, RouteRow
  <2>6. Shaped(movers, Mover) /\ Shaped(m, MoverFields)
    BY Zenon DEF IInv, TypeInv
  <2> PICK z : z = [m EXCEPT !.route = r, !.at = "phaseDraining"]
    OBVIOUS
  <2>7. movers' = [movers EXCEPT ![p] = z]
    BY <1>4, <2>6, Zenon DEF Shaped
  <2>8. /\ Shaped(z, MoverFields) /\ SameClaim(m, z)
        /\ z.at = "phaseDraining"
        /\ z.route = r /\ z.final = m.final
    BY <2>6, Zenon DEF Shaped, MoverFields, SameClaim
  <2>9. Moves(p, z) /\ Online(z) /\ z.final = FALSE
    BY <1>2, <2>7, <2>8, Zenon DEF Moves, Steps, Online, OnlineSteps
  <2> QED
    BY <1>1, <1>2, <2>2, <2>3, <2>4, <2>5, <2>8, <2>9, MarkKeeps, Zenon
<1> QED
  BY <1>3, <1>4, Zenon DEF MarkDraining

(* The moves are numbered as they are claimed.                             *)
LEMMA NextMove ==
    ASSUME MoveConstants, IInv, UnusedMove # {}, NEW o, o = Min(UnusedMove)
    PROVE  o \in Op /\ \A x \in Op : Used(x) <=> x < o
<1>1. DOMAIN ops = Op
  BY Zenon DEF IInv, TypeInv, OpsTyped, Shaped
<1>2. PICK n \in Nat : \A x \in Op : Used(x) <=> x <= n
  BY Zenon DEF IInv, OpsInv
<1>3. \A x : x \in UnusedMove <=> x \in Op /\ n < x
  BY <1>1, <1>2 DEF UnusedMove, Used, Op
<1>4. n + 1 \in UnusedMove /\ \A x \in UnusedMove : n + 1 <= x
  BY <1>3 DEF Op, MoveConstants
<1>5. \E x \in UnusedMove : \A y \in UnusedMove : x <= y
  BY <1>4, Zenon
<1>6. o \in UnusedMove /\ \A y \in UnusedMove : o <= y
  BY <1>5, Zenon DEF Min
<1>7. o \in Op /\ o = n + 1
  BY <1>3, <1>4, <1>6 DEF Op, MoveConstants
<1> QED
  BY <1>2, <1>7 DEF Op

(* What a claim makes of an operation: a new generation of the active one, *)
(* or the next one.                                                        *)
Takes(o, r) ==
    /\ ops' = [ops EXCEPT ![o] = r]
    /\ Shaped(r, OpFields)
    /\ r.status = "active"
    /\ r.source \in Alias /\ r.target \in Alias /\ r.source # r.target
    /\ r.gen \in Nat
    /\ \/ /\ Active(o)
          /\ r.source = ops[o].source /\ r.target = ops[o].target
          /\ ops[o].gen < r.gen
       \/ /\ \A x \in Op : ~Active(x)
          /\ \A x \in Op : Used(x) <=> x < o

(* A claim creates a move or takes one over with a new generation.         *)
LEMMA ClaimTaken ==
    ASSUME MoveConstants, IInv, NEW o \in Op, NEW r, Takes(o, r)
    PROVE  OpsStep /\ OpsInv' /\ ops'[o] = r
<1> USE DEF Takes
<1>0. o \in Nat /\ \A x \in Op : x \in Nat
  BY DEF Op
<1>1. OpsTyped
  BY Zenon DEF IInv, TypeInv
<1>2. \A x \in Op : \/ x # o /\ ops'[x] = ops[x]
                    \/ x = o /\ ops'[x] = r
  BY <1>1, Zenon DEF OpsTyped, Shaped
<1>3. Shaped(ops, Op)'
  BY <1>1, Zenon DEF OpsTyped, Shaped
<1>4. OpsTyped'
  BY <1>1, <1>2, <1>3, Zenon DEF OpsTyped, Used
<1>5. ASSUME NEW x \in Op, Used(x)
      PROVE  /\ Used(x)'
             /\ ops'[x].source = ops[x].source
             /\ ops'[x].target = ops[x].target
             /\ ops[x].gen <= ops'[x].gen
             /\ \A g \in Nat : g <= ops[x].gen /\ Live(x, g)' => Live(x, g)
  <2>1. ops[x].gen \in Nat /\ ops'[x].gen \in Nat
    BY <1>1, <1>4, Zenon DEF OpsTyped
  <2>2. CASE x # o
    <3>1. ops'[x] = ops[x]
      BY <1>2, <2>2, Zenon
    <3> QED
      BY <1>5, <2>1, <3>1 DEF Used, Live, Active
  <2>3. CASE x = o
    <3>1. ops'[x] = r /\ Active(o) /\ ops[o].gen < r.gen
      BY <1>0, <1>2, <1>5, <2>3
    <3> QED
      BY <2>1, <2>3, <3>1 DEF Used, Live, Active
  <2> QED
    BY <2>2, <2>3, Zenon
<1>6. OpsStep
  BY <1>4, <1>5, Zenon DEF OpsStep
<1>7. \A x, y \in Op : Active(x)' /\ Active(y)' => x = y
  BY <1>2, Zenon DEF IInv, OpsInv, Active
<1>8. \E n \in Nat : \A x \in Op : Used(x)' <=> x <= n
  <2>1. CASE Active(o)
    <3>1. \A x \in Op : Used(x)' <=> Used(x)
      BY <1>2, <2>1, Zenon DEF Used, Active
    <3> QED
      BY <3>1, Zenon DEF IInv, OpsInv
  <2>2. CASE \A x \in Op : Used(x) <=> x < o
    <3>1. \A x \in Op : Used(x)' <=> x <= o
      BY <1>0, <1>2, <2>2 DEF Used
    <3> QED
      BY <1>0, <3>1, Zenon
  <2> QED
    BY <2>1, <2>2, Zenon
<1> QED
  BY <1>2, <1>6, <1>7, <1>8, Zenon DEF OpsInv

(* The claim of a move.                                                    *)
LEMMA ClaimKeeps ==
    ASSUME MoveConstants, IInv, NEW p \in Mover, Claim(p)
    PROVE  IInv'
<1> PICK m : m = movers[p]
  OBVIOUS
<1>1. UNCHANGED <<route, admission, fence, aborter>> /\ m.at = "claim"
  BY Zenon DEF Claim
<1>2. RowOf(m) /\ HasRoute(m) /\ ~Held(m)
  BY <1>1, Zenon DEF IInv, HasRoute, Held, HeldSteps
<1>3. /\ m.route \in RouteRow /\ Known(m.route) /\ m.final = FALSE
      /\ m.goal \in Alias /\ m.route.owner # m.goal /\ Fits(m)
      /\ m.route.owner \in Alias
  <2>1. m.route \in RouteRow /\ Known(m.route)
    BY <1>2 DEF RowOf, RouteOf
  <2>2. m.goal \in Alias /\ m.route.owner # m.goal /\ Fits(m)
    BY <1>1, <1>2, Zenon DEF RowOf, RouteOf
  <2>3. m.final = FALSE
    BY <1>1, <1>2, Zenon DEF RowOf, StageOf
  <2> QED
    BY <2>1, <2>2, <2>3, Zenon DEF RouteRow
<1>4. CASE Stop(p) /\ ops' = ops
  BY <1>1, <1>4, TablesSame, QuitKeeps
<1>5. ASSUME NEW o \in Op, NEW old, NEW g \in Nat, g = old.gen + 1,
             old.gen \in Nat, Shaped(old, OpFields),
             old.status = "active",
             old.source = m.route.owner, old.target = m.goal,
             ops' = [ops EXCEPT ![o] = [old EXCEPT !.claim = "held", !.gen = g]],
             movers' = [movers EXCEPT ![p].op = o, ![p].gen = g,
                           ![p].phase = old.phase, ![p].reset = old.reset,
                           ![p].at = "reconcile"],
             \/ Active(o) /\ old = ops[o]
             \/ /\ \A x \in Op : ~Active(x)
                /\ \A x \in Op : Used(x) <=> x < o
      PROVE  IInv'
  <2> PICK r : r = [old EXCEPT !.claim = "held", !.gen = g]
    OBVIOUS
  <2>1. /\ Shaped(r, OpFields) /\ r.status = "active" /\ r.gen = g
        /\ r.source = m.route.owner /\ r.target = m.goal
    BY <1>5, Zenon DEF Shaped, OpFields
  <2>2. Takes(o, r)
    BY <1>3, <1>5, <2>1 DEF Takes
  <2>3. OpsStep /\ OpsInv' /\ ops'[o] = r
    BY <1>5, <2>2, ClaimTaken, Zenon
  <2>4. QuietStep(p)
    BY <1>1, <2>3, FencesSame, OpsQuiet
  <2>5. Grows
    BY <2>4, QuietKeeps, Zenon
  <2>6. Shaped(movers, Mover) /\ Shaped(m, MoverFields)
    BY DEF IInv, TypeInv
  <2> PICK z : z = [m EXCEPT !.op = o, !.gen = g, !.phase = old.phase,
                             !.reset = old.reset, !.at = "reconcile"]
    OBVIOUS
  <2>7. movers' = [movers EXCEPT ![p] = z]
    BY <1>5, <2>6, Zenon DEF Shaped
  <2>8. /\ Shaped(z, MoverFields)
        /\ z.op = o /\ z.gen = g /\ z.goal = m.goal
        /\ z.at = "reconcile"
        /\ z.route = m.route /\ z.final = m.final
    BY <2>6, Zenon DEF Shaped, MoverFields
  <2>9. Moves(p, z) /\ z.at \in Beside
    BY <2>7, <2>8 DEF Moves, Steps, Beside
  <2>10. ClaimOf(z)'
    <3>1. /\ ops'[z.op].status = "active"
          /\ ops'[z.op].target = z.goal
          /\ ops'[z.op].gen = z.gen
          /\ z.op \in Op /\ z.gen \in Nat
      BY <1>5, <2>1, <2>3, <2>8, Zenon
    <3> QED
      BY <3>1 DEF ClaimOf, Used
  <2>11. z.at \notin {"claim", "count", "fence", "activate", "open"}
                       \cup OldSteps \cup OnlineSteps \cup HeldSteps
    BY <2>8 DEF OldSteps, OnlineSteps, HeldSteps
  <2>12. Known(m.route)'
    BY <1>3, <2>5, KnownStays, Zenon DEF IInv, Grows
  <2>13. RouteOf(z)'
    BY <1>3, <2>8, <2>11, <2>12, Zenon DEF RouteOf
  <2>14. StageOf(z)'
    BY <1>3, <2>1, <2>3, <2>8, <2>11, Zenon DEF StageOf, Held, Fits
  <2> QED
    BY <2>4, <2>9, <2>10, <2>13, <2>14, AsideKeeps, Zenon DEF RowOf
<1>6. CASE ActiveMove # {} /\ ~(Stop(p) /\ ops' = ops)
  <2> PICK o : o = CHOOSE x \in ActiveMove : TRUE
    OBVIOUS
  <2> PICK old, g : old = ops[o] /\ g = old.gen + 1
    BY Zenon
  <2>1. o \in Op /\ Active(o)
    BY <1>6, Zenon DEF ActiveMove, IInv, TypeInv, OpsTyped, Shaped
  <2>2. /\ Shaped(old, OpFields) /\ old.gen \in Nat /\ g \in Nat
        /\ old.status = "active"
    BY <2>1 DEF IInv, TypeInv, OpsTyped, Active
  <2>3. /\ old.source = m.route.owner /\ old.target = m.goal
        /\ ops' = [ops EXCEPT ![o] = [old EXCEPT !.claim = "held", !.gen = g]]
        /\ movers' = [movers EXCEPT ![p].op = o, ![p].gen = g,
                           ![p].phase = old.phase, ![p].reset = old.reset,
                           ![p].at = "reconcile"]
    BY <1>6, Zenon DEF Claim
  <2> QED
    BY <1>5, <2>1, <2>2, <2>3, Zenon
<1>7. CASE ActiveMove = {} /\ ~(Stop(p) /\ ops' = ops)
  <2> PICK o, old : /\ o = Min(UnusedMove)
                    /\ old = [NoMove EXCEPT !.status = "active",
                                 !.target = m.goal, !.source = m.route.owner]
    BY Zenon
  <2> PICK g : g = old.gen + 1
    OBVIOUS
  <2>1. /\ UnusedMove # {}
        /\ ops' = [ops EXCEPT ![o] = [old EXCEPT !.claim = "held", !.gen = g]]
        /\ movers' = [movers EXCEPT ![p].op = o, ![p].gen = g,
                           ![p].phase = old.phase, ![p].reset = old.reset,
                           ![p].at = "reconcile"]
    BY <1>7, Zenon DEF Claim
  <2>2. o \in Op
    BY <2>1, NextMove, Zenon
  <2>3. \A x \in Op : Used(x) <=> x < o
    BY <2>1, NextMove, Zenon
  <2>4. \A x \in Op : ~Active(x)
    BY <1>7 DEF ActiveMove, IInv, TypeInv, OpsTyped, Shaped
  <2>5. /\ Shaped(old, OpFields) /\ old.gen = 0 /\ old.status = "active"
        /\ old.source = m.route.owner /\ old.target = m.goal
    BY Zenon DEF NoMove, Shaped, OpFields
  <2>6. g \in Nat /\ old.gen \in Nat
    BY <2>5
  <2> QED
    BY <1>5, <2>1, <2>2, <2>3, <2>4, <2>5, <2>6, Zenon
<1> QED
  BY <1>4, <1>6, <1>7, Zenon DEF Claim

-----------------------------------------------------------------------------
(* The steps of the others: work, expired claims, aborts, crashes.         *)

(* What a step that is not a mover's does to the movers: nothing, when it  *)
(* keeps their fences.                                                     *)
LEMMA BystandersKeep ==
    ASSUME MoveConstants, IInv, Grows, movers' = movers, FenceStep(Aborter),
           route'.owner = route.owner,
           \/ route' = route
           \/ fence[Physical[route.owner]] = Nobody
    PROVE  MoversInv'
<1>1. \A q \in Mover \ {Aborter} : Kept(q)
  BY OthersKept, Zenon
<1>2. \A q \in Mover : Kept(q)
  BY <1>1, Zenon DEF MoveConstants
<1> QED
  BY <1>2, NoneMoves, Zenon

(* A step of nobody that writes the moves only.                            *)
LEMMA OutsideKeeps ==
    ASSUME MoveConstants, IInv, UNCHANGED <<route, admission, fence, movers>>,
           OpsStep, OpsInv', aborter' = aborter
    PROVE  IInv'
<1>1. RouteStep /\ RouteInv' /\ EpochsStep /\ OpenInv' /\ FenceStep(Aborter)
  BY RouteSame, AdmissionSame, FencesSame, Zenon
<1>2. Grows
  BY <1>1, Zenon DEF Grows
<1>3. MoversInv'
  BY <1>1, <1>2, BystandersKeep, Zenon
<1>4. AbortInv' /\ Shaped(aborter, AborterFields)'
  <2> PICK a, e : a = aborter.source /\ e = Aborted(aborter.route).epoch
    BY Zenon
  <2>1. aborter.at = "reopen" => Owned(a, e)'
    BY Zenon DEF IInv, AbortInv, Owned
  <2>2. aborter.at = "reopen" =>
            Owned(aborter.source, Aborted(aborter.route).epoch)'
    BY <2>1, Zenon DEF Owned, Aborted
  <2> QED
    BY <2>2, Zenon DEF IInv, TypeInv, AbortInv
<1> QED
  BY <1>1, <1>2, <1>3, <1>4, Assembled, Zenon DEF FenceStep

(* Work comes and goes on the databases.                                   *)
LEMMA WorkKeeps ==
    ASSUME MoveConstants, IInv, NEW d \in Database, NEW k \in Key,
           NewWork(d, k) \/ SettleWork(d, k)
    PROVE  IInv'
<1>1. UNCHANGED <<route, ops, admission, fence, movers, aborter>>
  BY DEF NewWork, SettleWork, Store
<1> QED
  BY <1>1, OpsSame, OutsideKeeps, Zenon

(* A claim expires.                                                        *)
LEMMA ExpiresKeeps ==
    ASSUME MoveConstants, IInv, NEW o, ClaimExpires(o)
    PROVE  IInv'
<1>1. OpsStep /\ OpsInv'
  BY Settled, Zenon DEF ClaimExpires
<1> QED
  BY <1>1, OutsideKeeps DEF ClaimExpires

(* A step of the aborter.                                                  *)
LEMMA AborterKeeps ==
    ASSUME MoveConstants, IInv, Grows, RouteInv', OpenInv', OpsInv',
           movers' = movers, FenceStep(Aborter), route'.owner = route.owner,
           \/ route' = route
           \/ fence[Physical[route.owner]] = Nobody,
           AbortInv', Shaped(aborter', AborterFields)
    PROVE  IInv'
<1>1. MoversInv'
  BY BystandersKeep, Zenon
<1> QED
  BY <1>1, Assembled, Zenon DEF FenceStep

(* The record of an abort that is done.                                    *)
LEMMA DoneShaped == Shaped(Done, AborterFields) /\ Done.at = "idle"
BY Zenon DEF Done, Shaped, AborterFields

(* An abort reads the route and the move.                                  *)
LEMMA StartAbortKeeps ==
    ASSUME MoveConstants, IInv, NEW source \in Alias, NEW target \in Alias,
           StartAbort(source, target)
    PROVE  IInv'
<1>1. UNCHANGED <<route, ops, admission, fence, movers>>
  BY Zenon DEF StartAbort
<1>2. /\ RouteStep /\ RouteInv' /\ EpochsStep /\ OpenInv' /\ FenceStep(Aborter)
      /\ OpsStep /\ OpsInv'
  BY <1>1, RouteSame, AdmissionSame, FencesSame, OpsSame
<1>3. Grows
  BY <1>2, Zenon DEF Grows
<1>4. /\ Shaped(aborter', AborterFields)
      /\ aborter'.at = "fence" /\ aborter'.route = route
      /\ aborter'.source = source /\ aborter'.target = target
  BY Zenon DEF StartAbort, Shaped, AborterFields
<1>5. AbortInv'
  BY <1>1, <1>4, RouteKnown, Zenon DEF AbortInv
<1> QED
  BY <1>1, <1>2, <1>3, <1>4, <1>5, AborterKeeps, Zenon

(* The route an abort leaves behind.                                       *)
LEMMA AbortedRoute ==
    ASSUME IInv, route' = Aborted(route)
    PROVE  /\ RouteStep /\ RouteInv'
           /\ route'.owner = route.owner
           /\ route'.epoch \in Nat
           /\ route.epoch <= route'.epoch
<1>1. route \in RouteRow
  BY Zenon DEF IInv, TypeInv
<1> PICK v, e : /\ v = route.version + 1
                /\ e = IF route.status \in {"draining", "moving"}
                       THEN route.epoch + 1 ELSE route.epoch
  BY Zenon
<1>2. /\ v \in Nat /\ e \in Nat
      /\ route.version < v /\ route.epoch <= e
  BY <1>1 DEF RouteRow
<1>3. route' = [route EXCEPT !.status = "active", !.target = Nobody,
                             !.version = v, !.epoch = e]
  BY <1>1 DEF Aborted, RouteRow
<1>4. /\ route' \in RouteRow
      /\ route'.owner = route.owner /\ route'.status = "active"
      /\ route'.version = v /\ route'.epoch = e
  BY <1>1, <1>2, <1>3, Zenon DEF RouteRow
<1>5. RouteStep
  BY <1>2, <1>4, Zenon DEF RouteStep
<1> QED
  BY <1>2, <1>4, <1>5, Zenon DEF RouteInv

(* The abort takes the route back to the source under the source's fence.  *)
LEMMA AbortRouteKeeps ==
    ASSUME MoveConstants, IInv, AbortRoute
    PROVE  IInv'
<1> PICK a, d : a = aborter /\ d = Physical[a.source]
  BY Zenon
<1>1. /\ UNCHANGED <<ops, movers>>
      /\ a.at = "fence" /\ fence[d] = Nobody
  BY Zenon DEF AbortRoute, Free
<1>2. /\ Shaped(a, AborterFields)
      /\ a.route \in RouteRow /\ a.source \in Alias /\ a.target \in Alias
  BY <1>1, Zenon DEF IInv, TypeInv, AbortInv
<1>3. OpsStep /\ OpsInv' /\ d \in Database
  BY <1>1, <1>2, OpsSame, PhysicalType, Zenon
<1>4. CASE aborter' = Done /\ UNCHANGED <<route, admission, fence>>
  <2>1. RouteStep /\ RouteInv' /\ EpochsStep /\ OpenInv' /\ FenceStep(Aborter)
    BY <1>4, RouteSame, AdmissionSame, FencesSame, Zenon
  <2>2. AbortInv' /\ Shaped(aborter', AborterFields)
    BY <1>4, DoneShaped, Zenon DEF AbortInv
  <2> QED
    BY <1>1, <1>3, <1>4, <2>1, <2>2, AborterKeeps, Zenon DEF Grows
<1>5. CASE /\ route = a.route /\ route.owner = a.source
           /\ route' = Aborted(route)
           /\ fence' = [fence EXCEPT ![d] = Aborter]
           /\ aborter' = [aborter EXCEPT !.at = "reopen"]
           /\ admission' = admission
  <2>1. /\ RouteStep /\ RouteInv' /\ route'.owner = route.owner
        /\ route'.epoch \in Nat
    BY <1>5, AbortedRoute, Zenon
  <2>2. EpochsStep /\ OpenInv'
    BY <1>5, <2>1, AdmissionSame, Zenon
  <2>3. FenceStep(Aborter) /\ fence'[d] = Aborter
    BY <1>1, <1>3, <1>5, Zenon DEF FenceStep, Shaped, IInv, TypeInv
  <2>4. /\ Shaped(aborter', AborterFields)
        /\ aborter'.route = a.route /\ aborter'.source = a.source
        /\ aborter'.target = a.target /\ aborter'.at = "reopen"
    BY <1>2, <1>5, Zenon DEF Shaped, AborterFields
  <2>5. Owned(aborter.source, Aborted(aborter.route).epoch)'
    <3>1. Aborted(aborter'.route) = route'
      BY <1>5, <2>4, Zenon
    <3>2. route'.epoch <= route'.epoch
      BY <2>1
    <3>3. aborter'.source = route'.owner
      BY <1>5, <2>1, <2>4, Zenon
    <3> QED
      BY <3>1, <3>2, <3>3, Zenon DEF Owned, Aborted
  <2>6. AbortInv'
    BY <1>2, <2>3, <2>4, <2>5, Zenon DEF AbortInv
  <2> QED
    BY <1>1, <1>3, <1>5, <2>1, <2>2, <2>3, <2>4, <2>6, AborterKeeps, Zenon
       DEF Grows
<1>6. CASE /\ route = a.route /\ route.owner = a.source
           /\ a.source = Control
           /\ Reopens(aborter, Aborted(route))
           /\ route' = Aborted(route)
           /\ Transition(Control, route'.epoch, "open")
           /\ aborter' = [aborter EXCEPT !.at = "closeTarget",
                                         !.epoch = aborter.route.epoch + 1]
           /\ fence' = fence
  <2>1. /\ RouteStep /\ RouteInv' /\ route'.owner = route.owner
        /\ route'.epoch \in Nat
    BY <1>6, AbortedRoute, Zenon
  <2> PICK e : e = route'.epoch
    OBVIOUS
  <2> PICK r : r = [alias |-> Control, epoch |-> e, state |-> "open", op |-> 0,
                    gen |-> 0]
    BY Zenon
  <2>2. PICK from : MayTransition(d, e, from)
    BY <1>6, Zenon DEF Reopens
  <2>3. Overwrites(d, r)
    <3>1. admission[d].epoch \in Nat
      BY <1>3, Zenon DEF IInv, TypeInv, AdmissionsTyped
    <3>2. admission[d].state = "none" \/ admission[d].epoch <= e
      <4>1. e \in Nat
        BY <2>1
      <4>2. \/ admission[d].state = "none"
            \/ admission[d].epoch < e
            \/ admission[d].epoch = e
        BY Zenon, <2>2 DEF MayTransition
      <4> QED
        BY <3>1, <4>1, <4>2
    <3>3. r.epoch = e /\ r.state = "open"
      BY Zenon
    <3> QED
      BY <1>6, <2>1, <3>2, <3>3, Zenon DEF Overwrites, Transition
  <2>4. /\ EpochsStep
        /\ \A x \in Database :
              \/ x # d /\ admission'[x] = admission[x]
              \/ x = d /\ admission'[x] = r
    BY <2>3, AdmissionEdited
  <2>5. OpenInv'
    <3> SUFFICES ASSUME NEW x \in Database, admission'[x].state = "open"
                 PROVE  x = Physical[route'.owner]
                          /\ admission'[x].epoch <= route'.epoch
      BY Zenon DEF OpenInv
    <3>1. x = d
      BY <1>6, <2>4, Zenon DEF IInv, OpenInv
    <3>2. admission'[x].epoch = e
      BY <2>4, <3>1
    <3> QED
      BY <1>6, <2>1, <3>1, <3>2
  <2>6. FenceStep(Aborter)
    BY <1>6, FencesSame
  <2>7. /\ Shaped(aborter', AborterFields)
        /\ aborter'.at = "closeTarget"
        /\ aborter'.route = a.route /\ aborter'.source = a.source
        /\ aborter'.target = a.target
        /\ aborter'.epoch = a.route.epoch + 1
    BY <1>2, <1>6, Zenon DEF Shaped, AborterFields
  <2>8. AbortInv'
    <3>1. a.route.epoch \in Nat
      BY <1>2, Zenon DEF RouteRow
    <3>2. aborter'.epoch \in Nat
      BY <2>7, <3>1
    <3> QED
      BY <1>2, <2>7, <3>2, Zenon DEF AbortInv
  <2> QED
    BY Zenon, <1>1, <1>3, <1>6, <2>1, <2>4, <2>5, <2>6, <2>7, <2>8,
       AborterKeeps
       DEF Grows
<1> QED
  BY <1>4, <1>5, <1>6, Zenon DEF AbortRoute, MayAbort

(* The rest of an abort leaves the route alone.                            *)
LEMMA AbortGoesOn ==
    ASSUME MoveConstants, IInv, UNCHANGED <<route, movers>>,
           OpsStep, OpsInv', EpochsStep, OpenInv', FenceStep(Aborter),
           aborter.at # "idle",
           \/ aborter' = Done
           \/ \E e \in Nat : aborter' = [aborter EXCEPT !.at = "closeTarget",
                                                       !.epoch = e]
           \/ aborter' = [aborter EXCEPT !.at = "settle"]
    PROVE  IInv'
<1>1. RouteStep /\ RouteInv'
  BY RouteSame, Zenon
<1>2. /\ Shaped(aborter, AborterFields)
      /\ aborter.route \in RouteRow
      /\ aborter.source \in Alias /\ aborter.target \in Alias
  BY Zenon DEF IInv, TypeInv, AbortInv
<1>3. AbortInv' /\ Shaped(aborter', AborterFields)
  <2>1. CASE aborter' = Done
    BY <2>1, DoneShaped DEF AbortInv
  <2>2. CASE aborter' # Done
    <3>1. /\ Shaped(aborter', AborterFields)
          /\ aborter'.at # "reopen"
          /\ aborter'.at = "closeTarget" => aborter'.epoch \in Nat
          /\ aborter'.route = aborter.route
          /\ aborter'.source = aborter.source
          /\ aborter'.target = aborter.target
      BY <1>2, <2>2, Zenon DEF Shaped, AborterFields
    <3> QED
      BY <1>2, <3>1, Zenon DEF AbortInv
  <2> QED
    BY <2>1, <2>2, Zenon
<1> QED
  BY <1>1, <1>3, AborterKeeps, Zenon DEF Grows

(* The abort opens the source again.                                       *)
LEMMA ReopenKeeps ==
    ASSUME MoveConstants, IInv, Reopen
    PROVE  IInv'
<1> PICK a, d, e : /\ a = aborter.source /\ d = Physical[a]
                   /\ e = Aborted(aborter.route).epoch
  BY Zenon
<1>1. /\ UNCHANGED <<route, ops, movers>>
      /\ aborter.at = "reopen"
      /\ fence' = [fence EXCEPT ![d] = Nobody]
  BY Zenon DEF Reopen
<1>2. /\ a \in Alias /\ e \in Nat /\ Owned(a, e) /\ fence[d] = Aborter
  BY <1>1 DEF IInv, AbortInv, Aborted, RouteRow
<1>3. FenceStep(Aborter) /\ OpsStep /\ OpsInv'
  BY <1>1, <1>2, OpsSame, Zenon DEF FenceStep, Shaped, IInv, TypeInv
<1>4. EpochsStep /\ OpenInv'
  <2>1. CASE admission' = admission
    BY <1>1, <2>1, RouteSame, AdmissionSame, Zenon
  <2>2. CASE admission' # admission
    <3>1. Reopens(aborter, Aborted(aborter.route)) /\ Transition(a, e, "open")
      BY <2>2, Zenon DEF Reopen
    <3>2. PICK from : MayTransition(Physical[a], e, from)
      BY <3>1 DEF Reopens
    <3> QED
      BY <1>1, <1>2, <3>1, <3>2, Transitions, Zenon
  <2> QED
    BY <2>1, <2>2, Zenon
<1>5. \/ aborter' = Done
      \/ \E x \in Nat : aborter' = [aborter EXCEPT !.at = "closeTarget",
                                                  !.epoch = x]
  <2>1. aborter.route.epoch + 1 \in Nat
    BY <1>1 DEF IInv, AbortInv, RouteRow
  <2> QED
    BY <2>1, Zenon DEF Reopen
<1> QED
  BY <1>1, <1>3, <1>4, <1>5, AbortGoesOn, Zenon

(* The abort closes the target.                                            *)
LEMMA CloseTargetKeeps ==
    ASSUME MoveConstants, IInv, CloseTarget
    PROVE  IInv'
<1>1. /\ UNCHANGED <<route, ops, fence, movers>>
      /\ aborter.at = "closeTarget"
  BY Zenon DEF CloseTarget
<1>2. FenceStep(Aborter) /\ OpsStep /\ OpsInv'
  BY <1>1, OpsSame, FencesSame, Zenon
<1>3. EpochsStep /\ OpenInv'
  <2>1. CASE admission' = admission
    BY <1>1, <2>1, RouteSame, AdmissionSame
  <2>2. CASE admission' # admission
    <3> PICK a, e : a = aborter.target /\ e = aborter.epoch
      BY Zenon
    <3>1. /\ MayTransition(Physical[a], e, {"prepared", "closed"})
          /\ Transition(a, e, "closed")
      BY <2>2, Zenon DEF CloseTarget
    <3>2. e \in Nat
      BY <1>1, Zenon DEF IInv, AbortInv
    <3> QED
      BY <1>1, <3>1, <3>2, Transitions, Zenon
  <2> QED
    BY <2>1, <2>2, Zenon
<1>4. aborter' = Done \/ aborter' = [aborter EXCEPT !.at = "settle"]
  BY Zenon DEF CloseTarget
<1> QED
  BY <1>1, <1>2, <1>3, <1>4, AbortGoesOn, Zenon

(* The abort settles the move.                                             *)
LEMMA SettleAbortedKeeps ==
    ASSUME MoveConstants, IInv, SettleAborted
    PROVE  IInv'
<1> PICK o : o = aborter.op
  BY Zenon
<1>1. /\ UNCHANGED <<route, admission, fence, movers>>
      /\ aborter.at = "settle" /\ aborter' = Done
  BY Zenon DEF SettleAborted
<1>2. EpochsStep /\ OpenInv' /\ FenceStep(Aborter)
  BY <1>1, RouteSame, AdmissionSame, FencesSame, Zenon
<1>3. OpsStep /\ OpsInv'
  <2>1. CASE ops' = ops
    BY <2>1, OpsSame
  <2>2. CASE ops' # ops
    <3>1. /\ Active(o)
          /\ ops' = [ops EXCEPT ![o].status = "aborted", ![o].claim = "none"]
      BY <2>2, Zenon DEF SettleAborted
    <3>2. \E status \in {"completed", "aborted"} :
             ops' = [ops EXCEPT ![o].status = status, ![o].claim = "none"]
      BY <3>1, Zenon
    <3> QED
      BY <3>1, <3>2, Settled, Zenon
  <2> QED
    BY <2>1, <2>2, Zenon
<1> QED
  BY <1>1, <1>2, <1>3, AbortGoesOn, Zenon

(* A process crashes, and the database lets go of its locks.               *)
LEMMA CrashKeeps ==
    ASSUME MoveConstants, IInv, NEW p \in Mover \cup {Aborter}, Crash(p)
    PROVE  IInv'
<1>1. /\ UNCHANGED <<route, ops, admission>>
      /\ fence' = [d \in Database |-> IF fence[d] = p THEN Nobody ELSE fence[d]]
  BY Zenon DEF Crash
<1>2. FenceStep(p)
  BY <1>1, Zenon DEF FenceStep, Shaped
<1>3. EpochsStep /\ OpenInv' /\ OpsStep /\ OpsInv'
  BY <1>1, RouteSame, AdmissionSame, OpsSame, Zenon
<1>4. CASE p \in Mover /\ Stop(p) /\ aborter' = aborter
  BY <1>1, <1>2, <1>3, <1>4, OpsQuiet, QuitKeeps
<1>5. CASE p = Aborter /\ aborter.at # "idle" /\ aborter' = Done
             /\ movers' = movers
  BY <1>1, <1>2, <1>3, <1>5, AbortGoesOn, Zenon
<1> QED
  BY <1>4, <1>5, Zenon DEF Crash

-----------------------------------------------------------------------------
(* The invariant.                                                          *)

(* The invariant holds at first.                                           *)
LEMMA InitKeeps ==
    ASSUME MoveConstants, Init
    PROVE  IInv
<1>1. PICK home \in Alias :
          /\ route = [owner |-> home, status |-> "active", target |-> Nobody,
                      version |-> 1, epoch |-> 1]
          /\ ops = [o \in 1 .. MaxMoves |-> NoMove]
          /\ admission = [d \in Database |->
                 IF d = Physical[home]
                 THEN [NoAdmission EXCEPT !.alias = home, !.epoch = 1,
                                          !.state = "open"]
                 ELSE NoAdmission]
          /\ fence = [d \in Database |-> Nobody]
          /\ movers = [m \in Mover |-> Rest]
          /\ aborter = Done
  BY Zenon DEF Init
<1>2. route \in RouteRow /\ route.owner = home /\ route.epoch = 1
        /\ route.status = "active"
  BY <1>1, Zenon DEF RouteRow
<1>3. \A d \in Database :
          \/ /\ d = Physical[home]
             /\ admission[d].epoch = 1 /\ admission[d].state = "open"
          \/ admission[d].epoch = 0 /\ admission[d].state = "none"
  BY <1>1, Zenon DEF NoAdmission
<1>4. AdmissionsTyped
  BY <1>1, <1>3 DEF AdmissionsTyped, Shaped
<1>5. \A o \in Op : /\ Shaped(ops[o], OpFields) /\ ops[o].gen = 0
                    /\ ops[o].status = "unused"
  BY <1>1, Zenon DEF Op, NoMove, Shaped, OpFields
<1>6. OpsTyped
  BY <1>1, <1>5 DEF OpsTyped, Op, Shaped, Used
<1>7. \A p \in Mover : /\ Shaped(movers[p], MoverFields)
                       /\ movers[p].at = "idle" /\ movers[p].final = FALSE
  BY <1>1, Zenon DEF Rest, Shaped, MoverFields
<1>8. TypeInv
  BY <1>1, <1>2, <1>4, <1>6, <1>7, DoneShaped, Zenon DEF TypeInv, Shaped, Steps
<1>9. OpsInv
  <2>1. \A o \in Op : ~Used(o) /\ ~Active(o) /\ ~(o <= 0)
    BY <1>5 DEF Used, Active, Op
  <2> QED
    BY <2>1, Zenon DEF OpsInv
<1>10. RouteInv /\ OpenInv
  BY <1>2, <1>3 DEF RouteInv, OpenInv
<1>11. \A p \in Mover : /\ ~Held(movers[p]) /\ ~Online(movers[p])
                        /\ movers[p].at \notin {"count", "fence", "activate"}
  BY <1>7, Zenon DEF Held, HeldSteps, Online, OnlineSteps
<1>12. \A p \in Mover : RowOf(movers[p])
  BY Zenon, <1>7, <1>11
     DEF RowOf, RouteOf, ClaimOf, StageOf, HasRoute, HasClaim,
                     OldSteps, OnlineSteps, HeldSteps
<1>13. FenceInv /\ SeekInv /\ RuleInv
  BY <1>11, Zenon DEF FenceInv, SeekInv, RuleInv, Seeks, Rules
<1>14. AbortInv
  BY <1>1, DoneShaped, Zenon DEF AbortInv
<1> QED
  BY <1>8, <1>9, <1>10, <1>12, <1>13, <1>14 DEF IInv

(* Every step of a mover keeps the invariant.                              *)
LEMMA MoverStepKeeps ==
    ASSUME MoveConstants, IInv, NEW p \in Mover, MoverStep(p)
    PROVE  IInv'
BY Zenon, PreparationLocal, ReplayLocal, ClaimSteps, CutoverSteps,
   InstallAndDrain,
   RereadKeeps, PhaseDrainingKeeps, CountWorkKeeps, TakeFenceKeeps,
   FreezeKeeps,
   ActivateKeeps, CloseKeeps, RetryKeeps, SettleSteps, OpenKeeps,
   ReconcileKeeps,
   RestoreKeeps, ConfirmKeeps, ReserveKeeps, MarkDrainingKeeps, ClaimKeeps
   DEF MoverStep

(* Nothing happens.                                                        *)
LEMMA StutterKeeps ==
    ASSUME MoveConstants, IInv, UNCHANGED moveVars
    PROVE  IInv'
<1>1. UNCHANGED <<route, ops, admission, fence, movers, aborter>>
  BY Zenon DEF moveVars
<1> QED
  BY <1>1, OpsSame, OutsideKeeps, Zenon

(* Every step keeps the invariant.                                         *)
LEMMA NextKeeps ==
    ASSUME MoveConstants, IInv, [Next]_moveVars
    PROVE  IInv'
<1>1. CASE UNCHANGED moveVars
  BY <1>1, StutterKeeps, Zenon
<1>2. CASE \E d \in Database, k \in Key : NewWork(d, k) \/ SettleWork(d, k)
  BY <1>2, WorkKeeps, Zenon
<1>3. CASE \E p \in Mover, goal \in Alias : Start(p, goal)
  BY <1>3, StartKeeps, Zenon
<1>4. CASE \E p \in Mover : MoverStep(p)
  BY <1>4, MoverStepKeeps, Zenon
<1>5. CASE \E o \in 1 .. MaxMoves : ClaimExpires(o)
  BY <1>5, ExpiresKeeps, Zenon
<1>6. CASE \E s, t \in Alias : StartAbort(s, t)
  BY <1>6, StartAbortKeeps, Zenon
<1>7. CASE AbortRoute \/ Reopen \/ CloseTarget \/ SettleAborted
  BY <1>7, AbortRouteKeeps, ReopenKeeps, CloseTargetKeeps, SettleAbortedKeeps,
     Zenon
<1>8. CASE \E p \in Mover \cup {Aborter} : Crash(p)
  BY <1>8, CrashKeeps
<1> QED
  BY <1>1, <1>2, <1>3, <1>4, <1>5, <1>6, <1>7, <1>8 DEF Next

(* Only the database of the route's owner takes new work for the shard,    *)
(* whatever movers, aborts, expired claims and crashes do, in any number   *)
(* and order (transition_local_shard_admission, move_shard_placement,      *)
(* abort_shard_move).                                                      *)
THEOREM OnlyTheOwnerIsOpen ==
    ASSUME MoveConstants
    PROVE  Spec => []OneOpenOwner
<1>1. Init => IInv
  BY InitKeeps, Zenon
<1>2. IInv /\ [Next]_moveVars => IInv'
  BY NextKeeps, Zenon
<1>3. IInv => OneOpenOwner
  BY DEF IInv, OpenInv, OneOpenOwner
<1> QED
  BY <1>1, <1>2, <1>3, PTL DEF Spec

(* A mover that hands the route over closed the source of the route it     *)
(* hands over, at the epoch after that route's: the database is taken from *)
(* the claimed move and the alias from the route read last, and nothing in *)
(* move_shard_placement compares the two.                                  *)
SourceIsOwner == \A p \in Mover :
    movers[p].at \in {"close", "activate"} =>
        movers[p].route.owner = ops[movers[p].op].source

(* No cutover closes a database other than that of the owner it replaces.  *)
THEOREM CutoverClosesTheOwner ==
    ASSUME MoveConstants
    PROVE  Spec => []SourceIsOwner
<1>1. Init => IInv
  BY InitKeeps
<1>2. IInv /\ [Next]_moveVars => IInv'
  BY NextKeeps
<1>3. IInv => SourceIsOwner
  <2> SUFFICES ASSUME IInv, NEW p \in Mover,
                      movers[p].at \in {"close", "activate"}
               PROVE  movers[p].route.owner = ops[movers[p].op].source
    BY DEF SourceIsOwner
  <2>1. RowOf(movers[p]) /\ (movers[p].at = "close" => Held(movers[p]))
    BY Placed, Zenon DEF HeldSteps, OnlineSteps
  <2> QED
    BY <2>1, Zenon DEF RowOf, StageOf
<1> QED
  BY <1>1, <1>2, <1>3, PTL DEF Spec
=============================================================================
