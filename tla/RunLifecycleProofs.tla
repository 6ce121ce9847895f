------------------------- MODULE RunLifecycleProofs -------------------------
(***************************************************************************)
(* Proofs about RunLifecycle, for every set of runs, shards, databases,    *)
(* coordinators and cancel commands and every bound: how a run ends.       *)
(*                                                                         *)
(* Finalization reads summaries one database at a time and writes later;   *)
(* cancellation reads routes and cleans up later; dispatch commits in two  *)
(* databases one after the other.  In each case what was read must still   *)
(* be true when it is used, and the inductive invariant says why it is: a  *)
(* settled shard changes no more (Grown), and the row locks keep the       *)
(* status of a run that a transaction goes by (LockInv, CoordOf, CancelOf).*)
(***************************************************************************)
EXTENDS RunLifecycle, TLAPS

(* The provers a leaf that names none is given to, in this order.          *)
USE SMT, Zenon, Z3

-----------------------------------------------------------------------------
(* The types of the rows, without the order of the heartbeats and without  *)
(* the range of the totals.                                                *)
Place == [alias: Database, placement: {"active", "draining", "moving"},
          epoch: 1 .. MaxEpoch]

CoordRow == [at: CycleStep, run: Run, shard: Shard, alias: Database, epoch: Nat,
             starts: BOOLEAN, more: BOOLEAN, skip: SUBSET Database, budget: Nat,
             seen: SUBSET Run, unread: SUBSET Database,
             placed: {<<>>} \cup [Shard -> Place],
             sums: {<<>>} \cup [Shard -> SUBSET Summary], complete: BOOLEAN]

CancelRow == [at: {"idle", "locked", "marked", "fanout"}, run: Run,
              left: SUBSET Database, placed: {<<>>} \cup [Shard -> Place]]

RunRowWith(result) ==
    [status: Status, gate: {"none", "pass", "fail"},
     coordinator: Coordinator \cup {Nobody}, lease: {"none", "held", "expired"},
     cancelling: BOOLEAN, result: {result}]

RunsTyped == /\ runs = [r \in Run |-> runs[r]]
             /\ \A r \in Run : runs[r] \in RunRowWith(runs[r].result)

(* A shard's chunks are all accounted for; only a shard that may still get *)
(* a higher epoch is drained.                                              *)
ShardOf(x) ==
    /\ x \in ShardRow
    /\ x.todo + x.out + x.cut + x.done = Chunks /\ x.bad <= x.done
    /\ x.placement # "active" => x.epoch < MaxEpoch

ShardsTyped == /\ shards \in [Run -> [Shard -> ShardRow]]
               /\ \A r \in Run, s \in Shard : ShardOf(shards[r][s])

TypeInv ==
    /\ RunsTyped /\ ShardsTyped
    /\ cursors \in [Run -> [Shard -> {"open", "drained"}]]
    /\ coords \in [Coordinator -> CoordRow]
    /\ cancels \in [Canceller -> CancelRow]

(* A transaction that starts a run shares the run row with no other, and a *)
(* cancel command shares it with no dispatch.                              *)
Writes(c) == coords[c].at \in {"prepared", "written"}

LockInv ==
    /\ \A c, d \in Coordinator :
         Writes(c) /\ Writes(d) /\ coords[c].run = coords[d].run /\ c # d =>
           ~coords[c].starts
    /\ \A c \in Coordinator, k \in Canceller :
         Writes(c) /\ cancels[k].at = "locked" => coords[c].run # cancels[k].run

(* What a coordinator has read or written is still so: the run it starts   *)
(* is pending, the shard whose last window it wrote has no chunk left, and *)
(* a terminal summary that it holds is that of the settled shard.          *)
ReadOf(x) ==
    /\ x.sums \in [Shard -> SUBSET Summary]
    /\ \A s \in Shard : \A sum \in x.sums[s] :
         /\ IsTerminal(sum) => /\ shards[x.run][s].done = Chunks
                               /\ shards[x.run][s].bad = sum.bad
         /\ \A other \in x.sums[s] : other = sum

CoordOf(c) ==
    /\ Writes(c) /\ coords[c].starts => runs[coords[c].run].status = "pending"
    /\ coords[c].at = "written" /\ ~coords[c].more =>
         shards[coords[c].run][coords[c].shard].todo = 0
    /\ coords[c].at \in {"reading", "owner"} => ReadOf(coords[c])
    /\ coords[c].at = "owner" =>
         \A s \in Shard : \E sum \in coords[c].sums[s] : IsTerminal(sum)

(* A cancel command that goes on has marked its run, and what it need not  *)
(* visit any more is clean.                                                *)
Clean(x) == x.done = Chunks /\ x.summary # "none"

CancelOf(k) ==
    /\ cancels[k].at = "locked" => runs[cancels[k].run].status # "completed"
    /\ cancels[k].at \in {"marked", "fanout"} =>
         runs[cancels[k].run].status = "cancelled"
    /\ cancels[k].at = "fanout" =>
         /\ cancels[k].placed \in [Shard -> Place]
         /\ \A s \in Shard : \/ cancels[k].placed[s].alias \in cancels[k].left
                             \/ Clean(shards[cancels[k].run][s])

(* The outcome and the event of a run agree; a completed run has what its  *)
(* settled shards add up to, a cancelled one that was cleaned up is clean, *)
(* and a drained shard of any other has no chunk left to dispatch.         *)
RunOf(r) ==
    /\ runs[r].status = "cancelled" => runs[r].gate = "fail"
    /\ <<r, "completed">> \in outbox => runs[r].status = "completed"
    /\ <<r, "cancelled">> \in outbox => runs[r].status = "cancelled"
    /\ runs[r].status = "completed" =>
         /\ \A s \in Shard : shards[r][s].done = Chunks
         /\ runs[r].result =
              [settled |-> SumFunction([s \in Shard |-> shards[r][s].done]),
               bad |-> SumFunction([s \in Shard |-> shards[r][s].bad])]
         /\ runs[r].gate = IF SumFunction([s \in Shard |-> shards[r][s].bad]) = 0
                           THEN "pass" ELSE "fail"
    /\ runs[r].status = "cancelled" /\ ~runs[r].cancelling =>
         \A s \in Shard : Clean(shards[r][s])
    /\ runs[r].status # "cancelled" =>
         \A s \in Shard : cursors[r][s] = "drained" => shards[r][s].todo = 0

IInv ==
    /\ TypeInv /\ LockInv
    /\ \A c \in Coordinator : CoordOf(c)
    /\ \A k \in Canceller : CancelOf(k)
    /\ \A r \in Run : RunOf(r)

-----------------------------------------------------------------------------
(* The operators.                                                          *)

(* Min of FiniteSetsExt on two numbers, as WriteWindow uses it.            *)
LEMMA MinOfTwo ==
    ASSUME NEW a \in Nat, NEW b \in Nat
    PROVE  Min({a, b}) \in Nat /\ Min({a, b}) <= a /\ Min({a, b}) <= b
                               /\ (Min({a, b}) = a \/ Min({a, b}) = b)
<1>1. \E x \in {a, b} : \A y \in {a, b} : x <= y
    <2>1. CASE a <= b  BY <2>1
    <2>2. CASE b <= a  BY <2>2
    <2> QED  BY <2>1, <2>2
<1>2. Min({a, b}) \in {a, b} /\ \A y \in {a, b} : Min({a, b}) <= y
    BY <1>1 DEF Min
<1> QED  BY <1>2

(* What a process rests at has the type of its row.                        *)
LEMMA RestsTyped == Idle \in CoordRow /\ Rest \in CancelRow
<1>1. /\ (CHOOSE r \in Run : TRUE) \in Run
      /\ (CHOOSE s \in Shard : TRUE) \in Shard
      /\ (CHOOSE d \in Database : TRUE) \in Database
    BY LifecycleAssumption
<1> QED  BY <1>1 DEF Idle, Rest, CoordRow, CancelRow, CycleStep

(* What Resume and Skip leave of a coordinator: a row between two items.   *)
Between(c, pass) ==
    \E v \in CoordRow : v.at = pass /\ coords' = [coords EXCEPT ![c] = v]

(* A coordinator goes on to the next run of its pass.                      *)
LEMMA ResumeIsBetween ==
    ASSUME TypeInv, NEW c \in Coordinator, NEW pass \in {"dispatch", "finalize"},
           coords' = Resume(c, pass)
    PROVE  Between(c, pass)
<1> DEFINE v == [Idle EXCEPT !.at = pass, !.budget = coords[c].budget,
                     !.skip = IF pass = "dispatch" THEN coords[c].skip ELSE {},
                     !.seen = coords[c].seen]
<1>1. coords[c] \in CoordRow  BY DEF TypeInv
<1>2. v \in CoordRow /\ v.at = pass
    <2>1. (IF pass = "dispatch" THEN coords[c].skip ELSE {}) \in SUBSET Database
        BY <1>1 DEF CoordRow
    <2> QED  BY <1>1, <2>1, RestsTyped, Zenon DEF CoordRow, CycleStep
<1>3. coords' = [coords EXCEPT ![c] = v]  BY DEF Resume
<1> QED  BY <1>2, <1>3, Zenon DEF Between

(* A coordinator skips a run in its dispatch pass.                         *)
LEMMA SkipIsBetween ==
    ASSUME TypeInv, NEW c \in Coordinator, coords' = Skip(c)
    PROVE  Between(c, "dispatch")
<1> DEFINE w == [Idle EXCEPT !.at = "dispatch", !.budget = coords[c].budget,
                     !.skip = IF "dispatch" = "dispatch" THEN coords[c].skip ELSE {},
                     !.seen = coords[c].seen]
           v == [w EXCEPT !.skip = @ \cup {coords[c].alias}]
<1>1. coords[c] \in CoordRow  BY DEF TypeInv
<1>2. w \in CoordRow /\ w.at = "dispatch"
    BY <1>1, RestsTyped, Zenon DEF CoordRow, CycleStep
<1>3. v \in CoordRow /\ v.at = "dispatch"
    <2>1. coords[c].alias \in Database  BY <1>1 DEF CoordRow
    <2> HIDE DEF w
    <2> QED  BY <1>2, <2>1 DEF CoordRow
<1>4. coords' = [coords EXCEPT ![c] = v]
    <2>1. Resume(c, "dispatch") = [coords EXCEPT ![c] = w]  BY DEF Resume
    <2>2. coords' = [[coords EXCEPT ![c] = w] EXCEPT ![c].skip = @ \cup {coords[c].alias}]
        BY <2>1, Zenon DEF Skip
    <2>3. [coords EXCEPT ![c] = w][c] = w  BY DEF TypeInv
    <2> HIDE DEF w
    <2> QED  BY <2>2, <2>3, Zenon DEF TypeInv
<1> QED  BY <1>3, <1>4, Zenon DEF Between

-----------------------------------------------------------------------------
(* What a step may do to a shard: dispatch is not taken back, a settled    *)
(* shard keeps its counts and a summary stays.                             *)
Grown(x, y) ==
    /\ x.todo = 0 => y.todo = 0
    /\ x.done = Chunks => y.done = Chunks /\ y.bad = x.bad
    /\ x.summary # "none" => y.summary # "none"

Grows == \A r \in Run, s \in Shard : Grown(shards[r][s], shards'[r][s])

(* Shards that do not change.                                              *)
LEMMA SameGrows == ASSUME shards' = shards PROVE Grows
BY DEF Grows, Grown

(* A coordinator that does not move keeps what it knows while the shards   *)
(* grow and the run it starts stays pending.                               *)
LEMMA CoordFrame ==
    ASSUME IInv, NEW c \in Coordinator, coords'[c] = coords[c], Grows,
           Writes(c) /\ coords[c].starts => runs'[coords[c].run].status = "pending"
    PROVE  CoordOf(c)'
<1>1. coords[c] \in CoordRow /\ CoordOf(c)  BY DEF IInv, TypeInv
<1>2. coords[c].run \in Run /\ coords[c].shard \in Shard  BY <1>1 DEF CoordRow
<1>3. \A s \in Shard : Grown(shards[coords[c].run][s], shards'[coords[c].run][s])
    BY <1>2 DEF Grows
<1>4. (Writes(c) /\ coords[c].starts => runs[coords[c].run].status = "pending")'
    BY DEF Writes
<1>5. (coords[c].at = "written" /\ ~coords[c].more =>
         shards[coords[c].run][coords[c].shard].todo = 0)'
    BY <1>1, <1>2, <1>3 DEF CoordOf, Grown
<1>6. ASSUME coords[c].at \in {"reading", "owner"} PROVE ReadOf(coords[c])'
    <2>1. ReadOf(coords[c])  BY <1>1, <1>6 DEF CoordOf
    <2> QED  BY <2>1, <1>3 DEF ReadOf, Grown, IsTerminal
<1>7. (coords[c].at = "owner" =>
         \A s \in Shard : \E sum \in coords[c].sums[s] : IsTerminal(sum))'
    BY <1>1 DEF CoordOf, IsTerminal
<1> QED  BY <1>4, <1>5, <1>6, <1>7 DEF CoordOf

(* The same for a cancel command, while its run stays as it has marked it. *)
LEMMA CancelFrame ==
    ASSUME IInv, NEW k \in Canceller, cancels'[k] = cancels[k], Grows,
           cancels[k].at = "locked" => runs'[cancels[k].run].status # "completed",
           cancels[k].at \in {"marked", "fanout"} =>
             runs'[cancels[k].run].status = "cancelled"
    PROVE  CancelOf(k)'
<1>1. cancels[k] \in CancelRow /\ CancelOf(k)  BY DEF IInv, TypeInv
<1>2. cancels[k].run \in Run  BY <1>1 DEF CancelRow
<1>3. \A s \in Shard : Grown(shards[cancels[k].run][s], shards'[cancels[k].run][s])
    BY <1>2 DEF Grows
<1>4. ASSUME cancels[k].at = "fanout"
      PROVE  /\ cancels[k].placed \in [Shard -> Place]
             /\ \A s \in Shard : \/ cancels[k].placed[s].alias \in cancels[k].left
                                 \/ Clean(shards'[cancels[k].run][s])
    BY <1>1, <1>3, <1>4 DEF CancelOf, Grown, Clean
<1> QED  BY <1>4 DEF CancelOf

(* A run keeps what is known of it while its row and its cursors stay and  *)
(* the shards grow.                                                        *)
LEMMA RunFrame ==
    ASSUME IInv, NEW r \in Run, Grows, cursors'[r] = cursors[r],
           runs'[r].status = runs[r].status, runs'[r].gate = runs[r].gate,
           runs'[r].cancelling = runs[r].cancelling, runs'[r].result = runs[r].result,
           <<r, "completed">> \in outbox' => <<r, "completed">> \in outbox,
           <<r, "cancelled">> \in outbox' => <<r, "cancelled">> \in outbox
    PROVE  RunOf(r)'
<1>1. RunOf(r)  BY DEF IInv
<1>2. \A s \in Shard : Grown(shards[r][s], shards'[r][s])  BY DEF Grows
<1>3. ASSUME runs[r].status = "completed"
      PROVE  /\ \A s \in Shard : shards'[r][s].done = Chunks
             /\ [s \in Shard |-> shards'[r][s].done] = [s \in Shard |-> shards[r][s].done]
             /\ [s \in Shard |-> shards'[r][s].bad] = [s \in Shard |-> shards[r][s].bad]
    BY <1>1, <1>2, <1>3 DEF RunOf, Grown
<1>4. (runs[r].status = "completed" =>
         /\ \A s \in Shard : shards[r][s].done = Chunks
         /\ runs[r].result =
              [settled |-> SumFunction([s \in Shard |-> shards[r][s].done]),
               bad |-> SumFunction([s \in Shard |-> shards[r][s].bad])]
         /\ runs[r].gate = IF SumFunction([s \in Shard |-> shards[r][s].bad]) = 0
                           THEN "pass" ELSE "fail")'
    BY <1>1, <1>3, Zenon DEF RunOf
<1>5. (runs[r].status = "cancelled" /\ ~runs[r].cancelling =>
         \A s \in Shard : Clean(shards[r][s]))'
    BY <1>1, <1>2 DEF RunOf, Grown, Clean
<1>6. (runs[r].status # "cancelled" =>
         \A s \in Shard : cursors[r][s] = "drained" => shards[r][s].todo = 0)'
    BY <1>1, <1>2 DEF RunOf, Grown
<1>7. (/\ runs[r].status = "cancelled" => runs[r].gate = "fail"
       /\ <<r, "completed">> \in outbox => runs[r].status = "completed"
       /\ <<r, "cancelled">> \in outbox => runs[r].status = "cancelled")'
    BY <1>1 DEF RunOf
<1> QED  BY <1>4, <1>5, <1>6, <1>7 DEF RunOf

-----------------------------------------------------------------------------
(* Steps of one process, or of the shards, that leave the control rows.    *)

(* A coordinator moves to a row that keeps the locks and its own part.     *)
LEMMA CoordMoves ==
    ASSUME IInv, NEW c \in Coordinator, NEW v \in CoordRow,
           coords' = [coords EXCEPT ![c] = v],
           UNCHANGED <<runs, cursors, shards, outbox, cancels>>,
           LockInv', CoordOf(c)'
    PROVE  IInv'
<1>1. TypeInv'
    BY DEF IInv, TypeInv, RunsTyped, ShardsTyped
<1>2. Grows  BY SameGrows
<1>3. \A d \in Coordinator : CoordOf(d)'
    <2>1. ASSUME NEW d \in Coordinator, d # c PROVE CoordOf(d)'
        <3>1. coords'[d] = coords[d]  BY <2>1 DEF IInv, TypeInv
        <3>2. Writes(d) /\ coords[d].starts => runs'[coords[d].run].status = "pending"
            BY DEF IInv, CoordOf
        <3> QED  BY <1>2, <3>1, <3>2, CoordFrame
    <2> QED  BY <2>1
<1>4. \A k \in Canceller : CancelOf(k)'
    <2> SUFFICES ASSUME NEW k \in Canceller PROVE CancelOf(k)'  OBVIOUS
    <2>1. CancelOf(k)  BY DEF IInv
    <2> QED  BY <1>2, <2>1, CancelFrame DEF CancelOf
<1>5. \A r \in Run : RunOf(r)'  BY <1>2, RunFrame, Zenon
<1> QED  BY <1>1, <1>3, <1>4, <1>5 DEF IInv

(* A coordinator that is between two items, or has only a cursor, knows    *)
(* nothing and locks no run.                                               *)
LEMMA CoordRests ==
    ASSUME IInv, NEW c \in Coordinator, NEW v \in CoordRow,
           v.at \in {"idle", "dispatch", "claimed", "finalize"},
           coords' = [coords EXCEPT ![c] = v],
           UNCHANGED <<runs, cursors, shards, outbox, cancels>>
    PROVE  IInv'
<1>1. coords'[c] = v /\ \A d \in Coordinator : d # c => coords'[d] = coords[d]
    BY DEF IInv, TypeInv
<1>2. ~Writes(c)' /\ \A d \in Coordinator : d # c => (Writes(d)' <=> Writes(d))
    BY <1>1 DEF Writes
<1>3. LockInv'
    BY <1>1, <1>2 DEF IInv, LockInv
<1>4. CoordOf(c)'
    BY <1>1, <1>2 DEF CoordOf
<1> QED  BY <1>3, <1>4, CoordMoves, Zenon

(* A step that only moves a coordinator between runs.                      *)
LEMMA BetweenKeeps ==
    ASSUME IInv, NEW c \in Coordinator, NEW pass \in {"dispatch", "finalize"},
           Between(c, pass), UNCHANGED <<runs, cursors, shards, outbox, cancels>>
    PROVE  IInv'
<1>1. PICK v \in CoordRow : v.at = pass /\ coords' = [coords EXCEPT ![c] = v]
    BY Zenon DEF Between
<1> QED  BY <1>1, CoordRests, Zenon

(* The shards grow and nothing else happens.                               *)
LEMMA ShardsMove ==
    ASSUME IInv, ShardsTyped', Grows, UNCHANGED <<runs, cursors, outbox, coords, cancels>>
    PROVE  IInv'
<1>1. TypeInv'  BY DEF IInv, TypeInv, RunsTyped
<1>2. LockInv'  BY DEF IInv, LockInv, Writes
<1>3. \A c \in Coordinator : CoordOf(c)'
    <2> SUFFICES ASSUME NEW c \in Coordinator PROVE CoordOf(c)'  OBVIOUS
    <2>1. CoordOf(c)  BY DEF IInv
    <2> QED  BY <2>1, CoordFrame DEF CoordOf
<1>4. \A k \in Canceller : CancelOf(k)'
    <2> SUFFICES ASSUME NEW k \in Canceller PROVE CancelOf(k)'  OBVIOUS
    <2>1. CancelOf(k)  BY DEF IInv
    <2> QED  BY <2>1, CancelFrame DEF CancelOf
<1>5. \A r \in Run : RunOf(r)'  BY RunFrame, Zenon
<1> QED  BY <1>1, <1>2, <1>3, <1>4, <1>5 DEF IInv

(* One shard is replaced by a grown row.                                   *)
LEMMA ShardMoves ==
    ASSUME ShardsTyped, NEW r \in Run, NEW s \in Shard, NEW y, ShardOf(y),
           Grown(shards[r][s], y), shards' = [shards EXCEPT ![r][s] = y]
    PROVE  ShardsTyped' /\ Grows
<1>1. y \in ShardRow  BY DEF ShardOf
<1>2. shards' \in [Run -> [Shard -> ShardRow]]  BY <1>1 DEF ShardsTyped
<1>3. /\ shards'[r][s] = y
      /\ \A q \in Run, t \in Shard : <<q, t>> # <<r, s>> => shards'[q][t] = shards[q][t]
    BY <1>1 DEF ShardsTyped
<1>4. \A q \in Run, t \in Shard : ShardOf(shards'[q][t])
    BY <1>3, Zenon DEF ShardsTyped
<1>5. \A q \in Run, t \in Shard : Grown(shards[q][t], shards'[q][t])
    <2>1. \A x : Grown(x, x)  BY DEF Grown
    <2> QED  BY <1>3, <2>1, Zenon
<1>6. ShardsTyped'
    BY <1>2, <1>4 DEF ShardsTyped, ShardOf
<1> QED  BY <1>5, <1>6 DEF Grows

-----------------------------------------------------------------------------
(* What workers, aggregation and moves do.                                 *)

(* The rows they write are grown rows.                                     *)
LEMMA SettledGrows ==
    ASSUME NEW x, ShardOf(x), x.out > 0, NEW b \in {0, 1}
    PROVE  LET y == [Settled(x, 1, b) EXCEPT !.out = @ - 1]
           IN  ShardOf(y) /\ Grown(x, y)
<1> DEFINE y == [x EXCEPT !.done = x.done + 1, !.bad = x.bad + b, !.out = x.out - 1]
<1>1. /\ x \in ShardRow /\ Chunks \in Nat
      /\ {x.todo, x.out, x.cut, x.done, x.bad} \subseteq Nat
    BY LifecycleAssumption DEF ShardOf, ShardRow
<1>2. [Settled(x, 1, b) EXCEPT !.out = @ - 1] = y
    BY <1>1 DEF Settled, ShardRow
<1>3. /\ y.todo = x.todo /\ y.cut = x.cut /\ y.out = x.out - 1 /\ y.done = x.done + 1
      /\ y.bad = x.bad + b /\ y.summary = x.summary /\ y.placement = x.placement
      /\ y.epoch = x.epoch
    BY <1>1 DEF ShardRow
<1>4. x.done < Chunks  BY <1>1 DEF ShardOf
<1>5. y.out \in 0 .. Chunks /\ y.done \in 0 .. Chunks /\ y.bad \in 0 .. Chunks
    BY <1>1, <1>3 DEF ShardOf
<1>6. y \in ShardRow
    BY <1>1, <1>3, <1>5, Zenon DEF ShardRow
<1>7. ShardOf(y)
    <2> HIDE DEF y
    <2> QED  BY <1>1, <1>3, <1>6 DEF ShardOf
<1>8. Grown(x, y)
    <2> HIDE DEF y
    <2> QED  BY <1>1, <1>3, <1>4 DEF Grown
<1> QED  BY <1>2, <1>7, <1>8

(* A new placement loses nothing that a shard has settled.                 *)
LEMMA PlacedGrows ==
    ASSUME NEW x, ShardOf(x), NEW p \in {"active", "draining", "moving"},
           NEW d \in Database, NEW e \in 1 .. MaxEpoch,
           p # "active" => e < MaxEpoch
    PROVE  LET y == [x EXCEPT !.placement = p, !.alias = d, !.epoch = e]
           IN  ShardOf(y) /\ Grown(x, y)
<1> DEFINE y == [x EXCEPT !.placement = p, !.alias = d, !.epoch = e]
<1>1. x \in ShardRow  BY DEF ShardOf
<1>2. /\ y \in ShardRow
      /\ y.todo = x.todo /\ y.cut = x.cut /\ y.out = x.out /\ y.done = x.done
      /\ y.bad = x.bad /\ y.summary = x.summary /\ y.placement = p /\ y.epoch = e
    BY <1>1, Zenon DEF ShardRow
<1> HIDE DEF y
<1>3. ShardOf(y)  BY <1>2 DEF ShardOf
<1>4. Grown(x, y)  BY <1>2 DEF Grown
<1> QED  BY <1>3, <1>4 DEF y

(* A worker settles a chunk.                                               *)
LEMMA SettleChunkKeeps ==
    ASSUME IInv, NEW r \in Run, NEW s \in Shard, SettleChunk(r, s) PROVE IInv'
<1>1. ShardsTyped /\ ShardOf(shards[r][s])  BY DEF IInv, TypeInv, ShardsTyped
<1>2. PICK b \in {0, 1} :
        shards' = [shards EXCEPT ![r][s] =
          [Settled(shards[r][s], 1, b) EXCEPT !.out = @ - 1]]
    BY Zenon DEF SettleChunk
<1> DEFINE y == [Settled(shards[r][s], 1, b) EXCEPT !.out = @ - 1]
<1>3. shards' = [shards EXCEPT ![r][s] = y]  BY <1>2
<1>4. ShardOf(y) /\ Grown(shards[r][s], y)
    BY <1>1, SettledGrows, Zenon DEF SettleChunk
<1> HIDE DEF y
<1>5. ShardsTyped' /\ Grows  BY <1>1, <1>3, <1>4, ShardMoves, Zenon
<1> QED  BY <1>5, ShardsMove DEF SettleChunk

(* A shard's summary is sealed.                                            *)
LEMMA SealKeeps ==
    ASSUME IInv, NEW r \in Run, NEW s \in Shard, Seal(r, s) PROVE IInv'
<1> DEFINE x == shards[r][s]
           y == [x EXCEPT !.summary = "sealed"]
<1>1. ShardsTyped /\ ShardOf(x)  BY DEF IInv, TypeInv, ShardsTyped
<1>2. shards' = [shards EXCEPT ![r][s] = y]  BY <1>1 DEF Seal, ShardsTyped
<1>3. /\ y \in ShardRow
      /\ y.todo = x.todo /\ y.cut = x.cut /\ y.out = x.out /\ y.done = x.done
      /\ y.bad = x.bad /\ y.summary = "sealed" /\ y.placement = x.placement
      /\ y.epoch = x.epoch
    BY <1>1 DEF ShardOf, ShardRow
<1> HIDE DEF x, y
<1>4. ShardOf(y) /\ Grown(x, y)  BY <1>1, <1>3 DEF ShardOf, Grown
<1>5. ShardsTyped' /\ Grows  BY <1>1, <1>2, <1>4, ShardMoves, Zenon DEF x
<1> QED  BY <1>5, ShardsMove DEF Seal

(* A shard moves to another database.                                      *)
LEMMA MoveKeeps ==
    ASSUME IInv, NEW r \in Run, NEW s \in Shard, Move(r, s) PROVE IInv'
<1> DEFINE x == shards[r][s]
           At(p, d, e) == [x EXCEPT !.placement = p, !.alias = d, !.epoch = e]
<1>1. ShardsTyped /\ ShardOf(x)  BY DEF IInv, TypeInv, ShardsTyped
<1>2. /\ x \in ShardRow /\ x.alias \in Database /\ x.epoch \in 1 .. MaxEpoch
      /\ MaxEpoch \in Nat
    BY <1>1, LifecycleAssumption DEF ShardOf, ShardRow
<1>3. ASSUME NEW p \in {"active", "draining", "moving"}, NEW d \in Database,
             NEW e \in 1 .. MaxEpoch, p # "active" => e < MaxEpoch,
             shards' = [shards EXCEPT ![r][s] = At(p, d, e)]
      PROVE  ShardsTyped' /\ Grows
    <2>1. ShardOf(At(p, d, e)) /\ Grown(x, At(p, d, e))  BY <1>1, <1>3, PlacedGrows, Zenon
    <2> HIDE DEF At, x
    <2> QED  BY <1>1, <1>3, <2>1, ShardMoves, Zenon DEF x
<1>4. CASE DrainShard(r, s)
    <2>1. shards' = [shards EXCEPT ![r][s] = At("draining", x.alias, x.epoch)]
        BY <1>2, <1>4, Zenon DEF DrainShard, ShardRow
    <2>2. x.epoch < MaxEpoch  BY <1>4 DEF DrainShard
    <2>3. ShardsTyped' /\ Grows  BY <1>2, <1>3, <2>1, <2>2, Zenon
    <2> QED  BY <1>4, <2>3, ShardsMove DEF DrainShard
<1>5. CASE FreezeShard(r, s)
    <2>1. shards' = [shards EXCEPT ![r][s] = At("moving", x.alias, x.epoch)]
        BY <1>2, <1>5, Zenon DEF FreezeShard, ShardRow
    <2>2. x.epoch < MaxEpoch  BY <1>1, <1>5 DEF FreezeShard, ShardOf
    <2>3. ShardsTyped' /\ Grows  BY <1>2, <1>3, <2>1, <2>2, Zenon
    <2> QED  BY <1>5, <2>3, ShardsMove DEF FreezeShard
<1>6. ASSUME NEW d \in Database, ActivateShard(r, s, d) PROVE IInv'
    <2>1. shards' = [shards EXCEPT ![r][s] = At("active", d, x.epoch + 1)]
        BY <1>2, <1>6 DEF ActivateShard, ShardRow
    <2>2. x.epoch + 1 \in 1 .. MaxEpoch  BY <1>1, <1>2, <1>6 DEF ActivateShard, ShardOf
    <2>3. ShardsTyped' /\ Grows  BY <1>3, <2>1, <2>2, Zenon
    <2> QED  BY <1>6, <2>3, ShardsMove DEF ActivateShard
<1> QED  BY <1>4, <1>5, <1>6 DEF Move

-----------------------------------------------------------------------------
(* What coordinators do without writing a control row.                     *)

(* A coordinator begins its cycle.                                         *)
LEMMA BeginCycleKeeps ==
    ASSUME IInv, NEW c \in Coordinator, BeginCycle(c) PROVE IInv'
<1> DEFINE v == [Idle EXCEPT !.at = "dispatch", !.budget = MaxDispatch]
<1>1. v \in CoordRow /\ v.at = "dispatch"
    BY RestsTyped, LifecycleAssumption, Zenon DEF CoordRow, CycleStep
<1>2. coords' = [coords EXCEPT ![c] = v]  BY DEF BeginCycle
<1> HIDE DEF v
<1> QED  BY <1>1, <1>2, CoordRests, Zenon DEF BeginCycle

(* The dispatch pass claims the route of a run.                            *)
LEMMA ClaimRouteKeeps ==
    ASSUME IInv, NEW c \in Coordinator, ClaimRoute(c) PROVE IInv'
<1>1. PICK r \in Run, s \in Shard :
        coords' = [coords EXCEPT ![c] =
          [@ EXCEPT !.at = "claimed", !.run = r, !.shard = s,
                    !.alias = shards[r][s].alias, !.epoch = shards[r][s].epoch,
                    !.budget = coords[c].budget - 1]]
    BY Zenon DEF ClaimRoute
<1> DEFINE v == [coords[c] EXCEPT !.at = "claimed", !.run = r, !.shard = s,
                    !.alias = shards[r][s].alias, !.epoch = shards[r][s].epoch,
                    !.budget = coords[c].budget - 1]
<1>2. coords[c] \in CoordRow  BY DEF IInv, TypeInv
<1>3. shards[r][s] \in ShardRow  BY DEF IInv, TypeInv, ShardsTyped
<1>4. shards[r][s].alias \in Database /\ shards[r][s].epoch \in Nat
    BY <1>3, LifecycleAssumption DEF ShardRow
<1>5. coords[c].budget - 1 \in Nat  BY <1>2 DEF ClaimRoute, CoordRow
<1>6. v \in CoordRow /\ v.at = "claimed"
    BY <1>2, <1>4, <1>5, Zenon DEF CoordRow, CycleStep
<1>7. coords' = [coords EXCEPT ![c] = v]  BY <1>1
<1> HIDE DEF v
<1> QED  BY <1>6, <1>7, CoordRests, Zenon DEF ClaimRoute

(* The dispatch pass ends.                                                 *)
LEMMA DispatchEndsKeeps ==
    ASSUME IInv, NEW c \in Coordinator, DispatchEnds(c) PROVE IInv'
<1> DEFINE w == [Idle EXCEPT !.at = "finalize", !.budget = coords[c].budget,
                     !.skip = IF "finalize" = "dispatch" THEN coords[c].skip ELSE {},
                     !.seen = coords[c].seen]
           v == [w EXCEPT !.budget = MaxFinalize]
<1>1. coords[c] \in CoordRow  BY DEF IInv, TypeInv
<1>2. w \in CoordRow /\ w.at = "finalize"
    BY <1>1, RestsTyped, Zenon DEF CoordRow, CycleStep
<1>3. v \in CoordRow /\ v.at = "finalize"
    <2> HIDE DEF w
    <2> QED  BY <1>2, LifecycleAssumption DEF CoordRow
<1>4. coords' = [coords EXCEPT ![c] = v]
    <2>1. Resume(c, "finalize") = [coords EXCEPT ![c] = w]  BY DEF Resume
    <2>2. coords' = [[coords EXCEPT ![c] = w] EXCEPT ![c].budget = MaxFinalize]
        BY <2>1, Zenon DEF DispatchEnds
    <2>3. [coords EXCEPT ![c] = w][c] = w  BY DEF IInv, TypeInv
    <2> HIDE DEF w
    <2> QED  BY <2>2, <2>3, Zenon DEF IInv, TypeInv
<1> HIDE DEF v
<1> QED  BY <1>3, <1>4, CoordRests DEF DispatchEnds

(* A run is started by a transaction that has it alone; otherwise the run  *)
(* row is shared with others that do not start it.                         *)
LEMMA PrepareKeeps ==
    ASSUME IInv, NEW c \in Coordinator, Prepare(c) PROVE IInv'
<1> DEFINE r == coords[c].run
           v(b) == [coords[c] EXCEPT !.at = "prepared", !.starts = b]
<1>1. coords[c] \in CoordRow /\ r \in Run  BY DEF IInv, TypeInv, CoordRow
<1>2. ASSUME NEW b \in BOOLEAN PROVE /\ v(b) \in CoordRow /\ v(b).at = "prepared"
                                     /\ v(b).starts = b /\ v(b).run = r
    BY <1>1, Zenon DEF CoordRow, CycleStep
<1>3. ASSUME NEW b \in BOOLEAN, coords' = [coords EXCEPT ![c] = v(b)],
             RunShareable(r),
             b => runs[r].status = "pending" /\ \A d \in Coordinator : ~HasRun(d, r)
      PROVE  IInv'
    <2>1. coords'[c] = v(b) /\ \A d \in Coordinator : d # c => coords'[d] = coords[d]
        BY <1>3 DEF IInv, TypeInv
    <2>2. /\ coords'[c].at = "prepared" /\ coords'[c].run = r /\ coords'[c].starts = b
        BY <1>2, <2>1, Zenon
    <2>3. \A d \in Coordinator : d # c => (Writes(d)' <=> Writes(d))
        BY <2>1 DEF Writes
    <2>4. \A d \in Coordinator : Writes(d) /\ coords[d].run = r => ~coords[d].starts /\ ~b
        BY <1>3 DEF RunShareable, HasRun, Writes
    <2>5. \A k \in Canceller : cancels[k].at = "locked" => cancels[k].run # r
        BY <1>3 DEF RunShareable, CancelHasRun
    <2>6. LockInv'
        <3>1. ASSUME NEW d \in Coordinator, NEW e \in Coordinator, Writes(d)', Writes(e)',
                     coords'[d].run = coords'[e].run, d # e
              PROVE  ~coords'[d].starts
            <4>1. CASE d = c  BY <2>1, <2>2, <2>3, <2>4, <3>1, <4>1, Zenon
            <4>2. CASE e = c  BY <2>1, <2>2, <2>3, <2>4, <3>1, <4>2, Zenon
            <4>3. CASE d # c /\ e # c
                BY <2>1, <2>3, <3>1, <4>3 DEF IInv, LockInv
            <4> QED  BY <4>1, <4>2, <4>3
        <3>2. ASSUME NEW d \in Coordinator, NEW k \in Canceller, Writes(d)',
                     cancels'[k].at = "locked"
              PROVE  coords'[d].run # cancels'[k].run
            <4>1. cancels' = cancels  BY DEF Prepare
            <4>2. CASE d = c  BY <2>2, <2>5, <3>2, <4>1, <4>2
            <4>3. CASE d # c  BY <2>1, <2>3, <3>2, <4>1, <4>3 DEF IInv, LockInv
            <4> QED  BY <4>2, <4>3
        <3> QED  BY <3>1, <3>2 DEF LockInv
    <2>7. CoordOf(c)'
        <3>1. runs' = runs  BY DEF Prepare
        <3> QED  BY <1>3, <2>2, <3>1 DEF CoordOf, Writes
    <2>8. v(b) \in CoordRow  BY <1>2, Zenon
    <2> HIDE DEF v
    <2> QED  BY <1>3, <2>6, <2>7, <2>8, CoordMoves, Zenon DEF Prepare
<1>4. CASE /\ runs[r].status = "pending" /\ RunUnlocked(r)
           /\ coords' = [coords EXCEPT ![c].at = "prepared", ![c].starts = TRUE]
    <2>1. coords' = [coords EXCEPT ![c] = v(TRUE)]  BY <1>1, <1>4, Zenon DEF CoordRow, IInv, TypeInv
    <2>2. RunShareable(r)  BY <1>4 DEF RunUnlocked, RunShareable
    <2> QED  BY <1>3, <1>4, <2>1, <2>2, Zenon DEF RunUnlocked
<1>5. CASE /\ RunShareable(r)
           /\ coords' = [coords EXCEPT ![c].at = "prepared", ![c].starts = FALSE]
    <2>1. coords' = [coords EXCEPT ![c] = v(FALSE)]  BY <1>1, <1>5, Zenon DEF CoordRow, IInv, TypeInv
    <2> QED  BY <1>3, <1>5, <2>1, Zenon
<1>6. CASE coords' = Resume(c, "dispatch")
    BY <1>6, ResumeIsBetween, BetweenKeeps DEF Prepare, IInv
<1> QED  BY <1>4, <1>5, <1>6 DEF Prepare

(* A write that is refused or fails gives the cursor and the run back.     *)
LEMMA RefusalKeeps ==
    ASSUME IInv, NEW c \in Coordinator, WriteRefused(c) \/ WriteFails(c) PROVE IInv'
<1>1. /\ UNCHANGED <<runs, cursors, shards, outbox, cancels>>
      /\ coords' = Resume(c, "dispatch") \/ coords' = Skip(c)
    BY DEF WriteRefused, WriteFails
<1>2. Between(c, "dispatch")
    BY <1>1, ResumeIsBetween, SkipIsBetween DEF IInv
<1> QED  BY <1>1, <1>2, BetweenKeeps

(* The cycle ends, or an error ends it.                                    *)
LEMMA CycleOverKeeps ==
    ASSUME IInv, NEW c \in Coordinator, CycleEnds(c) \/ CycleAborts(c) PROVE IInv'
<1>1. /\ UNCHANGED <<runs, cursors, shards, outbox, cancels>>
      /\ coords' = [coords EXCEPT ![c] = Idle]
    BY DEF CycleEnds, CycleAborts
<1>2. Idle \in CoordRow /\ Idle.at = "idle"  BY RestsTyped DEF Idle
<1> QED  BY <1>1, <1>2, CoordRests, Zenon

(* A run that is not finished is marked as checked.                        *)
LEMMA MarkCheckedKeeps ==
    ASSUME IInv, NEW c \in Coordinator, MarkChecked(c) PROVE IInv'
BY ResumeIsBetween, BetweenKeeps DEF MarkChecked, IInv

(* A coordinator that does not hold a run keeps the locks.                 *)
LEMMA UnlockedKeepsLocks ==
    ASSUME IInv, NEW c \in Coordinator, NEW v \in CoordRow,
           v.at \notin {"prepared", "written"},
           coords' = [coords EXCEPT ![c] = v], cancels' = cancels
    PROVE  LockInv'
<1>1. coords'[c] = v /\ \A d \in Coordinator : d # c => coords'[d] = coords[d]
    BY DEF IInv, TypeInv
<1>2. ~Writes(c)' /\ \A d \in Coordinator : d # c => (Writes(d)' <=> Writes(d))
    BY <1>1 DEF Writes
<1> QED  BY <1>1, <1>2 DEF IInv, LockInv

(* What finalization reads, one database at a time.                        *)
LEMMA PickCandidateKeeps ==
    ASSUME IInv, NEW c \in Coordinator, PickCandidate(c) PROVE IInv'
<1>1. PICK r \in Run :
        coords' = [coords EXCEPT ![c] =
          [@ EXCEPT !.at = "reading", !.run = r, !.budget = coords[c].budget - 1,
                    !.seen = coords[c].seen \cup {r}, !.placed = Placed(r),
                    !.unread = {shards[r][s].alias : s \in Shard},
                    !.sums = [s \in Shard |-> {}], !.complete = TRUE]]
    BY Zenon DEF PickCandidate, Inspectable
<1> DEFINE aliases == {shards[r][s].alias : s \in Shard}
           nothing == [s \in Shard |-> {}]
           v == [coords[c] EXCEPT !.at = "reading", !.run = r,
                    !.budget = coords[c].budget - 1,
                    !.seen = coords[c].seen \cup {r}, !.placed = Placed(r),
                    !.unread = aliases, !.sums = nothing, !.complete = TRUE]
<1>2. coords[c] \in CoordRow  BY DEF IInv, TypeInv
<1>3. \A s \in Shard : shards[r][s] \in ShardRow  BY DEF IInv, TypeInv, ShardsTyped
<1>4. Placed(r) \in [Shard -> Place]  BY <1>3 DEF Placed, Place, ShardRow
<1>5. aliases \in SUBSET Database  BY <1>3 DEF ShardRow
<1>6. nothing \in [Shard -> SUBSET Summary]  OBVIOUS
<1>7. coords[c].budget - 1 \in Nat  BY <1>2 DEF PickCandidate, CoordRow
<1>8. coords[c].seen \cup {r} \in SUBSET Run  BY <1>2 DEF CoordRow
<1>9. v \in CoordRow /\ v.at = "reading" /\ v.sums = nothing
    <2> HIDE DEF aliases, nothing
    <2> QED  BY <1>2, <1>4, <1>5, <1>6, <1>7, <1>8, Zenon DEF CoordRow, CycleStep
<1>10. coords' = [coords EXCEPT ![c] = v]  BY <1>1
<1> HIDE DEF v
<1>11. coords'[c] = v  BY <1>10 DEF IInv, TypeInv
<1>12. CoordOf(c)'
    <2>1. ReadOf(coords[c])'  BY <1>6, <1>9, <1>11 DEF ReadOf
    <2> QED  BY <1>9, <1>11, <2>1 DEF CoordOf, Writes
<1>13. LockInv'  BY <1>9, <1>10, UnlockedKeepsLocks, Zenon DEF PickCandidate
<1> QED  BY <1>9, <1>10, <1>12, <1>13, CoordMoves, Zenon DEF PickCandidate

(* A coordinator goes on reading with sums that are still true.            *)
LEMMA ReadsOn ==
    ASSUME IInv, NEW c \in Coordinator, NEW v \in CoordRow, v.at = "reading",
           coords' = [coords EXCEPT ![c] = v], ReadOf(v),
           UNCHANGED <<runs, cursors, shards, outbox, cancels>>
    PROVE  IInv'
<1>1. coords'[c] = v  BY DEF IInv, TypeInv
<1>2. ReadOf(coords[c])'  BY <1>1 DEF ReadOf, IsTerminal
<1>3. CoordOf(c)'  BY <1>1, <1>2 DEF CoordOf, Writes
<1>4. LockInv'  BY UnlockedKeepsLocks, Zenon
<1> QED  BY <1>3, <1>4, CoordMoves, Zenon

(* The summaries of one database are read.                                 *)
LEMMA ReadSummariesKeeps ==
    ASSUME IInv, NEW c \in Coordinator, NEW d \in Database, ReadSummaries(c, d)
    PROVE  IInv'
<1> DEFINE r == coords[c].run
           mine == {s \in Shard : coords[c].placed[s].alias = d}
           here == {s \in mine : shards[r][s].alias = d /\ shards[r][s].summary # "none"}
           gone == {s \in mine : shards[r][s].alias # d /\ shards[r][s].summary = "sealed"}
<1>1. /\ coords[c].at = "reading"
      /\ UNCHANGED <<runs, cursors, shards, outbox, cancels>>
    BY DEF ReadSummaries
<1>2. PICK left \in SUBSET gone :
        coords' = [coords EXCEPT ![c] =
          IF \E s \in mine : coords[c].placed[s].placement # "active"
          THEN [coords[c] EXCEPT !.unread = @ \ {d}, !.complete = FALSE]
          ELSE [coords[c] EXCEPT
            !.unread = @ \ {d},
            !.complete = @ /\ mine \subseteq here \cup left,
            !.sums = [s \in Shard |-> IF s \in here \cup left
                        THEN {SummaryOf(shards[r][s])} ELSE @[s]]]]
    BY Zenon DEF ReadSummaries
<1>3. coords[c] \in CoordRow /\ r \in Run  BY DEF IInv, TypeInv, CoordRow
<1>4. ReadOf(coords[c])  BY <1>1 DEF IInv, CoordOf
<1> DEFINE rest == coords[c].unread \ {d}
           sums == [s \in Shard |-> IF s \in here \cup left
                      THEN {SummaryOf(shards[r][s])} ELSE coords[c].sums[s]]
           all == coords[c].complete /\ mine \subseteq here \cup left
           v1 == [coords[c] EXCEPT !.unread = rest, !.complete = FALSE]
           v2 == [coords[c] EXCEPT !.unread = rest, !.complete = all, !.sums = sums]
<1>5. coords' = [coords EXCEPT ![c] = v1] \/ coords' = [coords EXCEPT ![c] = v2]
    BY <1>2, Zenon
<1>6. rest \in SUBSET Database /\ all \in BOOLEAN  BY <1>3 DEF CoordRow
<1>7. sums \in [Shard -> SUBSET Summary]
    <2>1. \A s \in Shard : SummaryOf(shards[r][s]) \in Summary
        <3>1. \A s \in Shard : shards[r][s] \in ShardRow
            BY <1>3 DEF IInv, TypeInv, ShardsTyped
        <3> QED  BY <3>1, LifecycleAssumption DEF SummaryOf, Summary, ShardRow
    <2>2. \A s \in Shard : coords[c].sums[s] \in SUBSET Summary  BY <1>4 DEF ReadOf
    <2> HIDE DEF here
    <2> QED  BY <2>1, <2>2
<1>8. \A s \in Shard : sums[s] = {SummaryOf(shards[r][s])} \/ sums[s] = coords[c].sums[s]
    OBVIOUS
<1> HIDE DEF rest, sums, all
<1>9. CASE coords' = [coords EXCEPT ![c] = v1]
    <2>1. /\ v1 \in CoordRow /\ v1.at = "reading" /\ v1.run = r
          /\ v1.sums = coords[c].sums
        BY <1>1, <1>3, <1>6, Zenon DEF CoordRow
    <2> HIDE DEF v1
    <2>2. ReadOf(v1)  BY <1>4, <2>1 DEF ReadOf
    <2> QED  BY <1>1, <1>9, <2>1, <2>2, ReadsOn, Zenon
<1>10. CASE coords' = [coords EXCEPT ![c] = v2]
    <2>1. v2 \in CoordRow /\ v2.at = "reading" /\ v2.run = r /\ v2.sums = sums
        BY <1>1, <1>3, <1>6, <1>7, Zenon DEF CoordRow
    <2> HIDE DEF v2
    <2>2. ASSUME NEW s \in Shard, NEW sum \in sums[s]
          PROVE  /\ IsTerminal(sum) => /\ shards[r][s].done = Chunks
                                       /\ shards[r][s].bad = sum.bad
                 /\ \A other \in sums[s] : other = sum
        <3>1. CASE sums[s] = {SummaryOf(shards[r][s])}
            BY <2>2, <3>1 DEF SummaryOf, IsTerminal
        <3>2. CASE sums[s] = coords[c].sums[s]
            BY <1>4, <2>2, <3>2 DEF ReadOf
        <3> QED  BY <1>8, <3>1, <3>2, Zenon
    <2>3. ReadOf(v2)  BY <1>7, <2>1, <2>2 DEF ReadOf
    <2> QED  BY <1>1, <1>10, <2>1, <2>3, ReadsOn, Zenon
<1> QED  BY <1>5, <1>9, <1>10

(* A database cannot be read.                                              *)
LEMMA ReadFailsKeeps ==
    ASSUME IInv, NEW c \in Coordinator, NEW d \in Database, ReadFails(c, d) PROVE IInv'
<1> DEFINE v == [coords[c] EXCEPT !.unread = coords[c].unread \ {d}, !.complete = FALSE]
<1>1. coords[c] \in CoordRow  BY DEF IInv, TypeInv
<1>2. /\ coords[c].at = "reading"
      /\ UNCHANGED <<runs, cursors, shards, outbox, cancels>>
    BY DEF ReadFails
<1>3. coords' = [coords EXCEPT ![c] = v]
    BY <1>1, Zenon DEF ReadFails, CoordRow, IInv, TypeInv
<1>4. /\ v \in CoordRow /\ v.at = "reading" /\ v.run = coords[c].run
      /\ v.sums = coords[c].sums
    BY <1>1, <1>2, Zenon DEF CoordRow
<1> HIDE DEF v
<1>5. ReadOf(v)  BY <1>2, <1>4 DEF IInv, CoordOf, ReadOf
<1> QED  BY <1>2, <1>3, <1>4, <1>5, ReadsOn, Zenon

-----------------------------------------------------------------------------
(* What coordinators write.                                                *)

(* The window is committed in the execution database while the control     *)
(* transaction stays open.                                                 *)
LEMMA WindowGrows ==
    ASSUME NEW x, ShardOf(x)
    PROVE  LET n == Min({Window, x.todo})
               y == [x EXCEPT !.todo = @ - n, !.out = @ + n,
                              !.summary = IF @ = "none" THEN "running" ELSE @]
           IN  ShardOf(y) /\ Grown(x, y) /\ (~(x.todo > n) => y.todo = 0)
<1> DEFINE n == Min({Window, x.todo})
           y == [x EXCEPT !.todo = @ - n, !.out = @ + n,
                          !.summary = IF @ = "none" THEN "running" ELSE @]
<1>1. /\ x \in ShardRow /\ Chunks \in Nat /\ Window \in Nat
      /\ {x.todo, x.out, x.cut, x.done, x.bad} \subseteq Nat
    BY LifecycleAssumption DEF ShardOf, ShardRow
<1>2. n \in Nat /\ n <= x.todo  BY <1>1, MinOfTwo
<1>3. x.todo + x.out + x.cut + x.done = Chunks  BY DEF ShardOf
<1> HIDE DEF n
<1>4. x.todo - n \in 0 .. Chunks /\ x.out + n \in 0 .. Chunks  BY <1>1, <1>2, <1>3
<1>5. /\ y.todo = x.todo - n /\ y.out = x.out + n /\ y.cut = x.cut /\ y.done = x.done
      /\ y.bad = x.bad /\ y.placement = x.placement /\ y.epoch = x.epoch
      /\ y.summary = IF x.summary = "none" THEN "running" ELSE x.summary
    BY <1>1 DEF ShardRow
<1>6. y \in ShardRow
    <2>1. (IF x.summary = "none" THEN "running" ELSE x.summary) \in {"none", "running", "sealed"}
        BY <1>1 DEF ShardRow
    <2> QED  BY <1>1, <1>4, <2>1, Zenon DEF ShardRow
<1> HIDE DEF y
<1>7. ShardOf(y)  BY <1>1, <1>2, <1>3, <1>5, <1>6 DEF ShardOf
<1>8. Grown(x, y)  BY <1>1, <1>2, <1>5 DEF Grown
<1>9. ~(x.todo > n) => y.todo = 0  BY <1>1, <1>2, <1>5
<1> QED  BY <1>7, <1>8, <1>9 DEF y, n

(* The window's events are written on the shard database.                  *)
LEMMA WriteWindowKeeps ==
    ASSUME IInv, NEW c \in Coordinator, WriteWindow(c) PROVE IInv'
<1> DEFINE r == coords[c].run
           s == coords[c].shard
           x == shards[r][s]
           n == Min({Window, x.todo})
           y == [x EXCEPT !.todo = @ - n, !.out = @ + n,
                          !.summary = IF @ = "none" THEN "running" ELSE @]
           m == x.todo > n
           v == [coords[c] EXCEPT !.at = "written", !.more = m]
<1>1. coords[c] \in CoordRow /\ r \in Run /\ s \in Shard
    BY DEF IInv, TypeInv, CoordRow
<1>2. ShardsTyped /\ ShardOf(x)  BY <1>1 DEF IInv, TypeInv, ShardsTyped
<1>3. ShardOf(y) /\ Grown(x, y) /\ (~m => y.todo = 0)  BY <1>2, WindowGrows, Zenon
<1>4. /\ shards' = [shards EXCEPT ![r][s] = y] /\ coords[c].at = "prepared"
      /\ UNCHANGED <<runs, cursors, outbox, cancels>>
    BY Zenon DEF WriteWindow
<1>5. coords' = [coords EXCEPT ![c] = v]
    <2>1. coords' = [coords EXCEPT ![c].at = "written", ![c].more = m]
        BY Zenon DEF WriteWindow
    <2> HIDE DEF m
    <2> QED  BY <1>1, <2>1, Zenon DEF CoordRow, IInv, TypeInv
<1>6. m \in BOOLEAN  OBVIOUS
<1> HIDE DEF x, y, n, m
<1>7. ShardsTyped' /\ Grows  BY <1>1, <1>2, <1>3, <1>4, ShardMoves, Zenon DEF x
<1>8. /\ v \in CoordRow /\ v.at = "written" /\ v.run = r /\ v.shard = s
      /\ v.starts = coords[c].starts /\ v.more = m
    BY <1>1, <1>6, Zenon DEF CoordRow, CycleStep
<1> HIDE DEF v
<1>9. coords'[c] = v /\ \A d \in Coordinator : d # c => coords'[d] = coords[d]
    BY <1>5 DEF IInv, TypeInv
<1>10. TypeInv'  BY <1>4, <1>5, <1>7, <1>8 DEF IInv, TypeInv, RunsTyped
<1>11. \A d \in Coordinator : /\ Writes(d)' <=> Writes(d)
                              /\ coords'[d].run = coords[d].run
                              /\ coords'[d].starts = coords[d].starts
    BY <1>4, <1>8, <1>9 DEF Writes
<1>12. LockInv'  BY <1>4, <1>11 DEF IInv, LockInv
<1>13. CoordOf(c)'
    <2>1. (Writes(c) /\ coords[c].starts => runs[coords[c].run].status = "pending")'
        <3>1. Writes(c) /\ coords[c].starts => runs[r].status = "pending"
            BY DEF IInv, CoordOf
        <3> QED  BY <1>4, <1>11, <3>1
    <2>2. shards'[r][s] = y  BY <1>1, <1>2, <1>4 DEF ShardsTyped
    <2> QED  BY <1>3, <1>8, <1>9, <2>1, <2>2 DEF CoordOf
<1>14. \A d \in Coordinator : CoordOf(d)'
    <2>1. ASSUME NEW d \in Coordinator, d # c PROVE CoordOf(d)'
        <3>1. Writes(d) /\ coords[d].starts => runs'[coords[d].run].status = "pending"
            BY <1>4 DEF IInv, CoordOf
        <3> QED  BY <1>7, <1>9, <2>1, <3>1, CoordFrame
    <2> QED  BY <1>13, <2>1
<1>15. \A k \in Canceller : CancelOf(k)'
    <2> SUFFICES ASSUME NEW k \in Canceller PROVE CancelOf(k)'  OBVIOUS
    <2>1. CancelOf(k)  BY DEF IInv
    <2> QED  BY <1>4, <1>7, <2>1, CancelFrame DEF CancelOf
<1>16. \A q \in Run : RunOf(q)'  BY <1>4, <1>7, RunFrame, Zenon
<1> QED  BY <1>10, <1>12, <1>14, <1>15, <1>16 DEF IInv

-----------------------------------------------------------------------------
(* The steps of a coordinator.                                             *)

(* A coordinator writes the row of a run that is not cancelled, that no    *)
(* other transaction starts and that no cancel command has locked.         *)
LEMMA CoordWritesRun ==
    ASSUME IInv, NEW c \in Coordinator, NEW v \in CoordRow, NEW r \in Run, NEW x,
           v.at \notin {"prepared", "written"}, coords' = [coords EXCEPT ![c] = v],
           CoordOf(c)',
           x \in RunRowWith(x.result), runs' = [runs EXCEPT ![r] = x],
           runs[r].status # "cancelled",
           \A d \in Coordinator : d # c /\ Writes(d) /\ coords[d].run = r => ~coords[d].starts,
           \A k \in Canceller : cancels[k].at = "locked" => cancels[k].run # r,
           cursors' \in [Run -> [Shard -> {"open", "drained"}]],
           \A q \in Run \ {r} :
             /\ cursors'[q] = cursors[q]
             /\ <<q, "completed">> \in outbox' => <<q, "completed">> \in outbox
             /\ <<q, "cancelled">> \in outbox' => <<q, "cancelled">> \in outbox,
           UNCHANGED <<shards, cancels>>, RunOf(r)'
    PROVE  IInv'
<1>1. /\ runs'[r] = x /\ \A q \in Run \ {r} : runs'[q] = runs[q]
      /\ RunsTyped'
    BY DEF IInv, TypeInv, RunsTyped
<1>2. coords'[c] = v /\ \A d \in Coordinator : d # c => coords'[d] = coords[d]
    BY DEF IInv, TypeInv
<1>3. Grows  BY SameGrows
<1>4. TypeInv'  BY <1>1 DEF IInv, TypeInv, ShardsTyped
<1>5. LockInv'  BY UnlockedKeepsLocks, Zenon
<1>6. \A d \in Coordinator : CoordOf(d)'
    <2>1. ASSUME NEW d \in Coordinator, d # c PROVE CoordOf(d)'
        <3>1. ASSUME Writes(d), coords[d].starts
              PROVE  runs'[coords[d].run].status = "pending"
            <4>1. coords[d].run # r  BY <2>1, <3>1
            <4>2. coords[d].run \in Run  BY Zenon DEF IInv, TypeInv, CoordRow
            <4>3. runs[coords[d].run].status = "pending"  BY <3>1 DEF IInv, CoordOf
            <4> QED  BY <1>1, <4>1, <4>2, <4>3
        <3> QED  BY <1>2, <1>3, <2>1, <3>1, CoordFrame
    <2> QED  BY <2>1
<1>7. \A k \in Canceller : CancelOf(k)'
    <2> SUFFICES ASSUME NEW k \in Canceller PROVE CancelOf(k)'  OBVIOUS
    <2>1. CancelOf(k) /\ cancels[k].run \in Run  BY DEF IInv, TypeInv, CancelRow
    <2>2. cancels[k].at \in {"locked", "marked", "fanout"} => cancels[k].run # r
        BY <2>1 DEF CancelOf
    <2>3. cancels[k].at \in {"locked", "marked", "fanout"} =>
            runs'[cancels[k].run] = runs[cancels[k].run]
        BY <1>1, <2>1, <2>2
    <2>4. /\ cancels[k].at = "locked" => runs'[cancels[k].run].status # "completed"
          /\ cancels[k].at \in {"marked", "fanout"} =>
               runs'[cancels[k].run].status = "cancelled"
        BY <2>1, <2>3 DEF CancelOf
    <2> QED  BY <1>3, <2>4, CancelFrame
<1>8. \A q \in Run : RunOf(q)'
    <2>1. ASSUME NEW q \in Run, q # r PROVE RunOf(q)'
        <3>1. q \in Run \ {r} /\ runs'[q] = runs[q]  BY <1>1, <2>1
        <3> QED  BY <1>3, <3>1, RunFrame, Zenon
    <2> QED  BY <2>1
<1> QED  BY <1>4, <1>5, <1>6, <1>7, <1>8 DEF IInv

(* The cursor is drained only after the last window, and a run is started  *)
(* while it is pending.                                                    *)
LEMMA CommitCursorKeeps ==
    ASSUME IInv, NEW c \in Coordinator, CommitCursor(c) PROVE IInv'
<1>0. PICK r \in Run, s \in Shard : r = coords[c].run /\ s = coords[c].shard
    BY DEF IInv, TypeInv, CoordRow
<1> DEFINE x == IF coords[c].starts
                THEN [runs[r] EXCEPT !.status = "running", !.coordinator = c, !.lease = "held"]
                ELSE runs[r]
           p == CursorStatus(coords[c].more)
<1>1. coords[c] \in CoordRow /\ coords[c].starts \in BOOLEAN
    BY DEF IInv, TypeInv, CoordRow
<1>2. coords[c].at = "written" /\ UNCHANGED <<shards, cancels>>  BY <1>0 DEF CommitCursor
<1>3. p \in {"open", "drained"}  BY DEF CursorStatus
<1>4. cursors' = [cursors EXCEPT ![r][s] = p]  BY <1>0 DEF CommitCursor
<1>5. runs[r] \in RunRowWith(runs[r].result) /\ runs = [q \in Run |-> runs[q]]
    BY <1>1 DEF IInv, TypeInv, RunsTyped
<1>6. runs' = [runs EXCEPT ![r] = x]
    <2>1. CASE coords[c].starts  BY <1>0, <1>5, <2>1 DEF CommitCursor
    <2>2. CASE ~coords[c].starts
        <3>1. runs' = runs  BY <2>2 DEF CommitCursor
        <3> QED  BY <1>1, <1>5, <2>2, <3>1
    <2> QED  BY <2>1, <2>2
<1>7. /\ x \in RunRowWith(x.result) /\ x.gate = runs[r].gate
      /\ x.cancelling = runs[r].cancelling /\ x.result = runs[r].result
      /\ x.status = IF coords[c].starts THEN "running" ELSE runs[r].status
    BY <1>5, Zenon DEF RunRowWith, Status
<1>8. outbox' = outbox \/ outbox' = outbox \cup {<<r, "started">>}
    BY <1>0 DEF CommitCursor
<1>9. \A q \in Run :
        /\ <<q, "completed">> \in outbox' => <<q, "completed">> \in outbox
        /\ <<q, "cancelled">> \in outbox' => <<q, "cancelled">> \in outbox
    BY <1>8
<1>10. Writes(c) /\ (coords[c].starts => runs[r].status = "pending")
    BY <1>0, <1>2 DEF Writes, IInv, CoordOf
<1> HIDE DEF x, p
<1>11. /\ cursors' \in [Run -> [Shard -> {"open", "drained"}]]
       /\ cursors'[r][s] = p /\ \A q \in Run \ {r} : cursors'[q] = cursors[q]
       /\ \A t \in Shard \ {s} : cursors'[r][t] = cursors[r][t]
    BY <1>1, <1>3, <1>4 DEF IInv, TypeInv
<1>12. runs'[r] = x /\ \A q \in Run \ {r} : runs'[q] = runs[q]
    BY <1>1, <1>5, <1>6
<1>13. RunOf(r)'
    <2>1. RunOf(r)  BY <1>1 DEF IInv
    <2>2. runs'[r].status \in {"completed", "cancelled"} =>
            runs'[r].status = runs[r].status /\ ~coords[c].starts
        BY <1>7, <1>12
    <2>3. runs[r].status \in {"completed", "cancelled"} => runs'[r].status = runs[r].status
        BY <1>7, <1>10, <1>12
    <2>4. ASSUME NEW t \in Shard, runs'[r].status # "cancelled", cursors'[r][t] = "drained"
          PROVE  shards[r][t].todo = 0
        <3>1. CASE t = s
            <4>1. ~coords[c].more  BY <1>11, <2>4, <3>1 DEF p, CursorStatus
            <4> QED  BY <1>0, <1>2, <3>1, <4>1 DEF IInv, CoordOf
        <3>2. CASE t # s
            BY <1>11, <2>1, <2>3, <2>4, <3>2 DEF RunOf
        <3> QED  BY <3>1, <3>2
    <2>5. (/\ runs[r].status = "cancelled" => runs[r].gate = "fail"
           /\ <<r, "completed">> \in outbox => runs[r].status = "completed"
           /\ <<r, "cancelled">> \in outbox => runs[r].status = "cancelled")'
        BY <1>1, <1>7, <1>9, <1>12, <2>1, <2>2, <2>3 DEF RunOf
    <2>6. (runs[r].status = "completed" =>
             /\ \A t \in Shard : shards[r][t].done = Chunks
             /\ runs[r].result =
                  [settled |-> SumFunction([t \in Shard |-> shards[r][t].done]),
                   bad |-> SumFunction([t \in Shard |-> shards[r][t].bad])]
             /\ runs[r].gate = IF SumFunction([t \in Shard |-> shards[r][t].bad]) = 0
                               THEN "pass" ELSE "fail")'
        BY <1>2, <1>7, <1>12, <2>1, <2>2 DEF RunOf
    <2>7. (runs[r].status = "cancelled" /\ ~runs[r].cancelling =>
             \A t \in Shard : Clean(shards[r][t]))'
        BY <1>2, <1>7, <1>12, <2>1, <2>2 DEF RunOf, Clean
    <2>8. (runs[r].status # "cancelled" =>
             \A t \in Shard : cursors[r][t] = "drained" => shards[r][t].todo = 0)'
        BY <1>2, <2>4
    <2> QED  BY <2>5, <2>6, <2>7, <2>8 DEF RunOf
<1>14. PICK v \in CoordRow : v.at = "dispatch" /\ coords' = [coords EXCEPT ![c] = v]
    BY ResumeIsBetween DEF CommitCursor, IInv, Between
<1>15. CoordOf(c)'
    <2>1. coords'[c] = v  BY <1>14 DEF IInv, TypeInv
    <2> QED  BY <1>14, <2>1 DEF CoordOf, Writes
<1>16. CASE coords[c].starts
    <2>1. runs[r].status # "cancelled"  BY <1>10, <1>16
    <2>2. \A d \in Coordinator : d # c /\ Writes(d) /\ coords[d].run = r => ~coords[d].starts
        BY <1>0, <1>10 DEF IInv, LockInv
    <2>3. \A k \in Canceller : cancels[k].at = "locked" => cancels[k].run # r
        BY <1>0, <1>10 DEF IInv, LockInv
    <2>4. \A q \in Run \ {r} :
            /\ cursors'[q] = cursors[q]
            /\ <<q, "completed">> \in outbox' => <<q, "completed">> \in outbox
            /\ <<q, "cancelled">> \in outbox' => <<q, "cancelled">> \in outbox
        BY <1>9, <1>11, Zenon
    <2> QED
        BY Zenon, <1>1, <1>2, <1>6, <1>7, <1>11, <1>13, <1>14, <1>15, <2>1, <2>2, <2>3, <2>4,
           CoordWritesRun
<1>17. CASE ~coords[c].starts
    <2>1. runs' = runs  BY <1>17 DEF CommitCursor
    <2>2. Grows  BY <1>2, SameGrows
    <2>3. TypeInv'  BY <1>2, <1>11, <1>14, <2>1 DEF IInv, TypeInv, RunsTyped, ShardsTyped
    <2>4. LockInv'  BY <1>2, <1>14, UnlockedKeepsLocks, Zenon
    <2>5. \A d \in Coordinator : CoordOf(d)'
        <3>1. ASSUME NEW d \in Coordinator, d # c PROVE CoordOf(d)'
            <4>1. coords'[d] = coords[d]  BY <1>14, <3>1 DEF IInv, TypeInv
            <4>2. Writes(d) /\ coords[d].starts => runs'[coords[d].run].status = "pending"
                BY <2>1 DEF IInv, CoordOf
            <4> QED  BY <2>2, <4>1, <4>2, CoordFrame
        <3> QED  BY <1>15, <3>1
    <2>6. \A k \in Canceller : CancelOf(k)'
        <3> SUFFICES ASSUME NEW k \in Canceller PROVE CancelOf(k)'  OBVIOUS
        <3>1. CancelOf(k)  BY DEF IInv
        <3> QED  BY <1>2, <2>1, <2>2, <3>1, CancelFrame DEF CancelOf
    <2>7. \A q \in Run : RunOf(q)'
        <3>1. ASSUME NEW q \in Run, q # r PROVE RunOf(q)'
            <4>1. cursors'[q] = cursors[q]  BY <1>11, <3>1
            <4> QED  BY <1>9, <2>1, <2>2, <4>1, RunFrame, Zenon
        <3> QED  BY <1>13, <3>1
    <2> QED  BY <2>3, <2>4, <2>5, <2>6, <2>7 DEF IInv
<1> QED  BY <1>1, <1>16, <1>17

(* The claim passes on what was read, which has not changed.               *)
LEMMA ClaimRunKeeps ==
    ASSUME IInv, NEW c \in Coordinator, ClaimRun(c) PROVE IInv'
<1>1. PICK r \in Run : r = coords[c].run
    BY DEF IInv, TypeInv, CoordRow
<1>2. /\ coords[c].at = "reading" /\ AllTerminal(c)
      /\ UNCHANGED <<cursors, shards, outbox, cancels>>
    BY DEF ClaimRun
<1>3. CASE ~(Candidate(r) /\ RunUnlocked(r))
    BY <1>1, <1>2, <1>3, ResumeIsBetween, BetweenKeeps DEF ClaimRun, IInv
<1>4. CASE Candidate(r) /\ RunUnlocked(r)
    <2> DEFINE v == [coords[c] EXCEPT !.at = "owner"]
               x == [runs[r] EXCEPT !.status = "finalizing", !.coordinator = c,
                                    !.lease = "held"]
    <2>1. runs[r] \in RunRowWith(runs[r].result) /\ coords[c] \in CoordRow
        BY DEF IInv, TypeInv, RunsTyped
    <2>2. coords' = [coords EXCEPT ![c] = v] /\ runs' = [runs EXCEPT ![r] = x]
        BY <1>1, <1>4 DEF ClaimRun, IInv, TypeInv, RunsTyped
    <2>3. /\ x \in RunRowWith(x.result) /\ x.status = "finalizing"
          /\ runs[r].status \in {"running", "finalizing"}
        BY <1>4, <2>1, Zenon DEF RunRowWith, Status, Candidate
    <2>4. /\ v \in CoordRow /\ v.at = "owner" /\ v.starts = coords[c].starts
          /\ v.run = coords[c].run /\ v.sums = coords[c].sums
        BY <2>1 DEF CoordRow, CycleStep
    <2> HIDE DEF x, v
    <2>5. coords'[c] = v /\ runs'[r] = x
        BY <2>2 DEF IInv, TypeInv, RunsTyped
    <2>6. CoordOf(c)'
        <3>1. ReadOf(coords[c])  BY <1>2 DEF IInv, CoordOf
        <3>2. ReadOf(v)  BY <2>4, <3>1, Zenon DEF ReadOf
        <3>3. ReadOf(coords[c])'  BY <1>2, <2>5, <3>2 DEF ReadOf
        <3>4. \A s \in Shard : \E sum \in v.sums[s] : IsTerminal(sum)
            BY <1>2, <2>4 DEF AllTerminal
        <3> QED  BY <2>4, <2>5, <3>3, <3>4 DEF CoordOf, Writes
    <2>7. RunOf(r)'
        <3>1. RunOf(r)  BY DEF IInv
        <3> QED  BY <1>2, <2>3, <2>5, <3>1 DEF RunOf
    <2>8. /\ \A d \in Coordinator : ~(Writes(d) /\ coords[d].run = r)
          /\ \A k \in Canceller : cancels[k].at = "locked" => cancels[k].run # r
        BY <1>4 DEF RunUnlocked, HasRun, CancelHasRun, Writes
    <2>9. runs[r].status # "cancelled" /\ v.at \notin {"prepared", "written"}
        BY <2>3, <2>4
    <2>10. cursors' \in [Run -> [Shard -> {"open", "drained"}]]
        BY <1>2 DEF IInv, TypeInv
    <2>11. \A q \in Run \ {r} :
             /\ cursors'[q] = cursors[q]
             /\ <<q, "completed">> \in outbox' => <<q, "completed">> \in outbox
             /\ <<q, "cancelled">> \in outbox' => <<q, "cancelled">> \in outbox
        BY <1>2
    <2> QED
        BY <1>2, <2>2, <2>3, <2>4, <2>6, <2>7, <2>8, <2>9, <2>10, <2>11, CoordWritesRun, Zenon
<1> QED  BY <1>3, <1>4

(* What a coordinator that owns a run adds up is what its shards have.     *)
LEMMA ResultIsWhole ==
    ASSUME IInv, NEW c \in Coordinator, NEW r \in Run, r = coords[c].run,
           coords[c].at = "owner"
    PROVE  /\ \A s \in Shard : shards[r][s].done = Chunks
           /\ Result(c) = [settled |-> SumFunction([s \in Shard |-> shards[r][s].done]),
                           bad |-> SumFunction([s \in Shard |-> shards[r][s].bad])]
<1> DEFINE Read(s) == CHOOSE sum \in coords[c].sums[s] : TRUE
<1>1. ReadOf(coords[c]) /\ \A s \in Shard : \E sum \in coords[c].sums[s] : IsTerminal(sum)
    BY DEF IInv, CoordOf
<1>2. ASSUME NEW s \in Shard
      PROVE  /\ shards[r][s].done = Chunks
             /\ Read(s).settled = shards[r][s].done
             /\ Read(s).bad = shards[r][s].bad
    <2>1. PICK sum \in coords[c].sums[s] : IsTerminal(sum)  BY <1>1
    <2>2. Read(s) \in coords[c].sums[s]  BY <2>1
    <2>3. Read(s) = sum  BY <1>1, <2>1, <2>2 DEF ReadOf
    <2> HIDE DEF Read
    <2>4. shards[r][s].done = Chunks /\ shards[r][s].bad = sum.bad
        BY <1>1, <2>1 DEF ReadOf
    <2> QED  BY <2>1, <2>3, <2>4 DEF IsTerminal
<1>3. Result(c) = [settled |-> SumFunction([s \in Shard |-> Read(s).settled]),
                   bad |-> SumFunction([s \in Shard |-> Read(s).bad])]
    BY Zenon DEF Result
<1> HIDE DEF Read
<1>4. /\ [s \in Shard |-> Read(s).settled] = [s \in Shard |-> shards[r][s].done]
      /\ [s \in Shard |-> Read(s).bad] = [s \in Shard |-> shards[r][s].bad]
    BY <1>2
<1> QED  BY <1>2, <1>3, <1>4, Zenon

(* The outcome is written once, from the shards as they are.               *)
LEMMA FinalizeKeeps ==
    ASSUME IInv, NEW c \in Coordinator, Finalize(c) PROVE IInv'
<1>1. PICK r \in Run : r = coords[c].run
    BY DEF IInv, TypeInv, CoordRow
<1>2. /\ coords[c].at = "owner" /\ RunUnlocked(r)
      /\ coords' = Resume(c, "finalize") /\ UNCHANGED <<cursors, shards, cancels>>
    BY <1>1 DEF Finalize
<1>3. CASE ~Owner(c, r)
    BY <1>1, <1>2, <1>3, ResumeIsBetween, BetweenKeeps DEF Finalize, IInv
<1>4. CASE Owner(c, r)
    <2> DEFINE result == Result(c)
               x == [runs[r] EXCEPT !.status = "completed", !.lease = "none",
                       !.gate = IF result.bad = 0 THEN "pass" ELSE "fail",
                       !.result = result]
    <2>1. runs[r] \in RunRowWith(runs[r].result) /\ runs[r].status = "finalizing"
        BY <1>4 DEF IInv, TypeInv, RunsTyped, Owner
    <2>2. runs' = [runs EXCEPT ![r] = x] /\ outbox' = outbox \cup {<<r, "completed">>}
        BY <1>1, <1>4 DEF Finalize, IInv, TypeInv, RunsTyped
    <2>3. /\ \A s \in Shard : shards[r][s].done = Chunks
          /\ result = [settled |-> SumFunction([s \in Shard |-> shards[r][s].done]),
                       bad |-> SumFunction([s \in Shard |-> shards[r][s].bad])]
        BY <1>1, <1>2, ResultIsWhole
    <2> HIDE DEF result
    <2>4. /\ x \in RunRowWith(x.result) /\ x.status = "completed" /\ x.result = result
          /\ x.gate = IF result.bad = 0 THEN "pass" ELSE "fail"
        BY <2>1, Zenon DEF RunRowWith, Status
    <2> HIDE DEF x
    <2>5. runs'[r] = x  BY <2>2 DEF IInv, TypeInv, RunsTyped
    <2>6. result.bad = SumFunction([s \in Shard |-> shards[r][s].bad])
        BY <2>3
    <2>7. RunOf(r)'
        <3>1. RunOf(r)  BY DEF IInv
        <3>2. (runs[r].status = "completed" =>
                 /\ \A s \in Shard : shards[r][s].done = Chunks
                 /\ runs[r].result =
                      [settled |-> SumFunction([s \in Shard |-> shards[r][s].done]),
                       bad |-> SumFunction([s \in Shard |-> shards[r][s].bad])]
                 /\ runs[r].gate = IF SumFunction([s \in Shard |-> shards[r][s].bad]) = 0
                                   THEN "pass" ELSE "fail")'
            BY <1>2, <2>3, <2>4, <2>5, <2>6, Zenon
        <3>3. (/\ <<r, "completed">> \in outbox => runs[r].status = "completed"
               /\ <<r, "cancelled">> \in outbox => runs[r].status = "cancelled")'
            <4>1. <<r, "cancelled">> \notin outbox  BY <2>1, <3>1, Zenon DEF RunOf
            <4> QED  BY <2>2, <2>4, <2>5, <4>1
        <3>4. (runs[r].status # "cancelled" =>
                 \A s \in Shard : cursors[r][s] = "drained" => shards[r][s].todo = 0)'
            BY <1>2, <2>1, <3>1 DEF RunOf
        <3> QED  BY <2>4, <2>5, <3>2, <3>3, <3>4 DEF RunOf
    <2>8. PICK v \in CoordRow : v.at = "finalize" /\ coords' = [coords EXCEPT ![c] = v]
        BY <1>2, ResumeIsBetween DEF IInv, Between
    <2>9. CoordOf(c)'
        <3>1. coords'[c] = v  BY <2>8 DEF IInv, TypeInv
        <3> QED  BY <2>8, <3>1 DEF CoordOf, Writes
    <2>10. /\ \A d \in Coordinator : ~(Writes(d) /\ coords[d].run = r)
           /\ \A k \in Canceller : cancels[k].at = "locked" => cancels[k].run # r
        BY <1>2 DEF RunUnlocked, HasRun, CancelHasRun, Writes
    <2>11. cursors' \in [Run -> [Shard -> {"open", "drained"}]]
        BY <1>2 DEF IInv, TypeInv
    <2>12. \A q \in Run \ {r} :
             /\ cursors'[q] = cursors[q]
             /\ <<q, "completed">> \in outbox' => <<q, "completed">> \in outbox
             /\ <<q, "cancelled">> \in outbox' => <<q, "cancelled">> \in outbox
        BY <1>2, <2>2
    <2>13. runs[r].status # "cancelled" /\ v.at \notin {"prepared", "written"}
        BY <2>1, <2>8
    <2> QED
        BY <1>2, <2>2, <2>4, <2>7, <2>8, <2>9, <2>10, <2>11, <2>12, <2>13, CoordWritesRun, Zenon
<1> QED  BY <1>3, <1>4

(* A cursor's lease expires.                                               *)
LEMMA LeaseExpiresKeeps ==
    ASSUME IInv, NEW r \in Run, LeaseExpires(r) PROVE IInv'
<1> DEFINE x == [runs[r] EXCEPT !.lease = "expired"]
<1>1. runs[r] \in RunRowWith(runs[r].result)  BY DEF IInv, TypeInv, RunsTyped
<1>2. /\ runs' = [runs EXCEPT ![r] = x]
      /\ UNCHANGED <<cursors, shards, outbox, coords, cancels>>
    BY DEF LeaseExpires
<1>3. /\ x \in RunRowWith(x.result) /\ x.status = runs[r].status /\ x.gate = runs[r].gate
      /\ x.cancelling = runs[r].cancelling /\ x.result = runs[r].result
    BY <1>1 DEF RunRowWith
<1> HIDE DEF x
<1>4. runs'[r] = x /\ (\A q \in Run \ {r} : runs'[q] = runs[q]) /\ RunsTyped'
    BY <1>2, <1>3 DEF IInv, TypeInv, RunsTyped
<1>5. \A q \in Run : /\ runs'[q].status = runs[q].status /\ runs'[q].gate = runs[q].gate
                     /\ runs'[q].cancelling = runs[q].cancelling
                     /\ runs'[q].result = runs[q].result
    BY <1>3, <1>4
<1>6. Grows  BY <1>2, SameGrows
<1>7. TypeInv'  BY <1>2, <1>4 DEF IInv, TypeInv, ShardsTyped
<1>8. LockInv'  BY <1>2 DEF IInv, LockInv, Writes
<1>9. \A c \in Coordinator : CoordOf(c)'
    <2> SUFFICES ASSUME NEW c \in Coordinator PROVE CoordOf(c)'  OBVIOUS
    <2>1. CoordOf(c) /\ coords[c].run \in Run  BY DEF IInv, TypeInv, CoordRow
    <2>2. Writes(c) /\ coords[c].starts => runs'[coords[c].run].status = "pending"
        BY <1>5, <2>1 DEF CoordOf
    <2> QED  BY <1>2, <1>6, <2>2, CoordFrame
<1>10. \A k \in Canceller : CancelOf(k)'
    <2> SUFFICES ASSUME NEW k \in Canceller PROVE CancelOf(k)'  OBVIOUS
    <2>1. CancelOf(k) /\ cancels[k].run \in Run  BY DEF IInv, TypeInv, CancelRow
    <2>2. /\ cancels[k].at = "locked" => runs'[cancels[k].run].status # "completed"
          /\ cancels[k].at \in {"marked", "fanout"} =>
               runs'[cancels[k].run].status = "cancelled"
        BY <1>5, <2>1 DEF CancelOf
    <2> QED  BY <1>2, <1>6, <2>2, CancelFrame
<1>11. \A q \in Run : RunOf(q)'
    <2> SUFFICES ASSUME NEW q \in Run PROVE RunOf(q)'  OBVIOUS
    <2> QED  BY <1>2, <1>5, <1>6, RunFrame, Zenon
<1> QED  BY <1>7, <1>8, <1>9, <1>10, <1>11 DEF IInv

-----------------------------------------------------------------------------
(* The steps of a cancel command.                                          *)

(* A step that changes one canceller only.                                 *)
LEMMA CancelMoves ==
    ASSUME IInv, NEW k \in Canceller, NEW v \in CancelRow,
           cancels' = [cancels EXCEPT ![k] = v],
           UNCHANGED <<runs, cursors, shards, outbox, coords>>,
           LockInv', CancelOf(k)'
    PROVE  IInv'
<1>1. TypeInv'
    BY Zenon DEF IInv, TypeInv, RunsTyped, ShardsTyped
<1>2. Grows  BY SameGrows
<1>3. \A c \in Coordinator : CoordOf(c)'
    <2> SUFFICES ASSUME NEW c \in Coordinator PROVE CoordOf(c)'  OBVIOUS
    <2>1. CoordOf(c)  BY Zenon DEF IInv
    <2> QED  BY <1>2, <2>1, CoordFrame DEF CoordOf
<1>4. \A j \in Canceller : CancelOf(j)'
    <2>1. ASSUME NEW j \in Canceller, j # k PROVE CancelOf(j)'
        <3>1. cancels'[j] = cancels[j]  BY <2>1 DEF IInv, TypeInv
        <3>2. CancelOf(j)  BY DEF IInv
        <3> QED  BY <1>2, <3>1, <3>2, CancelFrame DEF CancelOf
    <2> QED  BY <2>1
<1>5. \A r \in Run : RunOf(r)'  BY <1>2, RunFrame, Zenon
<1> QED  BY <1>1, <1>3, <1>4, <1>5 DEF IInv

(* A command that holds no row lock takes none from the coordinators.      *)
LEMMA CancelUnlocks ==
    ASSUME IInv, NEW k \in Canceller, NEW v \in CancelRow, v.at # "locked",
           cancels' = [cancels EXCEPT ![k] = v], coords' = coords
    PROVE  LockInv'
<1>1. cancels'[k] = v /\ \A j \in Canceller : j # k => cancels'[j] = cancels[j]
    BY DEF IInv, TypeInv
<1> QED  BY <1>1 DEF IInv, LockInv, Writes

(* A canceller is done.                                                    *)
LEMMA CancelRests ==
    ASSUME IInv, NEW k \in Canceller, cancels' = [cancels EXCEPT ![k] = Rest],
           UNCHANGED <<runs, cursors, shards, outbox, coords>>
    PROVE  IInv'
<1>1. Rest \in CancelRow /\ Rest.at = "idle"  BY RestsTyped DEF Rest
<1>2. cancels'[k] = Rest  BY DEF IInv, TypeInv
<1>3. LockInv'  BY <1>1, CancelUnlocks, Zenon
<1>4. CancelOf(k)'  BY <1>1, <1>2 DEF CancelOf
<1> QED  BY <1>1, <1>3, <1>4, CancelMoves, Zenon

(* A cancellation is requested.                                            *)
LEMMA RequestCancelKeeps ==
    ASSUME IInv, NEW k \in Canceller, NEW r \in Run, RequestCancel(k, r) PROVE IInv'
<1> DEFINE v == [Rest EXCEPT !.at = "locked", !.run = r]
<1>1. v \in CancelRow /\ v.at = "locked" /\ v.run = r
    BY RestsTyped, Zenon DEF CancelRow
<1>2. /\ cancels' = [cancels EXCEPT ![k] = v] /\ RunUnlocked(r)
      /\ runs[r].status # "completed"
      /\ UNCHANGED <<runs, cursors, shards, outbox, coords>>
    BY DEF RequestCancel
<1> HIDE DEF v
<1>3. cancels'[k] = v /\ \A j \in Canceller : j # k => cancels'[j] = cancels[j]
    BY <1>2 DEF IInv, TypeInv
<1>4. LockInv'
    <2>1. \A c \in Coordinator : ~(Writes(c) /\ coords[c].run = r)
        BY <1>2 DEF RunUnlocked, HasRun, Writes
    <2> QED  BY <1>1, <1>2, <1>3, <2>1 DEF IInv, LockInv, Writes
<1>5. CancelOf(k)'  BY <1>1, <1>2, <1>3 DEF CancelOf
<1> QED  BY <1>1, <1>2, <1>4, <1>5, CancelMoves, Zenon

(* The database breaks a deadlock of a finalizer and a canceller.          *)
LEMMA BreakDeadlockKeeps ==
    ASSUME IInv, NEW c \in Coordinator, NEW k \in Canceller, BreakDeadlock(c, k)
    PROVE  IInv'
<1>1. UNCHANGED <<runs, cursors, shards, outbox>>  BY DEF BreakDeadlock
<1>2. CASE coords' = [coords EXCEPT ![c] = Idle] /\ UNCHANGED cancels
    <2>1. Idle \in CoordRow /\ Idle.at = "idle"  BY RestsTyped DEF Idle
    <2> QED  BY <1>1, <1>2, <2>1, CoordRests, Zenon
<1>3. CASE cancels' = [cancels EXCEPT ![k] = Rest] /\ UNCHANGED coords
    BY <1>1, <1>3, CancelRests, Zenon
<1> QED  BY <1>2, <1>3 DEF BreakDeadlock

(* A canceller stops.                                                      *)
LEMMA CancelStopsKeeps ==
    ASSUME IInv, NEW k \in Canceller, CancelStops(k) PROVE IInv'
BY CancelRests, Zenon DEF CancelStops

(* The canceller reads the routes of the run.                              *)
LEMMA ReadRoutesKeeps ==
    ASSUME IInv, NEW k \in Canceller, ReadRoutes(k) PROVE IInv'
<1>1. PICK r \in Run : r = cancels[k].run  BY DEF IInv, TypeInv, CancelRow
<1> DEFINE all == {shards[r][s].alias : s \in Shard}
           v == [cancels[k] EXCEPT !.at = "fanout", !.placed = Placed(r), !.left = all]
<1>2. /\ cancels[k].at = "marked" /\ cancels' = [cancels EXCEPT ![k] = v]
      /\ UNCHANGED <<runs, cursors, shards, outbox, coords>>
    BY <1>1 DEF ReadRoutes
<1>3. Placed(r) \in [Shard -> Place] /\ all \in SUBSET Database
      /\ \A s \in Shard : Placed(r)[s].alias \in all
    <2>1. \A s \in Shard : shards[r][s] \in ShardRow  BY DEF IInv, TypeInv, ShardsTyped
    <2> QED  BY <2>1 DEF Placed, Place, ShardRow
<1>4. cancels[k] \in CancelRow /\ runs[r].status = "cancelled"
    BY <1>1, <1>2 DEF IInv, TypeInv, CancelOf
<1> HIDE DEF all
<1>5. /\ v \in CancelRow /\ v.at = "fanout" /\ v.run = r /\ v.left = all
      /\ v.placed = Placed(r)
    BY <1>1, <1>3, <1>4, Zenon DEF CancelRow
<1> HIDE DEF v
<1>6. cancels'[k] = v  BY <1>2 DEF IInv, TypeInv
<1>7. LockInv'  BY <1>2, <1>5, CancelUnlocks, Zenon
<1>8. CancelOf(k)'  BY <1>2, <1>3, <1>4, <1>5, <1>6, Zenon DEF CancelOf
<1> QED  BY <1>2, <1>5, <1>7, <1>8, CancelMoves, Zenon

(* A command writes the row of a run that no dispatch has, as cancelled.   *)
LEMMA CancelWritesRun ==
    ASSUME IInv, NEW k \in Canceller, NEW v \in CancelRow, NEW r \in Run, NEW x,
           v.at # "locked", cancels' = [cancels EXCEPT ![k] = v], CancelOf(k)',
           x \in RunRowWith(x.result), x.status = "cancelled",
           runs' = [runs EXCEPT ![r] = x],
           \A c \in Coordinator : ~(Writes(c) /\ coords[c].run = r),
           cursors' \in [Run -> [Shard -> {"open", "drained"}]],
           \A q \in Run \ {r} :
             /\ cursors'[q] = cursors[q]
             /\ <<q, "completed">> \in outbox' => <<q, "completed">> \in outbox
             /\ <<q, "cancelled">> \in outbox' => <<q, "cancelled">> \in outbox,
           UNCHANGED <<shards, coords>>, RunOf(r)'
    PROVE  IInv'
<1>1. /\ runs'[r] = x /\ \A q \in Run \ {r} : runs'[q] = runs[q]
      /\ RunsTyped'
    BY DEF IInv, TypeInv, RunsTyped
<1>2. cancels'[k] = v /\ \A j \in Canceller : j # k => cancels'[j] = cancels[j]
    BY DEF IInv, TypeInv
<1>3. Grows  BY SameGrows
<1>4. TypeInv'  BY <1>1 DEF IInv, TypeInv, ShardsTyped
<1>5. LockInv'  BY CancelUnlocks, Zenon
<1>6. \A c \in Coordinator : CoordOf(c)'
    <2> SUFFICES ASSUME NEW c \in Coordinator PROVE CoordOf(c)'  OBVIOUS
    <2>1. CoordOf(c) /\ coords[c].run \in Run  BY Zenon DEF IInv, TypeInv, CoordRow
    <2>2. Writes(c) /\ coords[c].starts => runs'[coords[c].run].status = "pending"
        BY <1>1, <2>1 DEF CoordOf
    <2> QED  BY <1>3, <2>2, CoordFrame, Zenon
<1>7. \A j \in Canceller : CancelOf(j)'
    <2>1. ASSUME NEW j \in Canceller, j # k PROVE CancelOf(j)'
        <3>1. cancels'[j] = cancels[j]  BY <1>2, <2>1
        <3>2. CancelOf(j) /\ cancels[j].run \in Run  BY Zenon DEF IInv, TypeInv, CancelRow
        <3>3. /\ cancels[j].at = "locked" => runs'[cancels[j].run].status # "completed"
              /\ cancels[j].at \in {"marked", "fanout"} =>
                   runs'[cancels[j].run].status = "cancelled"
            BY <1>1, <3>2 DEF CancelOf
        <3> QED  BY <1>3, <3>1, <3>3, CancelFrame
    <2> QED  BY <2>1
<1>8. \A q \in Run : RunOf(q)'
    <2>1. ASSUME NEW q \in Run, q # r PROVE RunOf(q)'
        <3>1. q \in Run \ {r} /\ runs'[q] = runs[q]  BY <1>1, <2>1
        <3> QED  BY <1>3, <3>1, RunFrame, Zenon
    <2> QED  BY <2>1
<1> QED  BY <1>4, <1>5, <1>6, <1>7, <1>8 DEF IInv

(* The run is marked as cancelled.                                         *)
LEMMA MarkCancelledKeeps ==
    ASSUME IInv, NEW k \in Canceller, MarkCancelled(k) PROVE IInv'
<1>1. PICK r \in Run : r = cancels[k].run  BY DEF IInv, TypeInv, CancelRow
<1> DEFINE v == [cancels[k] EXCEPT !.at = "marked"]
           x == IF runs[r].status = "cancelled" THEN runs[r] ELSE
                [runs[r] EXCEPT !.status = "cancelled", !.gate = "fail",
                   !.cancelling = TRUE, !.coordinator = Nobody, !.lease = "none"]
           none == [s \in Shard |-> "drained"]
<1>2. /\ cancels[k].at = "locked" /\ cancels' = [cancels EXCEPT ![k] = v]
      /\ runs' = [runs EXCEPT ![r] = x] /\ cursors' = [cursors EXCEPT ![r] = none]
      /\ \A c \in Coordinator, s \in Shard : ~HasCursor(c, r, s)
      /\ UNCHANGED <<shards, outbox, coords>>
    BY <1>1 DEF MarkCancelled, IInv, TypeInv, RunsTyped
<1>3. /\ cancels[k] \in CancelRow /\ runs[r] \in RunRowWith(runs[r].result)
      /\ runs[r].status # "completed" /\ RunOf(r)
    BY <1>1, <1>2 DEF IInv, TypeInv, RunsTyped, CancelOf
<1>4. v \in CancelRow /\ v.at = "marked" /\ v.run = r
    BY <1>1, <1>3 DEF CancelRow
<1>5. /\ x \in RunRowWith(x.result) /\ x.status = "cancelled"
      /\ \/ x = runs[r] /\ runs[r].status = "cancelled"
         \/ x.gate = "fail" /\ x.cancelling
    BY <1>3, Zenon DEF RunRowWith, Status
<1>6. none \in [Shard -> {"open", "drained"}]  OBVIOUS
<1> HIDE DEF v, x, none
<1>7. cancels'[k] = v /\ runs'[r] = x
    BY <1>2 DEF IInv, TypeInv, RunsTyped
<1>8. /\ cursors' \in [Run -> [Shard -> {"open", "drained"}]]
      /\ \A q \in Run \ {r} : cursors'[q] = cursors[q]
    BY <1>2, <1>6 DEF IInv, TypeInv
<1>9. CancelOf(k)'  BY <1>4, <1>5, <1>7, Zenon DEF CancelOf
<1>10. RunOf(r)'
    <2>1. (runs[r].status = "cancelled" /\ ~runs[r].cancelling =>
             \A s \in Shard : Clean(shards[r][s]))'
        BY <1>2, <1>3, <1>5, <1>7, Zenon DEF RunOf, Clean
    <2>2. (/\ runs[r].status = "cancelled" => runs[r].gate = "fail"
           /\ <<r, "completed">> \in outbox => runs[r].status = "completed"
           /\ <<r, "cancelled">> \in outbox => runs[r].status = "cancelled")'
        BY <1>2, <1>3, <1>5, <1>7 DEF RunOf
    <2> QED  BY <1>5, <1>7, <2>1, <2>2, Zenon DEF RunOf
<1>11. \A c \in Coordinator : ~(Writes(c) /\ coords[c].run = r)
    <2>1. \A c \in Coordinator : coords[c].shard \in Shard  BY DEF IInv, TypeInv, CoordRow
    <2> QED  BY <1>2, <2>1 DEF HasCursor, Writes
<1>12. \A q \in Run \ {r} :
         /\ cursors'[q] = cursors[q]
         /\ <<q, "completed">> \in outbox' => <<q, "completed">> \in outbox
         /\ <<q, "cancelled">> \in outbox' => <<q, "cancelled">> \in outbox
    BY <1>2, <1>8
<1>13. v.at # "locked"  BY <1>4
<1> QED
    BY <1>2, <1>4, <1>5, <1>8, <1>9, <1>10, <1>11, <1>12, <1>13, CancelWritesRun, Zenon

(* The mark is cleared when every route that was read has been cleaned.    *)
LEMMA CancelEndsKeeps ==
    ASSUME IInv, NEW k \in Canceller, CancelEnds(k) PROVE IInv'
<1>1. PICK r \in Run : r = cancels[k].run  BY DEF IInv, TypeInv, CancelRow
<1> DEFINE x == [runs[r] EXCEPT !.status = "cancelled", !.gate = "fail",
                   !.cancelling = FALSE, !.coordinator = Nobody, !.lease = "none"]
<1>2. /\ cancels[k].at = "fanout" /\ cancels[k].left = {} /\ RunUnlocked(r)
      /\ cancels' = [cancels EXCEPT ![k] = Rest] /\ runs' = [runs EXCEPT ![r] = x]
      /\ outbox' = outbox \cup {<<r, "cancelled">>}
      /\ UNCHANGED <<cursors, shards, coords>>
    BY <1>1 DEF CancelEnds, IInv, TypeInv, RunsTyped
<1>3. /\ runs[r] \in RunRowWith(runs[r].result) /\ runs[r].status = "cancelled"
      /\ RunOf(r) /\ \A s \in Shard : Clean(shards[r][s])
    BY <1>1, <1>2 DEF IInv, TypeInv, RunsTyped, CancelOf
<1>4. x \in RunRowWith(x.result) /\ x.status = "cancelled" /\ x.gate = "fail"
    BY <1>3, Zenon DEF RunRowWith, Status
<1>5. Rest \in CancelRow /\ Rest.at = "idle"  BY RestsTyped DEF Rest
<1> HIDE DEF x
<1>6. cancels'[k] = Rest /\ runs'[r] = x
    BY <1>2 DEF IInv, TypeInv, RunsTyped
<1>7. CancelOf(k)'  BY <1>5, <1>6, Zenon DEF CancelOf
<1>8. RunOf(r)'
    <2>1. <<r, "completed">> \notin outbox'  BY <1>2, <1>3, Zenon DEF RunOf
    <2> QED  BY <1>2, <1>3, <1>4, <1>6, <2>1, Zenon DEF RunOf, Clean
<1>9. \A c \in Coordinator : ~(Writes(c) /\ coords[c].run = r)
    BY <1>2 DEF RunUnlocked, HasRun, Writes
<1>10. \A q \in Run \ {r} :
         /\ cursors'[q] = cursors[q]
         /\ <<q, "completed">> \in outbox' => <<q, "completed">> \in outbox
         /\ <<q, "cancelled">> \in outbox' => <<q, "cancelled">> \in outbox
    BY <1>2
<1>11. cursors' \in [Run -> [Shard -> {"open", "drained"}]]
    BY <1>2 DEF IInv, TypeInv
<1>12. Rest.at # "locked"  BY <1>5
<1> QED
    BY <1>2, <1>4, <1>5, <1>7, <1>8, <1>9, <1>10, <1>11, <1>12, CancelWritesRun, Zenon

(* What cleanup does to a shard: its open chunks are cut, and settled too  *)
(* if the route named this database.                                       *)
CutOf(x) == [x EXCEPT !.todo = 0, !.out = 0, !.cut = @ + x.todo + x.out]
SettledCut(y) == [Settled(y, y.cut, y.cut) EXCEPT !.cut = 0,
                    !.summary = IF @ = "none" THEN "running" ELSE @]

(* What the cancellation of a shard leaves of it is settled, and loses     *)
(* nothing that was.                                                       *)
LEMMA CutGrows ==
    ASSUME NEW x, ShardOf(x)
    PROVE  /\ ShardOf(CutOf(x)) /\ Grown(x, CutOf(x))
           /\ ShardOf(SettledCut(CutOf(x))) /\ Grown(x, SettledCut(CutOf(x)))
           /\ Clean(SettledCut(CutOf(x)))
<1> DEFINE n == x.cut + x.todo + x.out
           y == [x EXCEPT !.todo = 0, !.out = 0, !.cut = n]
           z == [y EXCEPT !.done = y.done + n, !.bad = y.bad + n, !.cut = 0,
                   !.summary = IF y.summary = "none" THEN "running" ELSE y.summary]
<1>1. /\ x \in ShardRow /\ Chunks \in Nat /\ x.done \in Nat /\ x.bad \in Nat
      /\ n \in 0 .. Chunks /\ n + x.done = Chunks /\ x.bad <= x.done
    <2>1. x \in ShardRow /\ Chunks \in Nat /\ x.bad <= x.done
          /\ x.todo + x.out + x.cut + x.done = Chunks
        BY LifecycleAssumption DEF ShardOf
    <2>2. /\ x.todo \in Nat /\ x.out \in Nat /\ x.cut \in Nat /\ x.done \in Nat
          /\ x.bad \in Nat
        BY <2>1 DEF ShardRow
    <2>3. n \in Nat /\ n + x.done = Chunks  BY <2>1, <2>2
    <2> HIDE DEF n
    <2> QED  BY <2>1, <2>2, <2>3
<1>2. CutOf(x) = y  BY <1>1 DEF ShardRow, CutOf
<1> HIDE DEF n
<1>3. /\ y.todo = 0 /\ y.out = 0 /\ y.cut = n /\ y.done = x.done /\ y.bad = x.bad
      /\ y.summary = x.summary /\ y.placement = x.placement /\ y.epoch = x.epoch
      /\ y \in ShardRow
    <2>1. 0 \in 0 .. Chunks  BY <1>1
    <2> QED  BY <1>1, <2>1, Zenon DEF ShardRow
<1> HIDE DEF y
<1>4. SettledCut(y) = z  BY <1>3, Zenon DEF Settled, ShardRow, SettledCut
<1>5. /\ z.todo = 0 /\ z.out = 0 /\ z.cut = 0 /\ z.done = Chunks /\ z.bad = x.bad + n
      /\ z.summary = (IF x.summary = "none" THEN "running" ELSE x.summary)
      /\ z.placement = x.placement /\ z.epoch = x.epoch
    BY <1>1, <1>3 DEF ShardRow
<1>6. z \in ShardRow
    <2>1. y.bad + n \in 0 .. Chunks /\ y.done + n \in 0 .. Chunks /\ 0 \in 0 .. Chunks
        BY <1>1, <1>3
    <2> QED  BY <1>3, <2>1, Zenon DEF ShardRow
<1> HIDE DEF z
<1>7. ShardOf(y)  BY <1>1, <1>3 DEF ShardOf
<1>8. ShardOf(z)  BY <1>1, <1>5, <1>6 DEF ShardOf
<1>9. Grown(x, y)  BY <1>3 DEF Grown
<1>10. Grown(x, z)  BY <1>1, <1>5 DEF Grown
<1>11. Clean(z)  BY <1>5 DEF Clean
<1> QED  BY <1>2, <1>4, <1>7, <1>8, <1>9, <1>10, <1>11

(* Cleanup cuts what the database stores for the run, and the shards that  *)
(* were routed there are settled: they still are there.                    *)
LEMMA CancelTargetKeeps ==
    ASSUME IInv, NEW k \in Canceller, NEW d \in Database, CancelTarget(k, d)
    PROVE  IInv'
<1>1. PICK r \in Run : r = cancels[k].run  BY DEF IInv, TypeInv, CancelRow
<1> DEFINE After(s) == IF cancels[k].placed[s].alias = d
                       THEN SettledCut(CutOf(shards[r][s])) ELSE CutOf(shards[r][s])
           new == [s \in Shard |->
                     IF shards[r][s].alias = d THEN After(s) ELSE shards[r][s]]
           v == [cancels[k] EXCEPT !.left = cancels[k].left \ {d}]
<1>2. /\ cancels[k].at = "fanout" /\ CleanupAdmitted(k, d)
      /\ UNCHANGED <<runs, cursors, outbox, coords>>
    BY Zenon DEF CancelTarget
<1>3. cancels' = [cancels EXCEPT ![k] = v]
    BY Zenon DEF CancelTarget, IInv, TypeInv
<1>4. shards' = [shards EXCEPT ![r] = new]
    <2>1. shards' = [shards EXCEPT ![cancels[k].run] = [s \in Shard |->
                       IF shards[cancels[k].run][s].alias = d
                       THEN IF cancels[k].placed[s].alias = d
                            THEN SettledCut(CutOf(shards[cancels[k].run][s]))
                            ELSE CutOf(shards[cancels[k].run][s])
                       ELSE shards[cancels[k].run][s]]]
        BY Zenon DEF CancelTarget, CutOf, SettledCut
    <2> QED  BY <1>1, <2>1
<1>5. \A s \in Shard : ShardOf(new[s]) /\ Grown(shards[r][s], new[s])
    <2> SUFFICES ASSUME NEW s \in Shard
                 PROVE  ShardOf(new[s]) /\ Grown(shards[r][s], new[s])
        OBVIOUS
    <2>1. ShardOf(shards[r][s])  BY DEF IInv, TypeInv, ShardsTyped
    <2>2. Grown(shards[r][s], shards[r][s])  BY DEF Grown
    <2>3. new[s] \in {shards[r][s], CutOf(shards[r][s]), SettledCut(CutOf(shards[r][s]))}
        BY Zenon
    <2> HIDE DEF new
    <2> QED  BY <2>1, <2>2, <2>3, CutGrows, Zenon
<1>6. \A s \in Shard : cancels[k].placed[s].alias = d => Clean(new[s])
    <2> SUFFICES ASSUME NEW s \in Shard, cancels[k].placed[s].alias = d
                 PROVE  Clean(new[s])
        OBVIOUS
    <2>1. ShardOf(shards[r][s])  BY DEF IInv, TypeInv, ShardsTyped
    <2>2. shards[r][s].alias = d  BY <1>1, <1>2 DEF CleanupAdmitted
    <2>3. new[s] = SettledCut(CutOf(shards[r][s]))  BY <2>2
    <2> QED  BY <2>1, <2>3, CutGrows, Zenon
<1>7. /\ v \in CancelRow /\ v.at = "fanout" /\ v.run = r
      /\ v.left = cancels[k].left \ {d} /\ v.placed = cancels[k].placed
    BY <1>1, <1>2, Zenon DEF IInv, TypeInv, CancelRow
<1> HIDE DEF v
<1>8. cancels'[k] = v /\ \A j \in Canceller : j # k => cancels'[j] = cancels[j]
    BY <1>3 DEF IInv, TypeInv
<1>9. new \in [Shard -> ShardRow]
    <2>1. new = [s \in Shard |-> new[s]]  OBVIOUS
    <2> HIDE DEF new
    <2> QED  BY <1>5, <2>1 DEF ShardOf
<1> HIDE DEF new
<1>10. shards'[r] = new /\ \A q \in Run \ {r} : shards'[q] = shards[q]
    BY <1>4 DEF IInv, TypeInv, ShardsTyped
<1>11. ShardsTyped'
    <2>1. shards' \in [Run -> [Shard -> ShardRow]]
        BY <1>4, <1>9 DEF IInv, TypeInv, ShardsTyped
    <2>2. \A q \in Run, s \in Shard : ShardOf(shards'[q][s])
        BY <1>5, <1>10 DEF IInv, TypeInv, ShardsTyped
    <2> QED  BY <2>1, <2>2 DEF ShardsTyped, ShardOf
<1>12. Grows
    <2>1. \A x : Grown(x, x)  BY DEF Grown
    <2> QED  BY <1>5, <1>10, <2>1, Zenon DEF Grows
<1>13. TypeInv'
    BY <1>2, <1>3, <1>7, <1>11 DEF IInv, TypeInv, RunsTyped
<1>14. LockInv'
    <2>1. v.at # "locked"  BY <1>7
    <2> QED  BY <1>2, <1>3, <1>7, <2>1, CancelUnlocks, Zenon
<1>15. \A c \in Coordinator : CoordOf(c)'
    <2> SUFFICES ASSUME NEW c \in Coordinator PROVE CoordOf(c)'  OBVIOUS
    <2>1. CoordOf(c)  BY Zenon DEF IInv
    <2>2. Writes(c) /\ coords[c].starts => runs'[coords[c].run].status = "pending"
        BY <1>2, <2>1, Zenon DEF CoordOf
    <2> QED  BY <1>2, <1>12, <2>2, CoordFrame
<1>16. \A j \in Canceller : CancelOf(j)'
    <2>1. ASSUME NEW j \in Canceller, j # k PROVE CancelOf(j)'
        <3>1. CancelOf(j) /\ cancels'[j] = cancels[j]  BY <1>8, <2>1 DEF IInv
        <3>2. /\ cancels[j].at = "locked" => runs'[cancels[j].run].status # "completed"
              /\ cancels[j].at \in {"marked", "fanout"} =>
                   runs'[cancels[j].run].status = "cancelled"
            BY <1>2, <3>1, Zenon DEF CancelOf
        <3> QED  BY <1>12, <3>1, <3>2, CancelFrame
    <2>2. CancelOf(k)'
        <3>1. CancelOf(k)  BY Zenon DEF IInv
        <3>2. ASSUME NEW s \in Shard
              PROVE  v.placed[s].alias \in v.left \/ Clean(shards'[r][s])
            <4>1. CASE cancels[k].placed[s].alias = d  BY <1>6, <1>10, <4>1
            <4>2. CASE cancels[k].placed[s].alias # d
                <5>1. \/ cancels[k].placed[s].alias \in v.left
                      \/ Clean(shards[r][s])
                    BY <1>1, <1>2, <1>7, <3>1, <4>2 DEF CancelOf
                <5>2. Grown(shards[r][s], shards'[r][s])  BY <1>12 DEF Grows
                <5> QED  BY <1>7, <5>1, <5>2, Zenon DEF Grown, Clean
            <4> QED  BY <4>1, <4>2
        <3>3. v.placed \in [Shard -> Place] /\ runs'[r].status = "cancelled"
            BY <1>1, <1>2, <1>7, <3>1 DEF CancelOf
        <3>4. \A s \in Shard : \/ cancels'[k].placed[s].alias \in cancels'[k].left
                               \/ Clean(shards'[cancels'[k].run][s])
            BY <1>7, <1>8, <3>2
        <3> QED  BY <1>7, <1>8, <3>3, <3>4 DEF CancelOf, Clean
    <2> QED  BY <2>1, <2>2
<1>17. \A q \in Run : RunOf(q)'
    <2> SUFFICES ASSUME NEW q \in Run PROVE RunOf(q)'  OBVIOUS
    <2> QED  BY <1>2, <1>12, RunFrame, Zenon
<1> QED  BY <1>13, <1>14, <1>15, <1>16, <1>17 DEF IInv

-----------------------------------------------------------------------------
(* The invariant holds at first.                                           *)
LEMMA InitIInv == Init => IInv
<1> SUFFICES ASSUME Init PROVE IInv  OBVIOUS
<1> DEFINE row == [status |-> "pending", gate |-> "none", coordinator |-> Nobody,
                   lease |-> "none", cancelling |-> FALSE,
                   result |-> [settled |-> 0, bad |-> 0]]
           At(s) == [alias |-> Home[s], placement |-> "active", epoch |-> 1,
                     todo |-> Chunks, out |-> 0, cut |-> 0, done |-> 0, bad |-> 0,
                     summary |-> "none"]
<1>1. /\ runs = [r \in Run |-> row]
      /\ shards = [r \in Run |-> [s \in Shard |-> At(s)]]
      /\ cursors = [r \in Run |-> [s \in Shard |-> "open"]]
      /\ coords = [c \in Coordinator |-> Idle]
      /\ cancels = [k \in Canceller |-> Rest] /\ outbox = {}
    BY DEF Init
<1>2. row \in RunRowWith(row.result) /\ row.status = "pending"
    BY DEF RunRowWith, Status
<1>3. \A s \in Shard : ShardOf(At(s))
    <2> SUFFICES ASSUME NEW s \in Shard PROVE ShardOf(At(s))  OBVIOUS
    <2>1. /\ Home[s] \in Database /\ Chunks \in 0 .. Chunks /\ 0 \in 0 .. Chunks
          /\ 1 \in 1 .. MaxEpoch /\ Chunks \in Nat
        BY LifecycleAssumption
    <2>2. At(s) \in ShardRow  BY <2>1 DEF ShardRow
    <2> QED  BY <2>1, <2>2 DEF ShardOf
<1> HIDE DEF row, At
<1>4. RunsTyped  BY <1>1, <1>2 DEF RunsTyped
<1>5. ShardsTyped  BY <1>1, <1>3 DEF ShardsTyped, ShardOf
<1>6. TypeInv  BY <1>1, <1>4, <1>5, RestsTyped DEF TypeInv
<1>7. /\ \A c \in Coordinator : coords[c].at = "idle"
      /\ \A k \in Canceller : cancels[k].at = "idle"
    BY <1>1 DEF Idle, Rest
<1>8. LockInv  BY <1>7 DEF LockInv, Writes
<1>9. \A c \in Coordinator : CoordOf(c)  BY <1>7 DEF CoordOf, Writes
<1>10. \A k \in Canceller : CancelOf(k)  BY <1>7 DEF CancelOf
<1>11. \A r \in Run : RunOf(r)
    <2> SUFFICES ASSUME NEW r \in Run PROVE RunOf(r)  OBVIOUS
    <2>1. /\ runs[r].status = "pending" /\ outbox = {}
          /\ \A s \in Shard : cursors[r][s] = "open"
        BY <1>1, <1>2
    <2> QED  BY <2>1 DEF RunOf
<1> QED  BY <1>6, <1>8, <1>9, <1>10, <1>11 DEF IInv

(* Nothing happens.                                                        *)
LEMMA StutterKeeps == ASSUME IInv, UNCHANGED lifecycleVars PROVE IInv'
<1>1. UNCHANGED <<runs, cursors, shards, outbox, coords, cancels>>
    BY DEF lifecycleVars
<1>2. Grows /\ ShardsTyped'
    BY <1>1, SameGrows DEF IInv, TypeInv, ShardsTyped, ShardOf
<1> QED  BY <1>1, <1>2, ShardsMove

(* Every step keeps the invariant.                                         *)
LEMMA NextIInv == ASSUME IInv, [Next]_lifecycleVars PROVE IInv'
<1>1. ASSUME NEW c \in Coordinator, Cycle(c) PROVE IInv'
    <2>1. CASE BeginCycle(c)  BY <2>1, BeginCycleKeeps
    <2>2. CASE ClaimRoute(c)  BY <2>2, ClaimRouteKeeps
    <2>3. CASE DispatchEnds(c)  BY <2>3, DispatchEndsKeeps
    <2>4. CASE Prepare(c)  BY <2>4, PrepareKeeps
    <2>5. CASE WriteWindow(c)  BY <2>5, WriteWindowKeeps
    <2>6. CASE WriteRefused(c)  BY <2>6, RefusalKeeps
    <2>7. CASE CommitCursor(c)  BY <2>7, CommitCursorKeeps
    <2>8. CASE PickCandidate(c)  BY <2>8, PickCandidateKeeps
    <2>9. CASE CycleEnds(c)  BY <2>9, CycleOverKeeps
    <2>10. CASE \E d \in Database : ReadSummaries(c, d)  BY <2>10, ReadSummariesKeeps
    <2>11. CASE MarkChecked(c)  BY <2>11, MarkCheckedKeeps
    <2>12. CASE ClaimRun(c)  BY <2>12, ClaimRunKeeps
    <2>13. CASE Finalize(c)  BY <2>13, FinalizeKeeps
    <2> QED  BY <1>1, <2>1, <2>2, <2>3, <2>4, <2>5, <2>6, <2>7, <2>8, <2>9, <2>10,
                <2>11, <2>12, <2>13 DEF Cycle
<1>2. ASSUME NEW c \in Coordinator, Disturb(c) PROVE IInv'
    BY <1>2, RefusalKeeps, CycleOverKeeps, ReadFailsKeeps DEF Disturb
<1>3. ASSUME NEW k \in Canceller, Cancel(k) PROVE IInv'
    BY <1>3, RequestCancelKeeps, MarkCancelledKeeps, ReadRoutesKeeps, CancelStopsKeeps,
       CancelEndsKeeps, CancelTargetKeeps DEF Cancel
<1>4. ASSUME NEW c \in Coordinator, NEW k \in Canceller, BreakDeadlock(c, k) PROVE IInv'
    BY <1>4, BreakDeadlockKeeps
<1>5. ASSUME NEW r \in Run, LeaseExpires(r) PROVE IInv'  BY <1>5, LeaseExpiresKeeps
<1>6. ASSUME NEW r \in Run, NEW s \in Shard, SettleChunk(r, s) \/ Seal(r, s) \/ Move(r, s)
      PROVE  IInv'
    BY <1>6, SettleChunkKeeps, SealKeeps, MoveKeeps
<1>7. ASSUME UNCHANGED lifecycleVars PROVE IInv'  BY <1>7, StutterKeeps
<1> QED  BY <1>1, <1>2, <1>3, <1>4, <1>5, <1>6, <1>7 DEF Next

(* The invariant holds of every reachable state.                           *)
LEMMA Invariance == Spec => []IInv
<1>1. Init => IInv  BY InitIInv
<1>2. IInv /\ [Next]_lifecycleVars => IInv'  BY NextIInv
<1> QED  BY <1>1, <1>2, PTL DEF Spec

-----------------------------------------------------------------------------
(* A completed run was finalized from every planned chunk: the summaries   *)
(* are read one database at a time, with shards moving and settling in     *)
(* between, and yet finalize_claimed_run writes what the shards add up to, *)
(* because a terminal summary never changes again.                         *)
THEOREM RunsCompleteWhole == Spec => []CompletedIsWhole
<1>1. IInv => CompletedIsWhole
    <2> SUFFICES ASSUME IInv, NEW r \in Run, runs[r].status = "completed"
                 PROVE  /\ \A s \in Shard : shards[r][s].done = Chunks
                        /\ runs[r].result =
                             [settled |-> SumFunction([s \in Shard |-> shards[r][s].done]),
                              bad |-> SumFunction([s \in Shard |-> shards[r][s].bad])]
                        /\ runs[r].gate =
                             IF SumFunction([s \in Shard |-> shards[r][s].bad]) = 0
                             THEN "pass" ELSE "fail"
        BY Zenon DEF CompletedIsWhole
    <2> QED  BY Zenon DEF IInv, RunOf
<1> QED  BY <1>1, Invariance, PTL

(* A cancelled run that is no longer pending is settled on every database: *)
(* cleanup is admitted only where the route that was read still holds, so  *)
(* finalize_control_cancellation clears no mark over a shard that moved    *)
(* away in between.                                                        *)
THEOREM CancellationCleansUp == Spec => []CancelledIsClean
<1>1. IInv => CancelledIsClean  BY Zenon DEF IInv, RunOf, Clean, CancelledIsClean
<1> QED  BY <1>1, Invariance, PTL

(* A cursor is drained only when nothing is left to dispatch: the two      *)
(* commits of a dispatch are in two databases, and a crash between them    *)
(* leaves the cursor open.                                                 *)
THEOREM DispatchForgetsNothing == Spec => []NoChunkForgotten
<1>1. IInv => NoChunkForgotten  BY Zenon DEF IInv, RunOf, NoChunkForgotten
<1> QED  BY <1>1, Invariance, PTL

(* An outcome is written once: finalization goes by a claim and            *)
(* cancellation by the row lock, and neither rewrites the other's.         *)
LEMMA OutcomeKept ==
    ASSUME IInv, [Next]_lifecycleVars, NEW r \in Run, runs[r].status \in Finished
    PROVE  runs'[r].status = runs[r].status /\ runs'[r].gate = runs[r].gate
<1> DEFINE Kept == runs'[r].status = runs[r].status /\ runs'[r].gate = runs[r].gate
<1>1. RunOf(r) /\ runs[r].status \in {"completed", "cancelled"}
    BY DEF IInv, Finished
<1>2. ASSUME NEW q \in Run, NEW x, runs' = [runs EXCEPT ![q] = x],
             q = r => x.status = runs[r].status /\ x.gate = runs[r].gate
      PROVE  Kept
    BY <1>2 DEF IInv, TypeInv, RunsTyped
<1>3. \A q \in Run : runs[q] \in RunRowWith(runs[q].result)
    BY DEF IInv, TypeInv, RunsTyped
<1>4. ASSUME runs' = runs PROVE Kept  BY <1>4
<1>5. ASSUME NEW c \in Coordinator, Cycle(c) \/ Disturb(c) PROVE Kept
    <2>0. coords[c].run \in Run /\ CoordOf(c)  BY DEF IInv, TypeInv, CoordRow
    <2>1. CASE CommitCursor(c)
        <3>1. CASE coords[c].starts
            <4>1. coords[c].run # r
                BY <1>1, <2>0, <2>1, <3>1 DEF CommitCursor, CoordOf, Writes
            <4>2. \E x : runs' = [runs EXCEPT ![coords[c].run] = x]
                BY <2>1, <3>1 DEF CommitCursor
            <4> QED  BY <1>2, <2>0, <4>1, <4>2
        <3>2. CASE ~coords[c].starts  BY <1>4, <2>1, <3>2 DEF CommitCursor
        <3> QED  BY <3>1, <3>2
    <2>2. CASE ClaimRun(c)
        <3>1. CASE Candidate(coords[c].run) /\ RunUnlocked(coords[c].run)
            <4>1. coords[c].run # r  BY <1>1, <3>1 DEF Candidate
            <4>2. \E x : runs' = [runs EXCEPT ![coords[c].run] = x]
                BY <2>2, <3>1 DEF ClaimRun
            <4> QED  BY <1>2, <2>0, <4>1, <4>2
        <3>2. CASE ~(Candidate(coords[c].run) /\ RunUnlocked(coords[c].run))
            BY <1>4, <2>2, <3>2 DEF ClaimRun
        <3> QED  BY <3>1, <3>2
    <2>3. CASE Finalize(c)
        <3>1. CASE Owner(c, coords[c].run)
            <4>1. coords[c].run # r  BY <1>1, <3>1 DEF Owner
            <4>2. \E x : runs' = [runs EXCEPT ![coords[c].run] = x]
                BY <2>3, <3>1 DEF Finalize
            <4> QED  BY <1>2, <2>0, <4>1, <4>2
        <3>2. CASE ~Owner(c, coords[c].run)  BY <1>4, <2>3, <3>2 DEF Finalize
        <3> QED  BY <3>1, <3>2
    <2>4. CASE /\ ~CommitCursor(c) /\ ~ClaimRun(c) /\ ~Finalize(c)
        <3>1. runs' = runs
            BY Zenon, <1>5, <2>4 DEF Cycle, Disturb, BeginCycle, ClaimRoute, DispatchEnds,
               Prepare, WriteWindow, WriteRefused, PickCandidate, CycleEnds,
               ReadSummaries, MarkChecked, WriteFails, CycleAborts, ReadFails
        <3> QED  BY <1>4, <3>1
    <2> QED  BY <2>1, <2>2, <2>3, <2>4
<1>6. ASSUME NEW k \in Canceller, Cancel(k) PROVE Kept
    <2>0. cancels[k].run \in Run /\ CancelOf(k)  BY DEF IInv, TypeInv, CancelRow
    <2> DEFINE q == cancels[k].run
    <2>1. CASE MarkCancelled(k)
        <3> DEFINE x == IF runs[q].status = "cancelled" THEN runs[q] ELSE
                        [runs[q] EXCEPT !.status = "cancelled", !.gate = "fail",
                           !.cancelling = TRUE, !.coordinator = Nobody, !.lease = "none"]
        <3>1. runs' = [runs EXCEPT ![q] = x]
            BY <2>1 DEF MarkCancelled, IInv, TypeInv, RunsTyped
        <3>2. runs[q].status # "completed"  BY <2>0, <2>1 DEF MarkCancelled, CancelOf
        <3>3. q = r => x = runs[r]  BY <1>1, <3>2
        <3> HIDE DEF x
        <3> QED  BY <1>2, <2>0, <3>1, <3>3
    <2>2. CASE CancelEnds(k)
        <3> DEFINE x == [runs[q] EXCEPT !.status = "cancelled", !.gate = "fail",
                           !.cancelling = FALSE, !.coordinator = Nobody, !.lease = "none"]
        <3>1. runs' = [runs EXCEPT ![q] = x]
            BY <2>2 DEF CancelEnds, IInv, TypeInv, RunsTyped
        <3>2. runs[q].status = "cancelled"  BY <2>0, <2>2 DEF CancelEnds, CancelOf
        <3>3. x.status = "cancelled" /\ x.gate = "fail"
            BY <1>3, <2>0 DEF RunRowWith
        <3>4. q = r => x.status = runs[r].status /\ x.gate = runs[r].gate
            BY <1>1, <3>2, <3>3 DEF RunOf
        <3> HIDE DEF x
        <3> QED  BY <1>2, <2>0, <3>1, <3>4
    <2>3. CASE ~MarkCancelled(k) /\ ~CancelEnds(k)
        <3>1. runs' = runs
            BY <1>6, <2>3, Zenon DEF Cancel, RequestCancel, ReadRoutes, CancelStops, CancelTarget
        <3> QED  BY <1>4, <3>1
    <2> QED  BY <2>1, <2>2, <2>3
<1>7. ASSUME NEW q \in Run, LeaseExpires(q) PROVE Kept
    <2> DEFINE x == [runs[q] EXCEPT !.lease = "expired"]
    <2>1. runs' = [runs EXCEPT ![q] = x]
        BY <1>7 DEF LeaseExpires, IInv, TypeInv, RunsTyped
    <2>2. x.status = runs[q].status /\ x.gate = runs[q].gate  BY <1>3 DEF RunRowWith
    <2> HIDE DEF x
    <2> QED  BY <1>2, <2>1, <2>2
<1>8. ASSUME \/ \E c \in Coordinator, k \in Canceller : BreakDeadlock(c, k)
             \/ \E q \in Run, s \in Shard : SettleChunk(q, s) \/ Seal(q, s) \/ Move(q, s)
             \/ UNCHANGED lifecycleVars
      PROVE  Kept
    BY Zenon, <1>4, <1>8 DEF BreakDeadlock, SettleChunk, Seal, Move, DrainShard, FreezeShard,
       ActivateShard, lifecycleVars
<1> HIDE DEF Kept
<1>9. Kept  BY <1>5, <1>6, <1>7, <1>8 DEF Next
<1> QED  BY <1>9 DEF Kept

(* A run ends once: it keeps its status and its gate, and only one of the  *)
(* two events is enqueued, although finalize_claimed_run and the cancel    *)
(* command race and leases expire under a slow coordinator.                *)
THEOREM RunsEndOnce == Spec => EndsOnce
<1>1. ASSUME IInv, IInv', [Next]_lifecycleVars PROVE EndsOnceStep
    <2> SUFFICES ASSUME NEW r \in Run
                 PROVE  /\ runs[r].status \in Finished =>
                             /\ runs'[r].status = runs[r].status
                             /\ runs'[r].gate = runs[r].gate
                        /\ ~(<<r, "completed">> \in outbox' /\ <<r, "cancelled">> \in outbox')
        BY Zenon DEF EndsOnceStep
    <2>1. RunOf(r)'  BY <1>1 DEF IInv
    <2> QED  BY <1>1, <2>1, OutcomeKept DEF RunOf
<1>2. IInv /\ IInv' /\ [Next]_lifecycleVars => [EndsOnceStep]_lifecycleVars  BY <1>1
<1> QED  BY <1>2, Invariance, PTL DEF Spec, EndsOnce
=============================================================================
