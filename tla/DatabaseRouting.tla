--------------------------- MODULE DatabaseRouting ---------------------------
(***************************************************************************)
(* One Vigilo process reaching the execution database of a run shard: the   *)
(* circuit breaker keyed by database alias (circuit_breaker.rs), the route  *)
(* cache and the pools of the router (context/database.rs), the worker's    *)
(* claim through the route its message carries and through the refreshed    *)
(* one (worker.rs), the coordinator's dispatch (coordinator.rs), and the    *)
(* local admission row that decides each write.  A mover (ShardMove has its *)
(* detail), database outages and dropped operations surround it.            *)
(* Durations are counted in ticks; a wait counts down.                      *)
(***************************************************************************)
EXTENDS Naturals, FiniteSets

CONSTANTS Worker,       \* message tasks of the process, one message each
          Dispatcher,   \* coordinator dispatch passes of the process
          Alias,        \* database aliases
          Control,      \* the alias of the control database
          Started,      \* aliases registered when the process started
          Nobody,       \* no alias, no route
          Threshold,    \* consecutive failures that open a circuit
          InitialOpen,  \* first open duration
          MaxOpen,      \* longest open duration
          MaxMoves,     \* moves of the shard
          MaxFaults     \* outages, dropped permits and slow probes

VARIABLES entries,   \* alias -> circuit entry of the process
          route,     \* the shard's row in the control database
          local,     \* alias -> local admission row, or Missing
          registered,\* aliases with an active database placement
          statics,   \* aliases of the pools loaded once, Nobody before
          dynamic,   \* aliases of the pools discovered later
          cache,     \* cached route of the shard, or NoRoute
          callers,   \* worker tasks and dispatch passes
          mover,     \* step of the move in progress
          down,      \* aliases whose database is unreachable
          faults     \* faults so far

routingVars == <<entries, route, local, registered, statics, dynamic, cache,
                 callers, mover, down, faults>>

Caller == Worker \cup Dispatcher

Missing == [state |-> "missing", epoch |-> 0]
NoRoute == [alias |-> Nobody, epoch |-> 0, version |-> 0, status |-> "none"]
NoPermit == [alias |-> Nobody, current |-> FALSE, probe |-> FALSE]
Entry == [state |-> "closed", wait |-> 0, failures |-> 0, openFor |-> InitialOpen]
FirstRoute == [alias |-> Control, epoch |-> 1, version |-> 1, status |-> "active"]
Fresh(at, hint) == [at |-> at, hint |-> hint, permit |-> NoPermit, route |-> NoRoute]

Init ==
    /\ entries = [a \in Alias |-> Entry]
    /\ route = FirstRoute
    /\ local \in {[a \in Alias |-> Missing],
                  [a \in Alias |-> IF a = Control THEN [state |-> "open", epoch |-> 1]
                                                  ELSE Missing]}
    /\ registered = Started
    /\ statics = {Nobody}
    /\ dynamic = {}
    /\ cache = NoRoute
    /\ callers = [c \in Caller |->
                    Fresh("idle", IF c \in Worker THEN FirstRoute ELSE NoRoute)]
    /\ mover = "idle"
    /\ down = {}
    /\ faults = 0

Least(a, b) == IF a <= b THEN a ELSE b

(* jittered_open_for: up to a fifth less than the open duration. *)
JitteredOpenFor(e) == {w \in 1..e.openFor : 5 * w >= 4 * e.openFor}

Dispatchable(r) == r.status \in {"active", "copying"}
SameRouteFence(r, q) == r.alias = q.alias /\ r.status = q.status /\ r.version = q.version

-----------------------------------------------------------------------------
(* The circuit breaker. *)

Probing(e, w) == [e EXCEPT !.state = "halfOpen", !.wait = w]

(* The entry's generation, which its permits are compared with, advances: the
   permits given out before are of another generation. *)
Advance(cs, a) ==
    [c \in Caller |-> IF cs[c].permit.alias = a
                      THEN [cs[c] EXCEPT !.permit.current = FALSE] ELSE cs[c]]

(* mutant: a half-open circuit waits for its probe for ever *)
AcquiresAnswered(e) ==
    IF e.state = "closed"
    THEN {[entry |-> e, probe |-> FALSE]}
    ELSE {[entry |-> Probing(e, w), probe |-> TRUE] :
            w \in IF e.wait > 0 \/ e.state = "halfOpen" THEN {} ELSE JitteredOpenFor(e)}

(* acquire: the outcomes of an admission, none while the circuit refuses. *)
Acquires(e) ==
    IF e.state = "closed"
    THEN {[entry |-> e, probe |-> FALSE]}
    ELSE {[entry |-> Probing(e, w), probe |-> TRUE] :
            w \in IF e.wait > 0 THEN {} ELSE JitteredOpenFor(e)}

(* mutant: the generation of the permit is not compared *)
SuccessAnyGeneration(e, permit) ==
    IF permit.probe
    THEN [e EXCEPT !.failures = 0, !.openFor = InitialOpen, !.state = "closed", !.wait = 0]
    ELSE [e EXCEPT !.failures = 0, !.openFor = InitialOpen]

(* record_success: a permit of another generation changes nothing. *)
Success(e, permit) ==
    IF ~permit.current THEN e
    ELSE IF permit.probe
    THEN [e EXCEPT !.failures = 0, !.openFor = InitialOpen, !.state = "closed", !.wait = 0]
    ELSE [e EXCEPT !.failures = 0, !.openFor = InitialOpen]

(* record_failure of an unavailable database. *)
Failures(e, permit) ==
    LET counted == CASE e.state = "closed" -> [e EXCEPT !.failures = @ + 1]
                     [] e.state = "halfOpen" -> [e EXCEPT !.openFor = Least(2 * @, MaxOpen)]
                     [] OTHER -> e
    IN IF ~permit.current \/ e.state = "open"
       THEN {e}
       ELSE IF e.state = "closed" /\ counted.failures < Threshold
       THEN {counted}
       ELSE {[counted EXCEPT !.state = "open", !.wait = w] :
               w \in JitteredOpenFor(counted)}

Settled(cs, c, at) == [cs EXCEPT ![c] = Fresh(at, IF c \in Worker THEN @.hint ELSE NoRoute)]

(* The permit is given back and the entry is e from now on. *)
Record(c, e, at) ==
    LET a == callers[c].permit.alias
    IN /\ entries' = [entries EXCEPT ![a] = e]
       /\ callers' = Settled(IF e.state = entries[a].state THEN callers
                             ELSE Advance(callers, a), c, at)

(* The operation ends and is recorded as a success; errors that say nothing
   of availability are recorded the same way. *)
Succeeds(c, at) ==
    LET permit == callers[c].permit
    IN Record(c, Success(entries[permit.alias], permit), at)

(* The operation ends because a database it needed is unreachable: the
   permit's alias is charged, the message or the cursor comes back later. *)
Unavailable(c) ==
    LET permit == callers[c].permit
    IN /\ \E e \in Failures(entries[permit.alias], permit) : Record(c, e, "idle")
       /\ UNCHANGED <<route, local, registered, statics, dynamic, cache, mover, down, faults>>

-----------------------------------------------------------------------------
(* Pools and routes of the router. *)

Known(a) == a = Control \/ a \in statics \/ a \in dynamic

(* placement_pools and the dynamic pools: the first use loads the registered
   aliases, an alias seen later is added when it is looked up. *)
PoolsWith(a) ==
    LET loaded == IF Nobody \in statics THEN registered ELSE statics
    IN /\ statics' = IF a = Control THEN statics ELSE loaded
       /\ dynamic' = IF a = Control \/ a \in loaded THEN dynamic ELSE dynamic \cup {a}

(* execution_database_from_hint needs the control database only for the first
   load and for an alias it has not met. *)
HintNeedsControl(a) == a # Control /\ (Nobody \in statics \/ ~Known(a))

Goto(c, at) == callers' = [callers EXCEPT ![c].at = at]

(* run_worker_message and the dispatch pass take a permit of the alias first. *)
Acquire(c, hint, at) ==
    \E got \in Acquires(entries[hint.alias]) :
        /\ entries' = [entries EXCEPT ![hint.alias] = got.entry]
        /\ callers' = [IF got.probe THEN Advance(callers, hint.alias) ELSE callers
                         EXCEPT ![c] =
              [at |-> at, hint |-> hint, route |-> NoRoute,
               permit |-> [alias |-> hint.alias, current |-> TRUE, probe |-> got.probe]]]

(* run_worker_message: a delivery whose circuit refuses is delayed. *)
Deliver(w) ==
    /\ callers[w].at = "idle"
    /\ Acquire(w, callers[w].hint, "hinted")
    /\ UNCHANGED <<route, local, registered, statics, dynamic, cache, mover, down, faults>>

(* dispatch: the claimed cursor's route, read from the control database. *)
SelectRoute(d) ==
    /\ callers[d].at = "idle"
    /\ Control \notin down
    /\ Dispatchable(route)
    /\ Acquire(d, route, "resolve")
    /\ UNCHANGED <<route, local, registered, statics, dynamic, cache, mover, down, faults>>

(* mutant: a row is enough *)
AdmitsPresent(a, epoch) == local[a] # Missing

(* validate_local_shard_admission for new work. *)
Admits(a, epoch) == local[a].state = "open" /\ local[a].epoch = epoch

(* execution_write_route and begin_execution_write_admission: the claim goes
   through when the local row has the message's epoch; a refusal drops the
   cached route and resolves it again. *)
ClaimHinted(w) ==
    LET hint == callers[w].hint
        reached == hint.alias \notin down /\ (HintNeedsControl(hint.alias) => Control \notin down)
    IN /\ callers[w].at = "hinted"
       /\ \/ ~reached /\ Unavailable(w)
          \/ /\ reached
             /\ PoolsWith(hint.alias)
             /\ \/ /\ Admits(hint.alias, hint.epoch)
                   /\ Succeeds(w, "done")
                   /\ UNCHANGED cache
                \/ /\ ~Admits(hint.alias, hint.epoch)
                   /\ cache' = NoRoute
                   /\ Goto(w, "resolve")
                   /\ UNCHANGED entries
             /\ UNCHANGED <<route, local, registered, mover, down, faults>>

(* resolve_execution_placement: the cached route, or the control database's. *)
Resolve(c) ==
    /\ callers[c].at = "resolve"
    /\ \/ /\ cache # NoRoute
          /\ callers' = [callers EXCEPT ![c].route = cache, ![c].at = "check"]
          /\ UNCHANGED <<entries, route, local, registered, statics, dynamic, cache,
                         mover, down, faults>>
       \/ /\ cache = NoRoute
          /\ Control \notin down
          /\ callers' = [callers EXCEPT ![c].route = route, ![c].at = "insert"]
          /\ UNCHANGED <<entries, route, local, registered, statics, dynamic, cache,
                         mover, down, faults>>
       \/ cache = NoRoute /\ Control \in down /\ Unavailable(c)

(* The row read is inserted after the read, whatever happened in between. *)
Insert(c) ==
    /\ callers[c].at = "insert"
    /\ cache' = callers[c].route
    /\ Goto(c, "check")
    /\ UNCHANGED <<entries, route, local, registered, statics, dynamic, mover, down, faults>>

(* execution_route: a route that is not dispatchable blocks the caller, one
   whose database is known gets its pool; the dispatcher drops a cached route
   that is not the one it selected. *)
CheckRoute(c) ==
    LET r == callers[c].route
        changed == /\ c \in Dispatcher
                   /\ r.alias # callers[c].hint.alias \/ r.version # callers[c].hint.version
    IN /\ callers[c].at = "check"
       /\ \/ Dispatchable(r) /\ Control \in down /\ Unavailable(c)
          \/ /\ Dispatchable(r) => Control \notin down
             /\ IF Dispatchable(r) THEN PoolsWith(r.alias) ELSE UNCHANGED <<statics, dynamic>>
             /\ \/ /\ ~Dispatchable(r)
                   /\ Succeeds(c, "idle")
                   /\ UNCHANGED cache
                \/ /\ Dispatchable(r) /\ changed
                   /\ Succeeds(c, "idle")
                   /\ cache' = NoRoute
                \/ /\ Dispatchable(r) /\ ~changed
                   /\ Goto(c, "admit")
                   /\ UNCHANGED <<entries, cache>>
             /\ UNCHANGED <<route, local, registered, mover, down, faults>>

(* begin_execution_admission: admitted, refused, or the row is missing and the
   shared fence is kept while the control row is read again. *)
Admit(c) ==
    LET r == callers[c].route
    IN /\ callers[c].at = "admit"
       /\ \/ r.alias \in down /\ Unavailable(c)
          \/ /\ r.alias \notin down
             /\ \/ /\ Admits(r.alias, r.epoch)
                   /\ Succeeds(c, IF c \in Worker THEN "done" ELSE "idle")
                \/ /\ local[r.alias] # Missing /\ ~Admits(r.alias, r.epoch)
                   /\ Succeeds(c, "idle")
                \/ /\ local[r.alias] = Missing
                   /\ Goto(c, "reread")
                   /\ UNCHANGED entries
             /\ UNCHANGED <<route, local, registered, statics, dynamic, cache,
                            mover, down, faults>>

(* The control row is read again under the shared fence. *)
Reread(c) ==
    LET r == callers[c].route
    IN /\ callers[c].at = "reread"
       /\ \/ Control \in down /\ Unavailable(c)
          \/ /\ Control \notin down
             /\ IF SameRouteFence(r, route) /\ Dispatchable(route)
                THEN Goto(c, "repair") /\ UNCHANGED entries
                ELSE Succeeds(c, "idle")
             /\ UNCHANGED <<route, local, registered, statics, dynamic, cache,
                            mover, down, faults>>

(* upsert_local_shard_admission accepts a new row, a later epoch, or the same row. *)
MayUpsert(row, new) == row.epoch < new.epoch \/ row = new

(* The missing row is created open; the write it admits commits with it. *)
Repair(c) ==
    LET r == callers[c].route
        row == [state |-> "open", epoch |-> r.epoch]
    IN /\ callers[c].at = "repair"
       /\ \/ r.alias \in down /\ Unavailable(c)
          \/ /\ r.alias \notin down
             /\ IF MayUpsert(local[r.alias], row)
                THEN /\ local' = [local EXCEPT ![r.alias] = row]
                     /\ Succeeds(c, IF c \in Worker THEN "done" ELSE "idle")
                ELSE UNCHANGED local /\ Succeeds(c, "idle")
             /\ UNCHANGED <<route, registered, statics, dynamic, cache, mover, down, faults>>

(* A task is aborted or fails elsewhere with its permit unrecorded; its
   message is delivered again. *)
Drop(c) ==
    /\ callers[c].at \notin {"idle", "done"}
    /\ faults < MaxFaults
    /\ faults' = faults + 1
    /\ callers' = Settled(callers, c, "idle")
    /\ UNCHANGED <<entries, route, local, registered, statics, dynamic, cache, mover, down>>

-----------------------------------------------------------------------------
(* The rest of the system. *)

(* A wait elapses.  A probe outlived by its wait while it still runs is a
   slow operation. *)
Tick(a) ==
    LET slow == /\ entries[a].state = "halfOpen" /\ entries[a].wait = 1
                /\ \E c \in Caller : /\ callers[c].permit.alias = a
                                     /\ callers[c].permit.current
                                     /\ callers[c].permit.probe
    IN /\ entries[a].wait > 0
       /\ slow => faults < MaxFaults
       /\ faults' = IF slow THEN faults + 1 ELSE faults
       /\ entries' = [entries EXCEPT ![a].wait = @ - 1]
       /\ UNCHANGED <<route, local, registered, statics, dynamic, cache, callers,
                      mover, down>>

(* moka's time to live. *)
CacheExpires ==
    /\ cache # NoRoute
    /\ cache' = NoRoute
    /\ UNCHANGED <<entries, route, local, registered, statics, dynamic, callers,
                   mover, down, faults>>

Fenced(a) == \E c \in Caller : callers[c].at \in {"reread", "repair"} /\ callers[c].route.alias = a

Register(a) ==
    /\ a \notin registered
    /\ registered' = registered \cup {a}
    /\ UNCHANGED <<entries, route, local, statics, dynamic, cache, callers, mover,
                   down, faults>>

(* The route is frozen for cutover. *)
Freeze ==
    /\ mover = "idle"
    /\ route.epoch <= MaxMoves
    /\ \E a \in registered : a # route.alias
    /\ route' = [route EXCEPT !.status = "moving", !.version = @ + 1]
    /\ mover' = "frozen"
    /\ UNCHANGED <<entries, local, registered, statics, dynamic, cache, callers,
                   down, faults>>

(* transition_local_shard_admission closes the source under its exclusive
   fence, inserting the row when it has none. *)
Close ==
    /\ mover = "frozen"
    /\ ~Fenced(route.alias)
    /\ local' = [local EXCEPT ![route.alias] =
                   [state |-> "closed", epoch |-> route.epoch + 1]]
    /\ mover' = "closed"
    /\ UNCHANGED <<entries, route, registered, statics, dynamic, cache, callers,
                   down, faults>>

Activate ==
    /\ mover = "closed"
    /\ \E a \in registered \ {route.alias} :
          route' = [alias |-> a, epoch |-> route.epoch + 1,
                    version |-> route.version + 1, status |-> "active"]
    /\ mover' = "activated"
    /\ UNCHANGED <<entries, local, registered, statics, dynamic, cache, callers,
                   down, faults>>

OpenTarget ==
    /\ mover = "activated"
    /\ ~Fenced(route.alias)
    /\ local' = [local EXCEPT ![route.alias] = [state |-> "open", epoch |-> route.epoch]]
    /\ mover' = "idle"
    /\ UNCHANGED <<entries, route, registered, statics, dynamic, cache, callers,
                   down, faults>>

Outage(a) ==
    /\ a \notin down
    /\ faults < MaxFaults
    /\ faults' = faults + 1
    /\ down' = down \cup {a}
    /\ UNCHANGED <<entries, route, local, registered, statics, dynamic, cache,
                   callers, mover>>

Restore(a) ==
    /\ a \in down
    /\ down' = down \ {a}
    /\ UNCHANGED <<entries, route, local, registered, statics, dynamic, cache,
                   callers, mover, faults>>

Step(c) == Resolve(c) \/ Insert(c) \/ CheckRoute(c) \/ Admit(c) \/ Reread(c) \/ Repair(c)

Next ==
    \/ \E w \in Worker : Deliver(w) \/ ClaimHinted(w)
    \/ \E d \in Dispatcher : SelectRoute(d)
    \/ \E c \in Caller : Step(c) \/ Drop(c)
    \/ \E a \in Alias : Tick(a) \/ Register(a) \/ Outage(a) \/ Restore(a)
    \/ CacheExpires \/ Freeze \/ Close \/ Activate \/ OpenTarget

Spec == Init /\ [][Next]_routingVars

(* Tasks run, time passes, databases come back, a move that began goes on,
   the cache forgets. *)
Fairness ==
    /\ \A w \in Worker : WF_routingVars(Deliver(w)) /\ WF_routingVars(ClaimHinted(w))
    /\ \A c \in Caller : WF_routingVars(Step(c))
    /\ \A a \in Alias : WF_routingVars(Tick(a)) /\ WF_routingVars(Restore(a))
    /\ WF_routingVars(Close) /\ WF_routingVars(Activate) /\ WF_routingVars(OpenTarget)
    /\ WF_routingVars(CacheExpires)

FairSpec == Spec /\ Fairness

-----------------------------------------------------------------------------
TypeOK ==
    /\ \A a \in Alias :
          /\ entries[a].state \in {"closed", "open", "halfOpen"}
          /\ entries[a].wait \in 0..MaxOpen
          /\ entries[a].openFor \in InitialOpen..MaxOpen
          /\ entries[a].failures \in 0..Threshold
          /\ local[a].state \in {"missing", "open", "closed"}
    /\ route.alias \in Alias
    /\ registered \subseteq Alias /\ dynamic \subseteq Alias /\ down \subseteq Alias
    /\ statics \subseteq Alias \cup {Nobody}
    /\ cache.alias \in Alias \cup {Nobody}
    /\ \A c \in Caller : callers[c].at \in {"idle", "hinted", "resolve", "insert",
                                            "check", "admit", "reread", "repair", "done"}
    /\ faults \in 0..MaxFaults

(* The alias a caller is about to write to. *)
Writing(c) == IF callers[c].at = "hinted" THEN callers[c].hint.alias ELSE callers[c].route.alias

(* A write is admitted only on the database the control row names: a stale
   cached route, a message that carries an old one, an insertion into the
   cache after its invalidation and the repair of a missing admission row
   never write to a database the shard has left (begin_execution_admission,
   begin_execution_write_admission). *)
WritesAtOwnerStep ==
    \A w \in Worker : callers[w].at # "done" /\ callers'[w].at = "done" =>
       Writing(w) = route.alias
WritesAtOwner == [][WritesAtOwnerStep]_routingVars

(* A circuit that stopped admitting closes again only by a probe of its own
   generation, one issued after the wait; the late success of an operation
   admitted before the database failed changes nothing (record_success). *)
OnlyProbeClosesStep ==
    \A a \in Alias :
      entries[a].state # "closed" /\ entries'[a].state = "closed" =>
        \E c \in Caller : /\ callers[c].permit.probe
                          /\ callers[c].permit.alias = a
                          /\ callers[c].permit.current
                          /\ callers'[c].permit = NoPermit
OnlyProbeCloses == [][OnlyProbeClosesStep]_routingVars

(* Every message is claimed in the end: neither an open circuit, a probe that
   was dropped, a move that made the message's route stale, a stale cached
   route nor an outage that ends keeps a worker from the shard for ever. *)
Claimed(w) == callers[w].at = "done"
EveryMessageClaims == \A w \in Worker : <>Claimed(w)
=============================================================================
