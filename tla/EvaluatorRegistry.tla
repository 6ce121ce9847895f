-------------------------- MODULE EvaluatorRegistry --------------------------
(***************************************************************************)
(* The evaluator registry and its users: preparing a package               *)
(* (context/wasm.rs, evaluator_package.rs), publishing it (evaluators.rs,  *)
(* db/tables/evaluators.rs), installing an official collection             *)
(* (core_evaluators.rs), the operator's state changes, the pinning of a    *)
(* run's evaluators (run_profile_validation.rs) and the worker that loads, *)
(* caches and runs what was pinned (execution_processing.rs, worker.rs,    *)
(* context/registry.rs).                                                   *)
(*                                                                         *)
(* A content hash is injective, so it is the artifact itself: the compiled *)
(* body and the vigilo.package sections at its top level.  A reference is  *)
(* <<name, version>> in the one namespace publication writes.              *)
(***************************************************************************)
EXTENDS Integers, Sequences, FiniteSets, SequencesExt

CONSTANTS
  Publisher,        \* `evaluator publish` and `evaluator package` processes
  Installer,        \* `setup` processes
  Task,             \* evaluator tasks of one worker process
  Run,
  Sources,          \* package directories and archives an operator may name
  Releases,         \* release metadata, in the order the service lists it
  Adapter,          \* ABI identities [decl, contract, adapter] ever released
  Supports,         \* process -> the adapters its binary has ("worker" too)
  Links,            \* body -> the adapters it has the exports and imports of
  Reports,          \* body -> the identity its evaluate function returns: a
                    \* reference, at most one version and one hash; and
                    \* whether the rest of the output maps
  Permits,          \* max_concurrent_evaluations
  Fuel,             \* fuel_per_evaluation, in guest steps
  TimeoutMs, TickMs,
  MaxStates,        \* bound: state changes an operator makes
  MaxFaults         \* bound: failed reads, corrupt downloads, dropped tasks

VARIABLES
  rows,             \* the evaluators table: a sequence, the id is the index
  procs,            \* publisher or installer -> what it is doing
  files,            \* archives the package command wrote
  plans,            \* run -> its pinned evaluators, or NoPlan
  cells,            \* run -> its run-context cell: "empty", "ready" or a task
  cache,            \* prepared evaluators by cache key
  loading,          \* cache key -> the task whose load others await
  tasks,            \* task -> what it is doing
  results,          \* the latest result row of each run and reference
  states, faults    \* state changes and faults so far

registryVars == <<rows, procs, files, plans, cells, cache, loading, tasks, results, states, faults>>

NoPlan == {}
Refused == [refused |-> TRUE]
Proc == Publisher \cup Installer

Row(component) ==
  [ref |-> component.ref, artifact |-> component.artifact, abi |-> component.abi,
   state |-> "active"]
Idle == [pc |-> "idle"]

-----------------------------------------------------------------------------
(* The ABI adapters of a binary.                                           *)

ResolveDeclaration(p, decl) == {a \in Supports[p] : a.decl = decl}
ResolveIdentity(p, abi) == {a \in Supports[p] : a = abi}

(* The component's imports and exports are checked against the world the   *)
(* adapter was generated from, without running anything.                   *)
Linked(body, abi) == abi \in Links[body]

(* Compilation needs the adapter of the exact identity.                    *)
Compiles(p, body, abi) == ResolveIdentity(p, abi) # {} /\ Linked(body, abi)

-----------------------------------------------------------------------------
(* Package preparation.                                                    *)

(* The vigilo.package sections of the outer component; two are refused.    *)
EmbeddedRefused(artifact) == Len(artifact.sections) > 1

(* A source artifact without the section gets one, and its hash is the     *)
(* hash of the bytes with the section.                                     *)
EnsureEmbedded(artifact, ref) ==
  IF artifact.sections = <<>> THEN [artifact EXCEPT !.sections = <<ref>>] ELSE artifact

(* One line of a WIT file.  A world opens at depth one and closes when the *)
(* braces do; only exports inside it count, and only the first package     *)
(* line.                                                                   *)
WitLine(doc, line) ==
  IF line.kind = "package" /\ doc.decl = "none" THEN [doc EXCEPT !.decl = line.name]
  ELSE IF line.kind = "world" /\ doc.depth = 0
    THEN [doc EXCEPT !.depth = 1, !.world = line.name, !.open = {}]
  ELSE IF doc.depth = 0 THEN doc
  ELSE LET depth == doc.depth + line.opens - line.closes
           open  == IF line.kind = "export" THEN doc.open \cup {line.name} ELSE doc.open
       IN IF depth <= 0
            THEN [doc EXCEPT !.depth = 0, !.worlds = @ \cup {<<doc.world, open>>}]
            ELSE [doc EXCEPT !.depth = depth, !.open = open]

ParseWit(lines) ==
  FoldLeft(WitLine,
           [decl |-> "none", depth |-> 0, world |-> "none", open |-> {}, worlds |-> {}], lines)

(* The manifest's declaration must be one the binary supports, and the     *)
(* package's own WIT file must declare it.  find() takes the first world   *)
(* of the name; names are unique in a WIT file.                            *)
WitResolves(p, source) ==
  LET doc == ParseWit(source.wit)
  IN /\ ResolveDeclaration(p, source.decl) # {}
     /\ doc.decl = source.decl
     /\ \E w \in doc.worlds : w[1] = source.world /\ source.interface \in w[2]

(* An archive holds exactly the two members, each once and within its      *)
(* limit, with nothing but padding after them.                             *)
ArchiveReads(source) ==
  /\ \A i \in 1..Len(source.members) :
       /\ source.members[i].name \in {"Vigilo.toml", "evaluator.wasm"}
       /\ source.members[i].file /\ source.members[i].fits
       /\ \A j \in 1..(i - 1) : source.members[j].name # source.members[i].name
  /\ {source.members[i].name : i \in 1..Len(source.members)}
       = {"Vigilo.toml", "evaluator.wasm"}
  /\ ~source.trailing

(* verify: the manifest's hash and contract are those of the bytes and of  *)
(* the binary's adapter.                                                   *)
PackageVerifies(p, source) ==
  /\ source.hash = source.artifact
  /\ \E a \in ResolveDeclaration(p, source.decl) : a.contract = source.contract

(* A source package's name and version are its Cargo manifest's, and its   *)
(* build must not be older than that manifest.                             *)
BuildIsCurrent(source) == source.built /\ ~source.stale

(* A component is prepared from a portable package only as it stands, from *)
(* a source directory only if its build is not older than its manifest.    *)
PreparePortable(p, source) ==
  LET abi == CHOOSE a \in ResolveDeclaration(p, source.decl) : TRUE
  IN IF /\ ArchiveReads(source) /\ PackageVerifies(p, source)
        /\ ~EmbeddedRefused(source.artifact)
        /\ source.artifact.sections = <<source.ref>>
        /\ Compiles(p, source.artifact.body, abi)
     THEN [ref |-> source.ref, artifact |-> source.artifact, abi |-> abi]
     ELSE Refused

PrepareSource(p, source) ==
  LET abi      == CHOOSE a \in ResolveDeclaration(p, source.decl) : TRUE
      artifact == EnsureEmbedded(source.artifact, source.ref)
  IN IF /\ WitResolves(p, source)
        /\ BuildIsCurrent(source)
        /\ ~EmbeddedRefused(source.artifact)
        /\ artifact.sections = <<source.ref>>
        /\ Compiles(p, artifact.body, abi)
     THEN [ref |-> source.ref, artifact |-> artifact, abi |-> abi]
     ELSE Refused

PrepareEvaluator(p, source) ==
  IF source.portable THEN PreparePortable(p, source) ELSE PrepareSource(p, source)

(* mutant: the manifest of an archive names the hash of the bytes as built *)
PackageOfUnsealed(source, component) ==
  [portable |-> TRUE, ref |-> component.ref, decl |-> component.abi.decl,
   artifact |-> component.artifact, hash |-> source.artifact,
   contract |-> component.abi.contract, trailing |-> FALSE,
   members |-> <<[name |-> "Vigilo.toml", file |-> TRUE, fits |-> TRUE],
                 [name |-> "evaluator.wasm", file |-> TRUE, fits |-> TRUE]>>]

(* What write() puts in a new archive.                                     *)
PackageOf(source, component) ==
  [portable |-> TRUE, ref |-> component.ref, decl |-> component.abi.decl,
   artifact |-> component.artifact, hash |-> component.artifact,
   contract |-> component.abi.contract, trailing |-> FALSE,
   members |-> <<[name |-> "Vigilo.toml", file |-> TRUE, fits |-> TRUE],
                 [name |-> "evaluator.wasm", file |-> TRUE, fits |-> TRUE]>>]

(* `evaluator package`: prepared, verified, then persisted without ever    *)
(* replacing a file.                                                       *)
Package(p, source) ==
  LET component == PrepareEvaluator(p, source)
  IN /\ procs[p] = Idle
     /\ ~source.portable
     /\ component # Refused
     /\ \A f \in files : f.ref # component.ref
     /\ files' = files \cup {PackageOf(source, component)}
     /\ UNCHANGED <<rows, procs, plans, cells, cache, loading, tasks, results, states, faults>>

-----------------------------------------------------------------------------
(* Publication: three statements outside any transaction, and two unique   *)
(* constraints.                                                            *)

ByRef(ref) == {i \in 1..Len(rows) : rows[i].ref = ref}
ByHash(artifact) == {i \in 1..Len(rows) : rows[i].artifact = artifact}

(* What the process does after its publication: a publisher has ended, an  *)
(* installer goes on with the next entry of its collection.                *)
After(p, published) ==
  IF p \in Publisher \/ ~published THEN Idle
  ELSE [pc |-> "entry", catalog |-> procs[p].catalog, next |-> procs[p].next + 1]

(* publish_vigilo_evaluator up to the first lookup.                        *)
Publish(p, source) ==
  LET component == PrepareEvaluator(p, source)
  IN /\ procs[p] = Idle
     /\ component # Refused
     /\ procs' = [procs EXCEPT ![p] = [pc |-> "publish", component |-> component]]
     /\ UNCHANGED <<rows, files, plans, cells, cache, loading, tasks, results, states, faults>>

SelectIdentity(p) ==
  /\ procs[p].pc = "publish"
  /\ LET found == ByRef(procs[p].component.ref)
     IN procs' = [procs EXCEPT ![p] =
          IF found = {} THEN [@ EXCEPT !.pc = "hash"]
          ELSE After(p, \A i \in found : rows[i].artifact = procs[p].component.artifact)]
  /\ UNCHANGED <<rows, files, plans, cells, cache, loading, tasks, results, states, faults>>

SelectHash(p) ==
  /\ procs[p].pc = "hash"
  /\ procs' = [procs EXCEPT ![p] =
       IF ByHash(procs[p].component.artifact) = {} THEN [@ EXCEPT !.pc = "insert"]
       ELSE After(p, FALSE)]
  /\ UNCHANGED <<rows, files, plans, cells, cache, loading, tasks, results, states, faults>>

(* mutant: the table has no unique (namespace, name, version) constraint   *)
UniqueHashOnly(component) == ByHash(component.artifact) = {}

(* uq_evaluators_namespace_name_version and uq_evaluators_namespace_hash.  *)
Unique(component) == ByRef(component.ref) = {} /\ ByHash(component.artifact) = {}

InsertEvaluator(p) ==
  /\ procs[p].pc = "insert"
  /\ IF Unique(procs[p].component)
     THEN /\ rows' = Append(rows, Row(procs[p].component))
          /\ procs' = [procs EXCEPT ![p] = After(p, TRUE)]
     ELSE /\ procs' = [procs EXCEPT ![p] = After(p, FALSE)]
          /\ UNCHANGED rows
  /\ UNCHANGED <<files, plans, cells, cache, loading, tasks, results, states, faults>>

(* mutant: a removed evaluator takes a new state                           *)
MayChangeAny(i) == TRUE

(* Removal is final.                                                       *)
MayChange(i) == rows[i].state # "removed"

SetState(i, state) ==
  /\ states < MaxStates
  /\ MayChange(i)
  /\ rows' = [rows EXCEPT ![i].state = state]
  /\ states' = states + 1
  /\ UNCHANGED <<procs, files, plans, cells, cache, loading, tasks, results, faults>>

-----------------------------------------------------------------------------
(* Installing an official collection.                                      *)

(* Published collections, newest first; a draft or a prerelease is not     *)
(* one, and one malformed key ends discovery.                              *)
Candidates == {r \in Releases : ~r.draft}
Newer(r, s) == r.key > s.key

(* Catalog::validate and the comparison with the release's assets.         *)
CatalogIsSound(r) ==
  /\ r.entries # <<>>
  /\ \A i, j \in 1..Len(r.entries) :
       i # j => r.entries[i].ref[1] # r.entries[j].ref[1]
  /\ r.assets = {r.entries[i].ref : i \in 1..Len(r.entries)}

(* A catalog that changes a supported contract is an error; one with a     *)
(* declaration this binary lacks is passed over.                           *)
Conflicting(p, r) ==
  \E i \in 1..Len(r.entries) : \E a \in ResolveDeclaration(p, r.entries[i].abi.decl) :
    a.contract # r.entries[i].abi.contract
Compatible(p, r) ==
  \A i \in 1..Len(r.entries) : ResolveDeclaration(p, r.entries[i].abi.decl) # {}

(* Discovery takes releases newest first and stops at the first that is    *)
(* compatible; an unsound one before it is an error.                       *)
Discoverable(p, r) ==
  /\ CatalogIsSound(r) /\ ~Conflicting(p, r) /\ Compatible(p, r)
  /\ \A s \in Candidates :
       Newer(s, r) => CatalogIsSound(s) /\ ~Conflicting(p, s) /\ ~Compatible(p, s)

Discover(p, r) ==
  /\ procs[p] = Idle
  /\ r \in Candidates
  /\ Discoverable(p, r)
  /\ procs' = [procs EXCEPT ![p] = [pc |-> "entry", catalog |-> r, next |-> 1]]
  /\ UNCHANGED <<rows, files, plans, cells, cache, loading, tasks, results, states, faults>>

Entry(p) == procs[p].catalog.entries[procs[p].next]

(* mutant: an evaluator of the name and version is taken as installed      *)
InstalledMatchesAny(row, entry) == TRUE

(* An installed evaluator must be the catalog's own.                       *)
InstalledMatches(row, entry) == row.artifact = entry.artifact /\ row.abi = entry.abi

(* The component verified against the catalog, from the bytes the entry's  *)
(* checksum covers.                                                        *)
ComponentMatches(component, entry) ==
  /\ component # Refused
  /\ component.ref = entry.ref /\ component.artifact = entry.artifact
  /\ component.abi.decl = entry.abi.decl /\ component.abi.contract = entry.abi.contract

Archive(entry) ==
  [portable |-> TRUE, ref |-> entry.ref, decl |-> entry.abi.decl,
   artifact |-> entry.artifact, hash |-> entry.artifact, contract |-> entry.abi.contract,
   trailing |-> FALSE,
   members |-> <<[name |-> "Vigilo.toml", file |-> TRUE, fits |-> TRUE],
                 [name |-> "evaluator.wasm", file |-> TRUE, fits |-> TRUE]>>]

InstallEntry(p) ==
  /\ procs[p].pc = "entry"
  /\ procs[p].next <= Len(procs[p].catalog.entries)
  /\ LET found     == ByRef(Entry(p).ref)
         component == PreparePortable(p, Archive(Entry(p)))
     IN procs' = [procs EXCEPT ![p] =
          IF found # {}
          THEN After(p, \A i \in found : InstalledMatches(rows[i], Entry(p)))
          ELSE IF ComponentMatches(component, Entry(p))
          THEN [pc |-> "publish", component |-> component,
                catalog |-> procs[p].catalog, next |-> procs[p].next]
          ELSE Idle]
  /\ UNCHANGED <<rows, files, plans, cells, cache, loading, tasks, results, states, faults>>

(* A download that fails, or whose size or checksum is not the entry's,    *)
(* ends the installation; what was published stays.                        *)
DownloadFails(p) ==
  /\ procs[p].pc = "entry" /\ faults < MaxFaults
  /\ procs[p].next <= Len(procs[p].catalog.entries)
  /\ ByRef(Entry(p).ref) = {}
  /\ procs' = [procs EXCEPT ![p] = Idle]
  /\ faults' = faults + 1
  /\ UNCHANGED <<rows, files, plans, cells, cache, loading, tasks, results, states>>

Installed(p) ==
  procs[p].pc = "entry" /\ procs[p].next > Len(procs[p].catalog.entries)

(* The command may be run again at any time.                               *)
InstallEnds(p) ==
  /\ Installed(p)
  /\ procs' = [procs EXCEPT ![p] = Idle]
  /\ UNCHANGED <<rows, files, plans, cells, cache, loading, tasks, results, states, faults>>

-----------------------------------------------------------------------------
(* Run creation pins the rows its profile names: by id, hash and ABI.      *)

RunnableState(state) == state \in {"active", "deprecated", "yanked"}

(* What one query reads of the rows the profile names.                     *)
RuntimeMetadata(i) ==
  [ref |-> rows[i].ref, id |-> i, artifact |-> rows[i].artifact, abi |-> rows[i].abi]

PinRun(r, chosen) ==
  /\ plans[r] = NoPlan /\ chosen # {}
  /\ \A i \in chosen : /\ RunnableState(rows[i].state)
                       /\ rows[i].abi \in ResolveDeclaration("creator", rows[i].abi.decl)
  /\ plans' = [plans EXCEPT ![r] = {RuntimeMetadata(i) : i \in chosen}]
  /\ UNCHANGED <<rows, procs, files, cells, cache, loading, tasks, results, states, faults>>

-----------------------------------------------------------------------------
(* The worker: run contexts, prepared evaluators and evaluations.          *)

(* mutant: the key leaves out the artifact                                 *)
CacheKeyOfContract(pin) == <<pin.abi.contract, pin.abi.adapter>>

CacheKey(pin) == <<pin.artifact, pin.abi.contract, pin.abi.adapter>>

(* Warm-up (warm) ends with the prepared component, a case's task with the *)
(* evaluation.                                                             *)
Begin(t, r, pin, warm) ==
  /\ tasks[t] = Idle
  /\ tasks' = [tasks EXCEPT ![t] = [pc |-> "context", run |-> r, pin |-> pin, warm |-> warm]]
  /\ UNCHANGED <<rows, procs, files, plans, cells, cache, loading, results, states, faults>>

(* A task takes the run's cell as the cache has it.  The first to take it  *)
(* initialises it; the others keep that cell and wait on its initialiser.  *)
BuildContext(t) ==
  LET cell == cells[tasks[t].run]
  IN /\ tasks[t].pc = "context" /\ cell # "ready"
     /\ cells' = IF cell = "empty" THEN [cells EXCEPT ![tasks[t].run] = t] ELSE cells
     /\ tasks' = [tasks EXCEPT ![t] =
          IF cell = "empty" THEN [@ EXCEPT !.pc = "building"]
          ELSE [pc |-> "waits", run |-> @.run, pin |-> @.pin, warm |-> @.warm, on |-> cell]]
     /\ UNCHANGED <<rows, procs, files, plans, cache, loading, results, states, faults>>

Waiters(t) == {u \in Task : tasks[u].pc = "waits" /\ tasks[u].on = t}
Resumed(u, pc) == [pc |-> pc, run |-> tasks[u].run, pin |-> tasks[u].pin, warm |-> tasks[u].warm]
CellBecomes(t, value) ==
  LET r == tasks[t].run IN cells' = IF cells[r] = t THEN [cells EXCEPT ![r] = value] ELSE cells

(* The pinned catalog: every ABI must have its adapter in this binary.     *)
CatalogBuilds(r) == \A pin \in plans[r] : ResolveIdentity("worker", pin.abi) # {}

ContextBuilt(t) ==
  /\ tasks[t].pc = "building"
  /\ CatalogBuilds(tasks[t].run)
  /\ CellBecomes(t, "ready")
  /\ tasks' = [u \in Task |-> IF u = t \/ u \in Waiters(t) THEN Resumed(u, "load") ELSE tasks[u]]
  /\ UNCHANGED <<rows, procs, files, plans, cache, loading, results, states, faults>>

(* An initialisation that ends without a value leaves the cell empty; one  *)
(* of those that wait on it initialises it next.                           *)
GiveUpCell(t) ==
  \/ /\ Waiters(t) = {}
     /\ CellBecomes(t, "empty")
     /\ tasks' = [tasks EXCEPT ![t] = Idle]
  \/ \E w \in Waiters(t) :
     /\ CellBecomes(t, w)
     /\ tasks' = [u \in Task |-> CASE u = t -> Idle
                                  [] u = w -> Resumed(u, "building")
                                  [] u \in Waiters(t) \ {w} -> [tasks[u] EXCEPT !.on = w]
                                  [] OTHER -> tasks[u]]

ContextFails(t) ==
  /\ tasks[t].pc = "building"
  /\ ~CatalogBuilds(tasks[t].run) \/ faults < MaxFaults
  /\ faults' = IF CatalogBuilds(tasks[t].run) THEN faults + 1 ELSE faults
  /\ GiveUpCell(t)
  /\ UNCHANGED <<rows, procs, files, plans, cache, loading, results, states>>

UseContext(t) ==
  /\ tasks[t].pc = "context" /\ cells[tasks[t].run] = "ready"
  /\ tasks' = [tasks EXCEPT ![t].pc = "load"]
  /\ UNCHANGED <<rows, procs, files, plans, cells, cache, loading, results, states, faults>>

Loader(key) == IF key \in DOMAIN loading THEN {loading[key]} ELSE {}
Cached(key) == {c \in cache : c.key = key}
Without(key) == [k \in DOMAIN loading \ {key} |-> loading[k]]
Awaiting(key) == {t \in Task : tasks[t].pc = "await" /\ CacheKey(tasks[t].pin) = key}
Prepared(t, body, abi) ==
  IF tasks[t].warm THEN Idle
  ELSE [pc |-> "permit", run |-> tasks[t].run, pin |-> tasks[t].pin, body |-> body, abi |-> abi]

(* The registry cache is single-flight: a hit, one load, or a wait on it.  *)
GetOrLoad(t) ==
  LET key == CacheKey(tasks[t].pin)
  IN /\ tasks[t].pc = "load"
     /\ tasks' = [tasks EXCEPT ![t] =
          IF Cached(key) # {}
          THEN LET c == CHOOSE c \in Cached(key) : TRUE IN Prepared(t, c.body, c.abi)
          ELSE [@ EXCEPT !.pc = IF Loader(key) = {} THEN "loading" ELSE "await"]]
     /\ loading' = IF Cached(key) = {} /\ Loader(key) = {}
                     THEN [k \in DOMAIN loading \cup {key} |-> IF k = key THEN t ELSE loading[k]]
                     ELSE loading
     /\ UNCHANGED <<rows, procs, files, plans, cells, cache, results, states, faults>>

(* The row behind the pinned id must still be what was pinned.  Its state  *)
(* is not read.                                                            *)
ById(id) == rows[id]
RowMatchesPin(pin) == ById(pin.id).artifact = pin.artifact /\ ById(pin.id).abi = pin.abi

Loaded(t) ==
  LET pin == tasks[t].pin
      key == CacheKey(pin)
      row == ById(pin.id)
  IN /\ tasks[t].pc = "loading"
     /\ RowMatchesPin(pin) /\ Compiles("worker", row.artifact.body, pin.abi)
     /\ cache' = cache \cup {[key |-> key, body |-> row.artifact.body, abi |-> pin.abi]}
     /\ loading' = Without(key)
     /\ tasks' = [u \in Task |->
          IF u = t \/ u \in Awaiting(key) THEN Prepared(u, row.artifact.body, pin.abi)
          ELSE tasks[u]]
     /\ UNCHANGED <<rows, procs, files, plans, cells, results, states, faults>>

(* An error is not cached: it fails the load and everyone who awaited it.  *)
LoadFails(t) ==
  LET key == CacheKey(tasks[t].pin)
  IN /\ tasks[t].pc = "loading" /\ faults < MaxFaults
     /\ faults' = faults + 1
     /\ loading' = Without(key)
     /\ tasks' = [u \in Task |-> IF u = t \/ u \in Awaiting(key) THEN Idle ELSE tasks[u]]
     /\ UNCHANGED <<rows, procs, files, plans, cells, cache, results, states>>

Evict(c) ==
  /\ cache' = cache \ {c}
  /\ UNCHANGED <<rows, procs, files, plans, cells, loading, tasks, results, states, faults>>

EvictContext(r) ==
  /\ cells[r] # "empty"
  /\ cells' = [cells EXCEPT ![r] = "empty"]
  /\ UNCHANGED <<rows, procs, files, plans, cache, loading, tasks, results, states, faults>>

-----------------------------------------------------------------------------
(* Evaluations.  The permit moves into the blocking closure, which runs on *)
(* when the task that awaits it is dropped.                                *)

(* mutant: the permit stays with the awaiting task                         *)
HeldByAwaiting == {t \in Task : tasks[t].pc = "running"}

Held == {t \in Task : tasks[t].pc \in {"running", "dropped"}}
Closures == {t \in Task : tasks[t].pc \in {"running", "dropped"}}

(* ceil(timeout / interval), and at least one tick.                        *)
EpochDeadlineTicks == LET t == (TimeoutMs + TickMs - 1) \div TickMs IN IF t < 1 THEN 1 ELSE t

AcquirePermit(t) ==
  /\ tasks[t].pc = "permit"
  /\ Cardinality(Held) < Permits
  /\ tasks' = [tasks EXCEPT ![t] =
       [pc |-> "running", run |-> @.run, pin |-> @.pin, body |-> @.body, abi |-> @.abi,
        fuel |-> Fuel, ticks |-> EpochDeadlineTicks]]
  /\ UNCHANGED <<rows, procs, files, plans, cells, cache, loading, results, states, faults>>

GuestStep(t) ==
  /\ t \in Closures /\ tasks[t].fuel > 0 /\ tasks[t].ticks > 0
  /\ tasks' = [tasks EXCEPT ![t].fuel = @ - 1]
  /\ UNCHANGED <<rows, procs, files, plans, cells, cache, loading, results, states, faults>>

(* mutant: no ticker thread is started                                     *)
TickStopped == FALSE /\ UNCHANGED registryVars

(* The ticker thread counts every store's deadline down.                   *)
Tick ==
  /\ \E t \in Closures : tasks[t].ticks > 0
  /\ tasks' = [t \in Task |->
       IF t \in Closures /\ tasks[t].ticks > 0 THEN [tasks[t] EXCEPT !.ticks = @ - 1]
       ELSE tasks[t]]
  /\ UNCHANGED <<rows, procs, files, plans, cells, cache, loading, results, states, faults>>

(* What the awaiting task records; nothing, when it was dropped.           *)
Recorded(t, outcome) ==
  IF tasks[t].pc = "dropped" THEN results
  ELSE {x \in results : x.run # tasks[t].run \/ x.pin # tasks[t].pin}
         \cup {[run |-> tasks[t].run, pin |-> tasks[t].pin, body |-> tasks[t].body,
                outcome |-> outcome]}

(* mutant: the reported identity is not compared                           *)
IdentityMatchesAny(t) == TRUE

(* The output must name the bound reference; a content hash or interface   *)
(* version it reports must be the pinned one.                              *)
Identifies(report, pin) ==
  /\ report.ref = pin.ref
  /\ report.version \subseteq {pin.abi.decl}
  /\ report.hash \subseteq {pin.artifact}

IdentityMatches(t) == Identifies(Reports[tasks[t].body], tasks[t].pin)

(* An abstention or a diagnostic without a category, or evidence that is   *)
(* no JSON, makes the output an error.                                     *)
OutputMaps(t) == Reports[tasks[t].body].valid

Finish(t) ==
  /\ t \in Closures /\ tasks[t].fuel < Fuel /\ tasks[t].ticks > 0
  /\ results' = Recorded(t, IF ~OutputMaps(t) THEN "error"
                            ELSE IF IdentityMatches(t) THEN "completed"
                            ELSE "identity_mismatch")
  /\ tasks' = [tasks EXCEPT ![t] = Idle]
  /\ UNCHANGED <<rows, procs, files, plans, cells, cache, loading, states, faults>>

Trap(t) ==
  /\ t \in Closures /\ (tasks[t].fuel = 0 \/ tasks[t].ticks = 0)
  /\ results' = Recorded(t, "error")
  /\ tasks' = [tasks EXCEPT ![t] = Idle]
  /\ UNCHANGED <<rows, procs, files, plans, cells, cache, loading, states, faults>>

(* The case's JoinSet is dropped: a cell or a load it was initialising is  *)
(* handed to a waiter, a running closure goes on by itself.                *)
Drop(t) ==
  LET key == CacheKey(tasks[t].pin)
  IN /\ tasks[t].pc \notin {"idle", "dropped"} /\ faults < MaxFaults
     /\ faults' = faults + 1
     /\ loading' = IF tasks[t].pc = "loading" THEN Without(key) ELSE loading
     /\ \/ tasks[t].pc = "building" /\ GiveUpCell(t)
        \/ /\ tasks[t].pc # "building"
           /\ tasks' = [u \in Task |->
                IF u = t THEN IF tasks[t].pc = "running" THEN [tasks[t] EXCEPT !.pc = "dropped"] ELSE Idle
                ELSE IF tasks[t].pc = "loading" /\ u \in Awaiting(key)
                  THEN [tasks[u] EXCEPT !.pc = "load"]
                ELSE tasks[u]]
           /\ UNCHANGED cells
     /\ UNCHANGED <<rows, procs, files, plans, cache, results, states>>

-----------------------------------------------------------------------------
Init ==
  /\ rows = <<>> /\ files = {} /\ cache = {} /\ loading = <<>> /\ results = {}
  /\ procs = [p \in Proc |-> Idle]
  /\ plans = [r \in Run |-> NoPlan]
  /\ cells = [r \in Run |-> "empty"]
  /\ tasks = [t \in Task |-> Idle]
  /\ states = 0 /\ faults = 0

Registering ==
  \/ \E p \in Publisher : \E s \in Sources \cup files : Publish(p, s)
  \/ \E p \in Publisher : \E s \in Sources : Package(p, s)
  \/ \E p \in Proc : SelectIdentity(p) \/ SelectHash(p) \/ InsertEvaluator(p)
  \/ \E i \in 1..Len(rows) :
       \E s \in {"active", "yanked", "deprecated", "disabled", "removed"} : SetState(i, s)
  \/ \E p \in Installer : \E r \in Releases : Discover(p, r)
  \/ \E p \in Installer : InstallEntry(p) \/ DownloadFails(p) \/ InstallEnds(p)
  \/ \E r \in Run : \E chosen \in SUBSET (1..Len(rows)) : PinRun(r, chosen)

Proceed(t) ==
  \/ BuildContext(t) \/ ContextBuilt(t) \/ ContextFails(t) \/ UseContext(t)
  \/ GetOrLoad(t) \/ Loaded(t) \/ LoadFails(t)
  \/ Finish(t) \/ Trap(t)

Evaluating ==
  \/ \E t \in Task : \E r \in Run : \E pin \in plans[r] : Begin(t, r, pin, FALSE) \/ Begin(t, r, pin, TRUE)
  \/ \E t \in Task : Proceed(t) \/ AcquirePermit(t) \/ GuestStep(t) \/ Drop(t)
  \/ \E c \in cache : Evict(c)
  \/ \E r \in Run : EvictContext(r)
  \/ Tick

Next == Registering \/ Evaluating

(* The runtime polls every task, the semaphore is first come first served, *)
(* and the ticker thread runs on.                                          *)
Fairness ==
  /\ \A t \in Task : WF_registryVars(Proceed(t)) /\ SF_registryVars(AcquirePermit(t))
  /\ WF_registryVars(Tick)

Spec == Init /\ [][Next]_registryVars
FairSpec == Spec /\ Fairness

-----------------------------------------------------------------------------
(* TypeOK: a key has at most one load, by a task that is loading it, and a *)
(* cell being built belongs to a task that builds it.                      *)
TypeOK ==
  /\ \A i \in 1..Len(rows) :
       rows[i].state \in {"active", "yanked", "deprecated", "disabled", "removed"}
  /\ \A k \in DOMAIN loading :
       tasks[loading[k]].pc = "loading" /\ CacheKey(tasks[loading[k]].pin) = k
  /\ \A t \in Task : tasks[t].pc = "loading" => CacheKey(tasks[t].pin) \in DOMAIN loading
  /\ \A r \in Run : cells[r] \in Task => tasks[cells[r]].pc = "building"
  /\ \A t \in Task : tasks[t].pc = "waits" => tasks[tasks[t].on].pc = "building"
  /\ states \in 0..MaxStates /\ faults \in 0..MaxFaults

(* Whatever was published, cached, shared, evicted or loaded meanwhile, a  *)
(* task holds the component of the artifact and ABI its run pinned, and a  *)
(* completed result comes from it (execution_processing.rs,                *)
(* get_or_load_component).                                                 *)
RunsWhatWasPinned ==
  /\ \A t \in Task : tasks[t].pc \in {"permit", "running", "dropped"} =>
       tasks[t].body = tasks[t].pin.artifact.body /\ tasks[t].abi = tasks[t].pin.abi
  /\ \A x \in results :
       /\ x.body = x.pin.artifact.body
       /\ x.outcome = "completed" =>
            Identifies(Reports[x.body], x.pin) /\ Reports[x.body].valid

(* A reference and an artifact are each published once, however the        *)
(* lookups and inserts of several publishers interleave (evaluators.rs,    *)
(* publish_evaluator_draft).                                               *)
PublishedOnce ==
  \A i, j \in 1..Len(rows) :
    i # j => rows[i].ref # rows[j].ref /\ rows[i].artifact # rows[j].artifact

(* A published row keeps its reference, artifact and ABI for good, and a   *)
(* removed one its state (db/tables/evaluators.rs,                         *)
(* update_evaluator_state).                                                *)
PublishedIsImmutableStep ==
  \A i \in 1..Len(rows) :
    /\ i <= Len(rows')
    /\ [rows'[i] EXCEPT !.state = rows[i].state] = rows[i]
    /\ rows[i].state = "removed" => rows'[i].state = "removed"
PublishedIsImmutable == [][PublishedIsImmutableStep]_registryVars

(* An installation that reports success has left every evaluator of its    *)
(* collection in the registry exactly as the catalog lists it, through     *)
(* failures, reruns and racing publishers (core_evaluators.rs, install).   *)
InstalledIsCatalog ==
  \A p \in Installer : Installed(p) =>
    \A i \in 1..Len(procs[p].catalog.entries) :
      \E row \in {rows[k] : k \in 1..Len(rows)} :
        /\ row.ref = procs[p].catalog.entries[i].ref
        /\ row.artifact = procs[p].catalog.entries[i].artifact
        /\ row.abi = procs[p].catalog.entries[i].abi

(* An archive the package command wrote prepares, in a binary with the     *)
(* same adapters, to a component whose artifact is the archive's           *)
(* (evaluator_package.rs, write and load).                                 *)
PackagedIsPortable ==
  \A f \in files : \A p \in Publisher :
    ResolveDeclaration(p, f.decl) # {} =>
      PrepareEvaluator(p, f) # Refused /\ PrepareEvaluator(p, f).artifact = f.artifact

(* Dropped or not, no more evaluators run at a time than there are permits *)
(* (context/wasm.rs, acquire_evaluation_permit).                           *)
EvaluationsBounded == Cardinality(Closures) <= Permits

(* Every evaluation that waits for its context, its component or a permit, *)
(* or runs, comes to an end (execution_processing.rs,                      *)
(* evaluate_case_execution).                                               *)
Resting(t) == tasks[t].pc = "idle"
EveryEvaluationEnds == \A t \in Task : ~Resting(t) ~> Resting(t)
=============================================================================
