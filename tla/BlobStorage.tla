---------------------------- MODULE BlobStorage ----------------------------
(***************************************************************************)
(* The immutable object store behind datasets and run plans                *)
(* (blob_storage.rs, blob_storage/s3.rs): endpoint probing, conditional    *)
(* creation with reconciliation of lost responses, verified reads, exact   *)
(* deletion, and the slots and spool bytes all operations share.           *)
(*                                                                         *)
(* Every key has one reference, so its contents are "ref" (the referenced  *)
(* bytes), "other" (any other bytes) or Absent.  One transport request is  *)
(* one atomic step: it takes effect or not, and its answer arrives or not. *)
(* A deadline or a cancellation may end an operation while it waits.       *)
(***************************************************************************)
EXTENDS Integers, FiniteSets

CONSTANTS Client,       \* tasks that share one process's Resources
          Key,          \* application keys
          Probe,        \* Probe[c]: the probe key client c recorded
          Concurrency,  \* Resources::streams
          Capacity,     \* Resources::disk, in objects of one size
          Requests,     \* Budget::requests
          MaxOps        \* bound on the operations started

VARIABLES store,        \* the bucket: key -> contents
          conditional,  \* does the endpoint honour If-None-Match?
          ops,          \* the operation each client runs
          connected,    \* clients whose probe succeeded
          held,         \* verified files: client -> set of <<key, contents>>
          created,      \* keys whose create() returned Ok
          started       \* operations started

blobVars == <<store, conditional, ops, connected, held, created, started>>

Absent == "absent"
ProbeKeys == {Probe[c] : c \in Client}
Keys == Key \cup ProbeKeys

Idle == [kind |-> "idle", key |-> Absent, pc |-> "idle", slot |-> FALSE,
         staged |-> FALSE, remaining |-> 0, failed |-> FALSE,
         touched |-> FALSE, ok |-> FALSE]

Init ==
    /\ conditional \in BOOLEAN
    /\ store \in [Keys -> {Absent, "other"}]
    /\ \A k \in ProbeKeys : store[k] = Absent      \* fresh UUIDs
    /\ ops = [c \in Client |-> Idle]
    /\ connected = {}
    /\ held = [c \in Client |-> {}]
    /\ created = {}
    /\ started = 0

At(c, pc) == ops[c].pc = pc
Goto(c, pc) == ops' = [ops EXCEPT ![c].pc = pc]
Quiet == UNCHANGED <<conditional, started>>

(***************************************************************************)
(* Shared resources.  A file keeps its reservation while it is staged for  *)
(* an upload or held by a reader.                                          *)
(***************************************************************************)
SlotsUsed == Cardinality({c \in Client : ops[c].slot})

DiskUsed ==
    Cardinality({c \in Client : ops[c].staged})
    + Cardinality({<<c, k>> \in Client \X Keys :
                     \E f \in held[c] : f[1] = k})

\* Operation::new on a validated budget: the request counter starts full.
Begin(c, kind, k) ==
    /\ At(c, "idle")
    /\ started < MaxOps
    /\ ops' = [ops EXCEPT ![c] = [Idle EXCEPT !.kind = kind, !.key = k,
                                    !.pc = "slot", !.remaining = Requests]]
    /\ started' = started + 1
    /\ UNCHANGED <<store, conditional, connected, held, created>>

BeginConnect(c) == c \notin connected /\ Begin(c, "probe", Probe[c])

\* Only a store that connect() proved takes writes.
(* mutant: a store opened by reader(), which does not probe, creates *)
BeginCreateUnproven(c, k) == Begin(c, "create", k)
BeginCreate(c, k) == c \in connected /\ Begin(c, "create", k)

BeginRead(c, k) ==
    /\ ~\E f \in held[c] : f[1] = k
    /\ Begin(c, "read", k)

\* The caller holds cleanup authority: nobody creates the key meanwhile.
BeginRemove(c, k) ==
    /\ c \in connected
    /\ store[k] # "other"
    /\ \A d \in Client : ~(ops[d].key = k /\ ops[d].kind = "create")
    /\ Begin(c, "remove", k)

AfterSlot(kind) ==
    CASE kind = "read" -> "disk"
      [] kind = "remove" -> "delete"
      [] OTHER -> "stage"

TakeSlot(c) ==
    /\ At(c, "slot")
    /\ SlotsUsed < Concurrency
    /\ ops' = [ops EXCEPT ![c].slot = TRUE, ![c].pc = AfterSlot(ops[c].kind)]
    /\ UNCHANGED <<store, connected, held, created>> /\ Quiet

\* The operation returns: its slot and its staged file are dropped.
Return(c) == ops' = [ops EXCEPT ![c] = Idle]

\* A failed probe still deletes what it may have written (`touched`).
Fails(c) ==
    IF ops[c].touched
    THEN ops' = [ops EXCEPT ![c].pc = "cleanup", ![c].ok = FALSE]
    ELSE Return(c)

\* Reserve the bytes and copy the input through copy_verified; input that
\* is not the referenced bytes fails before any request.
Stage(c) ==
    /\ At(c, "stage")
    /\ DiskUsed < Capacity
    /\ \/ ops' = [ops EXCEPT ![c].staged = TRUE, ![c].pc = "put"]
       \/ ops[c].kind = "create" /\ Return(c)
    /\ UNCHANGED <<store, connected, held, created>> /\ Quiet

ReserveRead(c) ==
    /\ At(c, "disk")
    /\ DiskUsed < Capacity
    /\ ops' = [ops EXCEPT ![c].staged = TRUE, ![c].pc = "get"]
    /\ UNCHANGED <<store, connected, held, created>> /\ Quiet

(***************************************************************************)
(* Requests.  An answer is "ok", "conflict", "missing", "transient" (a     *)
(* retryable status, or no answer) or "refused" (unauthorized, unsupported *)
(* or invalid).                                                            *)
(***************************************************************************)
\* The next contents of a key and the answer to a conditional PUT of v.
Puts(k, v) ==
    LET takes == store[k] = Absent \/ ~conditional
    IN  (IF takes THEN {<<v, "ok">>, <<v, "transient">>}
                  ELSE {<<store[k], "conflict">>})
        \cup {<<store[k], "transient">>, <<store[k], "refused">>}

Gets(k) ==
    {"transient", "refused"}
    \cup (IF store[k] = Absent THEN {"missing"} ELSE {"ok"})

Deletes(k) ==
    {<<Absent, "ok">>, <<Absent, "transient">>, <<store[k], "transient">>,
     <<store[k], "refused">>}

MayRequest(c) == ops[c].remaining > 0

\* Backing off (before a retry) needs a request to be left.
Exhausted(c) ==
    /\ ops[c].pc \in {"put", "get", "delete", "again"}
    /\ ~MayRequest(c)
    /\ Fails(c)
    /\ UNCHANGED <<store, connected, held, created>> /\ Quiet

Spent(c) == ops[c].remaining - 1

\* create(): a refused PUT ends it; every other answer is reconciled by a GET.
CreatePut(c) ==
    /\ ops[c].kind = "create" /\ At(c, "put") /\ MayRequest(c)
    /\ \E r \in Puts(ops[c].key, "ref") :
         /\ store' = [store EXCEPT ![ops[c].key] = r[1]]
         /\ IF r[2] = "refused" THEN Return(c)
            ELSE ops' = [ops EXCEPT ![c].remaining = Spent(c),
                                    ![c].failed = r[2] # "ok",
                                    ![c].pc = "get"]
    /\ UNCHANGED <<connected, held, created>> /\ Quiet

\* What a download may carry: the stored bytes, or a torn body.
Downloads(k) == {store[k], "other"}

\* verify_download, copy_verified: length and digest must be the reference's.
(* mutant: the digest is not compared *)
VerifiedLength(bytes) == bytes # Absent
Verified(bytes) == bytes = "ref"

CreateGet(c) ==
    /\ ops[c].kind = "create" /\ At(c, "get") /\ MayRequest(c)
    /\ \E a \in Gets(ops[c].key) :
         \/ /\ a = "ok"
            /\ \E d \in Downloads(ops[c].key) :
                 created' = IF Verified(d) THEN created \cup {ops[c].key}
                                           ELSE created
            /\ Return(c)
         \/ /\ a = "missing" /\ ops[c].failed
            /\ ops' = [ops EXCEPT ![c].remaining = Spent(c), ![c].pc = "put"]
            /\ UNCHANGED created
         \/ /\ a = "refused" \/ (a = "missing" /\ ~ops[c].failed)
            /\ Return(c)
            /\ UNCHANGED created
         \/ /\ a = "transient"
            /\ ops' = [ops EXCEPT ![c].remaining = Spent(c)]
            /\ UNCHANGED created
    /\ UNCHANGED <<store, connected, held>> /\ Quiet

\* read(): a body that fails before its first byte is retried.
ReadGet(c) ==
    /\ ops[c].kind = "read" /\ At(c, "get") /\ MayRequest(c)
    /\ \E a \in Gets(ops[c].key) :
         \/ /\ a = "ok"
            /\ \E d \in Downloads(ops[c].key) :
                 held' = IF Verified(d)
                         THEN [held EXCEPT ![c] = @ \cup {<<ops[c].key, d>>}]
                         ELSE held
            /\ Return(c)
         \/ /\ a \in {"missing", "refused"}
            /\ Return(c)
            /\ UNCHANGED held
         \/ /\ a \in {"ok", "transient"}
            /\ ops' = [ops EXCEPT ![c].remaining = Spent(c)]
            /\ UNCHANGED held
    /\ UNCHANGED <<store, connected, created>> /\ Quiet

DropFile(c, f) ==
    /\ f \in held[c]
    /\ held' = [held EXCEPT ![c] = @ \ {f}]
    /\ UNCHANGED <<store, ops, connected, created>> /\ Quiet

\* remove_owned(): deletion is idempotent, a lost answer is asked again.
Remove(c) ==
    /\ At(c, "delete") /\ MayRequest(c)
    /\ \E r \in Deletes(ops[c].key) :
         /\ store' = [store EXCEPT ![ops[c].key] = r[1]]
         /\ created' = IF r[1] = Absent THEN created \ {ops[c].key} ELSE created
         /\ IF r[2] = "transient"
            THEN ops' = [ops EXCEPT ![c].remaining = Spent(c)]
            ELSE Return(c)
    /\ UNCHANGED <<connected, held>> /\ Quiet

(***************************************************************************)
(* Store::connect: put a, put b (must conflict), get a, delete a.          *)
(***************************************************************************)
\* A refused or conflicting first PUT has written nothing that is ours.
Touched(answer) == answer \notin {"conflict", "refused"}

ProbePut(c) ==
    /\ ops[c].kind = "probe" /\ At(c, "put") /\ MayRequest(c)
    /\ \E r \in Puts(ops[c].key, "ref") :
         /\ store' = [store EXCEPT ![ops[c].key] = r[1]]
         /\ \/ /\ r[2] = "ok"
               /\ ops' = [ops EXCEPT ![c].remaining = Spent(c),
                                     ![c].touched = TRUE, ![c].pc = "again"]
            \/ /\ r[2] # "ok"
               /\ IF Touched(r[2])
                  THEN ops' = [ops EXCEPT ![c].touched = TRUE,
                                          ![c].pc = "cleanup"]
                  ELSE Return(c)
    /\ UNCHANGED <<connected, held, created>> /\ Quiet

\* An endpoint that takes different bytes for the same key is unsupported.
RefusesOverwrite(answer) == answer = "conflict"

\* The first spool file is dropped and its bytes reserved again for the other
\* one, of the same size: the reservation is kept here.
ProbeAgain(c) ==
    /\ At(c, "again") /\ MayRequest(c)
    /\ \E r \in Puts(ops[c].key, "other") :
         /\ store' = [store EXCEPT ![ops[c].key] = r[1]]
         /\ IF RefusesOverwrite(r[2])
            THEN ops' = [ops EXCEPT ![c].remaining = Spent(c), ![c].pc = "get"]
            ELSE Fails(c)
    /\ UNCHANGED <<connected, held, created>> /\ Quiet

ProbeGet(c) ==
    /\ ops[c].kind = "probe" /\ At(c, "get") /\ MayRequest(c)
    /\ \E a \in Gets(ops[c].key) :
         IF a = "ok"
         THEN \E d \in Downloads(ops[c].key) :
                ops' = [ops EXCEPT ![c].pc = "cleanup", ![c].ok = Verified(d)]
         ELSE Fails(c)
    /\ UNCHANGED <<store, connected, held, created>> /\ Quiet

\* The deletion has a deadline of its own; neither the operation's deadline
\* nor a cancellation skips it.
ProbeCleanup(c) ==
    /\ At(c, "cleanup")
    /\ \E r \in Deletes(ops[c].key) :
         /\ store' = [store EXCEPT ![ops[c].key] = r[1]]
         /\ connected' = IF ops[c].ok /\ r[2] = "ok"
                         THEN connected \cup {c} ELSE connected
    /\ Return(c)
    /\ UNCHANGED <<held, created>> /\ Quiet

\* Every await of an operation is under Operation::wait: admission, staging,
\* requests and verification alike.
(* mutant: the spool reservation is awaited without the deadline *)
WaitsExceptDisk(c) == ops[c].pc \notin {"idle", "cleanup", "disk", "stage"}
Waits(c) == ops[c].pc \notin {"idle", "cleanup"}

\* The deadline passes or the token is cancelled.
Interrupt(c) ==
    /\ Waits(c)
    /\ Fails(c)
    /\ UNCHANGED <<store, connected, held, created>> /\ Quiet

Next ==
    \E c \in Client :
        \/ BeginConnect(c)
        \/ \E k \in Key : BeginCreate(c, k)
        \/ \E k \in Key : BeginRead(c, k)
        \/ \E k \in Key : BeginRemove(c, k)
        \/ TakeSlot(c)
        \/ Stage(c)
        \/ ReserveRead(c)
        \/ CreatePut(c)
        \/ CreateGet(c)
        \/ ReadGet(c)
        \/ \E f \in held[c] : DropFile(c, f)
        \/ Remove(c)
        \/ ProbePut(c)
        \/ ProbeAgain(c)
        \/ ProbeGet(c)
        \/ ProbeCleanup(c)
        \/ Exhausted(c)
        \/ Interrupt(c)

\* A deadline is at most 600 s away (Budget::validate) and the probe's
\* deletion ends within 30 s.  Nothing else is assumed to happen: readers may
\* keep their files and requests may hang.
Fairness ==
    \A c \in Client : WF_blobVars(Interrupt(c)) /\ WF_blobVars(ProbeCleanup(c))

Spec == Init /\ [][Next]_blobVars /\ Fairness

(***************************************************************************)
(* Properties                                                              *)
(***************************************************************************)
\* The shapes of the state; the shared slots, spool bytes and request
\* counters never go past their limits.
TypeOK ==
    /\ store \in [Keys -> {Absent, "ref", "other"}]
    /\ \A c \in Client : ops[c].remaining \in 0..Requests
    /\ SlotsUsed <= Concurrency
    /\ DiskUsed <= Capacity
    /\ connected \subseteq Client
    /\ created \subseteq Key

\* Only fully hashed files escape the storage boundary, and a create that
\* returned Ok left exactly the referenced bytes under its key, whatever
\* responses were lost and whoever else wrote the key.
OnlyVerifiedBytes ==
    /\ \A c \in Client : \A f \in held[c] : f[2] = "ref"
    /\ \A k \in created : store[k] = "ref"

\* Stored bytes are immutable: no step replaces an object, and an object that
\* somebody else wrote is never deleted -- on a conditional endpoint by
\* If-None-Match, on any other because connect() refuses it.  (The probe's own
\* key is exempt from the first half on an endpoint that overwrites.)
StoredIsImmutableStep ==
    \A k \in Keys :
      (store[k] # Absent /\ store'[k] # store[k]) =>
         \/ store[k] = "ref" /\ store'[k] = Absent
         \/ ~conditional /\ k \in ProbeKeys
StoredIsImmutable == [][StoredIsImmutableStep]_blobVars

\* Every operation ends, although clients wait for slots and for spool bytes
\* that other clients hold while they wait themselves.
Resting(c) == At(c, "idle")
EveryOperationEnds == \A c \in Client : ~Resting(c) ~> Resting(c)

============================================================================
