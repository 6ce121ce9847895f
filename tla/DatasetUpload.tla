--------------------------- MODULE DatasetUpload ---------------------------
(***************************************************************************)
(* Resumable dataset publication (db/workflows/dataset_upload.rs and its   *)
(* batches, dataset_ingestion.rs and its batches, cli/commands/dataset.rs):*)
(* uploaders race for one upload's lease, register objects before they PUT *)
(* them, checkpoint verified prefixes, publish; operators abort, expire    *)
(* and clean up the exact keys the upload owns.                            *)
(*                                                                         *)
(* Leases, request deadlines and the cleanup quarantine are countdown      *)
(* timers of one clock (Tick).  Only their order matters: a request        *)
(* deadline (120 s) and a group's admission window (150 s) are shorter     *)
(* than the lease (300 s), and the quarantine is one request deadline.     *)
(***************************************************************************)
EXTENDS Integers, FiniteSets, FiniteSetsExt

CONSTANTS Uploader,       \* `dataset upload` / `resume` invocations
          Cleaner,        \* `dataset cleanup` invocations
          Nobody,
          Batches,        \* case files of the dataset
          Group,          \* checkpoint::MAX_FILES
          CleanupLimit,   \* objects per cleanup invocation
          LeaseTime, RequestTime, AdmissionTime, Quarantine,
          MaxGeneration,  \* bound on claims
          MaxFaults,      \* bound on crashes, failures and late operations
          Punctual        \* a pause of a live process counts as a fault

VARIABLES upload,    \* the dataset_uploads row
          objects,   \* dataset_upload_objects: slot -> none|planned|acked
          cleaned,   \* objects whose row says cleaned
          blobs,     \* objects present in the bucket
          catalog,   \* is the dataset_catalog row there?
          procs,     \* uploaders and cleaners
          faults

uploadVars == <<upload, objects, cleaned, blobs, catalog, procs, faults>>

Process == Uploader \cup Cleaner

(***************************************************************************)
(* Object slots: the source fields, the case files, the index root, the    *)
(* manifest, and one probe per claim.                                      *)
(***************************************************************************)
Source == 0
BatchSlots == 1..Batches
Index == Batches + 1
Manifest == Batches + 2
DataSlots == Source..Manifest
ProbeOf(generation) == Manifest + generation
ProbeSlots == {ProbeOf(g) : g \in 1..MaxGeneration}
Slots == DataSlots \cup ProbeSlots

Away == [pc |-> "idle", gen |-> 0, at |-> 0, first |-> 0, last |-> 0,
         admitted |-> 0, deadline |-> 0, next |-> "idle", budget |-> 0]

Init ==
    /\ upload = [status |-> "none", cursor |-> 0, gen |-> 0, owner |-> Nobody,
                 lease |-> 0, quarantine |-> 0, cleaned |-> FALSE]
    /\ objects = [s \in Slots |-> "none"]
    /\ cleaned = {}
    /\ blobs = {}
    /\ catalog = FALSE
    /\ procs = [p \in Process |-> Away]
    /\ faults = 0

Live == upload.status \in {"staging", "finalizing"}
Dead == upload.status \in {"aborted", "expired"}
At(p, pc) == procs[p].pc = pc
Go(p, pc) == procs' = [procs EXCEPT ![p].pc = pc]
Min2(a, b) == IF a < b THEN a ELSE b

\* begin(): a replay finds the same row; a finalized one answers its catalog.
Begin(p) ==
    /\ p \in Uploader /\ upload.status = "none"
    /\ upload' = [upload EXCEPT !.status = "staging"]
    /\ UNCHANGED <<objects, cleaned, blobs, catalog, procs, faults>>

\* CLAIM_UPLOAD: the lease is free, and the purpose fits the status.
Claimable(p) ==
    /\ upload.lease = 0
    /\ \/ p \in Uploader /\ Live
       \/ p \in Cleaner /\ Dead /\ ~upload.cleaned /\ upload.quarantine = 0

Claim(p) ==
    /\ At(p, "idle") /\ Claimable(p)
    /\ upload.gen < MaxGeneration
    /\ upload' = [upload EXCEPT !.gen = @ + 1, !.owner = p, !.lease = LeaseTime]
    /\ procs' = [procs EXCEPT ![p] = [Away EXCEPT !.pc = "probe",
                                        !.gen = upload.gen + 1,
                                        !.budget = CleanupLimit]]
    /\ UNCHANGED <<objects, cleaned, blobs, catalog, faults>>

\* LOCK_LIVE_UPLOAD and RENEW_LIVE_UPLOAD: the live owner of this generation.
Holds(p) ==
    /\ upload.owner = p /\ upload.gen = procs[p].gen
    /\ upload.lease > 0
    /\ IF p \in Uploader THEN Live ELSE Dead /\ upload.quarantine = 0

\* guard() renews the lease of the transaction it admits.
Guard(p) == Holds(p) /\ upload' = [upload EXCEPT !.lease = LeaseTime]

Register(set) ==
    objects' = [s \in Slots |-> IF s \in set /\ objects[s] = "none"
                                THEN "planned" ELSE objects[s]]

(***************************************************************************)
(* connect(): own the probe key, prove the endpoint, reconcile old probes. *)
(***************************************************************************)
PlanProbe(p) ==
    /\ At(p, "probe") /\ Guard(p)
    /\ Register({ProbeOf(procs[p].gen)})
    /\ procs' = [procs EXCEPT ![p].pc = "open", ![p].deadline = RequestTime]
    /\ UNCHANGED <<cleaned, blobs, catalog, faults>>

\* The probe is written before the deadline ...
PutProbe(p) ==
    /\ At(p, "open") /\ procs[p].deadline > 0
    /\ blobs' = blobs \cup {ProbeOf(procs[p].gen)}
    /\ procs' = [procs EXCEPT ![p].pc = "opened", ![p].deadline = 0]
    /\ UNCHANGED <<upload, objects, cleaned, catalog, faults>>

\* ... and deleted by the same call.
DropProbe(p) ==
    /\ At(p, "opened")
    /\ blobs' = blobs \ {ProbeOf(procs[p].gen)}
    /\ Go(p, "opened_ok")
    /\ UNCHANGED <<upload, objects, cleaned, catalog, faults>>

\* ACKNOWLEDGE_OBJECT marks an acknowledged probe cleaned.
AckProbe(p) ==
    /\ At(p, "opened_ok") /\ Guard(p)
    /\ objects' = [objects EXCEPT ![ProbeOf(procs[p].gen)] = "acked"]
    /\ cleaned' = cleaned \cup {ProbeOf(procs[p].gen)}
    /\ Go(p, "reconcile")
    /\ UNCHANGED <<blobs, catalog, faults>>

Registered == {s \in Slots : objects[s] # "none"}
Pending(p) ==
    LET open == Registered \ cleaned
    IN  IF At(p, "reconcile") THEN open \cap ProbeSlots ELSE open

\* pending_cleanup: the next pending object, in key order (probes first).
FirstPending(p) ==
    IF Pending(p) \cap ProbeSlots # {} THEN Max(Pending(p) \cap ProbeSlots)
                                       ELSE Min(Pending(p))

\* Mint the storage budget, then renew; only then may the key be removed.
RenewToRemove(p) ==
    /\ At(p, "reconcile") \/ (At(p, "clean") /\ procs[p].budget > 0)
    /\ Pending(p) # {} /\ Guard(p)
    /\ procs' = [procs EXCEPT ![p].pc = "remove", ![p].next = procs[p].pc,
                              ![p].at = FirstPending(p),
                              ![p].deadline = RequestTime,
                              ![p].budget = IF At(p, "clean") THEN @ - 1 ELSE @]
    /\ UNCHANGED <<objects, cleaned, blobs, catalog, faults>>

RemoveOwned(p) ==
    /\ At(p, "remove") /\ procs[p].deadline > 0
    /\ blobs' = blobs \ {procs[p].at}
    /\ procs' = [procs EXCEPT ![p].pc = "removed", ![p].deadline = 0]
    /\ UNCHANGED <<upload, objects, cleaned, catalog, faults>>

\* cleaned(): a probe's row is acknowledged as well.
(* mutant: the row is not marked, so the page never shrinks *)
MarkedNothing(slot) == cleaned' = cleaned
Marked(slot) == cleaned' = cleaned \cup {slot}

MarkCleaned(p) ==
    /\ At(p, "removed") /\ Guard(p)
    /\ Marked(procs[p].at)
    /\ objects' = [objects EXCEPT ![procs[p].at] =
                     IF procs[p].at \in ProbeSlots THEN "acked" ELSE @]
    /\ Go(p, procs[p].next)
    /\ UNCHANGED <<blobs, catalog, faults>>

\* Old probes are gone: an uploader ingests, a cleaner takes its page.  (The
\* code reconciles at most 64 of them; there is one per claim, and we consider
\* fewer claims.)
Connected(p) ==
    /\ At(p, "reconcile") /\ Pending(p) = {}
    /\ procs' = [procs EXCEPT ![p].pc = IF p \in Uploader THEN "plan"
                                                          ELSE "clean",
                              ![p].at = Source, ![p].deadline = 0]
    /\ UNCHANGED <<upload, objects, cleaned, blobs, catalog, faults>>

(***************************************************************************)
(* put(): one metadata object (source fields, index root, manifest).       *)
(***************************************************************************)
AfterMeta(slot) ==
    CASE slot = Source -> "group"
      [] slot = Index -> "plan"
      [] slot = Manifest -> "publish"

MetaDone(p) ==
    procs' = [procs EXCEPT ![p].pc = AfterMeta(procs[p].at),
                           ![p].at = IF procs[p].at = Source THEN 1 ELSE Manifest,
                           ![p].first = 1, ![p].deadline = 0]

\* The budget is minted before plan(); an acknowledged replay is read back.
PlanMeta(p) ==
    /\ At(p, "plan") /\ Guard(p)
    /\ Register({procs[p].at})
    /\ IF objects[procs[p].at] = "acked"
       THEN procs[p].at \in blobs /\ MetaDone(p)
       ELSE procs' = [procs EXCEPT ![p].pc = "put", ![p].deadline = RequestTime]
    /\ UNCHANGED <<cleaned, blobs, catalog, faults>>

PutMeta(p) ==
    /\ At(p, "put") /\ procs[p].deadline > 0
    /\ blobs' = blobs \cup {procs[p].at}
    /\ procs' = [procs EXCEPT ![p].pc = "ack", ![p].deadline = 0]
    /\ UNCHANGED <<upload, objects, cleaned, catalog, faults>>

AckMeta(p) ==
    /\ At(p, "ack") /\ Guard(p)
    /\ objects' = [objects EXCEPT ![procs[p].at] = "acked"]
    /\ MetaDone(p)
    /\ UNCHANGED <<cleaned, blobs, catalog, faults>>

(***************************************************************************)
(* Uploader::flush: a group of case files.                                 *)
(***************************************************************************)
LastOf(first) == Min2(((first - 1) \div Group + 1) * Group, Batches)

\* The admission window is minted before the group is registered.
PlanGroup(p) ==
    /\ At(p, "group") /\ Guard(p)
    /\ Register(procs[p].first..LastOf(procs[p].first))
    /\ procs' = [procs EXCEPT ![p].pc = "file", ![p].at = procs[p].first,
                              ![p].last = LastOf(procs[p].first),
                              ![p].admitted = AdmissionTime]
    /\ UNCHANGED <<cleaned, blobs, catalog, faults>>

\* transfer_budget: a file's own allowance, capped by the admission window.
(* mutant: a paused task obtains a fresh deadline when it resumes *)
TransferUncapped(admitted) == RequestTime
TransferBudget(admitted) == Min2(RequestTime, admitted)

\* Rebuild one file; a file that was acknowledged is skipped.
StartFile(p) ==
    /\ At(p, "file") /\ procs[p].at <= procs[p].last
    /\ IF objects[procs[p].at] = "acked"
       THEN procs' = [procs EXCEPT ![p].at = @ + 1]
       ELSE procs' = [procs EXCEPT ![p].pc = "send",
                        ![p].deadline = TransferBudget(procs[p].admitted)]
    /\ UNCHANGED <<upload, objects, cleaned, blobs, catalog, faults>>

SendFile(p) ==
    /\ At(p, "send") /\ procs[p].deadline > 0
    /\ blobs' = blobs \cup {procs[p].at}
    /\ procs' = [procs EXCEPT ![p].pc = "file", ![p].at = @ + 1,
                              ![p].deadline = 0]
    /\ UNCHANGED <<upload, objects, cleaned, catalog, faults>>

\* The files a checkpoint acknowledges: those sent since the last one.
(* mutant: the whole registered group *)
CheckpointWhole(p) == procs[p].first..procs[p].last
Checkpointed(p) == procs[p].first..(procs[p].at - 1)

\* batches::acknowledge: an acknowledged prefix, then files that continue it.
Contiguous(set) ==
    \A s \in set : \/ objects[s] = "acked" /\ s <= upload.cursor
                   \/ \A t \in (upload.cursor + 1)..s :
                        t \in set /\ objects[t] = "planned"

AfterGroup(p) == IF procs[p].at > Batches THEN "finalize" ELSE "group"

\* After 30 s of work, or at the end of the group; a group that sent nothing
\* has nothing to acknowledge.
AcknowledgeFiles(p, done) ==
    /\ Holds(p) /\ Contiguous(done)
    /\ objects' = [s \in Slots |-> IF s \in done THEN "acked" ELSE objects[s]]
    /\ upload' = [upload EXCEPT !.lease = LeaseTime,
                                !.cursor = Max({@} \cup done)]

Checkpoint(p) ==
    /\ At(p, "file") /\ procs[p].at > procs[p].first
    /\ IF \A s \in Checkpointed(p) : objects[s] = "acked"
       THEN UNCHANGED <<upload, objects>>
       ELSE AcknowledgeFiles(p, Checkpointed(p))
    /\ procs' = [procs EXCEPT ![p].pc = AfterGroup(p), ![p].first = procs[p].at,
                              ![p].admitted = 0]
    /\ UNCHANGED <<cleaned, blobs, catalog, faults>>

\* finalizing(), then every acknowledged case file is read back.
Finalize(p) ==
    /\ At(p, "finalize") /\ Holds(p)
    /\ upload.cursor = Batches
    /\ upload' = [upload EXCEPT !.status = "finalizing", !.lease = LeaseTime]
    /\ procs' = [procs EXCEPT ![p].pc = "verify", ![p].at = 1]
    /\ UNCHANGED <<objects, cleaned, blobs, catalog, faults>>

VerifyBatch(p) ==
    /\ At(p, "verify") /\ Guard(p)
    /\ procs[p].at \in blobs
    /\ procs' = [procs EXCEPT ![p].at = @ + 1,
                   ![p].pc = IF procs[p].at = Batches THEN "plan" ELSE @]
    /\ UNCHANGED <<objects, cleaned, blobs, catalog, faults>>

\* CHECK_PUBLICATION_READY: nothing registered is unacknowledged.
Ready ==
    /\ \A s \in {Source, Index, Manifest} : objects[s] = "acked"
    /\ \A s \in Registered : objects[s] = "acked"

Publish(p) ==
    /\ At(p, "publish") /\ Holds(p)
    /\ upload.status = "finalizing" /\ upload.cursor = Batches /\ Ready
    /\ catalog' = TRUE
    /\ upload' = [upload EXCEPT !.status = "finalized", !.owner = Nobody,
                                !.lease = 0]
    /\ procs' = [procs EXCEPT ![p] = Away]
    /\ UNCHANGED <<objects, cleaned, blobs, faults>>

(***************************************************************************)
(* Abort, expiry and cleanup                                               *)
(***************************************************************************)
\* cleanup_after: the last lease, then the last request deadline.
(* mutant: the quarantine starts now, whatever the lease *)
QuarantineFromNow(lease) == Quarantine
QuarantineFrom(lease) == lease + Quarantine

Revoke(status) ==
    /\ upload' = [upload EXCEPT !.status = status, !.owner = Nobody,
                    !.gen = @ + 1, !.lease = 0,
                    !.quarantine = QuarantineFrom(upload.lease)]
    /\ UNCHANGED <<objects, cleaned, blobs, catalog, procs, faults>>

Abort == Live /\ upload.gen < MaxGeneration /\ Revoke("aborted")

\* EXPIRE_UPLOADS, seven days after the last renewal.  A claim does not move
\* expires_at, so a lease claimed on the last day may be live.
Expire == Live /\ upload.gen < MaxGeneration /\ Revoke("expired")

\* finish_cleanup; an unfinished page leaves the rest to another invocation.
FinishCleanup(p) ==
    /\ At(p, "clean") /\ Holds(p)
    /\ procs[p].budget = 0 \/ Pending(p) = {}
    /\ upload' = [upload EXCEPT !.cleaned = Pending(p) = {},
                                !.owner = Nobody, !.lease = 0]
    /\ procs' = [procs EXCEPT ![p] = Away]
    /\ UNCHANGED <<objects, cleaned, blobs, catalog, faults>>

(***************************************************************************)
(* Failure: a command whose step cannot succeed, or that is interrupted,   *)
(* yields its lease if it still has it; a crash does not.                  *)
(***************************************************************************)
Requesting(p) == procs[p].pc \in {"open", "put", "send", "remove"}
CannotProceed(p) ==
    \/ ~Holds(p)
    \/ Requesting(p) /\ procs[p].deadline = 0
    \/ At(p, "verify") /\ procs[p].at \notin blobs
    \/ At(p, "file") /\ procs[p].at > procs[p].first /\ ~Contiguous(Checkpointed(p))
    \/ At(p, "finalize") /\ upload.cursor # Batches
    \/ At(p, "publish") /\ ~Ready

Yield(p) ==
    upload' = IF upload.owner = p /\ upload.gen = procs[p].gen
              THEN [upload EXCEPT !.owner = Nobody, !.lease = 0] ELSE upload

Fault == faults < MaxFaults /\ faults' = faults + 1

Fail(p) ==
    /\ ~At(p, "idle")
    /\ IF CannotProceed(p) THEN UNCHANGED faults ELSE Fault
    /\ Yield(p)
    /\ procs' = [procs EXCEPT ![p] = Away]
    /\ UNCHANGED <<objects, cleaned, blobs, catalog>>

\* A request is one step: one that still travels when its process dies is not
\* modelled.
Crash(p) ==
    /\ ~At(p, "idle") /\ Fault
    /\ procs' = [procs EXCEPT ![p] = Away]
    /\ UNCHANGED <<upload, objects, cleaned, blobs, catalog>>

Down(timer) == IF timer = 0 THEN 0 ELSE timer - 1

Busy == \E p \in Process : ~At(p, "idle")

Tick ==
    /\ Punctual /\ Busy => faults < MaxFaults
    /\ faults' = IF Punctual /\ Busy THEN faults + 1 ELSE faults
    /\ upload' = [upload EXCEPT !.lease = Down(@), !.quarantine = Down(@)]
    /\ procs' = [p \in Process |->
                   [procs[p] EXCEPT !.deadline = Down(@), !.admitted = Down(@)]]
    /\ <<upload', procs'>> # <<upload, procs>>
    /\ UNCHANGED <<objects, cleaned, blobs, catalog>>

UploadStep(p) ==
    \/ PlanMeta(p) \/ PutMeta(p) \/ AckMeta(p)
    \/ PlanGroup(p) \/ StartFile(p) \/ SendFile(p) \/ Checkpoint(p)
    \/ Finalize(p) \/ VerifyBatch(p) \/ Publish(p)

ConnectStep(p) ==
    \/ PlanProbe(p) \/ PutProbe(p) \/ DropProbe(p) \/ AckProbe(p)
    \/ RenewToRemove(p) \/ RemoveOwned(p) \/ MarkCleaned(p) \/ Connected(p)

Step(p) == ConnectStep(p) \/ UploadStep(p) \/ FinishCleanup(p)

Next ==
    \/ \E p \in Process :
         Begin(p) \/ Claim(p) \/ Step(p) \/ Fail(p) \/ Crash(p)
    \/ Abort \/ Expire \/ Tick

\* The operator repeats cleanup, a running command takes its steps, a step
\* that cannot succeed fails, and time passes.  Uploads need not be resumed.
Fairness ==
    /\ \A p \in Process :
         /\ WF_uploadVars(Step(p))
         /\ WF_uploadVars(CannotProceed(p) /\ Fail(p))
    /\ \A p \in Cleaner : WF_uploadVars(Claim(p))
    /\ WF_uploadVars(Tick)

Spec == Init /\ [][Next]_uploadVars /\ Fairness

(***************************************************************************)
(* Properties                                                              *)
(***************************************************************************)
TypeOK ==
    /\ upload.status \in {"none", "staging", "finalizing", "finalized",
                          "aborted", "expired"}
    /\ upload.cursor \in 0..Batches /\ upload.gen \in 0..MaxGeneration
    /\ upload.lease \in 0..LeaseTime
    /\ upload.quarantine \in 0..(LeaseTime + Quarantine)
    /\ objects \in [Slots -> {"none", "planned", "acked"}]
    /\ cleaned \subseteq Slots /\ blobs \subseteq Slots

\* No request in flight outlives the authority it was admitted under: while a
\* paused writer's deadline is still open, no other owner has taken the upload
\* and cleanup has not been let in.
NoStaleWrite ==
    \A p \in Process :
       (Requesting(p) /\ procs[p].deadline > 0) =>
          \/ upload.gen = procs[p].gen
          \/ Dead /\ upload.quarantine > 0

\* An acknowledged object is in the bucket until its upload is given up: the
\* cursor never counts a case file that was not written, and a finalized
\* dataset keeps every file its catalog entry leads to.
AcknowledgedIsStored ==
    /\ (Live \/ upload.status = "finalized") =>
          {s \in DataSlots : objects[s] = "acked"} \subseteq blobs
    /\ catalog => DataSlots \subseteq blobs
    /\ \A s \in 1..upload.cursor : objects[s] = "acked"

\* When cleanup reports completion, nothing the upload ever wrote is left, and
\* no write of a process that was paused brings anything back: the quarantine
\* outlasts the last lease and the last request's deadline.
CleanedIsGone == upload.cleaned => blobs = {}

\* An aborted or expired upload is eventually cleaned, one bounded page per
\* cleanup invocation, although each invocation writes a probe of its own.
Cleaned == upload.cleaned
GivenUpIsCleaned == Dead ~> Cleaned

============================================================================
