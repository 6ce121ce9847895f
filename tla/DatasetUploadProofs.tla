------------------------ MODULE DatasetUploadProofs -------------------------
(***************************************************************************)
(* DatasetUpload for every number of uploaders, cleaners, batches and      *)
(* faults and every length of the timers: a request never outlives the     *)
(* authority it was sent under, what was acknowledged is stored, and what  *)
(* was cleaned stays gone.                                                 *)
(*                                                                         *)
(* Nothing in the bucket knows about leases, so a write of an uploader     *)
(* that lost the upload could come back after the cleanup.  The invariant  *)
(* says why it does not: a timer that still runs is covered by the lease   *)
(* it was started under or by the quarantine that took its place           *)
(* (Covered), and a write that may still arrive goes to a key that nobody  *)
(* cleaned (Unspoilt).                                                     *)
(***************************************************************************)
EXTENDS DatasetUpload, WellFoundedInduction, TLAPS

(* The provers a leaf that names none is given to, in this order.          *)
USE SMT, Zenon, Z3

-----------------------------------------------------------------------------
(* What dataset_upload.rs guarantees of the constants: a request deadline  *)
(* and an admission window end within the lease they were opened under.    *)
UploadConstants ==
    /\ Batches \in Nat /\ Group \in Nat \ {0} /\ CleanupLimit \in Nat
    /\ LeaseTime \in Nat /\ RequestTime \in Nat /\ AdmissionTime \in Nat
    /\ Quarantine \in Nat /\ MaxGeneration \in Nat /\ MaxFaults \in Nat
    /\ RequestTime <= LeaseTime /\ AdmissionTime <= LeaseTime
    /\ Uploader \cap Cleaner = {} /\ Nobody \notin Uploader \cup Cleaner

ConnectPc == {"probe", "open", "opened", "opened_ok", "reconcile", "remove", "removed"}
MetaPc == {"plan", "put", "ack"}
GroupPc == {"group", "file", "send"}
EndPc == {"finalize", "verify", "publish"}
UploadPc == MetaPc \cup GroupPc \cup EndPc

Row == [status: {"none", "staging", "finalizing", "finalized", "aborted", "expired"},
        cursor: 0..Batches, gen: 0..MaxGeneration, owner: Process \cup {Nobody},
        lease: 0..LeaseTime, quarantine: 0..(LeaseTime + Quarantine), cleaned: BOOLEAN]

Command == [pc: ConnectPc \cup UploadPc \cup {"idle", "clean"}, gen: 0..MaxGeneration,
            at: Nat, first: Nat, last: Nat, admitted: Nat, deadline: Nat,
            next: {"idle", "reconcile", "clean"}, budget: Nat]

Types ==
    /\ upload \in Row
    /\ objects \in [Slots -> {"none", "planned", "acked"}]
    /\ cleaned \subseteq Slots /\ blobs \subseteq Slots
    /\ catalog \in BOOLEAN
    /\ procs \in [Process -> Command]

On(p) == procs[p].pc # "idle"

(* A timer that still runs ends before the lease it was started under, or  *)
(* before the quarantine that took the lease's place.                      *)
Covered(p, t) ==
    t > 0 => \/ procs[p].gen = upload.gen /\ t <= upload.lease
             \/ Dead /\ t <= upload.quarantine

(* What holds of a process that runs: its generation was given to it, and  *)
(* is the current one only if it still is the owner; a cleaner runs only   *)
(* after the quarantine.                                                   *)
Authority(p) ==
    /\ procs[p].gen \in 1..upload.gen
    /\ procs[p].gen = upload.gen => upload.owner = p
    /\ p \in Uploader /\ procs[p].gen = upload.gen => Live
    /\ p \in Cleaner => Dead /\ upload.quarantine = 0 /\ procs[p].admitted = 0
    /\ Covered(p, procs[p].deadline) /\ Covered(p, procs[p].admitted)

(* Where it may be, and what it has registered and written by then.        *)
RemovePlace(p) ==
    /\ procs[p].next # "idle" /\ procs[p].at \in Registered
    /\ procs[p].at \in ProbeSlots \/ Dead
    /\ procs[p].next = "clean" => p \in Cleaner
MetaPlace(p) == procs[p].at \in {Source, Index, Manifest}
GroupPlace(p) ==
    /\ procs[p].first \in 1..(Batches + 1) /\ procs[p].last \in 0..Batches
    /\ procs[p].first <= procs[p].at /\ procs[p].at <= procs[p].last + 1
    /\ \A s \in procs[p].first..procs[p].last : objects[s] # "none"
    /\ \A s \in procs[p].first..(procs[p].at - 1) : Dead \/ s \in blobs

Place(p) ==
    /\ procs[p].pc \in UploadPc => p \in Uploader
    /\ procs[p].pc = "clean" => p \in Cleaner
    /\ procs[p].pc \in {"remove", "removed"} => RemovePlace(p)
    /\ procs[p].pc \in {"open", "opened", "opened_ok"} => objects[ProbeOf(procs[p].gen)] # "none"
    /\ procs[p].pc \in MetaPc => MetaPlace(p)
    /\ procs[p].pc \in {"put", "ack"} => objects[procs[p].at] # "none"
    /\ procs[p].pc = "ack" => Dead \/ procs[p].at \in blobs
    /\ procs[p].pc = "group" => procs[p].first \in 1..(Batches + 1)
    /\ procs[p].pc \in {"file", "send"} => GroupPlace(p)
    /\ procs[p].pc = "send" => procs[p].at <= procs[p].last
    /\ procs[p].pc = "opened_ok" => ProbeOf(procs[p].gen) \notin blobs
    /\ procs[p].pc = "removed" /\ procs[p].gen = upload.gen => procs[p].at \notin blobs

(* A write that may still arrive goes to a key that nobody cleaned.        *)
Writes(p) == procs[p].admitted > 0 \/ (procs[p].pc \in {"put", "send"} /\ procs[p].deadline > 0)
ProbesNow(p) == \/ procs[p].pc = "probe" /\ procs[p].gen = upload.gen
                \/ procs[p].pc = "open" /\ procs[p].deadline > 0
Unspoilt(p) ==
    /\ ProbesNow(p) => ProbeOf(procs[p].gen) \notin cleaned
    /\ Writes(p) => cleaned \subseteq ProbeSlots

Distinct ==
    \A p, q \in Process : On(p) /\ On(q) /\ procs[p].gen = procs[q].gen => p = q

(* What the rows and the bucket say of each other.                         *)
Stored ==
    /\ ~Dead => \A s \in DataSlots : objects[s] = "acked" => s \in blobs
    /\ ~Dead => cleaned \subseteq ProbeSlots
    /\ \A s \in 1..upload.cursor : objects[s] = "acked"
    /\ catalog => upload.status = "finalized" /\ \A s \in DataSlots : objects[s] = "acked"
    /\ blobs \subseteq Registered /\ cleaned \subseteq Registered
    /\ \A g \in 1..MaxGeneration : objects[ProbeOf(g)] # "none" => g <= upload.gen
    /\ cleaned \cap blobs = {}
    /\ upload.cleaned => /\ Dead /\ upload.quarantine = 0 /\ upload.owner = Nobody
                         /\ blobs = {}

Good(p) == On(p) => Authority(p) /\ Place(p) /\ Unspoilt(p)

IInv == Types /\ Stored /\ Distinct /\ \A p \in Process : Good(p)

-----------------------------------------------------------------------------
(* The keys of an upload: data files and the probes of the generations do  *)
(* not collide.                                                            *)
LEMMA Keys ==
    ASSUME UploadConstants
    PROVE  /\ Source = 0 /\ Index = Batches + 1 /\ Manifest = Batches + 2
           /\ \A g \in 1..MaxGeneration : ProbeOf(g) \in ProbeSlots
           /\ \A g, h \in Nat : ProbeOf(g) = ProbeOf(h) => g = h
           /\ DataSlots \cap ProbeSlots = {}
           /\ Slots = DataSlots \cup ProbeSlots
           /\ \A s \in Slots : s \in Nat
           /\ DataSlots = 0..(Batches + 2)
<1>1. \A g \in Nat : ProbeOf(g) = Batches + 2 + g
  BY DEF ProbeOf, Manifest
<1>2. \A s \in ProbeSlots : \E g \in 1..MaxGeneration : s = Batches + 2 + g
  BY DEF ProbeSlots, ProbeOf, Manifest, UploadConstants
<1> QED
  BY <1>1, <1>2 DEF UploadConstants, Source, Index, Manifest, ProbeSlots, DataSlots, Slots

LEMMA MetaKeys ==
    ASSUME UploadConstants
    PROVE  Source \in DataSlots /\ Index \in DataSlots /\ Manifest \in DataSlots
BY Keys DEF UploadConstants

LEMMA LeqTransitive ==
    ASSUME NEW i \in Nat, NEW j \in Nat, NEW k \in Nat, i <= j, j <= k
    PROVE  i <= k
OBVIOUS

(* Objects are registered and acknowledged, never the other way round.     *)
ObjectsGrow ==
    /\ objects' \in [Slots -> {"none", "planned", "acked"}]
    /\ \A s \in Slots : objects[s] # "none" => objects'[s] # "none"
    /\ \A s \in Slots : objects[s] = "acked" => objects'[s] = "acked"

(* While p is the owner, no other process is current.                      *)
LEMMA OthersAreStale ==
    ASSUME IInv, NEW p \in Process, upload.owner = p,
           NEW q \in Process, q # p, On(q)
    PROVE  /\ procs[q].gen # upload.gen
           /\ Holds(p) => procs[q].deadline = 0 /\ procs[q].admitted = 0
<1>1. Authority(q) /\ procs[q] \in Command
  BY DEF IInv, Good, Types
<1>2. procs[q].gen # upload.gen
  BY <1>1 DEF Authority
<1>3. procs[q].deadline \in Nat /\ procs[q].admitted \in Nat
  BY <1>1 DEF Command
<1>4. Holds(p) => Live \/ upload.quarantine = 0
  BY DEF Holds
<1> QED
  BY <1>1, <1>2, <1>3, <1>4 DEF Authority, Covered, Live, Dead

(* What a process knows of its group of batches survives the steps of      *)
(* others.                                                                 *)
LEMMA GroupPlaceKeeps ==
    ASSUME UploadConstants, Types, NEW q \in Process, procs'[q] = procs[q], GroupPlace(q), ObjectsGrow,
           Dead => Dead', Dead \/ \A s \in DataSlots : s \in blobs => s \in blobs'
    PROVE  GroupPlace(q)'
<1>1. procs[q] \in Command
  BY DEF Types
<1>2. 1..Batches \subseteq DataSlots /\ DataSlots \subseteq Slots /\ Batches \in Nat
  BY Keys DEF UploadConstants
<1>3. \A s \in procs[q].first..procs[q].last : s \in 1..Batches
  BY <1>1, <1>2 DEF GroupPlace, Command
<1>4. \A s \in procs[q].first..(procs[q].at - 1) : s \in 1..Batches
  BY <1>1, <1>2 DEF GroupPlace, Command
<1>5. \A s \in procs[q].first..procs[q].last : objects'[s] # "none"
  BY <1>2, <1>3 DEF GroupPlace, ObjectsGrow
<1>6. \A s \in procs[q].first..(procs[q].at - 1) : Dead' \/ s \in blobs'
  BY <1>2, <1>4 DEF GroupPlace
<1> QED
  BY <1>5, <1>6 DEF GroupPlace

(* A step of the owner that leaves the bucket alone leaves the others      *)
(* right.                                                                  *)
LEMMA OwnerStep ==
    ASSUME UploadConstants, IInv, NEW p \in Process, upload.owner = p,
           NEW q \in Process, q # p, procs'[q] = procs[q], ObjectsGrow, blobs' = blobs,
           upload'.gen = upload.gen, upload'.quarantine = upload.quarantine, Dead' = Dead,
           cleaned' = cleaned \/ Holds(p)
    PROVE  Good(q)'
<1> SUFFICES ASSUME On(q)
             PROVE  Authority(q)' /\ Place(q)' /\ Unspoilt(q)'
  BY DEF Good, On
<1>1. /\ Authority(q) /\ Place(q) /\ Unspoilt(q) /\ procs[q] \in Command
      /\ procs[q].gen \in Nat /\ procs[q].at \in Nat
      /\ Types
  BY DEF IInv, Good, Types, Command
<1>2. /\ procs[q].gen # upload.gen
      /\ Holds(p) => procs[q].deadline = 0 /\ procs[q].admitted = 0
  BY OthersAreStale
<1>3. Authority(q)'
  BY <1>1, <1>2 DEF Authority, Covered
<1>4. /\ RemovePlace(q) => RemovePlace(q)'
      /\ MetaPlace(q) => MetaPlace(q)'
  BY DEF RemovePlace, MetaPlace, Registered, ObjectsGrow
<1>5. GroupPlace(q) => GroupPlace(q)'
  BY <1>1, GroupPlaceKeeps
<1>6. /\ objects[ProbeOf(procs[q].gen)] # "none" => objects'[ProbeOf(procs[q].gen)] # "none"
  <2>1. ProbeOf(procs[q].gen) \in Slots
    BY <1>1, Keys DEF Authority, IInv, Types, Row, UploadConstants
  <2> QED
    BY <2>1 DEF ObjectsGrow
<1>7. procs[q].pc \in {"put", "ack"} /\ objects[procs[q].at] # "none" => objects'[procs[q].at] # "none"
  <2> SUFFICES ASSUME procs[q].pc \in {"put", "ack"}
               PROVE  procs[q].at \in Slots
    BY DEF ObjectsGrow
  <2>1. MetaPlace(q)
    BY <1>1 DEF Place, MetaPc
  <2> QED
    BY <2>1, Keys DEF MetaPlace, UploadConstants
<1>8. Place(q)'
  BY <1>1, <1>2, <1>4, <1>5, <1>6, <1>7 DEF Place
<1>9. Unspoilt(q)'
  BY <1>1, <1>2 DEF Unspoilt, Writes, ProbesNow
<1> QED
  BY <1>3, <1>8, <1>9

Moves(p, z) == procs' = [procs EXCEPT ![p] = z]

Renewed ==
    /\ upload' \in Row /\ upload'.gen = upload.gen /\ upload'.owner = upload.owner
    /\ upload'.lease = LeaseTime /\ upload'.quarantine = upload.quarantine
    /\ upload'.cleaned = upload.cleaned /\ Live' = Live /\ Dead' = Dead

(* A step of one process.                                                  *)
LEMMA MovesOne ==
    ASSUME Types, NEW p \in Process, NEW z \in Command, Moves(p, z)
    PROVE  /\ procs' \in [Process -> Command] /\ procs'[p] = z
           /\ \A q \in Process : q # p => procs'[q] = procs[q]
  BY DEF Types, Moves

(* No two processes run under one generation.                              *)
LEMMA StaysDistinct ==
    ASSUME IInv, NEW p \in Process, NEW z \in Command, Moves(p, z),
           z.pc # "idle" => On(p) /\ z.gen = procs[p].gen
    PROVE  Distinct'
  BY MovesOne DEF IInv, Distinct, On

(* An upload that has an owner is not cleaned.                             *)
LEMMA OwnerIsSomebody ==
    ASSUME UploadConstants, IInv, NEW p \in Process, upload.owner = p
    PROVE  ~upload.cleaned
  BY DEF UploadConstants, IInv, Stored, Process

(* A transaction that guard() admits.                                      *)
LEMMA Guarded ==
    ASSUME UploadConstants, IInv, NEW p \in Process, On(p), Holds(p), Renewed,
           NEW z \in Command, Moves(p, z), z.gen = procs[p].gen, z.pc # "idle",
           z.deadline <= LeaseTime, z.admitted <= LeaseTime, p \in Cleaner => z.admitted = 0,
           ObjectsGrow, blobs' = blobs, catalog' = catalog,
           Dead \/ \A s \in DataSlots : objects'[s] = "acked" => objects[s] = "acked" \/ s \in blobs,
           \A s \in 1..upload'.cursor : objects'[s] = "acked",
           \A g \in 1..MaxGeneration : objects'[ProbeOf(g)] # "none" => g <= upload.gen,
           cleaned' \subseteq Registered', cleaned' \cap blobs = {},
           Dead \/ cleaned' \subseteq ProbeSlots,
           Place(p)', Unspoilt(p)'
    PROVE  IInv'
<1>1. Types /\ Authority(p) /\ Stored
  BY DEF IInv, Good
<1>2. /\ procs' \in [Process -> Command] /\ procs'[p] = z
      /\ \A q \in Process : q # p => procs'[q] = procs[q]
  BY <1>1, MovesOne
<1>3. upload.owner = p /\ upload.gen = procs[p].gen
  BY DEF Holds
<1>4. Types'
  BY <1>1, <1>2 DEF Types, Renewed, ObjectsGrow, Registered
<1>5. Distinct'
  BY StaysDistinct
<1>6. \A q \in Process : q # p => Good(q)'
  BY <1>2, <1>3, OwnerStep DEF Renewed
<1>7. Authority(p)'
  <2>1. Covered(p, procs[p].deadline)' /\ Covered(p, procs[p].admitted)'
    BY <1>2, <1>3 DEF Covered, Renewed
  <2> QED
    BY <1>1, <1>2, <1>3, <2>1 DEF Authority, Renewed
<1>8. Stored'
  <2>1. ~upload.cleaned
    BY <1>3, OwnerIsSomebody
  <2>2. ~catalog
    BY <1>1 DEF Stored, Holds, Live, Dead
  <2>3. blobs' \subseteq Registered'
    BY <1>1 DEF Stored, Registered, ObjectsGrow
  <2> QED
    BY <1>1, <2>1, <2>2, <2>3 DEF Stored, Renewed
<1> QED
  BY <1>4, <1>5, <1>6, <1>7, <1>8 DEF IInv, Good

(* renew_dataset_upload: who passes the guard holds the lease, and renews  *)
(* it.                                                                     *)
LEMMA GuardRenews ==
    ASSUME UploadConstants, IInv, NEW p \in Process, Guard(p)
    PROVE  Renewed /\ Holds(p) /\ upload'.cursor = upload.cursor /\ upload'.status = upload.status
  BY DEF Guard, Renewed, IInv, Types, Row, UploadConstants, Live, Dead

(* Registering objects forgets none.                                       *)
LEMMA RegisterGrows ==
    ASSUME IInv, NEW S, Register(S)
    PROVE  /\ ObjectsGrow
           /\ \A s \in Slots : s \in S => objects'[s] # "none"
           /\ \A s \in Slots : objects'[s] = "acked" => objects[s] = "acked"
           /\ \A s \in Slots : objects'[s] # "none" => objects[s] # "none" \/ s \in S
  BY DEF ObjectsGrow, Register, IInv, Types

(* Registering keys neither acknowledges nor cleans anything.              *)
LEMMA Registers ==
    ASSUME UploadConstants, IInv, NEW p \in Process, On(p), Guard(p),
           NEW S, Register(S), \A g \in 1..MaxGeneration : ProbeOf(g) \in S => g <= upload.gen,
           NEW z \in Command, Moves(p, z), z.gen = procs[p].gen, z.pc # "idle",
           z.deadline <= LeaseTime, z.admitted <= LeaseTime, p \in Cleaner => z.admitted = 0,
           UNCHANGED <<cleaned, blobs, catalog>>,
           Place(p)', Unspoilt(p)'
    PROVE  IInv'
<1>1. Renewed /\ Holds(p) /\ upload'.cursor = upload.cursor
  BY GuardRenews
<1>2. /\ ObjectsGrow
      /\ \A s \in Slots : objects'[s] = "acked" => objects[s] = "acked"
      /\ \A s \in Slots : objects'[s] # "none" => objects[s] # "none" \/ s \in S
  BY RegisterGrows
<1>3. /\ DataSlots \subseteq Slots /\ \A g \in 1..MaxGeneration : ProbeOf(g) \in Slots
      /\ 1..upload.cursor \subseteq Slots
  BY Keys DEF IInv, Types, Row, UploadConstants
<1>4. /\ \A s \in 1..upload'.cursor : objects'[s] = "acked"
      /\ \A s \in DataSlots : objects'[s] = "acked" => objects[s] = "acked"
      /\ \A g \in 1..MaxGeneration : objects'[ProbeOf(g)] # "none" => g <= upload.gen
  BY <1>1, <1>2, <1>3 DEF IInv, Stored, ObjectsGrow
<1>5. /\ cleaned' \subseteq Registered' /\ cleaned' \cap blobs = {}
      /\ Dead \/ cleaned' \subseteq ProbeSlots
  BY <1>2 DEF IInv, Stored, Registered, ObjectsGrow
<1> QED
  BY <1>1, <1>2, <1>4, <1>5, Guarded

-----------------------------------------------------------------------------
(* Every nonempty set of naturals has a least element, every bounded one a *)
(* greatest.                                                               *)
LEMMA LeastNatural ==
    ASSUME NEW T, T \subseteq Nat, T # {}
    PROVE  \E n \in T : \A m \in T : n <= m
<1>1. PICK R : R = {ss \in Nat \X Nat : ss[1] < ss[2]}
  BY Zenon
<1>2. IsWellFoundedOn(R, Nat)
  BY <1>1, NatLessThanWellFounded DEF OpToRel
<1>3. PICK n \in T : \A m \in T : ~ (<<m, n>> \in R)
  BY <1>2, WFMin, Zenon
<1>4. \A m \in T : ~ (m < n)
  <2> TAKE m \in T
  <2>1. m \in Nat /\ n \in Nat
    OBVIOUS
  <2>2. m < n => <<m, n>> \in R
    BY <1>1, <2>1
  <2> QED
    BY <1>3, <2>2
<1> QED
  BY <1>4

(* A bounded set of numbers has a greatest.                                *)
LEMMA GreatestNatural ==
    ASSUME NEW T, NEW b \in Nat, T \subseteq 0..b, T # {}
    PROVE  \E n \in T : \A m \in T : n >= m
<1>1. PICK D : D = {d \in Nat : b - d \in T}
  BY Zenon
<1>2. D # {}
  <2>1. PICK m \in T : TRUE
    BY Zenon
  <2>2. b - m \in Nat /\ b - (b - m) = m
    OBVIOUS
  <2> QED
    BY <1>1, <2>1, <2>2, Zenon
<1>3. PICK d \in D : \A e \in D : d <= e
  BY <1>1, <1>2, LeastNatural, Zenon
<1>4. \A m \in T : b - m \in D
  <2> TAKE m \in T
  <2>1. b - m \in Nat /\ b - (b - m) = m
    OBVIOUS
  <2> QED
    BY <1>1, <2>1
<1>5. b - d \in T /\ d \in Nat
  BY <1>1
<1>6. \A m \in T : b - d >= m
  BY <1>3, <1>4, <1>5
<1> QED
  BY <1>5, <1>6

(* Max is the greatest number of a bounded set.                            *)
LEMMA MaxIsGreatest ==
    ASSUME NEW T, NEW b \in Nat, T \subseteq 0..b, T # {}
    PROVE  Max(T) \in T /\ \A m \in T : Max(T) >= m
  BY GreatestNatural, Zenon DEF Max

(* Min is a number of its set.                                             *)
LEMMA MinIsLeast ==
    ASSUME NEW T, T \subseteq Nat, T # {}
    PROVE  Min(T) \in T
  BY LeastNatural, Zenon DEF Min

(* The first pending object is pending.                                    *)
LEMMA FirstPendingIsPending ==
    ASSUME UploadConstants, NEW p \in Process, Pending(p) # {}
    PROVE  FirstPending(p) \in Pending(p)
<1>1. Pending(p) \subseteq Slots
  BY DEF Pending, Registered
<1>2. CASE Pending(p) \cap ProbeSlots # {}
  <2>1. PICK b \in Nat : b = Batches + 2 + MaxGeneration
    BY DEF UploadConstants
  <2>2. ProbeSlots \subseteq 0..b
    BY <2>1 DEF ProbeSlots, ProbeOf, Manifest, UploadConstants
  <2> QED
    BY <1>2, <2>2, MaxIsGreatest, Zenon DEF FirstPending
<1>3. CASE Pending(p) \cap ProbeSlots = {}
  BY <1>1, <1>3, Keys, MinIsLeast DEF FirstPending
<1> QED
  BY <1>2, <1>3

-----------------------------------------------------------------------------
(* The transactions of connect().                                          *)
LEMMA PlanProbeKeeps ==
    ASSUME UploadConstants, IInv, NEW p \in Process, PlanProbe(p)
    PROVE  IInv'
<1> PICK m, z : m = procs[p] /\ z = [m EXCEPT !.pc = "open", !.deadline = RequestTime]
  BY Zenon
<1>1. /\ m \in Command /\ m.pc = "probe" /\ Authority(p) /\ Unspoilt(p) /\ upload \in Row
      /\ procs \in [Process -> Command]
  BY DEF PlanProbe, At, IInv, Types, Good, On
<1>2. /\ z \in Command /\ z.pc = "open" /\ z.deadline = RequestTime
      /\ z.gen = m.gen /\ z.admitted = m.admitted
  BY <1>1, Zenon DEF Command, ConnectPc, UploadConstants
<1>3. Moves(p, z)
  BY <1>1, Zenon DEF PlanProbe, Moves
<1>4. procs'[p] = z
  BY <1>1, <1>2, <1>3, MovesOne DEF IInv
<1>5. Renewed /\ Holds(p)
  BY GuardRenews DEF PlanProbe
<1>6. /\ m.gen = upload.gen /\ m.gen \in 1..MaxGeneration /\ m.gen \in Nat
  BY <1>1, <1>5 DEF Holds, Authority, Row, UploadConstants
<1>7. ProbeOf(m.gen) \in Slots /\ objects'[ProbeOf(m.gen)] # "none"
  BY <1>6, Keys, RegisterGrows DEF PlanProbe
<1>12. cleaned' = cleaned
  BY DEF PlanProbe
<1>8. Place(p)'
  BY <1>2, <1>4, <1>7 DEF Place, UploadPc, MetaPc, GroupPc, EndPc
<1>9. Unspoilt(p)'
  <2>1. Writes(p)' => Writes(p)
    BY <1>2, <1>4 DEF Writes
  <2> QED
    BY <1>1, <1>2, <1>4, <1>6, <1>12, <2>1 DEF Unspoilt, ProbesNow
<1>10. \A g \in 1..MaxGeneration : ProbeOf(g) \in {ProbeOf(m.gen)} => g <= upload.gen
  BY <1>1, <1>6, Keys DEF Row
<1>11. m.admitted <= LeaseTime /\ (p \in Cleaner => m.admitted = 0)
  BY <1>1, <1>6 DEF Authority, Covered, Command, Row, UploadConstants, Live, Dead, Process
<1> QED
  BY <1>1, <1>2, <1>3, <1>8, <1>9, <1>10, <1>11, Registers, Zenon DEF PlanProbe, UploadConstants, On

(* What a process that guard() admits may rely on.                         *)
LEMMA HolderFacts ==
    ASSUME UploadConstants, IInv, NEW p \in Process, On(p), Holds(p)
    PROVE  /\ procs[p] \in Command /\ procs \in [Process -> Command] /\ upload \in Row
           /\ Authority(p) /\ Place(p) /\ Unspoilt(p)
           /\ procs[p].gen = upload.gen /\ procs[p].gen \in 1..MaxGeneration
           /\ procs[p].gen \in Nat /\ ProbeOf(procs[p].gen) \in ProbeSlots
           /\ ProbeOf(procs[p].gen) \in Slots
           /\ p \in Uploader => ~Dead
           /\ p \in Cleaner => Dead /\ procs[p].admitted = 0
           /\ procs[p].admitted <= LeaseTime /\ procs[p].deadline <= LeaseTime
<1>1. /\ procs[p] \in Command /\ procs \in [Process -> Command] /\ upload \in Row
      /\ Authority(p) /\ Place(p) /\ Unspoilt(p)
  BY DEF IInv, Types, Good
<1>2. procs[p].gen = upload.gen
  BY DEF Holds
<1>3. procs[p].gen \in 1..MaxGeneration /\ procs[p].gen \in Nat
  BY <1>1, <1>2 DEF Authority, Row, UploadConstants
<1>4. /\ p \in Uploader => ~Dead
      /\ p \in Cleaner => Dead /\ procs[p].admitted = 0
  BY <1>1, <1>2 DEF Authority, Live, Dead
<1>5. procs[p].admitted <= LeaseTime /\ procs[p].deadline <= LeaseTime
  BY <1>1, <1>2, <1>4 DEF Authority, Covered, Command, Row, UploadConstants, Process
<1> QED
  BY <1>1, <1>2, <1>3, <1>4, <1>5, Keys

(* A transaction that only renews the lease.                               *)
LEMMA Renews ==
    ASSUME UploadConstants, IInv, NEW p \in Process, On(p), Guard(p),
           NEW z \in Command, Moves(p, z), z.gen = procs[p].gen, z.pc # "idle",
           z.deadline <= LeaseTime, z.admitted <= LeaseTime, p \in Cleaner => z.admitted = 0,
           UNCHANGED <<objects, cleaned, blobs, catalog>>,
           Place(p)', Unspoilt(p)'
    PROVE  IInv'
<1>1. Register({})
  BY DEF Register, IInv, Types
<1> QED
  BY <1>1, Registers

(* The probe is acknowledged.                                              *)
LEMMA AckProbeKeeps ==
    ASSUME UploadConstants, IInv, NEW p \in Process, AckProbe(p)
    PROVE  IInv'
<1> PICK m, z, x : m = procs[p] /\ z = [m EXCEPT !.pc = "reconcile"] /\ x = ProbeOf(m.gen)
  BY Zenon
<1>1. Renewed /\ Holds(p) /\ upload'.cursor = upload.cursor /\ m.pc = "opened_ok" /\ On(p)
  BY GuardRenews DEF AckProbe, At, On
<1>2. /\ m \in Command /\ procs \in [Process -> Command] /\ upload \in Row
      /\ Place(p) /\ Unspoilt(p) /\ m.gen = upload.gen /\ m.gen \in Nat
      /\ x \in ProbeSlots /\ x \in Slots
      /\ (p \in Cleaner => m.admitted = 0)
      /\ m.admitted <= LeaseTime /\ m.deadline <= LeaseTime
  BY <1>1, HolderFacts
<1>3. /\ z \in Command /\ z.pc = "reconcile" /\ z.deadline = m.deadline
      /\ z.gen = m.gen /\ z.admitted = m.admitted
  BY <1>2 DEF Command, ConnectPc
<1>4. Moves(p, z)
  BY <1>2 DEF AckProbe, Moves, Go
<1>5. procs'[p] = z
  BY <1>2, <1>3, <1>4, MovesOne DEF IInv
<1>6. /\ objects' = [objects EXCEPT ![x] = "acked"] /\ cleaned' = cleaned \cup {x}
      /\ blobs' = blobs /\ catalog' = catalog
  BY DEF AckProbe
<1>7. /\ ObjectsGrow /\ objects'[x] = "acked"
      /\ \A s \in Slots : s # x => objects'[s] = objects[s]
  BY <1>2, <1>6 DEF ObjectsGrow, IInv, Types
<1>8. /\ DataSlots \subseteq Slots /\ x \notin DataSlots
      /\ 1..upload.cursor \subseteq DataSlots
      /\ \A g \in 1..MaxGeneration : ProbeOf(g) \in Slots /\ (ProbeOf(g) = x => g = m.gen)
  <2>1. \A g \in 1..MaxGeneration : g \in Nat
    BY DEF UploadConstants
  <2>2. 1..upload.cursor \subseteq DataSlots
    BY <1>2, Keys DEF Row, UploadConstants
  <2> QED
    BY <1>2, <2>1, <2>2, Keys
<1>9. /\ \A s \in DataSlots : objects'[s] = "acked" => objects[s] = "acked"
      /\ \A s \in 1..upload'.cursor : objects'[s] = "acked"
  BY <1>1, <1>7, <1>8 DEF IInv, Stored
<1>10. \A g \in 1..MaxGeneration : objects'[ProbeOf(g)] # "none" => g <= upload.gen
  BY <1>2, <1>7, <1>8 DEF IInv, Stored, Row
<1>11. /\ cleaned' \subseteq Registered' /\ cleaned' \cap blobs = {}
       /\ Dead \/ cleaned' \subseteq ProbeSlots
  BY <1>1, <1>2, <1>6, <1>7 DEF IInv, Stored, Registered, ObjectsGrow, Place
<1>12. Place(p)'
  BY <1>3, <1>5 DEF Place, UploadPc, MetaPc, GroupPc, EndPc
<1>13. Unspoilt(p)'
  <2>1. Writes(p)' => Writes(p)
    BY <1>3, <1>5 DEF Writes
  <2> QED
    BY <1>2, <1>3, <1>5, <1>6, <2>1 DEF Unspoilt, ProbesNow
<1> QED
  BY <1>1, <1>2, <1>3, <1>4, <1>6, <1>7, <1>9, <1>10, <1>11, <1>12, <1>13, Guarded, Zenon

(* The cleaner renews its lease before it deletes an object.               *)
LEMMA RenewToRemoveKeeps ==
    ASSUME UploadConstants, IInv, NEW p \in Process, RenewToRemove(p)
    PROVE  IInv'
<1> PICK m : m = procs[p]
  OBVIOUS
<1> PICK x, b : x = FirstPending(p) /\ b = IF At(p, "clean") THEN m.budget - 1 ELSE m.budget
  OBVIOUS
<1> PICK z : z = [m EXCEPT !.pc = "remove", !.next = m.pc, !.at = x,
                           !.deadline = RequestTime, !.budget = b]
  OBVIOUS
<1>1. /\ Renewed /\ Holds(p) /\ m.pc \in {"reconcile", "clean"} /\ On(p) /\ Pending(p) # {}
      /\ (m.pc = "clean" => m.budget > 0)
  BY GuardRenews DEF RenewToRemove, At, On
<1>2. /\ m \in Command /\ procs \in [Process -> Command] /\ upload \in Row
      /\ Place(p) /\ Unspoilt(p) /\ m.gen = upload.gen
      /\ (p \in Cleaner => m.admitted = 0 /\ Dead)
      /\ m.admitted <= LeaseTime /\ m.deadline <= LeaseTime
  BY <1>1, HolderFacts
<1>3. /\ x \in Registered /\ x \in Nat
      /\ m.pc = "reconcile" => x \in ProbeSlots
  BY <1>1, FirstPendingIsPending, Keys DEF Pending, Registered, At
<1>4. b \in Nat
  <2>1. m.budget \in Nat
    BY <1>2 DEF Command
  <2> QED
    BY <1>1, <2>1 DEF At
<1>5. /\ z \in Command /\ z.pc = "remove" /\ z.deadline = RequestTime /\ z.at = x
      /\ z.gen = m.gen /\ z.admitted = m.admitted /\ z.next = m.pc
  BY <1>1, <1>2, <1>3, <1>4, Zenon DEF Command, ConnectPc, UploadConstants
<1>6. Moves(p, z)
  BY <1>2, Zenon DEF RenewToRemove, Moves
<1>7. procs'[p] = z
  BY <1>2, <1>5, <1>6, MovesOne DEF IInv
<1>8. UNCHANGED <<objects, cleaned, blobs, catalog>>
  BY DEF RenewToRemove
<1>9. RemovePlace(p)'
  BY <1>1, <1>2, <1>3, <1>5, <1>7, <1>8 DEF RemovePlace, Place, Registered, Renewed
<1>10. Place(p)'
  BY <1>5, <1>7, <1>9 DEF Place, UploadPc, MetaPc, GroupPc, EndPc
<1>11. Unspoilt(p)'
  <2>1. Writes(p)' => Writes(p)
    BY <1>5, <1>7 DEF Writes
  <2> QED
    BY <1>2, <1>5, <1>7, <1>8, <2>1 DEF Unspoilt, ProbesNow
<1> QED
  BY <1>1, <1>2, <1>5, <1>6, <1>8, <1>10, <1>11, Renews, Zenon DEF RenewToRemove, UploadConstants

(* A deleted object is marked as cleaned.                                  *)
LEMMA MarkCleanedKeeps ==
    ASSUME UploadConstants, IInv, NEW p \in Process, MarkCleaned(p)
    PROVE  IInv'
<1> PICK m, x : m = procs[p] /\ x = m.at
  OBVIOUS
<1> PICK z : z = [m EXCEPT !.pc = m.next]
  BY Zenon
<1>1. Renewed /\ Holds(p) /\ upload'.cursor = upload.cursor /\ m.pc = "removed" /\ On(p)
  BY GuardRenews DEF MarkCleaned, At, On
<1>2. /\ m \in Command /\ procs \in [Process -> Command] /\ upload \in Row
      /\ Place(p) /\ Unspoilt(p) /\ m.gen = upload.gen
      /\ (p \in Cleaner => m.admitted = 0) /\ (p \in Uploader => ~Dead)
      /\ m.admitted <= LeaseTime /\ m.deadline <= LeaseTime
  BY <1>1, HolderFacts
<1>3. /\ RemovePlace(p) /\ x \notin blobs /\ x \in Registered /\ x \in Slots
      /\ x \in ProbeSlots \/ Dead
  BY <1>1, <1>2 DEF Place, RemovePlace, Registered
<1>4. /\ z \in Command /\ z.pc \in {"reconcile", "clean"} /\ z.deadline = m.deadline
      /\ z.gen = m.gen /\ z.admitted = m.admitted /\ (z.pc = "clean" => p \in Cleaner)
  BY <1>2, <1>3 DEF Command, ConnectPc, RemovePlace
<1>5. Moves(p, z)
  BY <1>2 DEF MarkCleaned, Moves, Go
<1>6. procs'[p] = z
  BY <1>2, <1>4, <1>5, MovesOne DEF IInv
<1>7. /\ cleaned' = cleaned \cup {x} /\ blobs' = blobs /\ catalog' = catalog
      /\ objects' = [objects EXCEPT ![x] = IF x \in ProbeSlots THEN "acked" ELSE objects[x]]
  BY DEF MarkCleaned, Marked
<1>8. /\ ObjectsGrow /\ objects'[x] # "none"
      /\ \A s \in Slots : s \notin ProbeSlots => objects'[s] = objects[s]
      /\ \A s \in Slots : objects'[s] # "none" => objects[s] # "none"
  BY <1>3, <1>7 DEF ObjectsGrow, IInv, Types, Registered
<1>9. /\ DataSlots \subseteq Slots /\ DataSlots \cap ProbeSlots = {}
      /\ 1..upload.cursor \subseteq DataSlots
      /\ \A g \in 1..MaxGeneration : ProbeOf(g) \in Slots
  BY <1>2, Keys DEF Row, UploadConstants
<1>10. /\ \A s \in DataSlots : objects'[s] = "acked" => objects[s] = "acked"
       /\ \A s \in 1..upload'.cursor : objects'[s] = "acked"
       /\ \A g \in 1..MaxGeneration : objects'[ProbeOf(g)] # "none" => g <= upload.gen
  BY <1>1, <1>8, <1>9 DEF IInv, Stored
<1>11. /\ cleaned' \subseteq Registered' /\ cleaned' \cap blobs = {}
       /\ Dead \/ cleaned' \subseteq ProbeSlots
  BY <1>3, <1>7, <1>8 DEF IInv, Stored, Registered, ObjectsGrow
<1>12. Place(p)'
  BY <1>4, <1>6 DEF Place, UploadPc, MetaPc, GroupPc, EndPc
<1>13. Unspoilt(p)'
  <2>1. Writes(p)' => Writes(p) /\ m.admitted > 0
    BY <1>4, <1>6 DEF Writes
  <2>2. Writes(p)' => x \in ProbeSlots
    BY <1>2, <1>3, <2>1 DEF Process
  <2> QED
    BY <1>2, <1>4, <1>6, <1>7, <2>1, <2>2 DEF Unspoilt, ProbesNow
<1> QED
  BY <1>1, <1>2, <1>4, <1>5, <1>7, <1>8, <1>10, <1>11, <1>12, <1>13, Guarded, Zenon

-----------------------------------------------------------------------------
(* The transactions of put() and of Uploader::flush.                       *)
LEMMA MetaDoneMoves ==
    ASSUME UploadConstants, Types, NEW p \in Process, MetaPlace(p), MetaDone(p)
    PROVE  \E z \in Command :
              /\ Moves(p, z) /\ z.gen = procs[p].gen /\ z.admitted = procs[p].admitted
              /\ z.deadline = 0 /\ z.pc \in {"group", "plan", "publish"} /\ z.first = 1
              /\ z.pc = "plan" => z.at = Manifest
<1> PICK m : m = procs[p]
  OBVIOUS
<1> PICK a, b : a = AfterMeta(m.at) /\ b = IF m.at = Source THEN 1 ELSE Manifest
  OBVIOUS
<1> PICK z : z = [m EXCEPT !.pc = a, !.at = b, !.first = 1, !.deadline = 0]
  OBVIOUS
<1>1. m \in Command /\ procs \in [Process -> Command]
  BY DEF Types
<1>2. Source = 0 /\ Index = Batches + 1 /\ Manifest = Batches + 2 /\ Batches \in Nat
  BY Keys DEF UploadConstants
<1>3. m.at = Source \/ m.at = Index \/ m.at = Manifest
  BY DEF MetaPlace
<1>4. a \in {"group", "plan", "publish"} /\ b \in Nat /\ (a = "plan" => b = Manifest)
  BY <1>2, <1>3 DEF AfterMeta
<1>5. /\ z \in Command /\ z.gen = m.gen /\ z.admitted = m.admitted /\ z.deadline = 0
      /\ z.pc = a /\ z.first = 1 /\ z.at = b
  <2>1. a \in UploadPc /\ b \in Nat /\ 1 \in Nat /\ 0 \in Nat
    BY <1>4 DEF UploadPc, MetaPc, GroupPc, EndPc
  <2> QED
    BY <1>1, <2>1, Zenon DEF Command
<1>6. procs' = [procs EXCEPT ![p].pc = a, ![p].at = b, ![p].first = 1, ![p].deadline = 0]
  BY DEF MetaDone
<1>7. Moves(p, z)
  BY <1>1, <1>6, Zenon DEF Moves
<1> QED
  BY <1>4, <1>5, <1>7, Zenon

(* Where a process is after a file of its own.                             *)
LEMMA MetaDonePlace ==
    ASSUME UploadConstants, NEW p \in Process, p \in Uploader,
           procs'[p].pc \in {"group", "plan", "publish"}, procs'[p].first = 1,
           procs'[p].pc = "plan" => procs'[p].at = Manifest
    PROVE  Place(p)'
<1>1. MetaPlace(p)' \/ procs'[p].pc # "plan"
  BY DEF MetaPlace
<1>2. 1 \in 1..(Batches + 1)
  BY DEF UploadConstants
<1> QED
  BY <1>1, <1>2 DEF Place, MetaPc

(* The source, index or manifest file is registered before it is put.      *)
LEMMA PlanMetaKeeps ==
    ASSUME UploadConstants, IInv, NEW p \in Process, PlanMeta(p)
    PROVE  IInv'
<1> PICK m : m = procs[p]
  OBVIOUS
<1>1. Renewed /\ Holds(p) /\ m.pc = "plan" /\ On(p)
  BY GuardRenews DEF PlanMeta, At, On
<1>2. /\ m \in Command /\ procs \in [Process -> Command] /\ upload \in Row
      /\ Place(p) /\ Unspoilt(p)
      /\ m.admitted <= LeaseTime /\ m.deadline <= LeaseTime
  BY <1>1, HolderFacts, Zenon
<1>3. p \in Uploader /\ MetaPlace(p) /\ p \notin Cleaner /\ ~Dead
  BY <1>1, <1>2, HolderFacts DEF Place, UploadPc, MetaPc, UploadConstants
<1>4. cleaned \subseteq ProbeSlots /\ UNCHANGED <<cleaned, blobs, catalog>>
  BY <1>3 DEF IInv, Stored, PlanMeta
<1>5. m.at \in Slots /\ m.at \in DataSlots /\ m.at \notin ProbeSlots
  BY <1>3, Keys DEF MetaPlace, UploadConstants
<1>6. \A g \in 1..MaxGeneration : ProbeOf(g) \in {m.at} => g <= upload.gen
  BY <1>5, Keys
<1>7. Register({m.at}) /\ objects'[m.at] # "none"
  BY <1>5, RegisterGrows DEF PlanMeta
<1>8. CASE MetaDone(p)
  <2>1. PICK z \in Command :
              /\ Moves(p, z) /\ z.gen = procs[p].gen /\ z.admitted = procs[p].admitted
              /\ z.deadline = 0 /\ z.pc \in {"group", "plan", "publish"} /\ z.first = 1
              /\ z.pc = "plan" => z.at = Manifest
    BY <1>3, <1>8, MetaDoneMoves DEF IInv
  <2>2. procs'[p] = z
    BY <2>1, MovesOne DEF IInv
  <2>3. Place(p)'
    BY <1>3, <2>1, <2>2, MetaDonePlace
  <2>4. Unspoilt(p)'
    BY <1>4, <2>1, <2>2 DEF Unspoilt, ProbesNow
  <2> QED
    BY <1>1, <1>2, <1>3, <1>4, <1>6, <1>7, <2>1, <2>3, <2>4, Registers DEF PlanMeta, UploadConstants
<1>9. CASE procs' = [procs EXCEPT ![p].pc = "put", ![p].deadline = RequestTime]
  <2> PICK z : z = [m EXCEPT !.pc = "put", !.deadline = RequestTime]
    OBVIOUS
  <2>1. /\ z \in Command /\ z.gen = m.gen /\ z.admitted = m.admitted
        /\ z.deadline = RequestTime /\ z.pc = "put" /\ z.at = m.at
    BY <1>2, Zenon DEF Command, UploadPc, MetaPc, UploadConstants
  <2>2. Moves(p, z)
    BY <1>2, <1>9, Zenon DEF Moves
  <2>3. procs'[p] = z
    BY <2>1, <2>2, MovesOne DEF IInv
  <2>4. Place(p)'
    BY <1>3, <1>7, <2>1, <2>3 DEF Place, MetaPlace
  <2>5. Unspoilt(p)'
    BY <1>4, <2>1, <2>3, Zenon DEF Unspoilt, ProbesNow
  <2> QED
    BY Zenon, <1>1, <1>2, <1>3, <1>4, <1>6, <1>7, <2>1, <2>2, <2>4, <2>5, Registers
       DEF PlanMeta, UploadConstants
<1> QED
  BY <1>8, <1>9 DEF PlanMeta

(* The source, index or manifest file is acknowledged.                     *)
LEMMA AckMetaKeeps ==
    ASSUME UploadConstants, IInv, NEW p \in Process, AckMeta(p)
    PROVE  IInv'
<1> PICK m, x : m = procs[p] /\ x = m.at
  OBVIOUS
<1>1. Renewed /\ Holds(p) /\ upload'.cursor = upload.cursor /\ m.pc = "ack" /\ On(p)
  BY GuardRenews DEF AckMeta, At, On
<1>2. /\ m \in Command /\ upload \in Row /\ Place(p) /\ Unspoilt(p)
      /\ m.admitted <= LeaseTime /\ m.deadline <= LeaseTime
  BY <1>1, HolderFacts
<1>3. p \in Uploader /\ MetaPlace(p) /\ p \notin Cleaner /\ ~Dead /\ x \in blobs /\ objects[x] # "none"
  BY <1>1, <1>2, HolderFacts DEF Place, UploadPc, MetaPc, UploadConstants
<1>4. /\ cleaned \subseteq ProbeSlots /\ UNCHANGED <<cleaned, blobs, catalog>>
      /\ objects' = [objects EXCEPT ![x] = "acked"]
  BY <1>3 DEF IInv, Stored, AckMeta
<1>5. x \in Slots /\ x \in DataSlots /\ x \notin ProbeSlots
  BY <1>3, Keys DEF MetaPlace, UploadConstants
<1>6. /\ ObjectsGrow
      /\ \A s \in Slots : s # x => objects'[s] = objects[s]
  BY <1>4, <1>5 DEF ObjectsGrow, IInv, Types
<1>7. /\ DataSlots \subseteq Slots /\ 1..upload.cursor \subseteq Slots
      /\ \A g \in 1..MaxGeneration : ProbeOf(g) \in Slots /\ ProbeOf(g) # x
  BY <1>2, <1>5, Keys DEF Row, UploadConstants
<1>8. /\ \A s \in DataSlots : objects'[s] = "acked" => objects[s] = "acked" \/ s \in blobs
      /\ \A s \in 1..upload'.cursor : objects'[s] = "acked"
      /\ \A g \in 1..MaxGeneration : objects'[ProbeOf(g)] # "none" => g <= upload.gen
  BY <1>1, <1>3, <1>6, <1>7 DEF IInv, Stored, ObjectsGrow
<1>9. /\ cleaned' \subseteq Registered' /\ cleaned' \cap blobs = {}
      /\ cleaned' \subseteq ProbeSlots
  BY <1>4, <1>6 DEF IInv, Stored, Registered, ObjectsGrow
<1>10. PICK z \in Command :
              /\ Moves(p, z) /\ z.gen = procs[p].gen /\ z.admitted = procs[p].admitted
              /\ z.deadline = 0 /\ z.pc \in {"group", "plan", "publish"} /\ z.first = 1
              /\ z.pc = "plan" => z.at = Manifest
  BY <1>3, MetaDoneMoves DEF IInv, AckMeta
<1>11. procs'[p] = z
  BY <1>10, MovesOne DEF IInv
<1>12. Place(p)'
  BY <1>3, <1>10, <1>11, MetaDonePlace
<1>13. Unspoilt(p)'
  BY <1>4, <1>10, <1>11 DEF Unspoilt, ProbesNow
<1> QED
  BY <1>1, <1>2, <1>3, <1>4, <1>6, <1>8, <1>9, <1>10, <1>12, <1>13, Guarded DEF UploadConstants

(* Rounding up to a multiple.                                              *)
LEMMA RoundsUp ==
    ASSUME NEW n \in Nat, NEW k \in Nat \ {0}
    PROVE  /\ (n \div k + 1) * k \in Nat
           /\ n < (n \div k + 1) * k
<1>1. n \div k \in Nat
  OBVIOUS
<1>2. PICK d \in Nat : d = n \div k
  BY <1>1
<1>3. n = d * k + (n % k) /\ n % k \in 0..(k - 1)
  BY <1>2
<1>4. (d + 1) * k = d * k + k /\ d * k \in Nat
  OBVIOUS
<1> QED
  BY <1>2, <1>3, <1>4

(* The last batch of a group.                                              *)
LEMMA LastOfGroup ==
    ASSUME UploadConstants, NEW f \in 1..(Batches + 1)
    PROVE  LastOf(f) \in 0..Batches /\ f <= LastOf(f) + 1
<1>1. PICK n \in Nat : n = f - 1
  BY DEF UploadConstants
<1>2. PICK u : u = (n \div Group + 1) * Group
  OBVIOUS
<1>3. u \in Nat /\ n < u
  BY <1>2, RoundsUp DEF UploadConstants
<1>4. LastOf(f) = IF u < Batches THEN u ELSE Batches
  BY <1>1, <1>2 DEF LastOf, Min2
<1> QED
  BY <1>1, <1>3, <1>4 DEF UploadConstants

(* A group of batches is registered before it is sent.                     *)
LEMMA PlanGroupKeeps ==
    ASSUME UploadConstants, IInv, NEW p \in Process, PlanGroup(p)
    PROVE  IInv'
<1> PICK m, f, l : m = procs[p] /\ f = m.first /\ l = LastOf(f)
  OBVIOUS
<1> PICK z : z = [m EXCEPT !.pc = "file", !.at = f, !.last = l, !.admitted = AdmissionTime]
  OBVIOUS
<1>1. Renewed /\ Holds(p) /\ m.pc = "group" /\ On(p)
  BY GuardRenews DEF PlanGroup, At, On
<1>2. /\ m \in Command /\ procs \in [Process -> Command] /\ upload \in Row
      /\ Place(p) /\ Unspoilt(p)
      /\ m.admitted <= LeaseTime /\ m.deadline <= LeaseTime
  BY <1>1, HolderFacts
<1>3. p \in Uploader /\ f \in 1..(Batches + 1) /\ p \notin Cleaner /\ ~Dead
  BY <1>1, <1>2, HolderFacts DEF Place, UploadPc, GroupPc, UploadConstants
<1>4. l \in 0..Batches /\ f <= l + 1 /\ f \in Nat /\ l \in Nat /\ Batches \in Nat
  BY <1>3, LastOfGroup DEF UploadConstants
<1>5. cleaned \subseteq ProbeSlots /\ UNCHANGED <<cleaned, blobs, catalog>> /\ Register(f..l)
  BY <1>3 DEF IInv, Stored, PlanGroup
<1>6. f..l \subseteq DataSlots /\ DataSlots \subseteq Slots /\ f..l \cap ProbeSlots = {}
  <2>1. f..l \subseteq 0..(Batches + 2)
    BY <1>3, <1>4
  <2> QED
    BY <2>1, Keys
<1>7. \A g \in 1..MaxGeneration : ProbeOf(g) \in f..l => g <= upload.gen
  BY <1>6, Keys
<1>8. \A s \in f..l : objects'[s] # "none"
  BY <1>5, <1>6, RegisterGrows, Zenon
<1>9. /\ z \in Command /\ z.gen = m.gen /\ z.admitted = AdmissionTime /\ z.first = f
      /\ z.deadline = m.deadline /\ z.pc = "file" /\ z.at = f /\ z.last = l
  BY <1>2, <1>4, Zenon DEF Command, UploadPc, GroupPc, UploadConstants
<1>10. Moves(p, z)
  BY <1>2, Zenon DEF PlanGroup, Moves
<1>11. procs'[p] = z
  BY <1>9, <1>10, MovesOne DEF IInv
<1>12. GroupPlace(p)'
  <2>1. f..(f - 1) = {} /\ f <= f
    BY <1>3, <1>4
  <2> QED
    BY <1>3, <1>4, <1>8, <1>9, <1>11, <2>1 DEF GroupPlace
<1>13. Place(p)'
  BY <1>3, <1>9, <1>11, <1>12 DEF Place, MetaPc
<1>14. Unspoilt(p)'
  BY <1>5, <1>9, <1>11 DEF Unspoilt, ProbesNow
<1> QED
  BY <1>1, <1>2, <1>3, <1>5, <1>7, <1>9, <1>10, <1>13, <1>14, Registers, Zenon DEF PlanGroup, UploadConstants

(* A batch that an earlier generation acknowledged is verified, not sent.  *)
LEMMA VerifyBatchKeeps ==
    ASSUME UploadConstants, IInv, NEW p \in Process, VerifyBatch(p)
    PROVE  IInv'
<1> PICK m, a : m = procs[p] /\ a = IF m.at = Batches THEN "plan" ELSE m.pc
  OBVIOUS
<1> PICK z : z = [m EXCEPT !.at = m.at + 1, !.pc = a]
  OBVIOUS
<1>1. /\ Renewed /\ Holds(p) /\ m.pc = "verify" /\ On(p)
      /\ UNCHANGED <<objects, cleaned, blobs, catalog>>
  BY GuardRenews DEF VerifyBatch, At, On
<1>2. /\ m \in Command /\ procs \in [Process -> Command]
      /\ Place(p) /\ Unspoilt(p) /\ m.admitted <= LeaseTime /\ m.deadline <= LeaseTime
  BY <1>1, HolderFacts
<1>3. p \in Uploader /\ p \notin Cleaner /\ ~Dead
  BY <1>1, <1>2, HolderFacts DEF Place, UploadPc, EndPc, UploadConstants
<1>4. cleaned \subseteq ProbeSlots
  BY <1>3 DEF IInv, Stored
<1>5. a \in {"plan", "verify"} /\ (a = "plan" => m.at = Batches) /\ m.at \in Nat
  BY <1>1, <1>2 DEF Command
<1>6. /\ z \in Command /\ z.gen = m.gen /\ z.admitted = m.admitted
      /\ z.deadline = m.deadline /\ z.pc = a /\ z.at = m.at + 1
  <2>1. a \in UploadPc /\ m.at + 1 \in Nat
    BY <1>5 DEF UploadPc, MetaPc, EndPc
  <2> QED
    BY <1>2, <2>1, Zenon DEF Command
<1>7. Moves(p, z)
  BY <1>2, Zenon DEF VerifyBatch, Moves
<1>8. procs'[p] = z
  BY <1>6, <1>7, MovesOne DEF IInv
<1>9. a = "plan" => MetaPlace(p)'
  BY <1>5, <1>6, <1>8, Keys DEF MetaPlace
<1>10. Place(p)'
  BY <1>3, <1>5, <1>6, <1>8, <1>9 DEF Place, MetaPc
<1>11. Unspoilt(p)'
  BY <1>1, <1>4, <1>5, <1>6, <1>8 DEF Unspoilt, ProbesNow
<1> QED
  BY <1>1, <1>2, <1>3, <1>5, <1>6, <1>7, <1>10, <1>11, Renews, Zenon DEF VerifyBatch, UploadConstants

(* finalize: the upload is complete when every batch is acknowledged.      *)
LEMMA FinalizeKeeps ==
    ASSUME UploadConstants, IInv, NEW p \in Process, Finalize(p)
    PROVE  IInv'
<1> PICK m : m = procs[p]
  OBVIOUS
<1> PICK z : z = [m EXCEPT !.pc = "verify", !.at = 1]
  OBVIOUS
<1>1. Holds(p) /\ m.pc = "finalize" /\ On(p) /\ UNCHANGED <<objects, cleaned, blobs, catalog>>
  BY DEF Finalize, At, On
<1>2. /\ m \in Command /\ procs \in [Process -> Command] /\ upload \in Row
      /\ Place(p) /\ Unspoilt(p) /\ m.admitted <= LeaseTime /\ m.deadline <= LeaseTime
  BY <1>1, HolderFacts
<1>3. p \in Uploader /\ p \notin Cleaner /\ ~Dead
  BY <1>1, <1>2, HolderFacts DEF Place, UploadPc, EndPc, UploadConstants
<1>4. cleaned \subseteq ProbeSlots
  BY <1>3 DEF IInv, Stored
<1>5. Renewed /\ upload'.cursor = upload.cursor
  <2>1. upload' = [upload EXCEPT !.status = "finalizing", !.lease = LeaseTime]
    BY DEF Finalize
  <2>2. /\ upload' \in Row /\ upload'.gen = upload.gen /\ upload'.owner = upload.owner
        /\ upload'.lease = LeaseTime /\ upload'.quarantine = upload.quarantine
        /\ upload'.cleaned = upload.cleaned /\ upload'.cursor = upload.cursor
        /\ upload'.status = "finalizing"
    <3>1. LeaseTime \in 0..LeaseTime
      BY DEF UploadConstants
    <3> QED
      BY <1>2, <2>1, <3>1, Zenon DEF Row
  <2>3. Live
    BY <1>1, <1>3 DEF Holds
  <2>4. Live' /\ ~Dead'
    BY <2>2 DEF Live, Dead
  <2>5. Live' = Live /\ Dead' = Dead
    BY <1>3, <2>2, <2>3, SMT DEF Live, Dead
  <2> QED
    BY <2>2, <2>5 DEF Renewed
<1>6. /\ z \in Command /\ z.gen = m.gen /\ z.admitted = m.admitted
      /\ z.deadline = m.deadline /\ z.pc = "verify"
  BY <1>2, Zenon DEF Command, UploadPc, EndPc
<1>7. Moves(p, z)
  BY <1>2, Zenon DEF Finalize, Moves
<1>8. procs'[p] = z
  BY <1>6, <1>7, MovesOne DEF IInv
<1>10. Place(p)'
  BY <1>3, <1>6, <1>8 DEF Place, MetaPc
<1>11. Unspoilt(p)'
  BY <1>1, <1>4, <1>6, <1>8 DEF Unspoilt, ProbesNow
<1>12. /\ ObjectsGrow /\ cleaned' \subseteq Registered' /\ cleaned' \cap blobs = {}
       /\ \A s \in 1..upload'.cursor : objects'[s] = "acked"
       /\ \A g \in 1..MaxGeneration : objects'[ProbeOf(g)] # "none" => g <= upload.gen
  BY <1>1, <1>5 DEF IInv, Types, Stored, ObjectsGrow, Registered
<1> QED
  BY <1>1, <1>2, <1>3, <1>4, <1>5, <1>6, <1>7, <1>10, <1>11, <1>12, Guarded, Zenon

(* The numbers of a group.                                                 *)
LEMMA GroupNumbers ==
    ASSUME UploadConstants, Types, NEW p \in Process, GroupPlace(p)
    PROVE  /\ procs[p].at \in Nat /\ procs[p].first \in 1..(Batches + 1) /\ procs[p].last \in 0..Batches
           /\ procs[p].first <= procs[p].at /\ procs[p].at <= procs[p].last + 1
           /\ procs[p].at <= Batches + 1
<1>1. procs[p].at \in Nat /\ Batches \in Nat
  BY DEF Types, Command, UploadConstants
<1>2. /\ procs[p].first \in 1..(Batches + 1) /\ procs[p].last \in 0..Batches
      /\ procs[p].first <= procs[p].at /\ procs[p].at <= procs[p].last + 1
  BY DEF GroupPlace
<1> QED
  BY <1>1, <1>2

(* The files of a checkpoint are acknowledged under the lease.             *)
LEMMA AcknowledgeFilesKeeps ==
    ASSUME UploadConstants, IInv, NEW p \in Process, Checkpoint(p),
           AcknowledgeFiles(p, Checkpointed(p))
    PROVE  IInv'
<1> PICK m, n, D, c : m = procs[p] /\ n = m.at /\ D = m.first..(n - 1) /\ c = upload.cursor
  OBVIOUS
<1> PICK a : a = AfterGroup(p)
  OBVIOUS
<1> PICK z : z = [m EXCEPT !.pc = a, !.first = n, !.admitted = 0]
  OBVIOUS
<1>1. /\ Holds(p) /\ m.pc = "file" /\ On(p) /\ n > m.first
      /\ UNCHANGED <<cleaned, blobs, catalog>> /\ Contiguous(D)
      /\ objects' = [s \in Slots |-> IF s \in D THEN "acked" ELSE objects[s]]
      /\ upload' = [upload EXCEPT !.lease = LeaseTime, !.cursor = Max({c} \cup D)]
  BY DEF Checkpoint, AcknowledgeFiles, Checkpointed, At, On
<1>2. /\ m \in Command /\ procs \in [Process -> Command] /\ upload \in Row
      /\ Place(p) /\ Unspoilt(p) /\ m.admitted <= LeaseTime /\ m.deadline <= LeaseTime
  BY <1>1, HolderFacts
<1>3. p \in Uploader /\ p \notin Cleaner /\ ~Dead /\ GroupPlace(p)
  BY <1>1, <1>2, HolderFacts DEF Place, UploadPc, GroupPc, UploadConstants
<1>4. cleaned \subseteq ProbeSlots
  BY <1>3 DEF IInv, Stored
<1>5. /\ n \in Nat /\ m.first \in 1..(Batches + 1) /\ m.first <= n /\ n <= Batches + 1
      /\ Batches \in Nat /\ c \in 0..Batches
  BY <1>2, <1>3, GroupNumbers DEF Row, UploadConstants, IInv
<1>6. D \subseteq 1..Batches /\ n - 1 \in D
  BY <1>1, <1>5
<1>7. D \subseteq DataSlots /\ DataSlots \subseteq Slots /\ D \cap ProbeSlots = {}
  BY <1>5, <1>6, Keys
<1>8. PICK u : u = Max({c} \cup D)
  OBVIOUS
<1>9. u \in {c} \cup D /\ \A s \in {c} \cup D : s <= u
  <2>1. {c} \cup D \subseteq 0..Batches /\ {c} \cup D # {}
    BY <1>5, <1>6
  <2> QED
    <3>1. u \in {c} \cup D /\ \A s \in {c} \cup D : u >= s
      BY <1>5, <1>8, <2>1, MaxIsGreatest, Zenon
    <3> QED
      BY <1>5, <2>1, <3>1
<1>10. u \in 0..Batches
  BY <1>5, <1>6, <1>9
<1>11. Renewed /\ upload'.cursor = u
  <2>1. LeaseTime \in 0..LeaseTime
    BY DEF UploadConstants
  <2>2. /\ upload' \in Row /\ upload'.gen = upload.gen /\ upload'.owner = upload.owner
        /\ upload'.lease = LeaseTime /\ upload'.quarantine = upload.quarantine
        /\ upload'.cleaned = upload.cleaned /\ upload'.cursor = u
        /\ upload'.status = upload.status
    BY <1>1, <1>2, <1>8, <1>10, <2>1, Zenon DEF Row
  <2> QED
    BY <2>2 DEF Renewed, Live, Dead
<1>12. /\ ObjectsGrow
       /\ \A s \in Slots : s \in D => objects'[s] = "acked"
       /\ \A s \in Slots : s \notin D => objects'[s] = objects[s]
  BY <1>1 DEF ObjectsGrow, IInv, Types
<1>13. \A s \in 1..u : objects'[s] = "acked"
  <2>1. \A s \in 1..c : objects'[s] = "acked"
    <3>1. 1..c \subseteq Slots
      BY <1>5, Keys
    <3> QED
      BY <1>12, <3>1 DEF IInv, Stored, ObjectsGrow
  <2>2. \A s \in (c + 1)..u : s \in D
    <3> SUFFICES ASSUME NEW s \in (c + 1)..u
                 PROVE  s \in D
      OBVIOUS
    <3>1. u \in D /\ u > c /\ u \in Nat
      BY <1>5, <1>9, <1>10
    <3>2. \A t \in (c + 1)..u : t \in D
      BY <1>1, <1>5, <3>1 DEF Contiguous
    <3> QED
      BY <3>2
  <2>3. \A s \in 1..u : s \in 1..c \/ s \in (c + 1)..u
    BY <1>5, <1>10
  <2> QED
    BY <1>7, <1>12, <2>1, <2>2, <2>3
<1>14. \A s \in DataSlots : objects'[s] = "acked" => objects[s] = "acked" \/ s \in blobs
  BY <1>3, <1>7, <1>12 DEF GroupPlace
<1>15. \A g \in 1..MaxGeneration : objects'[ProbeOf(g)] # "none" => g <= upload.gen
  <2>1. \A g \in 1..MaxGeneration : ProbeOf(g) \in Slots /\ ProbeOf(g) \notin D
    BY <1>7, Keys
  <2> QED
    BY <1>12, <2>1 DEF IInv, Stored
<1>16. cleaned' \subseteq Registered' /\ cleaned' \cap blobs = {} /\ cleaned' \subseteq ProbeSlots
  BY <1>1, <1>4, <1>12 DEF IInv, Stored, Registered, ObjectsGrow
<1>17. a \in {"group", "finalize"} /\ n \in 1..(Batches + 1)
  BY <1>5 DEF AfterGroup
<1>18. /\ z \in Command /\ z.gen = m.gen /\ z.admitted = 0
       /\ z.deadline = m.deadline /\ z.pc = a /\ z.first = n
  <2>1. a \in UploadPc /\ 0 \in Nat
    BY <1>17 DEF UploadPc, GroupPc, EndPc
  <2> QED
    BY <1>2, <1>5, <2>1, Zenon DEF Command
<1>19. Moves(p, z)
  BY <1>2, Zenon DEF Checkpoint, Moves
<1>20. procs'[p] = z
  BY <1>18, <1>19, MovesOne DEF IInv
<1>21. Place(p)'
  BY <1>3, <1>17, <1>18, <1>20 DEF Place, MetaPc
<1>22. Unspoilt(p)'
  BY <1>1, <1>4, <1>17, <1>18, <1>20 DEF Unspoilt, ProbesNow
<1>23. z.pc # "idle" /\ 0 <= LeaseTime
  BY <1>17, <1>18 DEF UploadConstants
<1> QED
  BY <1>1, <1>2, <1>3, <1>11, <1>12, <1>13, <1>14, <1>15, <1>16, <1>18, <1>19, <1>21, <1>22,
     <1>23, Guarded, Zenon

-----------------------------------------------------------------------------
(* Steps outside the database: they read the rows and change the bucket.   *)
LEMMA Outside ==
    ASSUME UploadConstants, IInv, NEW p \in Process, On(p),
           UNCHANGED <<upload, objects, cleaned, catalog>>,
           NEW z \in Command, Moves(p, z), z.gen = procs[p].gen, z.pc # "idle",
           z.deadline = 0 \/ z.deadline <= procs[p].deadline \/ z.deadline <= procs[p].admitted,
           z.admitted = procs[p].admitted \/ z.admitted = 0,
           blobs' \subseteq Registered, cleaned \cap blobs' = {},
           Dead \/ \A s \in DataSlots : s \in blobs => s \in blobs',
           upload.cleaned => blobs' = {},
           \A q \in Process : q # p /\ On(q) /\ ProbeOf(procs[q].gen) \in blobs' =>
              ProbeOf(procs[q].gen) \in blobs,
           \A q \in Process :
              (/\ q # p /\ On(q) /\ procs[q].pc = "removed"
               /\ procs[q].gen = upload.gen /\ procs[q].at \in blobs') => procs[q].at \in blobs,
           Place(p)', Unspoilt(p)'
    PROVE  IInv'
<1>1. Types /\ Authority(p) /\ Stored
  BY DEF IInv, Good
<1>2. /\ procs' \in [Process -> Command] /\ procs'[p] = z
      /\ \A q \in Process : q # p => procs'[q] = procs[q]
  BY <1>1, MovesOne
<1>3. Types'
  BY <1>1, <1>2 DEF Types, Registered
<1>4. Distinct'
  BY StaysDistinct
<1>5. (Dead' <=> Dead) /\ (Live' <=> Live) /\ Registered' = Registered
  BY Zenon DEF Dead, Live, Registered
<1>6. Stored'
  BY <1>1, <1>5, Zenon DEF Stored
<1>7. Authority(p)'
  <2>1. /\ z.deadline \in Nat /\ z.admitted \in Nat
        /\ procs[p].deadline \in Nat /\ procs[p].admitted \in Nat
        /\ upload.lease \in Nat /\ upload.quarantine \in Nat
    BY <1>1 DEF Types, Command, Row
  <2>2. Covered(p, procs[p].deadline)' /\ Covered(p, procs[p].admitted)'
    BY <1>1, <1>2, <1>5, <2>1 DEF Authority, Covered
  <2> QED
    BY <1>1, <1>2, <1>5, <2>1, <2>2 DEF Authority
<1>8. ASSUME NEW q \in Process, q # p, On(q)
      PROVE  Good(q)'
  <2>1. Authority(q) /\ Place(q) /\ Unspoilt(q) /\ procs[q] \in Command
    BY <1>8 DEF IInv, Good, Types
  <2>2. procs'[q] = procs[q]
    BY <1>2, <1>8
  <2>3. Authority(q)'
    BY <1>5, <2>1, <2>2, ZenonT(40) DEF Authority, Covered
  <2>4. Unspoilt(q)'
    BY <2>1, <2>2 DEF Unspoilt, ProbesNow, Writes
  <2>5. ObjectsGrow
    BY <1>1 DEF ObjectsGrow, Types
  <2>6. GroupPlace(q) => GroupPlace(q)'
    BY <1>1, <1>5, <2>2, <2>5, GroupPlaceKeeps
  <2>7. (RemovePlace(q) => RemovePlace(q)') /\ (MetaPlace(q) => MetaPlace(q)')
    BY <1>5, <2>2 DEF RemovePlace, MetaPlace
  <2>8. procs[q].pc = "ack" => Dead' \/ procs[q].at \in blobs'
    <3>1. procs[q].pc = "ack" => procs[q].at \in DataSlots
      BY <2>1, MetaKeys, Zenon DEF Place, MetaPc, MetaPlace
    <3> QED
      BY <1>5, <2>1, <3>1, ZenonT(40) DEF Place
  <2>9. procs[q].pc = "opened_ok" => ProbeOf(procs[q].gen) \notin blobs'
    BY <1>8, <2>1, Zenon DEF Place
  <2>10. procs[q].pc = "removed" /\ procs[q].gen = upload.gen => procs[q].at \notin blobs'
    BY <1>8, <2>1, Zenon DEF Place
  <2>11. Place(q)'
    BY <2>1, <2>2, <2>6, <2>7, <2>8, <2>9, <2>10, ZenonT(40) DEF Place
  <2> QED
    BY <2>3, <2>4, <2>11 DEF Good
<1>9. \A q \in Process : Good(q)'
  <2>1. Good(p)'
    BY <1>7, Zenon DEF Good
  <2>2. \A q \in Process : q # p /\ ~On(q) => Good(q)'
    BY <1>2 DEF Good, On
  <2> QED
    BY <1>8, <2>1, <2>2, ZenonT(40)
<1> QED
  BY <1>3, <1>4, <1>6, <1>9 DEF IInv

(* A step that leaves the bucket alone as well.                            *)
LEMMA Inside ==
    ASSUME UploadConstants, IInv, NEW p \in Process, On(p),
           UNCHANGED <<upload, objects, cleaned, blobs, catalog>>,
           NEW z \in Command, Moves(p, z), z.gen = procs[p].gen, z.pc # "idle",
           z.deadline = 0 \/ z.deadline <= procs[p].deadline \/ z.deadline <= procs[p].admitted,
           z.admitted = procs[p].admitted \/ z.admitted = 0,
           Place(p)', Unspoilt(p)'
    PROVE  IInv'
<1>1. Stored
  BY DEF IInv
<1>2. blobs' \subseteq Registered /\ cleaned \cap blobs' = {} /\ (upload.cleaned => blobs' = {})
  BY <1>1 DEF Stored
<1> QED
  BY <1>2, Outside

(* What is known of a process that runs.                                   *)
LEMMA RunnerFacts ==
    ASSUME UploadConstants, IInv, NEW p \in Process, On(p)
    PROVE  /\ procs[p] \in Command /\ procs \in [Process -> Command] /\ upload \in Row
           /\ Types /\ Stored /\ Authority(p) /\ Place(p) /\ Unspoilt(p)
           /\ procs[p].gen \in 1..MaxGeneration /\ procs[p].gen \in Nat
           /\ ProbeOf(procs[p].gen) \in ProbeSlots /\ ProbeOf(procs[p].gen) \in Slots
           /\ procs[p].deadline \in Nat /\ procs[p].admitted \in Nat /\ procs[p].at \in Nat
<1>1. /\ procs[p] \in Command /\ procs \in [Process -> Command] /\ upload \in Row
      /\ Types /\ Stored /\ Authority(p) /\ Place(p) /\ Unspoilt(p)
  BY DEF IInv, Types, Good
<1>2. procs[p].gen \in 1..upload.gen /\ upload.gen \in 0..MaxGeneration
  BY <1>1 DEF Authority, Row
<1>3. procs[p].gen \in 1..MaxGeneration /\ procs[p].gen \in Nat
  BY <1>2 DEF UploadConstants
<1>4. procs[p].deadline \in Nat /\ procs[p].admitted \in Nat /\ procs[p].at \in Nat
  BY <1>1 DEF Command
<1> QED
  BY <1>1, <1>3, <1>4, Keys

(* The probe was answered.                                                 *)
LEMMA ConnectedKeeps ==
    ASSUME UploadConstants, IInv, NEW p \in Process, Connected(p)
    PROVE  IInv'
<1> PICK m, a : m = procs[p] /\ a = IF p \in Uploader THEN "plan" ELSE "clean"
  OBVIOUS
<1> PICK z : z = [m EXCEPT !.pc = a, !.at = Source, !.deadline = 0]
  OBVIOUS
<1>1. m.pc = "reconcile" /\ On(p) /\ UNCHANGED <<upload, objects, cleaned, blobs, catalog>>
  BY DEF Connected, At, On
<1>2. m \in Command /\ procs \in [Process -> Command] /\ Place(p) /\ Unspoilt(p)
  BY <1>1, RunnerFacts
<1>3. a \in {"plan", "clean"} /\ (a = "plan" => p \in Uploader) /\ (a = "clean" => p \in Cleaner)
  BY DEF Process
<1>4. /\ z \in Command /\ z.gen = m.gen /\ z.admitted = m.admitted
      /\ z.deadline = 0 /\ z.pc = a /\ z.at = Source
  <2>1. a \in UploadPc \cup {"idle", "clean"} /\ Source \in Nat /\ 0 \in Nat
    BY <1>3 DEF UploadPc, MetaPc, Source
  <2> QED
    BY <1>2, <2>1, Zenon DEF Command
<1>5. Moves(p, z)
  BY <1>2, Zenon DEF Connected, Moves
<1>6. procs'[p] = z
  BY <1>4, <1>5, MovesOne DEF IInv
<1>7. Place(p)'
  BY <1>3, <1>4, <1>6 DEF Place, MetaPlace, MetaPc, UploadPc, GroupPc, EndPc
<1>8. Unspoilt(p)'
  BY <1>1, <1>2, <1>3, <1>4, <1>6 DEF Unspoilt, ProbesNow, Writes
<1> QED
  BY <1>1, <1>3, <1>4, <1>5, <1>7, <1>8, Inside, Zenon

(* A file is admitted with what is left of the lease as its budget.        *)
LEMMA StartFileKeeps ==
    ASSUME UploadConstants, IInv, NEW p \in Process, StartFile(p)
    PROVE  IInv'
<1> PICK m, x : m = procs[p] /\ x = m.at
  OBVIOUS
<1>1. m.pc = "file" /\ On(p) /\ x <= m.last /\ UNCHANGED <<upload, objects, cleaned, blobs, catalog>>
  BY DEF StartFile, At, On
<1>2. /\ m \in Command /\ procs \in [Process -> Command] /\ Place(p) /\ Unspoilt(p)
      /\ Types /\ Stored /\ m.admitted \in Nat
  BY <1>1, RunnerFacts
<1>3. GroupPlace(p) /\ p \in Uploader
  BY <1>1, <1>2 DEF Place, UploadPc, GroupPc
<1>4. /\ x \in Nat /\ m.first \in 1..(Batches + 1) /\ m.last \in 0..Batches /\ Batches \in Nat
      /\ m.first <= x
  BY <1>2, <1>3, GroupNumbers DEF UploadConstants
<1>5. x \in 1..Batches /\ x \in DataSlots
  <2>1. x \in 1..Batches
    BY <1>1, <1>4
  <2> QED
    BY <2>1, <1>4, Keys
<1>6. CASE objects[x] = "acked"
  <2> PICK z : z = [m EXCEPT !.at = x + 1]
    BY Zenon
  <2>1. /\ z \in Command /\ z.gen = m.gen /\ z.admitted = m.admitted /\ z.first = m.first
        /\ z.deadline = m.deadline /\ z.pc = "file" /\ z.at = x + 1 /\ z.last = m.last
    <3>1. x + 1 \in Nat
      BY <1>4
    <3> QED
      BY <1>1, <1>2, <3>1 DEF Command
  <2>2. Moves(p, z)
    BY <1>2, <1>6 DEF StartFile, Moves
  <2>3. procs'[p] = z
    BY <2>1, <2>2, MovesOne DEF IInv
  <2>4. Dead \/ x \in blobs
    BY <1>2, <1>5, <1>6 DEF Stored
  <2>5. GroupPlace(p)'
    <3>1. m.first <= x + 1 /\ x + 1 <= m.last + 1
      BY <1>1, <1>4
    <3>2. \A s \in m.first..((x + 1) - 1) : s = x \/ s \in m.first..(x - 1)
      BY <1>4
    <3>3. \A s \in m.first..((x + 1) - 1) : Dead' \/ s \in blobs'
      BY <1>1, <1>3, <2>4, <3>2 DEF GroupPlace, Dead
    <3> QED
      BY <1>1, <1>3, <2>1, <2>3, <3>1, <3>3 DEF GroupPlace
  <2>6. Place(p)'
    BY <1>3, <2>1, <2>3, <2>5 DEF Place, MetaPc
  <2>7. Unspoilt(p)'
    BY <1>1, <1>2, <2>1, <2>3 DEF Unspoilt, ProbesNow, Writes
  <2>8. z.deadline <= procs[p].deadline
    BY <1>2, <2>1 DEF Command
  <2> QED
    BY <1>1, <2>1, <2>2, <2>6, <2>7, <2>8, Inside, Zenon
<1>7. CASE objects[x] # "acked"
  <2> PICK t : t = TransferBudget(m.admitted)
    OBVIOUS
  <2> PICK z : z = [m EXCEPT !.pc = "send", !.deadline = t]
    OBVIOUS
  <2>1. t \in Nat /\ t <= m.admitted
    BY <1>2 DEF TransferBudget, Min2, UploadConstants
  <2>2. /\ z \in Command /\ z.gen = m.gen /\ z.admitted = m.admitted /\ z.first = m.first
        /\ z.deadline = t /\ z.pc = "send" /\ z.at = x /\ z.last = m.last
    BY <1>2, <2>1, Zenon DEF Command, UploadPc, GroupPc
  <2>3. Moves(p, z)
    BY <1>2, <1>7, Zenon DEF StartFile, Moves
  <2>4. procs'[p] = z
    BY <2>2, <2>3, MovesOne DEF IInv
  <2>5. GroupPlace(p)'
    <3>1. Dead' <=> Dead
      BY <1>1 DEF Dead
    <3> QED
      BY <1>1, <1>3, <2>2, <2>4, <3>1 DEF GroupPlace
  <2>6. Place(p)'
    BY <1>1, <1>3, <2>2, <2>4, <2>5 DEF Place, MetaPc
  <2>7. Unspoilt(p)'
    <3>1. t > 0 => m.admitted > 0
      BY <1>2, <2>1
    <3> QED
      BY <1>1, <1>2, <2>2, <2>4, <3>1 DEF Unspoilt, ProbesNow, Writes
  <2> QED
    BY <1>1, <2>1, <2>2, <2>3, <2>6, <2>7, Inside, Zenon
<1> QED
  BY <1>6, <1>7

(* A checkpoint acknowledges the group.                                    *)
LEMMA CheckpointKeeps ==
    ASSUME UploadConstants, IInv, NEW p \in Process, Checkpoint(p)
    PROVE  IInv'
<1> SUFFICES ASSUME UNCHANGED <<upload, objects>>
             PROVE  IInv'
  BY AcknowledgeFilesKeeps, Zenon DEF Checkpoint
<1> PICK m, n, a : m = procs[p] /\ n = m.at /\ a = AfterGroup(p)
  OBVIOUS
<1> PICK z : z = [m EXCEPT !.pc = a, !.first = n, !.admitted = 0]
  OBVIOUS
<1>1. m.pc = "file" /\ On(p) /\ n > m.first /\ UNCHANGED <<upload, objects, cleaned, blobs, catalog>>
  BY DEF Checkpoint, At, On
<1>2. /\ m \in Command /\ procs \in [Process -> Command] /\ Place(p) /\ Unspoilt(p)
      /\ Types /\ m.deadline \in Nat
  BY <1>1, RunnerFacts
<1>3. GroupPlace(p) /\ p \in Uploader
  BY <1>1, <1>2 DEF Place, UploadPc, GroupPc
<1>4. n \in 1..(Batches + 1) /\ n \in Nat
  BY <1>2, <1>3, GroupNumbers DEF UploadConstants
<1>5. a \in {"group", "finalize"}
  BY DEF AfterGroup
<1>6. /\ z \in Command /\ z.gen = m.gen /\ z.admitted = 0
      /\ z.deadline = m.deadline /\ z.pc = a /\ z.first = n
  <2>1. a \in UploadPc /\ 0 \in Nat
    BY <1>5 DEF UploadPc, GroupPc, EndPc
  <2> QED
    BY <1>2, <1>4, <2>1, Zenon DEF Command
<1>7. Moves(p, z)
  BY <1>2, Zenon DEF Checkpoint, Moves
<1>8. procs'[p] = z
  BY <1>6, <1>7, MovesOne DEF IInv
<1>9. Place(p)'
  BY <1>3, <1>4, <1>5, <1>6, <1>8 DEF Place, MetaPc
<1>10. Unspoilt(p)'
  BY <1>5, <1>6, <1>8 DEF Unspoilt, ProbesNow, Writes
<1>11. z.deadline <= procs[p].deadline /\ z.pc # "idle"
  BY <1>2, <1>5, <1>6
<1> QED
  BY <1>1, <1>6, <1>7, <1>9, <1>10, <1>11, Inside, Zenon

(* While a request of p may still arrive, nobody else is current and the   *)
(* cleanup has not been reported complete.                                 *)
LEMMA RequestFacts ==
    ASSUME UploadConstants, IInv, NEW p \in Process, On(p), procs[p].deadline > 0
    PROVE  /\ ~upload.cleaned
           /\ \A q \in Process : q # p /\ On(q) => procs[q].gen # upload.gen
           /\ \A q \in Process : q # p /\ On(q) => ProbeOf(procs[q].gen) # ProbeOf(procs[p].gen)
           /\ \A q \in Process : On(q) => ProbeOf(procs[q].gen) \notin DataSlots
<1>1. /\ Authority(p) /\ Stored /\ upload \in Row /\ procs[p].deadline \in Nat
      /\ Covered(p, procs[p].deadline)
  BY RunnerFacts DEF Authority
<1>2. upload.quarantine \in Nat
  BY <1>1 DEF Row, UploadConstants
<1>3. (procs[p].gen = upload.gen /\ upload.owner = p) \/ (Dead /\ upload.quarantine > 0)
  BY <1>1, <1>2 DEF Authority, Covered
<1>4. ~upload.cleaned
  BY <1>1, <1>3 DEF Stored, UploadConstants, Process
<1>5. ASSUME NEW q \in Process, q # p, On(q)
      PROVE  procs[q].gen # upload.gen
  <2>1. Authority(q)
    BY <1>5, RunnerFacts
  <2> QED
    BY <1>2, <1>3, <1>5, <2>1 DEF Authority, Live, Dead, Process
<1>6. ASSUME NEW q \in Process, q # p, On(q)
      PROVE  ProbeOf(procs[q].gen) # ProbeOf(procs[p].gen)
  <2>1. procs[q].gen # procs[p].gen
    BY <1>6 DEF IInv, Distinct
  <2>2. procs[q].gen \in Nat /\ procs[p].gen \in Nat
    BY <1>6, RunnerFacts
  <2> QED
    BY <2>1, <2>2, Keys
<1>7. ASSUME NEW q \in Process, On(q)
      PROVE  ProbeOf(procs[q].gen) \notin DataSlots
  <2>1. ProbeOf(procs[q].gen) \in ProbeSlots
    BY <1>7, RunnerFacts
  <2> QED
    BY <2>1, Keys
<1> QED
  BY <1>4, <1>5, <1>6, <1>7

(* A write arrives before its deadline, at a key that was registered and   *)
(* not cleaned.                                                            *)
LEMMA Arrives ==
    ASSUME UploadConstants, IInv, NEW p \in Process, On(p), procs[p].deadline > 0,
           NEW x, x \in Registered, x \notin cleaned, x \in DataSlots \/ x = ProbeOf(procs[p].gen),
           blobs' = blobs \cup {x}, UNCHANGED <<upload, objects, cleaned, catalog>>,
           NEW z \in Command, Moves(p, z), z.gen = procs[p].gen, z.pc # "idle",
           z.deadline = 0, z.admitted = procs[p].admitted, Place(p)', Unspoilt(p)'
    PROVE  IInv'
<1>1. /\ ~upload.cleaned
      /\ \A q \in Process : q # p /\ On(q) => procs[q].gen # upload.gen
      /\ \A q \in Process : q # p /\ On(q) => ProbeOf(procs[q].gen) # x
  BY RequestFacts
<1>2. Stored
  BY DEF IInv
<1>3. blobs' \subseteq Registered /\ cleaned \cap blobs' = {}
  BY <1>2 DEF Stored
<1> QED
  BY <1>1, <1>3, Outside

(* The probe is put.                                                       *)
LEMMA PutProbeKeeps ==
    ASSUME UploadConstants, IInv, NEW p \in Process, PutProbe(p)
    PROVE  IInv'
<1> PICK m, x : m = procs[p] /\ x = ProbeOf(m.gen)
  OBVIOUS
<1> PICK z : z = [m EXCEPT !.pc = "opened", !.deadline = 0]
  OBVIOUS
<1>1. /\ m.pc = "open" /\ On(p) /\ m.deadline > 0 /\ blobs' = blobs \cup {x}
      /\ UNCHANGED <<upload, objects, cleaned, catalog>>
  BY DEF PutProbe, At, On
<1>2. /\ m \in Command /\ procs \in [Process -> Command] /\ Place(p) /\ Unspoilt(p)
      /\ x \in Slots
  BY <1>1, RunnerFacts
<1>3. x \in Registered /\ x \notin cleaned
  BY <1>1, <1>2 DEF Place, Unspoilt, ProbesNow, Registered
<1>4. z \in Command /\ z.gen = m.gen /\ z.admitted = m.admitted /\ z.deadline = 0 /\ z.pc = "opened"
  BY <1>2, Zenon DEF Command, ConnectPc
<1>5. Moves(p, z)
  BY <1>2, Zenon DEF PutProbe, Moves
<1>6. procs'[p] = z
  BY <1>4, <1>5, MovesOne DEF IInv
<1>7. Place(p)'
  BY <1>1, <1>3, <1>4, <1>6 DEF Place, UploadPc, MetaPc, GroupPc, EndPc, Registered
<1>8. Unspoilt(p)'
  BY <1>1, <1>2, <1>4, <1>6 DEF Unspoilt, ProbesNow, Writes
<1> QED
  BY <1>1, <1>3, <1>4, <1>5, <1>7, <1>8, Arrives, Zenon

(* The probe is deleted.                                                   *)
LEMMA DropProbeKeeps ==
    ASSUME UploadConstants, IInv, NEW p \in Process, DropProbe(p)
    PROVE  IInv'
<1> PICK m, x : m = procs[p] /\ x = ProbeOf(m.gen)
  OBVIOUS
<1> PICK z : z = [m EXCEPT !.pc = "opened_ok"]
  BY Zenon
<1>1. /\ m.pc = "opened" /\ On(p) /\ blobs' = blobs \ {x}
      /\ UNCHANGED <<upload, objects, cleaned, catalog>>
  BY DEF DropProbe, At, On
<1>2. /\ m \in Command /\ procs \in [Process -> Command] /\ Place(p) /\ Unspoilt(p)
      /\ x \in ProbeSlots /\ Stored /\ m.deadline \in Nat
  BY <1>1, RunnerFacts
<1>3. /\ z \in Command /\ z.gen = m.gen /\ z.admitted = m.admitted /\ z.deadline = m.deadline
      /\ z.pc = "opened_ok"
  BY <1>2 DEF Command, ConnectPc
<1>4. Moves(p, z)
  BY <1>2 DEF DropProbe, Go, Moves
<1>5. procs'[p] = z
  BY <1>3, <1>4, MovesOne DEF IInv
<1>6. Place(p)'
  BY <1>1, <1>2, <1>3, <1>5 DEF Place, UploadPc, MetaPc, GroupPc, EndPc
<1>7. Unspoilt(p)'
  BY <1>1, <1>2, <1>3, <1>5 DEF Unspoilt, ProbesNow, Writes
<1>8. /\ blobs' \subseteq Registered /\ cleaned \cap blobs' = {} /\ (upload.cleaned => blobs' = {})
      /\ \A s \in DataSlots : s \in blobs => s \in blobs'
  BY <1>1, <1>2, Keys DEF Stored
<1>9. z.deadline <= procs[p].deadline
  BY <1>2, <1>3
<1> QED
  BY <1>1, <1>3, <1>4, <1>6, <1>7, <1>8, <1>9, Outside, Zenon

(* The cleaner deletes an object, which no live request can write again.   *)
LEMMA RemoveOwnedKeeps ==
    ASSUME UploadConstants, IInv, NEW p \in Process, RemoveOwned(p)
    PROVE  IInv'
<1> PICK m, x : m = procs[p] /\ x = m.at
  OBVIOUS
<1> PICK z : z = [m EXCEPT !.pc = "removed", !.deadline = 0]
  OBVIOUS
<1>1. /\ m.pc = "remove" /\ On(p) /\ blobs' = blobs \ {x}
      /\ UNCHANGED <<upload, objects, cleaned, catalog>>
  BY DEF RemoveOwned, At, On
<1>2. /\ m \in Command /\ procs \in [Process -> Command] /\ Place(p) /\ Unspoilt(p) /\ Stored
  BY <1>1, RunnerFacts
<1>3. RemovePlace(p)
  BY <1>1, <1>2 DEF Place
<1>4. /\ z \in Command /\ z.gen = m.gen /\ z.admitted = m.admitted /\ z.deadline = 0
      /\ z.pc = "removed" /\ z.at = x /\ z.next = m.next
  BY <1>2, Zenon DEF Command, ConnectPc
<1>5. Moves(p, z)
  BY <1>2, Zenon DEF RemoveOwned, Moves
<1>6. procs'[p] = z
  BY <1>4, <1>5, MovesOne DEF IInv
<1>7. RemovePlace(p)'
  BY <1>1, <1>3, <1>4, <1>6 DEF RemovePlace, Registered, Dead
<1>8. Place(p)'
  BY <1>1, <1>4, <1>6, <1>7 DEF Place, UploadPc, MetaPc, GroupPc, EndPc
<1>9. Unspoilt(p)'
  BY <1>1, <1>2, <1>4, <1>6 DEF Unspoilt, ProbesNow, Writes
<1>10. blobs' \subseteq Registered /\ cleaned \cap blobs' = {} /\ (upload.cleaned => blobs' = {})
  BY <1>1, <1>2 DEF Stored
<1>11. Dead \/ \A s \in DataSlots : s \in blobs => s \in blobs'
  BY <1>1, <1>3, Keys DEF RemovePlace
<1> QED
  BY <1>1, <1>4, <1>5, <1>8, <1>9, <1>10, <1>11, Outside, Zenon

(* The source, index or manifest file is put.                              *)
LEMMA PutMetaKeeps ==
    ASSUME UploadConstants, IInv, NEW p \in Process, PutMeta(p)
    PROVE  IInv'
<1> PICK m, x : m = procs[p] /\ x = m.at
  OBVIOUS
<1> PICK z : z = [m EXCEPT !.pc = "ack", !.deadline = 0]
  OBVIOUS
<1>1. /\ m.pc = "put" /\ On(p) /\ m.deadline > 0 /\ blobs' = blobs \cup {x}
      /\ UNCHANGED <<upload, objects, cleaned, catalog>>
  BY DEF PutMeta, At, On
<1>2. m \in Command /\ procs \in [Process -> Command] /\ Place(p) /\ Unspoilt(p)
  BY <1>1, RunnerFacts
<1>3. MetaPlace(p) /\ p \in Uploader /\ objects[x] # "none" /\ cleaned \subseteq ProbeSlots
  BY <1>1, <1>2 DEF Place, UploadPc, MetaPc, Unspoilt, Writes
<1>4. x \in DataSlots /\ x \in Registered /\ x \notin cleaned
  <2>1. x \in DataSlots
    BY <1>3, Keys DEF MetaPlace, UploadConstants
  <2> QED
    BY <1>3, <2>1, Keys DEF Registered
<1>5. /\ z \in Command /\ z.gen = m.gen /\ z.admitted = m.admitted /\ z.deadline = 0
      /\ z.pc = "ack" /\ z.at = x
  BY <1>2, Zenon DEF Command, UploadPc, MetaPc
<1>6. Moves(p, z)
  BY <1>2, Zenon DEF PutMeta, Moves
<1>7. procs'[p] = z
  BY <1>5, <1>6, MovesOne DEF IInv
<1>8. Place(p)'
  BY <1>1, <1>3, <1>5, <1>7 DEF Place, MetaPlace
<1>9. Unspoilt(p)'
  BY <1>1, <1>3, <1>5, <1>7 DEF Unspoilt, ProbesNow
<1> QED
  BY <1>1, <1>4, <1>5, <1>6, <1>8, <1>9, Arrives, Zenon

(* A batch is put.                                                         *)
LEMMA SendFileKeeps ==
    ASSUME UploadConstants, IInv, NEW p \in Process, SendFile(p)
    PROVE  IInv'
<1> PICK m, x : m = procs[p] /\ x = m.at
  OBVIOUS
<1> PICK z : z = [m EXCEPT !.pc = "file", !.at = x + 1, !.deadline = 0]
  OBVIOUS
<1>1. /\ m.pc = "send" /\ On(p) /\ m.deadline > 0 /\ blobs' = blobs \cup {x}
      /\ UNCHANGED <<upload, objects, cleaned, catalog>>
  BY DEF SendFile, At, On
<1>2. m \in Command /\ procs \in [Process -> Command] /\ Place(p) /\ Unspoilt(p) /\ Types
  BY <1>1, RunnerFacts
<1>3. GroupPlace(p) /\ p \in Uploader /\ x <= m.last /\ cleaned \subseteq ProbeSlots
  BY <1>1, <1>2 DEF Place, UploadPc, GroupPc, Unspoilt, Writes
<1>4. /\ x \in Nat /\ m.first \in 1..(Batches + 1) /\ m.last \in 0..Batches /\ Batches \in Nat
      /\ m.first <= x
  BY <1>2, <1>3, GroupNumbers DEF UploadConstants
<1>5. x \in 1..Batches /\ x \in m.first..m.last
  BY <1>3, <1>4
<1>6. x \in DataSlots /\ x \in Registered /\ x \notin cleaned
  <2>1. x \in DataSlots
    BY <1>4, <1>5, Keys
  <2> QED
    BY <1>3, <1>5, <2>1, Keys DEF Registered, GroupPlace
<1>7. /\ z \in Command /\ z.gen = m.gen /\ z.admitted = m.admitted /\ z.deadline = 0
      /\ z.pc = "file" /\ z.at = x + 1 /\ z.first = m.first /\ z.last = m.last
  <2>1. x + 1 \in Nat
    BY <1>4
  <2> QED
    BY <1>2, <2>1, Zenon DEF Command, UploadPc, GroupPc
<1>8. Moves(p, z)
  BY <1>2, Zenon DEF SendFile, Moves
<1>9. procs'[p] = z
  BY <1>7, <1>8, MovesOne DEF IInv
<1>10. GroupPlace(p)'
  <2>1. m.first <= x + 1 /\ x + 1 <= m.last + 1
    BY <1>3, <1>4
  <2>2. \A s \in m.first..((x + 1) - 1) : s = x \/ s \in m.first..(x - 1)
    BY <1>4
  <2>3. \A s \in m.first..((x + 1) - 1) : Dead' \/ s \in blobs'
    BY <1>1, <1>3, <2>2 DEF GroupPlace, Dead
  <2> QED
    BY <1>1, <1>3, <1>7, <1>9, <2>1, <2>3 DEF GroupPlace
<1>11. Place(p)'
  BY <1>3, <1>7, <1>9, <1>10 DEF Place, MetaPc
<1>12. Unspoilt(p)'
  BY <1>1, <1>3, <1>7, <1>9, Zenon DEF Unspoilt, ProbesNow
<1> QED
  BY <1>1, <1>6, <1>7, <1>8, <1>11, <1>12, Arrives, Zenon

-----------------------------------------------------------------------------
(* Steps of the row alone: claims, releases, revocations and time.         *)
LEMMA PlaceStays ==
    ASSUME NEW q \in Process, Place(q),
           procs'[q].pc = procs[q].pc, procs'[q].gen = procs[q].gen, procs'[q].at = procs[q].at,
           procs'[q].first = procs[q].first, procs'[q].last = procs[q].last,
           procs'[q].next = procs[q].next, UNCHANGED <<objects, blobs>>,
           Dead => Dead', procs[q].gen = upload'.gen => procs[q].gen = upload.gen
    PROVE  Place(q)'
<1>1. /\ RemovePlace(q) => RemovePlace(q)'
      /\ MetaPlace(q) => MetaPlace(q)'
  BY DEF RemovePlace, MetaPlace, Registered
<1>2. GroupPlace(q) => GroupPlace(q)'
  BY DEF GroupPlace
<1> QED
  BY <1>1, <1>2, ZenonT(40) DEF Place

(* A process that is away.                                                 *)
LEMMA AwayIsCommand == UploadConstants => Away \in Command /\ Away.pc = "idle"
  BY DEF Away, Command, UploadConstants

(* A process that a step leaves alone.                                     *)
LEMMA Untouched ==
    ASSUME NEW q \in Process, Good(q), procs'[q] = procs[q],
           UNCHANGED <<upload, objects, cleaned, blobs, catalog>>
    PROVE  Good(q)'
<1> SUFFICES ASSUME On(q)
             PROVE  Authority(q)' /\ Place(q)' /\ Unspoilt(q)'
  BY DEF Good, On
<1>1. (Dead' <=> Dead) /\ (Live' <=> Live)
  BY Zenon DEF Dead, Live
<1>2. Authority(q)'
  BY <1>1, Zenon DEF Good, Authority, Covered
<1>3. Place(q)'
  BY <1>1, PlaceStays DEF Good
<1>4. Unspoilt(q)'
  BY DEF Good, Unspoilt, ProbesNow, Writes
<1> QED
  BY <1>2, <1>3, <1>4

(* A process ends.                                                         *)
LEMMA GoesAway ==
    ASSUME UploadConstants, IInv, NEW p \in Process, procs' = [procs EXCEPT ![p] = Away]
    PROVE  /\ procs' \in [Process -> Command] /\ ~On(p)' /\ Good(p)' /\ Distinct'
           /\ \A q \in Process : q # p => procs'[q] = procs[q]
<1>1. Away \in Command /\ Away.pc = "idle" /\ Moves(p, Away) /\ Types
  BY AwayIsCommand DEF Moves, IInv
<1>2. /\ procs' \in [Process -> Command] /\ procs'[p] = Away
      /\ \A q \in Process : q # p => procs'[q] = procs[q]
  BY <1>1, MovesOne
<1>3. ~On(p)'
  BY <1>1, <1>2 DEF On
<1>4. Distinct'
  BY <1>1, StaysDistinct
<1> QED
  BY <1>2, <1>3, <1>4 DEF Good

(* The process is gone; the row keeps its lease.                           *)
LEMMA Vanishes ==
    ASSUME UploadConstants, IInv, NEW p \in Process, procs' = [procs EXCEPT ![p] = Away],
           UNCHANGED <<upload, objects, cleaned, blobs, catalog>>
    PROVE  IInv'
<1>1. /\ procs' \in [Process -> Command] /\ Good(p)' /\ Distinct'
      /\ \A q \in Process : q # p => procs'[q] = procs[q]
  BY GoesAway, Zenon
<1>2. \A q \in Process : q # p => Good(q)'
  BY <1>1, Untouched DEF IInv
<1>3. Types'
  BY <1>1 DEF IInv, Types
<1>4. Stored'
  BY DEF IInv, Stored, Dead, Registered
<1> QED
  BY <1>1, <1>2, <1>3, <1>4 DEF IInv

(* The owner gives the lease back.                                         *)
LEMMA Releases ==
    ASSUME UploadConstants, IInv, NEW p \in Process, procs' = [procs EXCEPT ![p] = Away],
           upload.owner = p, upload' \in Row, upload'.gen = upload.gen,
           upload'.quarantine = upload.quarantine, upload'.cursor = upload.cursor,
           Dead' = Dead, UNCHANGED <<objects, cleaned, blobs>>, catalog' \in BOOLEAN,
           catalog' => upload'.status = "finalized" /\ \A s \in DataSlots : objects[s] = "acked",
           upload'.cleaned => Dead /\ upload.quarantine = 0 /\ upload'.owner = Nobody /\ blobs = {}
    PROVE  IInv'
<1>1. /\ procs' \in [Process -> Command] /\ Good(p)' /\ Distinct'
      /\ \A q \in Process : q # p => procs'[q] = procs[q]
  BY GoesAway, Zenon
<1>2. ObjectsGrow
  BY DEF IInv, Types, ObjectsGrow
<1>3. \A q \in Process : q # p => Good(q)'
  BY <1>1, <1>2, OwnerStep
<1>4. Types'
  BY <1>1 DEF IInv, Types
<1>5. Stored'
  BY DEF IInv, Stored, Registered
<1> QED
  BY <1>1, <1>3, <1>4, <1>5 DEF IInv

(* A process fails.                                                        *)
LEMMA FailKeeps ==
    ASSUME UploadConstants, IInv, NEW p \in Process, Fail(p)
    PROVE  IInv'
<1>1. procs' = [procs EXCEPT ![p] = Away] /\ UNCHANGED <<objects, cleaned, blobs, catalog>>
  BY DEF Fail
<1>2. CASE upload' = upload
  BY <1>1, <1>2, Vanishes, Zenon
<1>3. CASE upload.owner = p /\ upload' = [upload EXCEPT !.owner = Nobody, !.lease = 0]
  <2>1. /\ upload' \in Row /\ upload'.gen = upload.gen /\ upload'.quarantine = upload.quarantine
        /\ upload'.cursor = upload.cursor /\ upload'.status = upload.status
        /\ upload'.cleaned = upload.cleaned
    <3>1. 0 \in 0..LeaseTime
      BY DEF UploadConstants
    <3> QED
      BY <1>3, <3>1, Zenon DEF IInv, Types, Row
  <2>2. ~upload'.cleaned
    BY <1>3, <2>1, OwnerIsSomebody
  <2>3. Dead' = Dead
    BY <2>1 DEF Dead
  <2>4. /\ catalog' => upload'.status = "finalized" /\ \A s \in DataSlots : objects[s] = "acked"
        /\ catalog' \in BOOLEAN
    BY <1>1, <2>1 DEF IInv, Stored, Types
  <2> QED
    BY <1>1, <1>3, <2>1, <2>2, <2>3, <2>4, Releases, Zenon
<1> QED
  BY <1>2, <1>3 DEF Fail, Yield

(* The dataset is published in the catalog.                                *)
LEMMA PublishKeeps ==
    ASSUME UploadConstants, IInv, NEW p \in Process, Publish(p)
    PROVE  IInv'
<1>1. /\ procs' = [procs EXCEPT ![p] = Away] /\ UNCHANGED <<objects, cleaned, blobs>>
      /\ upload' = [upload EXCEPT !.status = "finalized", !.owner = Nobody, !.lease = 0]
      /\ upload.owner = p /\ upload.status = "finalizing" /\ upload.cursor = Batches /\ Ready
      /\ catalog' = TRUE
  BY DEF Publish, Holds
<1>2. /\ upload' \in Row /\ upload'.gen = upload.gen /\ upload'.quarantine = upload.quarantine
      /\ upload'.cursor = upload.cursor /\ upload'.status = "finalized"
      /\ upload'.cleaned = upload.cleaned
  <2>1. 0 \in 0..LeaseTime
    BY DEF UploadConstants
  <2> QED
    BY <1>1, <2>1, Zenon DEF IInv, Types, Row
<1>3. ~upload'.cleaned
  BY <1>1, <1>2, OwnerIsSomebody
<1>4. Dead' = Dead
  BY <1>1, <1>2 DEF Dead
<1>5. \A s \in DataSlots : objects[s] = "acked"
  <2>1. \A s \in DataSlots : s \in 1..Batches \/ s \in {Source, Index, Manifest}
    BY Keys DEF UploadConstants
  <2> QED
    BY <1>1, <2>1 DEF IInv, Stored, Ready
<1> QED
  BY <1>1, <1>2, <1>3, <1>4, <1>5, Releases, Zenon

(* The cleanup is marked complete when every object is marked.             *)
LEMMA FinishCleanupKeeps ==
    ASSUME UploadConstants, IInv, NEW p \in Process, FinishCleanup(p)
    PROVE  IInv'
<1> PICK b : b = (Pending(p) = {})
  OBVIOUS
<1>1. /\ procs' = [procs EXCEPT ![p] = Away] /\ UNCHANGED <<objects, cleaned, blobs, catalog>>
      /\ upload' = [upload EXCEPT !.cleaned = b, !.owner = Nobody, !.lease = 0]
      /\ upload.owner = p /\ Holds(p) /\ procs[p].pc = "clean" /\ On(p) /\ b \in BOOLEAN
  BY DEF FinishCleanup, Holds, At, On
<1>2. /\ upload' \in Row /\ upload'.gen = upload.gen /\ upload'.quarantine = upload.quarantine
      /\ upload'.cursor = upload.cursor /\ upload'.status = upload.status
      /\ upload'.cleaned = b /\ upload'.owner = Nobody
  <2>1. 0 \in 0..LeaseTime
    BY DEF UploadConstants
  <2> QED
    BY <1>1, <2>1, Zenon DEF IInv, Types, Row
<1>3. Dead /\ upload.quarantine = 0
  <2>1. p \in Cleaner
    BY <1>1, HolderFacts DEF Place
  <2> QED
    BY <1>1, <2>1 DEF Holds, UploadConstants
<1>4. b => blobs = {}
  BY <1>1, Zenon DEF IInv, Stored, Pending, At
<1>5. Dead' = Dead
  BY <1>2 DEF Dead
<1>6. /\ catalog' => upload'.status = "finalized" /\ \A s \in DataSlots : objects[s] = "acked"
      /\ catalog' \in BOOLEAN
  BY <1>1, <1>2 DEF IInv, Stored, Types
<1> QED
  BY <1>1, <1>2, <1>3, <1>4, <1>5, <1>6, Releases, Zenon

(* A process crashes; its requests may still be under way.                 *)
LEMMA CrashKeeps ==
    ASSUME UploadConstants, IInv, NEW p \in Process, Crash(p)
    PROVE  IInv'
  BY Vanishes, Zenon DEF Crash

(* begin_dataset_upload takes the lease with a new generation.             *)
LEMMA BeginKeeps ==
    ASSUME UploadConstants, IInv, NEW p \in Process, Begin(p)
    PROVE  IInv'
<1>1. /\ upload.status = "none" /\ UNCHANGED <<objects, cleaned, blobs, catalog, procs>>
      /\ upload' = [upload EXCEPT !.status = "staging"] /\ Types /\ Stored /\ upload \in Row
  BY DEF Begin, IInv, Types
<1>2. /\ upload' \in Row /\ upload'.gen = upload.gen /\ upload'.quarantine = upload.quarantine
      /\ upload'.cursor = upload.cursor /\ upload'.status = "staging"
      /\ upload'.cleaned = upload.cleaned /\ upload'.owner = upload.owner
      /\ upload'.lease = upload.lease
  BY <1>1 DEF Row
<1>3. ~Dead /\ ~Dead' /\ Live'
  BY <1>1, <1>2 DEF Dead, Live
<1>4. Types' /\ Stored' /\ Distinct'
  BY <1>1, <1>2, <1>3 DEF IInv, Types, Stored, Registered, Distinct, On
<1>5. ASSUME NEW q \in Process, On(q)
      PROVE  Good(q)'
  <2>1. Authority(q) /\ Place(q) /\ Unspoilt(q)
    BY <1>5 DEF IInv, Good
  <2>2. Authority(q)'
    BY <1>1, <1>2, <1>3, <2>1 DEF Authority, Covered
  <2>3. Place(q)'
    BY <1>1, <1>2, <1>3, <2>1, PlaceStays
  <2>4. Unspoilt(q)'
    BY <1>1, <1>2, <2>1 DEF Unspoilt, ProbesNow, Writes
  <2> QED
    BY <2>2, <2>3, <2>4 DEF Good
<1> QED
  BY <1>1, <1>4, <1>5 DEF IInv, Good, On

(* A cleaner takes the lease with a new generation, after the quarantine.  *)
LEMMA ClaimKeeps ==
    ASSUME UploadConstants, IInv, NEW p \in Process, Claim(p)
    PROVE  IInv'
<1> PICK g : g = upload.gen + 1
  OBVIOUS
<1> PICK z : z = [Away EXCEPT !.pc = "probe", !.gen = g, !.budget = CleanupLimit]
  OBVIOUS
<1>1. /\ ~On(p) /\ Claimable(p) /\ upload.gen < MaxGeneration /\ Moves(p, z)
      /\ upload' = [upload EXCEPT !.gen = upload.gen + 1, !.owner = p, !.lease = LeaseTime]
      /\ UNCHANGED <<objects, cleaned, blobs, catalog>> /\ Types /\ Stored /\ upload \in Row
  BY DEF Claim, At, On, Moves, IInv, Types
<1>2. upload.gen \in 0..MaxGeneration /\ g \in 0..MaxGeneration /\ g \in 1..g /\ upload.gen < g
  BY <1>1 DEF Row, UploadConstants
<1>3. /\ upload' \in Row /\ upload'.gen = g /\ upload'.quarantine = upload.quarantine
      /\ upload'.cursor = upload.cursor /\ upload'.status = upload.status
      /\ upload'.cleaned = upload.cleaned /\ upload'.owner = p /\ upload'.lease = LeaseTime
  <2>1. LeaseTime \in 0..LeaseTime
    BY DEF UploadConstants
  <2> QED
    BY <1>1, <1>2, <2>1, Zenon DEF Row
<1>4. (Dead' <=> Dead) /\ (Live' <=> Live)
  BY <1>3 DEF Dead, Live
<1>5. z \in Command /\ z.pc = "probe" /\ z.gen = g /\ z.deadline = 0 /\ z.admitted = 0
  BY <1>2, Zenon DEF Away, Command, ConnectPc, UploadConstants
<1>6. /\ procs' \in [Process -> Command] /\ procs'[p] = z
      /\ \A q \in Process : q # p => procs'[q] = procs[q]
  BY <1>1, <1>5, MovesOne
<1>7. ~upload.cleaned
  BY <1>1 DEF Claimable, Stored, Live, Dead
<1>8. Types'
  BY <1>1, <1>3, <1>6 DEF Types
<1>9. Stored'
  <2>1. \A h \in 1..MaxGeneration : objects'[ProbeOf(h)] # "none" => h <= g
    BY <1>1, <1>2 DEF Stored
  <2> QED
    BY <1>1, <1>3, <1>4, <1>7, <2>1 DEF Stored, Registered
<1>10. ASSUME NEW q \in Process, On(q)
       PROVE  procs[q].gen \in 1..upload.gen /\ procs[q].gen # g /\ q # p
  <2>1. procs[q].gen \in 1..upload.gen
    BY <1>10, RunnerFacts DEF Authority
  <2> QED
    BY <1>1, <1>2, <1>10, <2>1
<1>11. Distinct'
  <2> SUFFICES ASSUME NEW a \in Process, NEW b \in Process, On(a)', On(b)',
                      procs'[a].gen = procs'[b].gen
               PROVE  a = b
    BY DEF Distinct
  <2>1. a # p => On(a) /\ procs'[a].gen = procs[a].gen
    BY <1>6 DEF On
  <2>2. b # p => On(b) /\ procs'[b].gen = procs[b].gen
    BY <1>6 DEF On
  <2> QED
    BY <1>5, <1>6, <1>10, <2>1, <2>2, Zenon DEF IInv, Distinct
<1>12. ASSUME NEW q \in Process, On(q)
       PROVE  Good(q)'
  <2>1. /\ Authority(q) /\ Place(q) /\ Unspoilt(q) /\ procs'[q] = procs[q]
        /\ procs[q].gen # g /\ procs[q].gen \in 1..g
        /\ procs[q].deadline \in Nat /\ procs[q].admitted \in Nat
    BY <1>2, <1>6, <1>10, <1>12, RunnerFacts
  <2>2. procs[q].deadline = 0 /\ procs[q].admitted = 0
    BY <1>1, <2>1 DEF Authority, Covered, Claimable, Live, Dead
  <2>3. Authority(q)'
    BY <1>3, <1>4, <2>1, <2>2 DEF Authority, Covered
  <2>4. Place(q)'
    BY <1>1, <1>3, <1>4, <2>1, PlaceStays
  <2>5. Unspoilt(q)'
    BY <1>3, <2>1, <2>2 DEF Unspoilt, ProbesNow, Writes
  <2> QED
    BY <2>3, <2>4, <2>5 DEF Good
<1>13. Good(p)'
  <2>1. Authority(p)'
    BY <1>1, <1>2, <1>3, <1>4, <1>5, <1>6 DEF Authority, Covered, Claimable, UploadConstants
  <2>2. Place(p)'
    BY <1>5, <1>6 DEF Place, UploadPc, MetaPc, GroupPc, EndPc
  <2>3. ProbeOf(g) \notin cleaned
    <3>1. g \in 1..MaxGeneration
      BY <1>2 DEF UploadConstants
    <3>2. ~(g <= upload.gen)
      BY <1>2
    <3> QED
      BY <1>1, <3>1, <3>2 DEF Stored, Registered
  <2>4. Unspoilt(p)'
    BY <1>1, <1>5, <1>6, <2>3 DEF Unspoilt, Writes
  <2> QED
    BY <2>1, <2>2, <2>4 DEF Good
<1> QED
  BY <1>6, <1>8, <1>9, <1>11, <1>12, <1>13 DEF IInv, Good, On

(* An abort or an expiry takes the lease away, and sets the quarantine.    *)
LEMMA RevokeKeeps ==
    ASSUME UploadConstants, IInv, NEW s \in {"aborted", "expired"}, Live,
           upload.gen < MaxGeneration, Revoke(s)
    PROVE  IInv'
<1> PICK g, w : g = upload.gen + 1 /\ w = upload.lease + Quarantine
  OBVIOUS
<1>1. /\ upload' = [upload EXCEPT !.status = s, !.owner = Nobody, !.gen = upload.gen + 1, !.lease = 0,
                                  !.quarantine = w]
      /\ UNCHANGED <<objects, cleaned, blobs, catalog, procs>> /\ Types /\ Stored /\ upload \in Row
  BY DEF Revoke, QuarantineFrom, IInv, Types
<1>2. /\ upload.gen \in 0..MaxGeneration /\ g \in 0..MaxGeneration /\ g \in 1..g /\ upload.gen < g
      /\ upload.lease \in Nat /\ w \in Nat /\ upload.lease <= w /\ w \in 0..(LeaseTime + Quarantine)
  BY <1>1 DEF Row, UploadConstants
<1>3. /\ upload' \in Row /\ upload'.gen = g /\ upload'.quarantine = w
      /\ upload'.cursor = upload.cursor /\ upload'.status = s
      /\ upload'.cleaned = upload.cleaned /\ upload'.lease = 0
  <2>1. 0 \in 0..LeaseTime
    BY DEF UploadConstants
  <2>2. PICK v : v = [upload EXCEPT !.status = s, !.owner = Nobody, !.gen = g]
    OBVIOUS
  <2>3. /\ v \in Row /\ v.gen = g /\ v.cursor = upload.cursor /\ v.status = s
        /\ v.cleaned = upload.cleaned
    BY <1>1, <1>2, <2>2, Zenon DEF Row
  <2>4. upload' = [v EXCEPT !.lease = 0, !.quarantine = w]
    BY <1>1, <2>2
  <2> QED
    BY <1>2, <2>1, <2>3, <2>4, Zenon DEF Row
<1>4. ~Dead /\ Dead'
  BY <1>3 DEF Dead, Live
<1>5. ~upload.cleaned /\ ~catalog
  BY <1>1, <1>4 DEF Stored, Live
<1>6. Types' /\ Distinct'
  BY <1>1, <1>3 DEF IInv, Types, Distinct, On
<1>7. Stored'
  <2>1. \A h \in 1..MaxGeneration : objects'[ProbeOf(h)] # "none" => h <= g
    BY <1>1, <1>2 DEF Stored
  <2> QED
    BY <1>1, <1>3, <1>4, <1>5, <2>1 DEF Stored, Registered
<1>8. ASSUME NEW q \in Process, On(q)
      PROVE  Good(q)'
  <2>1. /\ Authority(q) /\ Place(q) /\ Unspoilt(q) /\ procs' = procs
        /\ procs[q].deadline \in Nat /\ procs[q].admitted \in Nat
    BY <1>1, <1>8, RunnerFacts
  <2>2. procs[q].gen # g /\ procs[q].gen \in 1..g
    BY <1>2, <2>1 DEF Authority
  <2>3. Authority(q)'
    <3>1. ASSUME NEW x \in Nat, Covered(q, x), x > 0 PROVE x <= w
      BY <1>2, <1>4, <3>1, LeqTransitive, Zenon DEF Covered
    <3>2. q \notin Cleaner
      BY <1>4, <2>1, Zenon DEF Authority
    <3>3. /\ procs[q].deadline > 0 => procs[q].deadline <= w
          /\ procs[q].admitted > 0 => procs[q].admitted <= w
      BY <2>1, <3>1, Zenon DEF Authority
    <3> QED
      BY <1>3, <1>4, <2>1, <2>2, <3>2, <3>3, Zenon DEF Authority, Covered
  <2>4. Place(q)'
    BY <1>1, <1>3, <1>4, <2>1, <2>2, PlaceStays
  <2>5. Unspoilt(q)'
    BY <1>1, <1>3, <2>1, <2>2 DEF Unspoilt, ProbesNow, Writes
  <2> QED
    BY <2>3, <2>4, <2>5 DEF Good
<1> QED
  BY <1>1, <1>6, <1>7, <1>8 DEF IInv, Good, On

(* A timer counts down to zero and keeps its order.                        *)
LEMMA DownFacts ==
    ASSUME NEW t \in Nat
    PROVE  /\ Down(t) \in Nat /\ Down(t) <= t /\ (Down(t) > 0 => t > 0)
           /\ \A u \in Nat : t <= u => Down(t) <= Down(u)
  BY DEF Down

(* Time passes for every timer at once.                                    *)
LEMMA TickKeeps ==
    ASSUME UploadConstants, IInv, Tick
    PROVE  IInv'
<1> PICK l, w : l = Down(upload.lease) /\ w = Down(upload.quarantine)
  OBVIOUS
<1>1. /\ UNCHANGED <<objects, cleaned, blobs, catalog>> /\ Types /\ Stored /\ upload \in Row
      /\ upload' = [upload EXCEPT !.lease = l, !.quarantine = w]
      /\ procs' = [p \in Process |-> [procs[p] EXCEPT !.deadline = Down(procs[p].deadline),
                                                      !.admitted = Down(procs[p].admitted)]]
  BY Zenon DEF Tick, IInv, Types
<1>2. /\ upload.lease \in Nat /\ upload.quarantine \in Nat /\ upload.lease <= LeaseTime
      /\ upload.quarantine <= LeaseTime + Quarantine
  <2>1. upload.lease \in 0..LeaseTime /\ upload.quarantine \in 0..(LeaseTime + Quarantine)
    BY <1>1, Zenon DEF Row
  <2> QED
    BY <2>1 DEF UploadConstants
<1>3. l \in 0..LeaseTime /\ w \in 0..(LeaseTime + Quarantine)
  BY <1>2, DownFacts DEF UploadConstants
<1>4. /\ upload' \in Row /\ upload'.gen = upload.gen /\ upload'.quarantine = w
      /\ upload'.cursor = upload.cursor /\ upload'.status = upload.status
      /\ upload'.cleaned = upload.cleaned /\ upload'.lease = l /\ upload'.owner = upload.owner
  BY <1>1, <1>3, Zenon DEF Row
<1>5. (Dead' <=> Dead) /\ (Live' <=> Live) /\ (upload.quarantine = 0 => w = 0)
  BY <1>4 DEF Dead, Live, Down
<1>6. ASSUME NEW q \in Process
      PROVE  /\ procs'[q] \in Command /\ procs'[q].pc = procs[q].pc /\ procs'[q].gen = procs[q].gen
             /\ procs'[q].at = procs[q].at /\ procs'[q].first = procs[q].first
             /\ procs'[q].last = procs[q].last /\ procs'[q].next = procs[q].next
             /\ procs'[q].deadline = Down(procs[q].deadline)
             /\ procs'[q].admitted = Down(procs[q].admitted)
             /\ procs[q].deadline \in Nat /\ procs[q].admitted \in Nat
  <2> PICK m : m = procs[q]
    OBVIOUS
  <2>1. m \in Command /\ m.deadline \in Nat /\ m.admitted \in Nat
    BY <1>1, Zenon DEF Types, Command
  <2>2. Down(m.deadline) \in Nat /\ Down(m.admitted) \in Nat
    BY <2>1, DownFacts
  <2>3. procs'[q] = [m EXCEPT !.deadline = Down(m.deadline), !.admitted = Down(m.admitted)]
    BY <1>1, ZenonT(40)
  <2> QED
    BY <2>1, <2>2, <2>3, ZenonT(40) DEF Command
<1>7. Types'
  <2>1. procs' \in [Process -> Command]
    BY <1>1, <1>6, ZenonT(40)
  <2> QED
    BY <1>1, <1>4, <2>1, ZenonT(40) DEF Types
<1>8. Stored'
  BY <1>1, <1>4, <1>5, Zenon DEF Stored, Registered
<1>9. Distinct'
  BY <1>6 DEF IInv, Distinct, On
<1>10. ASSUME NEW q \in Process, On(q)
       PROVE  Good(q)'
  <2>1. Authority(q) /\ Place(q) /\ Unspoilt(q)
    BY <1>10, RunnerFacts
  <2>2. Place(q)'
    BY <1>1, <1>4, <1>5, <1>6, <2>1, PlaceStays, ZenonT(40)
  <2>3. /\ procs'[q].deadline > 0 => procs[q].deadline > 0
        /\ procs'[q].admitted > 0 => procs[q].admitted > 0
        /\ procs[q].admitted = 0 => procs'[q].admitted = 0
    BY <1>6, DownFacts DEF Down
  <2>4. Unspoilt(q)'
    <3>1. (ProbesNow(q)' => ProbesNow(q)) /\ (Writes(q)' => Writes(q))
      BY <1>4, <1>6, <2>3 DEF ProbesNow, Writes
    <3>2. cleaned' = cleaned /\ procs'[q].gen = procs[q].gen
      BY <1>1, <1>6, Zenon
    <3> QED
      BY <2>1, <3>1, <3>2, ZenonT(40) DEF Unspoilt
  <2>5. ASSUME NEW t \in Nat, Covered(q, t)
        PROVE  /\ Down(t) > 0 => \/ procs[q].gen = upload.gen /\ Down(t) <= l
                                 \/ Dead /\ Down(t) <= w
    BY <1>2, <2>5, DownFacts, Zenon DEF Covered
  <2>6. Covered(q, procs[q].deadline)' /\ Covered(q, procs[q].admitted)'
    BY <1>4, <1>5, <1>6, <2>1, <2>5, Zenon DEF Authority, Covered
  <2>7. Authority(q)'
    BY <1>4, <1>5, <1>6, <2>1, <2>3, <2>6, Zenon DEF Authority
  <2> QED
    BY <2>2, <2>4, <2>7, Zenon DEF Good
<1> QED
  BY <1>6, <1>7, <1>8, <1>9, <1>10, Zenon DEF IInv, Good, On

-----------------------------------------------------------------------------
(* The invariant holds at first.                                           *)
LEMMA InitHolds ==
    ASSUME UploadConstants, Init
    PROVE  IInv
<1>1. /\ upload.status = "none" /\ upload.gen = 0 /\ upload.cursor = 0 /\ ~upload.cleaned
      /\ upload \in Row
  <2>1. 0 \in 0..Batches /\ 0 \in 0..MaxGeneration /\ 0 \in 0..LeaseTime
        /\ 0 \in 0..(LeaseTime + Quarantine)
    BY DEF UploadConstants
  <2> QED
    BY <2>1 DEF Init, Row
<1>2. procs \in [Process -> Command] /\ \A p \in Process : ~On(p)
  BY AwayIsCommand DEF Init, On
<1>3. Types
  BY <1>1, <1>2, Zenon DEF Init, Types
<1>4. /\ \A s \in DataSlots : objects[s] = "none"
      /\ \A g \in 1..MaxGeneration : objects[ProbeOf(g)] = "none"
  BY Keys DEF Init
<1>5. Stored
  BY <1>1, <1>4 DEF Init, Stored
<1> QED
  BY <1>2, <1>3, <1>5 DEF IInv, Distinct, Good

(* Nothing happens.                                                        *)
LEMMA StutterKeeps ==
    ASSUME IInv, UNCHANGED uploadVars
    PROVE  IInv'
<1>1. UNCHANGED <<upload, objects, cleaned, blobs, catalog, procs>>
  BY DEF uploadVars
<1>2. \A q \in Process : Good(q)'
  BY <1>1, Untouched DEF IInv
<1>3. Types' /\ Stored' /\ Distinct'
  BY <1>1 DEF IInv, Types, Stored, Distinct, On, Dead, Registered
<1> QED
  BY <1>1, <1>2, <1>3 DEF IInv

(* Every step keeps the invariant.                                         *)
LEMMA NextKeeps ==
    ASSUME UploadConstants, IInv, [Next]_uploadVars
    PROVE  IInv'
<1>1. ASSUME NEW p \in Process, ConnectStep(p)
      PROVE  IInv'
  BY <1>1, PlanProbeKeeps, PutProbeKeeps, DropProbeKeeps, AckProbeKeeps, RenewToRemoveKeeps,
     RemoveOwnedKeeps, MarkCleanedKeeps, ConnectedKeeps DEF ConnectStep
<1>2. ASSUME NEW p \in Process, UploadStep(p)
      PROVE  IInv'
  BY <1>2, PlanMetaKeeps, PutMetaKeeps, AckMetaKeeps, PlanGroupKeeps, StartFileKeeps,
     SendFileKeeps, CheckpointKeeps, FinalizeKeeps, VerifyBatchKeeps, PublishKeeps DEF UploadStep
<1>3. ASSUME NEW p \in Process, Begin(p) \/ Claim(p) \/ FinishCleanup(p) \/ Fail(p) \/ Crash(p)
      PROVE  IInv'
  BY <1>3, BeginKeeps, ClaimKeeps, FinishCleanupKeeps, FailKeeps, CrashKeeps
<1>4. CASE Abort \/ Expire
  BY <1>4, RevokeKeeps DEF Abort, Expire
<1>5. CASE Tick
  BY <1>5, TickKeeps
<1>6. CASE UNCHANGED uploadVars
  BY <1>6, StutterKeeps
<1> QED
  BY <1>1, <1>2, <1>3, <1>4, <1>5, <1>6 DEF Next, Step

(* The rows of an upload keep their types: the generation is bounded, and  *)
(* the quarantine never exceeds a lease and a request deadline.            *)
THEOREM UploadTypes ==
    ASSUME UploadConstants
    PROVE  Spec => []TypeOK
<1>1. Init => IInv
  BY InitHolds
<1>2. IInv /\ [Next]_uploadVars => IInv'
  BY NextKeeps
<1>3. IInv => TypeOK
  <2> SUFFICES ASSUME IInv
               PROVE  TypeOK
    OBVIOUS
  <2>1. upload \in Row /\ Types
    BY DEF IInv, Types
  <2> QED
    BY <2>1 DEF TypeOK, Types, Row
<1> QED
  BY <1>1, <1>2, <1>3, PTL DEF Spec

(* An object-store request whose deadline is still open belongs to the     *)
(* current generation, or to an upload whose quarantine still runs: the    *)
(* budget minted before guard() never outlives the lease guard() renewed.  *)
THEOREM RequestsEndWithTheLease ==
    ASSUME UploadConstants
    PROVE  Spec => []NoStaleWrite
<1>1. Init => IInv
  BY InitHolds
<1>2. IInv /\ [Next]_uploadVars => IInv'
  BY NextKeeps
<1>3. IInv => NoStaleWrite
  <2> SUFFICES ASSUME IInv, NEW p \in Process, Requesting(p), procs[p].deadline > 0
               PROVE  upload.gen = procs[p].gen \/ (Dead /\ upload.quarantine > 0)
    BY DEF NoStaleWrite
  <2>1. On(p)
    BY DEF Requesting, On
  <2>2. Authority(p) /\ procs[p].deadline \in Nat /\ upload \in Row
    BY <2>1, RunnerFacts
  <2>3. upload.quarantine \in Nat
    BY <2>2 DEF Row, UploadConstants
  <2> QED
    BY <2>2, <2>3 DEF Authority, Covered
<1> QED
  BY <1>1, <1>2, <1>3, PTL DEF Spec

(* What acknowledge() and batches::acknowledge record is in the bucket     *)
(* until the upload is aborted or expires, and a published dataset has     *)
(* every object of its catalog entry.                                      *)
THEOREM AcknowledgedObjectsAreStored ==
    ASSUME UploadConstants
    PROVE  Spec => []AcknowledgedIsStored
<1>1. Init => IInv
  BY InitHolds
<1>2. IInv /\ [Next]_uploadVars => IInv'
  BY NextKeeps
<1>3. IInv => AcknowledgedIsStored
  BY DEF AcknowledgedIsStored, IInv, Stored, Live, Dead
<1> QED
  BY <1>1, <1>2, <1>3, PTL DEF Spec

(* Once finish_cleanup reports completion, no object of the upload is in   *)
(* the bucket, and no delayed request brings one back.                     *)
THEOREM CompletedCleanupIsFinal ==
    ASSUME UploadConstants
    PROVE  Spec => []CleanedIsGone
<1>1. Init => IInv
  BY InitHolds
<1>2. IInv /\ [Next]_uploadVars => IInv'
  BY NextKeeps
<1>3. IInv => CleanedIsGone
  BY DEF CleanedIsGone, IInv, Stored
<1> QED
  BY <1>1, <1>2, <1>3, PTL DEF Spec
=============================================================================
