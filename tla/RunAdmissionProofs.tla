------------------------- MODULE RunAdmissionProofs -------------------------
(***************************************************************************)
(* RunAdmission for every number of creators, coordinators, databases,     *)
(* files and pages: a published plan is whole, an activated run is seeded  *)
(* everywhere, a cancelled one leaves no work behind, and whoever decides  *)
(* the run first decides it.                                               *)
(***************************************************************************)
EXTENDS RunAdmission, FiniteSetTheorems, TLAPS

(* The provers a leaf that names none is given to, in this order.          *)
USE SMT, Zenon, Z3

(* The sizes of the plan and of a group of files are numbers, and so is    *)
(* the bound on claims.                                                    *)
AdmissionConstants ==
    /\ Files \in Nat
    /\ Pages \in Nat
    /\ Group \in Nat
    /\ MaxGeneration \in Nat

-----------------------------------------------------------------------------
At == {"idle", "claim", "probe", "connect", "files", "put", "admit", "load",
       "seed", "verify", "fail", "release"}

ProcRow == [at : At, generation : Nat, first : Nat, end : Nat, cursor : Nat,
            state : Nat, seeded : Nat, left : SUBSET Alias]

RunRow == [status : {"none", "creating", "pending", "failed", "cancelled"},
           owner : Nat, live : BOOLEAN]

PlanRow == [status : {"none", "preparing", "ready"}, generation : Nat,
            requested : BOOLEAN, chunks : Nat, admitted : Nat, state : Nat]

LocalRow == [admission : {"none", "open", "closed"},
             run : {"none", "pending", "cancelled"},
             chunks : [Page -> {"none", "pending", "dispatched", "cancelled"}]]

CancelRow == [at : {"idle", "clean", "done"}, left : SUBSET Alias]

TypeInv ==
    /\ run \in RunRow
    /\ plan \in PlanRow
    /\ objects \in [File -> {"none", "planned", "acked"}]
    /\ blobs \subseteq File
    /\ local \in [Alias -> LocalRow]
    /\ routes \in BOOLEAN
    /\ cancel \in CancelRow

(* The plan follows the run: it begins with it, its counters stay within   *)
(* the limits, pages are admitted only of a published plan, and what was   *)
(* published was acknowledged, hence stored.                               *)
PlanInv ==
    /\ run.status = "none" => plan.status = "none"
    /\ plan.status = "ready" =>
         plan.chunks = Pages /\ \A f \in File : objects[f] = "acked"
    /\ plan.status # "ready" => plan.admitted = 0
    /\ plan.chunks <= Pages
    /\ plan.admitted <= Pages
    /\ run.owner <= plan.generation
    /\ plan.generation <= MaxGeneration
    /\ \A f \in File : objects[f] = "acked" => f \in blobs

(* A database has chunks of the run only when the plan is published, and   *)
(* has the run when its admission is open.                                 *)
LocalInv ==
    /\ \A a \in Alias :
         /\ plan.status # "ready" => \A g \in Page : local[a].chunks[g] = "none"
         /\ local[a].admission = "open" /\ a # Control => local[a].run # "none"
         /\ routes => local[a].admission # "none"
    /\ ActivatedIsSeeded

(* A database that the cancel command cleaned has no work and accepts none.*)
Shut(a) ==
    /\ \A g \in Page : local[a].chunks[g] \notin {"pending", "dispatched"}
    /\ \/ plan.status # "ready"
       \/ local[a].admission = "closed"
       \/ local[a].run = "cancelled"
       \/ a = Control

CancelInv ==
    /\ cancel.at # "idle" =>
         /\ run.status = "cancelled"
         /\ \A a \in Alias \ cancel.left : Shut(a)
    /\ cancel.at = "done" => cancel.left = {}

(* What a process knows in row x is true: the files it has put since its   *)
(* last checkpoint are stored, it admits only a published plan, and what   *)
(* it has verified holds as long as the run is being created.              *)
ProcOf(x) ==
    /\ x.first >= 1
    /\ x.at = "put" =>
         /\ x.first <= x.end
         /\ \A f \in File : x.first <= f /\ f < x.end => f \in blobs
    /\ x.at \in {"load", "seed", "verify"} => plan.status = "ready"
    /\ x.at = "seed" => x.cursor < Pages
    /\ x.at = "verify" /\ run.status = "creating" =>
         \A a \in Alias \ x.left : Exact(a)

ProcInv ==
    /\ procs \in [Process -> ProcRow]
    /\ \A p \in Process : ProcOf(procs[p])

Base == TypeInv /\ PlanInv /\ LocalInv /\ CancelInv
IInv == Base /\ ProcInv

-----------------------------------------------------------------------------
(* The invariant holds at first.                                           *)
LEMMA InitInv == ASSUME AdmissionConstants PROVE Init => IInv
<1> SUFFICES ASSUME Init PROVE IInv
  OBVIOUS
<1> USE DEF AdmissionConstants, Init
<1>1. TypeInv
  BY Zenon DEF TypeInv, RunRow, PlanRow, LocalRow, CancelRow
<1>2. PlanInv
  BY DEF PlanInv
<1>3. LocalInv
  BY DEF LocalInv, ActivatedIsSeeded
<1>4. CancelInv
  BY DEF CancelInv
<1>5. ProcInv
  BY DEF ProcInv, ProcOf, ProcRow, At, Idle
<1> QED
  BY <1>1, <1>2, <1>3, <1>4, <1>5 DEF IInv, Base

(* The row a process has when it is idle is unobjectionable.               *)
LEMMA IdleRow == Idle \in ProcRow /\ ProcOf(Idle) /\ ProcOf(Idle)'
  BY DEF Idle, ProcRow, At, ProcOf

(* A step that gives one process a new row and falsifies no other row      *)
(* keeps what the processes know.                                          *)
LEMMA ProcStep ==
    ASSUME ProcInv, NEW p \in Process, NEW x \in ProcRow,
           procs' = [procs EXCEPT ![p] = x], ProcOf(x)',
           \A y \in ProcRow : ProcOf(y) => ProcOf(y)'
    PROVE  ProcInv'
<1>1. procs' \in [Process -> ProcRow]
  BY DEF ProcInv
<1>2. ASSUME NEW q \in Process PROVE ProcOf(procs[q])'
  <2>1. CASE q = p
    <3>1. procs'[q] = x
      BY <2>1 DEF ProcInv
    <3> QED
      BY <3>1 DEF ProcOf
  <2>2. CASE q # p
    <3>1. procs'[q] = procs[q] /\ procs[q] \in ProcRow /\ ProcOf(procs[q])
      BY <2>2 DEF ProcInv
    <3> DEFINE y == procs[q]
    <3>2. PICK z \in ProcRow : z = procs[q]
      BY <3>1
    <3>3. ProcOf(z)'
      BY <3>1, <3>2
    <3> QED
      BY <3>1, <3>2, <3>3 DEF ProcOf
  <2> QED
    BY <2>1, <2>2
<1> QED
  BY <1>1, <1>2 DEF ProcInv

(* A row stays true when files are added, the plan stays published and     *)
(* what was seeded of a run in creation stays seeded.                      *)
LEMMA RowsStay ==
    ASSUME Base, NEW y \in ProcRow, ProcOf(y),
           blobs \subseteq blobs',
           plan.status = "ready" => plan'.status = "ready",
           run'.status = "creating" => run.status \in {"none", "creating"},
           run.status = "creating" /\ run'.status = "creating" =>
             \A a \in Alias : Exact(a) => Exact(a)'
    PROVE  ProcOf(y)'
<1>1. CASE y.at = "verify" /\ run'.status = "creating"
  <2>1. plan.status = "ready"
    BY <1>1 DEF ProcOf
  <2>2. run.status = "creating"
    BY <1>1, <2>1 DEF Base, PlanInv
  <2> QED
    BY <1>1, <2>1, <2>2 DEF ProcOf
<1>2. CASE ~(y.at = "verify" /\ run'.status = "creating")
  BY <1>2 DEF ProcOf
<1> QED
  BY <1>1, <1>2

(* A step of a process that changes its own row only.                      *)
LEMMA OwnRow ==
    ASSUME IInv, NEW p \in Process, NEW x \in ProcRow, ProcOf(x),
           procs' = [procs EXCEPT ![p] = x],
           UNCHANGED <<run, plan, objects, blobs, local, routes, cancel>>
    PROVE  IInv'
<1>1. Base'
  BY DEF IInv, Base, TypeInv, PlanInv, LocalInv, ActivatedIsSeeded, CancelInv, Shut
<1>2. \A y \in ProcRow : ProcOf(y) => ProcOf(y)'
  BY DEF ProcOf, Exact
<1>3. ProcInv'
  BY <1>2, ProcStep, Zenon DEF IInv
<1> QED
  BY <1>1, <1>3 DEF IInv

(* To go to a step that assumes nothing is such a step.                    *)
LEMMA Leaves ==
    ASSUME IInv, NEW p \in Process,
           NEW at \in {"idle", "claim", "probe", "connect", "files", "admit", "fail", "release"},
           Goto(p, at),
           UNCHANGED <<run, plan, objects, blobs, local, routes, cancel>>
    PROVE  IInv'
<1> DEFINE x == [procs[p] EXCEPT !.at = at]
<1>1. procs[p] \in ProcRow /\ ProcOf(procs[p])
  BY DEF IInv, ProcInv
<1>2. PICK z \in ProcRow : z = x
  BY <1>1, Zenon DEF ProcRow, At
<1>3. procs' = [procs EXCEPT ![p] = z]
  BY <1>2 DEF Goto, IInv, ProcInv
<1>4. z.at = at /\ z.first = procs[p].first
  BY <1>1, <1>2 DEF ProcRow
<1>5. ProcOf(z)
  BY <1>1, <1>4 DEF ProcOf
<1> QED
  BY <1>3, <1>5, OwnRow, Zenon

-----------------------------------------------------------------------------
(* The preparation of the plan.                                            *)

(* A process begins to build the plan of a new run.                        *)
LEMMA BeginInv ==
    ASSUME IInv, NEW p \in Process, NEW execute \in BOOLEAN, Begin(p, execute)
    PROVE  IInv'
<1> DEFINE to == IF plan.status # "ready" THEN "claim"
                 ELSE IF execute /\ run.status = "creating" THEN "admit" ELSE "idle"
<1>1. procs[p] = Idle
  BY DEF Begin
<1>2. PICK z \in ProcRow : z = [Idle EXCEPT !.at = to]
  BY IdleRow, Zenon DEF ProcRow, At
<1>3. procs' = [procs EXCEPT ![p] = z]
  BY <1>1, <1>2 DEF Begin, Goto, IInv, ProcInv
<1>4. z.first = 1 /\ z.at = to
  BY <1>2 DEF Idle
<1>5. /\ run \in RunRow /\ plan \in PlanRow
      /\ run.status = "none" => plan.status = "none"
  BY DEF IInv, Base, TypeInv, PlanInv
<1>6. /\ run' \in RunRow /\ plan' \in PlanRow
      /\ run'.owner = run.owner
      /\ run'.status = IF run.status = "none" THEN "creating" ELSE run.status
      /\ plan'.status = IF run.status = "none" THEN "preparing" ELSE plan.status
      /\ plan'.generation = plan.generation
      /\ plan'.chunks = plan.chunks /\ plan'.admitted = plan.admitted
  BY <1>5, Zenon DEF Begin, RunRow, PlanRow
<1>7. UNCHANGED <<objects, blobs, local, routes, cancel>>
  BY DEF Begin
<1>8. TypeInv'
  BY <1>6, <1>7 DEF IInv, Base, TypeInv
<1>9. PlanInv'
  BY <1>5, <1>6, <1>7 DEF IInv, Base, PlanInv, RunRow
<1>10. LocalInv'
  BY <1>5, <1>6, <1>7 DEF IInv, Base, LocalInv, ActivatedIsSeeded
<1>11. CancelInv'
  BY <1>5, <1>6, <1>7 DEF IInv, Base, CancelInv, Shut
<1>12. \A y \in ProcRow : ProcOf(y) => ProcOf(y)'
  BY <1>5, <1>6, <1>7, RowsStay DEF IInv, Exact
<1>13. ProcOf(z)'
  BY <1>4 DEF ProcOf
<1> QED
  BY <1>3, <1>8, <1>9, <1>10, <1>11, <1>12, <1>13, ProcStep, Zenon DEF IInv, Base

(* A claim gives the lease to a new generation, or ends the process.       *)
LEMMA ClaimInv ==
    ASSUME AdmissionConstants, IInv, NEW p \in Process,
           NEW status \in {"preparing", "ready"}, NEW at \in {"probe", "load"},
           at = "load" => status = "ready",
           Claim(p, status, at),
           UNCHANGED <<objects, blobs, local, routes, cancel>>
    PROVE  IInv'
<1>0. run \in RunRow /\ plan \in PlanRow
  BY DEF IInv, Base, TypeInv
<1>1. CASE run.status = "creating" /\ Free /\ plan.status = status
  <2>0. PICK n \in Nat : n = plan.generation + 1
    BY <1>0 DEF PlanRow
  <2>1. PICK z \in ProcRow : z = [Idle EXCEPT !.at = at, !.generation = n]
    BY IdleRow, Zenon DEF ProcRow, At
  <2>2. procs' = [procs EXCEPT ![p] = z]
    BY <1>1, <2>0, <2>1 DEF Claim
  <2>3. z.first = 1 /\ z.at = at
    BY <2>1 DEF Idle
  <2>a. /\ run' = [run EXCEPT !.owner = n, !.live = TRUE]
        /\ plan' = [plan EXCEPT !.generation = n]
        /\ n <= MaxGeneration
    BY <1>0, <1>1, <2>0 DEF Claim, PlanRow, AdmissionConstants
  <2>4. /\ run' \in RunRow /\ plan' \in PlanRow
        /\ run'.owner = plan'.generation
        /\ run'.status = run.status
        /\ plan'.status = plan.status
        /\ plan'.generation <= MaxGeneration
        /\ plan'.chunks = plan.chunks /\ plan'.admitted = plan.admitted
    BY <1>0, <2>a, Zenon DEF RunRow, PlanRow
  <2>5. TypeInv'
    BY <2>4 DEF IInv, Base, TypeInv
  <2>6. PlanInv'
    BY <2>4 DEF IInv, Base, PlanInv, PlanRow
  <2>7. LocalInv'
    BY <2>4 DEF IInv, Base, LocalInv, ActivatedIsSeeded
  <2>8. CancelInv'
    BY <2>4 DEF IInv, Base, CancelInv, Shut
  <2>9. \A y \in ProcRow : ProcOf(y) => ProcOf(y)'
    BY <2>4, RowsStay DEF IInv, Exact
  <2>10. ProcOf(z)'
    BY <1>1, <2>3, <2>4 DEF ProcOf
  <2> QED
    BY <2>2, <2>5, <2>6, <2>7, <2>8, <2>9, <2>10, ProcStep, Zenon DEF IInv, Base
<1>2. CASE ~(run.status = "creating" /\ Free /\ plan.status = status)
  BY <1>2, IdleRow, OwnRow DEF Claim, Ends
<1> QED
  BY <1>1, <1>2

(* The probe is registered before it is put.                               *)
LEMMA RegisterProbeInv ==
    ASSUME IInv, NEW p \in Process, RegisterProbe(p) PROVE IInv'
  BY Leaves DEF RegisterProbe, Guarded

(* The storage is probed.                                                  *)
LEMMA ConnectInv ==
    ASSUME IInv, NEW p \in Process, Connect(p) PROVE IInv'
  BY Leaves DEF Connect, Guarded

(* The files of the plan are registered before they are put.               *)
LEMMA RegisterFilesInv ==
    ASSUME IInv, NEW p \in Process, RegisterFiles(p) PROVE IInv'
<1>1. CASE Holds(p, "preparing")
  <2>0. procs[p] \in ProcRow /\ ProcOf(procs[p])
    BY DEF IInv, ProcInv
  <2>1. PICK z \in ProcRow :
           z = [procs[p] EXCEPT !.at = "put", !.end = procs[p].first]
    BY <2>0, Zenon DEF ProcRow, At
  <2>2. procs' = [procs EXCEPT ![p] = z]
    BY <1>1, <2>1, Zenon DEF RegisterFiles, Guarded, IInv, ProcInv
  <2>3. z.first = procs[p].first /\ z.at = "put" /\ z.end = procs[p].first
    BY <2>0, <2>1 DEF ProcRow
  <2>4. /\ UNCHANGED <<run, plan, blobs, local, routes, cancel>>
        /\ plan.status = "preparing"
    BY <1>1 DEF RegisterFiles, Guarded, Holds
  <2>5. /\ objects' \in [File -> {"none", "planned", "acked"}]
        /\ \A f \in File : objects'[f] = "acked" => objects[f] = "acked"
    BY <1>1 DEF RegisterFiles, Guarded, IInv, Base, TypeInv
  <2>6. TypeInv'
    BY <2>4, <2>5 DEF IInv, Base, TypeInv
  <2>7. PlanInv'
    BY <2>4, <2>5 DEF IInv, Base, PlanInv
  <2>8. LocalInv' /\ CancelInv'
    BY <2>4 DEF IInv, Base, LocalInv, ActivatedIsSeeded, CancelInv, Shut
  <2>9. \A y \in ProcRow : ProcOf(y) => ProcOf(y)'
    BY <2>4, RowsStay DEF IInv, Exact
  <2>10. ProcOf(z)'
    BY <2>0, <2>3 DEF ProcOf, File, ProcRow
  <2> QED
    BY <2>2, <2>6, <2>7, <2>8, <2>9, <2>10, ProcStep, Zenon DEF IInv, Base
<1>2. CASE ~Holds(p, "preparing")
  BY <1>2, Leaves DEF RegisterFiles, Guarded
<1> QED
  BY <1>1, <1>2

(* A file of the plan is put.                                              *)
LEMMA PutFileInv ==
    ASSUME AdmissionConstants, IInv, NEW p \in Process, PutFile(p) PROVE IInv'
<1>0. procs[p] \in ProcRow /\ ProcOf(procs[p]) /\ procs[p].at = "put"
  BY DEF IInv, ProcInv, PutFile
<1>1. CASE objects[procs[p].end] # "acked" \/ procs[p].end \in blobs
  <2>0. PICK n \in Nat : n = procs[p].end + 1
    BY <1>0 DEF ProcRow
  <2>1. PICK z \in ProcRow : z = [procs[p] EXCEPT !.end = n]
    BY <1>0, Zenon DEF ProcRow
  <2>2. procs' = [procs EXCEPT ![p] = z] /\ blobs' = blobs \cup {procs[p].end}
    BY <1>1, <2>0, <2>1 DEF PutFile, IInv, ProcInv
  <2>3. /\ z.first = procs[p].first /\ z.at = "put" /\ z.end = procs[p].end + 1
        /\ z.first \in Nat /\ procs[p].end \in Nat
    BY <1>0, <2>0, <2>1 DEF ProcRow
  <2>4. UNCHANGED <<run, plan, objects, local, routes, cancel>>
    BY <1>1 DEF PutFile
  <2>5. procs[p].end \in File
    <3>1. 1 <= procs[p].first /\ procs[p].first <= procs[p].end
      BY <1>0 DEF ProcOf
    <3>2. procs[p].end <= Files
      BY <2>3 DEF PutFile, Last, AdmissionConstants
    <3> QED
      BY <2>3, <3>1, <3>2 DEF File, AdmissionConstants
  <2>6. TypeInv'
    BY <2>2, <2>4, <2>5 DEF IInv, Base, TypeInv
  <2>7. PlanInv'
    BY <2>2, <2>4 DEF IInv, Base, PlanInv
  <2>8. LocalInv' /\ CancelInv'
    BY <2>4 DEF IInv, Base, LocalInv, ActivatedIsSeeded, CancelInv, Shut
  <2>9. \A y \in ProcRow : ProcOf(y) => ProcOf(y)'
    BY <2>2, <2>4, RowsStay DEF IInv, Exact
  <2>10. ProcOf(z)'
    BY <1>0, <2>2, <2>3 DEF ProcOf, File, AdmissionConstants
  <2> QED
    BY <2>2, <2>6, <2>7, <2>8, <2>9, <2>10, ProcStep, Zenon DEF IInv, Base
<1>2. CASE ~(objects[procs[p].end] # "acked" \/ procs[p].end \in blobs)
  BY <1>2, Leaves DEF PutFile
<1> QED
  BY <1>1, <1>2

(* There are at most as many acknowledged pages as pages.                  *)
LEMMA CountPages ==
    ASSUME AdmissionConstants, NEW S \in SUBSET Page
    PROVE  Cardinality(S) \in Nat /\ Cardinality(S) <= Pages
<1>1. IsFiniteSet(Page) /\ Cardinality(Page) <= Pages
  BY FS_Interval DEF Page, AdmissionConstants
<1>2. IsFiniteSet(S) /\ Cardinality(S) <= Cardinality(Page)
  BY <1>1, FS_Subset
<1>3. Cardinality(S) \in Nat /\ Cardinality(Page) \in Nat
  BY <1>1, <1>2, FS_CardinalityType
<1> QED
  BY <1>1, <1>2, <1>3 DEF AdmissionConstants

(* A file is acknowledged.                                                 *)
LEMMA AcknowledgeInv ==
    ASSUME AdmissionConstants, IInv, NEW p \in Process, Acknowledge(p) PROVE IInv'
<1> DEFINE S == procs[p].first .. Checkpoint(p) - 1
<1>0. procs[p] \in ProcRow /\ ProcOf(procs[p]) /\ procs[p].at = "put"
  BY DEF IInv, ProcInv, Acknowledge
<1>1. CASE Holds(p, "preparing") /\ Contiguous(S)
  <2>1. PICK z \in ProcRow :
           z = [procs[p] EXCEPT !.at = "files", !.first = procs[p].end]
    BY <1>0, Zenon DEF ProcRow, At
  <2>2. procs' = [procs EXCEPT ![p] = z]
    BY <1>1, <2>1, Zenon DEF Acknowledge, Guarded, Checkpoint, IInv, ProcInv
  <2>3. /\ z.first = procs[p].end /\ z.at = "files"
        /\ procs[p].first \in Nat /\ procs[p].end \in Nat
    BY <1>0, <2>1 DEF ProcRow
  <2>4. UNCHANGED <<run, blobs, local, routes, cancel>> /\ plan.status = "preparing"
    BY <1>1 DEF Acknowledge, Guarded, Holds
  <2>5. objects' = [f \in File |-> IF f \in S THEN "acked" ELSE objects[f]]
    BY <1>1 DEF Acknowledge, Guarded
  <2>6. \A f \in File : objects'[f] = "acked" => f \in blobs
    BY <1>0, <2>3, <2>5
       DEF ProcOf, IInv, Base, PlanInv, Checkpoint, File, AdmissionConstants
  <2>7. PICK n \in Nat : n <= Pages /\ plan' = [plan EXCEPT !.chunks = n]
    <3>1. plan' = [plan EXCEPT !.chunks =
                     Cardinality({f \in Page : objects'[f] = "acked"})]
      BY <1>1 DEF Acknowledge, Guarded
    <3> QED
      BY <3>1, CountPages, Zenon
  <2>8. plan \in PlanRow
    BY DEF IInv, Base, TypeInv
  <2>9. /\ plan' \in PlanRow /\ plan'.chunks = n
        /\ plan'.status = plan.status /\ plan'.admitted = plan.admitted
        /\ plan'.generation = plan.generation
    BY <2>7, <2>8 DEF PlanRow
  <2>10. TypeInv'
    BY <2>4, <2>5, <2>9 DEF IInv, Base, TypeInv
  <2>11. PlanInv'
    BY <2>4, <2>6, <2>7, <2>9 DEF IInv, Base, PlanInv
  <2>12. LocalInv' /\ CancelInv'
    BY <2>4, <2>9 DEF IInv, Base, LocalInv, ActivatedIsSeeded, CancelInv, Shut
  <2>13. \A y \in ProcRow : ProcOf(y) => ProcOf(y)'
    BY <2>4, <2>9, RowsStay DEF IInv, Exact
  <2>14. ProcOf(z)'
    BY <1>0, <2>3 DEF ProcOf
  <2> QED
    BY <2>2, <2>10, <2>11, <2>12, <2>13, <2>14, ProcStep, Zenon DEF IInv, Base
<1>2. CASE ~(Holds(p, "preparing") /\ Contiguous(S))
  BY <1>2, Leaves DEF Acknowledge, Guarded
<1> QED
  BY <1>1, <1>2

(* The plan is published when all its files are acknowledged.              *)
LEMMA PublishInv ==
    ASSUME IInv, NEW p \in Process, Publish(p) PROVE IInv'
<1>1. CASE Holds(p, "preparing") /\ Covers
  <2> DEFINE to == IF plan.requested THEN "admit" ELSE "idle"
  <2>1. PICK z \in ProcRow : z = [Idle EXCEPT !.at = to]
    BY IdleRow, Zenon DEF ProcRow, At
  <2>2. /\ procs' = [procs EXCEPT ![p] = z]
        /\ plan' = [plan EXCEPT !.status = "ready"]
        /\ run' = [run EXCEPT !.owner = 0, !.live = FALSE]
        /\ UNCHANGED <<objects, blobs, local, routes, cancel>>
    BY <1>1, <2>1 DEF Publish, Guarded
  <2>3. z.first = 1 /\ z.at = to
    BY <2>1 DEF Idle
  <2>4. run \in RunRow /\ plan \in PlanRow /\ run.status = "creating"
    BY <1>1 DEF IInv, Base, TypeInv, Holds
  <2>5. /\ run' \in RunRow /\ run'.status = "creating" /\ run'.owner = 0
        /\ plan' \in PlanRow /\ plan'.status = "ready"
        /\ plan'.chunks = plan.chunks /\ plan'.admitted = plan.admitted
        /\ plan'.generation = plan.generation
    BY <2>2, <2>4, Zenon DEF RunRow, PlanRow
  <2>6. TypeInv'
    BY <2>2, <2>5 DEF IInv, Base, TypeInv
  <2>7. PlanInv'
    BY <1>1, <2>2, <2>5 DEF IInv, Base, PlanInv, Covers, PlanRow
  <2>8. LocalInv'
    BY <2>2, <2>5 DEF IInv, Base, LocalInv, ActivatedIsSeeded
  <2>9. CancelInv'
    BY <2>2, <2>4 DEF IInv, Base, CancelInv
  <2>10. \A y \in ProcRow : ProcOf(y) => ProcOf(y)'
    BY <2>2, <2>4, <2>5, RowsStay DEF IInv, Exact
  <2>11. ProcOf(z)'
    BY <2>3 DEF ProcOf
  <2> QED
    BY <2>2, <2>6, <2>7, <2>8, <2>9, <2>10, <2>11, ProcStep, Zenon DEF IInv, Base
<1>2. CASE ~(Holds(p, "preparing") /\ Covers)
  BY <1>2, Leaves DEF Publish, Guarded
<1> QED
  BY <1>1, <1>2

-----------------------------------------------------------------------------
(* The admission of the published plan.                                    *)

(* A coordinator takes over a plan whose lease ended.                      *)
LEMMA RecoverInv ==
    ASSUME IInv, NEW p \in Process, Recover(p) PROVE IInv'
  BY Leaves DEF Recover

(* The published plan is read.                                             *)
LEMMA LoadInv ==
    ASSUME AdmissionConstants, IInv, NEW p \in Process, Load(p) PROVE IInv'
<1> DEFINE to == IF plan.admitted < Pages THEN "seed" ELSE "verify"
<1>0. procs[p] \in ProcRow /\ ProcOf(procs[p]) /\ procs[p].at = "load" /\ plan \in PlanRow
  BY DEF IInv, Base, TypeInv, ProcInv, Load
<1>1. PICK z \in ProcRow :
         z = [procs[p] EXCEPT !.cursor = plan.admitted, !.state = plan.state,
                              !.at = to, !.left = Alias]
  BY <1>0, Zenon DEF ProcRow, At, PlanRow
<1>2. procs' = [procs EXCEPT ![p] = z]
  BY <1>1, Zenon DEF Load, IInv, ProcInv
<1>3. /\ z.first = procs[p].first /\ z.cursor = plan.admitted
      /\ z.at = to /\ z.left = Alias
  BY <1>0, <1>1 DEF ProcRow
<1>4. ProcOf(z)
  BY <1>0, <1>3 DEF ProcOf
<1> QED
  BY <1>2, <1>4, OwnRow, Zenon DEF Load

(* The plan cannot be opened.                                              *)
LEMMA OpenFailsInv ==
    ASSUME IInv, NEW p \in Process, OpenFails(p) PROVE IInv'
  BY Leaves DEF OpenFails

(* A page of chunks is inserted into the database of its shard.            *)
LEMMA SeedInv ==
    ASSUME AdmissionConstants, IInv, NEW p \in Process, NEW a \in Alias, Seed(p, a)
    PROVE  IInv'
<1>0. /\ procs[p] \in ProcRow /\ ProcOf(procs[p]) /\ procs[p].at = "seed"
      /\ local[a] \in LocalRow
  BY DEF IInv, Base, TypeInv, ProcInv, Seed
<1>1. PICK page \in Page : page = procs[p].cursor + 1
  BY <1>0 DEF ProcOf, ProcRow, Page, AdmissionConstants
<1>2. plan.status = "ready"
  BY <1>0 DEF ProcOf
<1>3. CASE MaySeed(a, page)
  <2> DEFINE row == [admission |-> "open",
                     run |-> IF a = Control THEN "none" ELSE "pending",
                     chunks |-> [local[a].chunks EXCEPT ![page] = "pending"]]
  <2>1. local' = [local EXCEPT ![a] = row]
    BY <1>1, <1>3 DEF Seed
  <2>2. row \in LocalRow
    BY <1>0 DEF LocalRow
  <2>3. PICK z \in ProcRow : z = [procs[p] EXCEPT !.left = procs[p].left \ {a}]
    BY <1>0, Zenon DEF ProcRow
  <2>4. procs' = [procs EXCEPT ![p] = z]
    BY <1>1, <1>3, <2>3 DEF Seed, IInv, ProcInv
  <2>5. z.first = procs[p].first /\ z.at = "seed" /\ z.cursor = procs[p].cursor
    BY <1>0, <2>3 DEF ProcRow
  <2>6. UNCHANGED <<run, plan, objects, blobs, routes, cancel>>
    BY DEF Seed
  <2>7. /\ local'[a].admission = "open"
        /\ a # Control => local'[a].run = "pending"
        /\ \A g \in Page : local'[a].chunks[g] = IF g = page THEN "pending"
                                                 ELSE local[a].chunks[g]
        /\ \A b \in Alias \ {a} : local'[b] = local[b]
    BY <1>0, <2>1 DEF IInv, Base, TypeInv, LocalRow
  <2>8. TypeInv'
    BY <2>1, <2>2, <2>6 DEF IInv, Base, TypeInv
  <2>9. PlanInv'
    BY <2>6 DEF IInv, Base, PlanInv
  <2>10. LocalInv'
    <3>1. ASSUME NEW b \in Alias
          PROVE  /\ local'[b].admission = "open" /\ b # Control => local'[b].run # "none"
                 /\ routes => local'[b].admission # "none"
      BY <2>7 DEF IInv, Base, LocalInv
    <3>2. ActivatedIsSeeded'
      BY <2>6, <2>7 DEF IInv, Base, LocalInv, ActivatedIsSeeded
    <3> QED
      BY <1>2, <2>6, <3>1, <3>2 DEF LocalInv
  <2>11. CancelInv'
    <3>1. SUFFICES ASSUME cancel.at # "idle" PROVE \A b \in Alias \ cancel.left : Shut(b)'
      BY <2>6 DEF IInv, Base, CancelInv
    <3>2. run.status = "cancelled" /\ \A b \in Alias \ cancel.left : Shut(b)
      BY <3>1 DEF IInv, Base, CancelInv
    <3>3. a \in cancel.left
      BY <1>2, <1>3, <3>2 DEF Shut, MaySeed, RunMatches, AdmissionMatches
    <3> QED
      BY <2>6, <2>7, <3>2, <3>3 DEF Shut
  <2>12. \A b \in Alias : Exact(b) => Exact(b)'
    BY <2>7 DEF Exact
  <2>13. \A y \in ProcRow : ProcOf(y) => ProcOf(y)'
    BY <2>6, <2>12, RowsStay DEF IInv
  <2>14. ProcOf(z)'
    BY <1>0, <2>5, <2>6 DEF ProcOf
  <2> QED
    BY <2>4, <2>8, <2>9, <2>10, <2>11, <2>13, <2>14, ProcStep, Zenon DEF IInv, Base
<1>4. CASE ~MaySeed(a, page)
  BY <1>1, <1>4, Leaves DEF Seed
<1> QED
  BY <1>3, <1>4

(* The cursor moves past a page that is in the databases.                  *)
LEMMA AcknowledgePageInv ==
    ASSUME AdmissionConstants, IInv, NEW p \in Process, AcknowledgePage(p) PROVE IInv'
<1>0. /\ procs[p] \in ProcRow /\ ProcOf(procs[p]) /\ procs[p].at = "seed"
      /\ plan \in PlanRow
  BY DEF IInv, Base, TypeInv, ProcInv, AcknowledgePage
<1>1. /\ procs[p].cursor \in Nat /\ procs[p].state \in Nat /\ procs[p].seeded \in Nat
      /\ procs[p].cursor < Pages /\ plan.status = "ready"
  BY <1>0 DEF ProcRow, ProcOf
<1>2. CASE Holds(p, "ready") /\ plan.admitted = procs[p].cursor
  <2>1. PICK n \in Nat : n = procs[p].cursor + 1
    BY <1>1
  <2>a. PICK k \in Nat : k = procs[p].state + 1
    BY <1>1
  <2>b. PICK i \in Nat : i = procs[p].seeded + 1
    BY <1>1
  <2>2. PICK to \in {"verify", "release", "seed"} :
           to = After(procs[p]) /\ (to = "seed" => n < Pages)
    BY <1>1, <2>1 DEF After, AdmissionConstants
  <2>3. PICK z \in ProcRow :
           z = [procs[p] EXCEPT !.cursor = n, !.state = k, !.seeded = i,
                                !.left = Alias, !.at = to]
    BY <1>0, Zenon DEF ProcRow, At
  <2>4. /\ procs' = [procs EXCEPT ![p] = z]
        /\ plan' = [plan EXCEPT !.admitted = n, !.state = k]
        /\ UNCHANGED <<run, objects, blobs, local, routes, cancel>>
    BY <1>2, <2>1, <2>a, <2>b, <2>2, <2>3 DEF AcknowledgePage, Guarded
  <2>5. z.first = procs[p].first /\ z.cursor = n /\ z.at = to /\ z.left = Alias
    BY <1>0, <2>3 DEF ProcRow
  <2>6. /\ plan' \in PlanRow /\ plan'.admitted = n
        /\ plan'.status = plan.status /\ plan'.chunks = plan.chunks
        /\ plan'.generation = plan.generation
    BY <1>0, <2>4, Zenon DEF PlanRow
  <2>7. n <= Pages
    BY <1>1, <2>1 DEF AdmissionConstants
  <2>8. TypeInv'
    BY <2>4, <2>6 DEF IInv, Base, TypeInv
  <2>9. PlanInv'
    BY <1>1, <2>4, <2>6, <2>7 DEF IInv, Base, PlanInv
  <2>10. LocalInv' /\ CancelInv'
    BY <2>4, <2>6 DEF IInv, Base, LocalInv, ActivatedIsSeeded, CancelInv, Shut
  <2>11. \A y \in ProcRow : ProcOf(y) => ProcOf(y)'
    BY <2>4, <2>6, RowsStay DEF IInv, Exact
  <2>12. ProcOf(z)'
    BY <1>0, <1>1, <2>2, <2>5, <2>6 DEF ProcOf
  <2> QED
    BY <2>4, <2>8, <2>9, <2>10, <2>11, <2>12, ProcStep, Zenon DEF IInv, Base
<1>3. CASE ~(Holds(p, "ready") /\ plan.admitted = procs[p].cursor)
  BY <1>3, Leaves DEF AcknowledgePage, Guarded
<1> QED
  BY <1>2, <1>3

(* The chunks of a database are counted against the plan.                  *)
LEMMA VerifyInv ==
    ASSUME IInv, NEW p \in Process, NEW a \in Alias, Verify(p, a) PROVE IInv'
<1>0. procs[p] \in ProcRow /\ ProcOf(procs[p]) /\ procs[p].at = "verify"
  BY DEF IInv, ProcInv, Verify
<1>1. CASE Exact(a) /\ procs[p].state = Pages
  <2>1. PICK z \in ProcRow : z = [procs[p] EXCEPT !.left = procs[p].left \ {a}]
    BY <1>0, Zenon DEF ProcRow
  <2>2. procs' = [procs EXCEPT ![p] = z]
    BY <1>1, <2>1 DEF Verify, IInv, ProcInv
  <2>3. /\ z.first = procs[p].first /\ z.at = "verify"
        /\ z.left = procs[p].left \ {a}
    BY <1>0, <2>1 DEF ProcRow
  <2>4. ProcOf(z)
    BY <1>0, <1>1, <2>3 DEF ProcOf
  <2> QED
    BY <2>2, <2>4, OwnRow, Zenon DEF Verify
<1>2. CASE ~(Exact(a) /\ procs[p].state = Pages)
  BY <1>2, Leaves DEF Verify
<1> QED
  BY <1>1, <1>2

(* The run is activated after every database was verified.                 *)
LEMMA ActivateInv ==
    ASSUME IInv, NEW p \in Process, Activate(p) PROVE IInv'
<1>0. /\ procs[p] \in ProcRow /\ ProcOf(procs[p])
      /\ procs[p].at = "verify" /\ procs[p].left = {}
  BY DEF IInv, ProcInv, Activate
<1> DEFINE may == plan.admitted = Pages /\ plan.state = Pages /\ AcceptRoutes
<1>1. CASE Holds(p, "ready") /\ may
  <2>1. /\ routes' = TRUE
        /\ run' = [status |-> "pending", owner |-> 0, live |-> FALSE]
        /\ procs' = [procs EXCEPT ![p] = Idle]
        /\ UNCHANGED <<plan, objects, blobs, local, cancel>>
    BY <1>1 DEF Activate, Guarded, Ends
  <2>2. run.status = "creating" /\ plan.status = "ready"
    BY <1>1 DEF Holds
  <2>3. \A a \in Alias : Exact(a)
    BY <1>0, <2>2 DEF ProcOf
  <2>4. TypeInv'
    BY <2>1 DEF IInv, Base, TypeInv, RunRow
  <2>5. PlanInv'
    BY <2>1 DEF IInv, Base, TypeInv, PlanInv, PlanRow
  <2>6. LocalInv'
    BY <2>1, <2>2, <2>3 DEF IInv, Base, LocalInv, ActivatedIsSeeded, Exact
  <2>7. CancelInv'
    BY <2>1, <2>2 DEF IInv, Base, CancelInv
  <2>8. \A y \in ProcRow : ProcOf(y) => ProcOf(y)'
    BY <2>1, RowsStay DEF IInv
  <2> QED
    BY <2>1, <2>4, <2>5, <2>6, <2>7, <2>8, IdleRow, ProcStep, Zenon DEF IInv, Base
<1>2. CASE ~(Holds(p, "ready") /\ may)
  BY <1>2, Leaves DEF Activate, Guarded
<1> QED
  BY <1>1, <1>2

(* A lease that is given back or runs out leaves the run as it is; a run   *)
(* that fails was in creation.                                             *)
LEMMA RunStep ==
    ASSUME IInv, NEW p \in Process, NEW x \in ProcRow, ProcOf(x),
           procs' = [procs EXCEPT ![p] = x],
           x.at # "verify",
           run' \in RunRow, run'.owner \in {0, run.owner},
           \/ run'.status = run.status
           \/ run.status = "creating" /\ run'.status = "failed",
           UNCHANGED <<plan, objects, blobs, local, routes, cancel>>
    PROVE  IInv'
<1>1. TypeInv'
  BY DEF IInv, Base, TypeInv
<1>2. PlanInv'
  BY DEF IInv, Base, TypeInv, PlanInv, PlanRow
<1>3. LocalInv' /\ CancelInv'
  BY DEF IInv, Base, LocalInv, ActivatedIsSeeded, CancelInv, Shut
<1>4. \A y \in ProcRow : ProcOf(y) => ProcOf(y)'
  BY RowsStay DEF IInv, Exact
<1> QED
  BY <1>1, <1>2, <1>3, <1>4, ProcStep, Zenon DEF IInv, Base

(* A process fails.                                                        *)
LEMMA FailInv ==
    ASSUME IInv, NEW p \in Process, Fail(p) PROVE IInv'
<1>0. procs[p] \in ProcRow /\ ProcOf(procs[p])
  BY DEF IInv, ProcInv
<1>1. CASE Holds(p, "ready")
  <2>1. PICK z \in ProcRow : z = [procs[p] EXCEPT !.at = "release"]
    BY <1>0, Zenon DEF ProcRow, At
  <2>2. /\ procs' = [procs EXCEPT ![p] = z]
        /\ run' = [status |-> "failed", owner |-> 0, live |-> FALSE]
        /\ UNCHANGED <<plan, objects, blobs, local, routes, cancel>>
    BY <1>1, <2>1 DEF Fail, Guarded, Goto, IInv, ProcInv
  <2>3. z.first = procs[p].first /\ z.at = "release"
    BY <1>0, <2>1 DEF ProcRow
  <2>4. ProcOf(z)
    BY <1>0, <2>3 DEF ProcOf
  <2>5. run' \in RunRow /\ run'.owner = 0 /\ run'.status = "failed"
    BY <2>2 DEF RunRow
  <2> QED
    BY <1>1, <2>2, <2>3, <2>4, <2>5, RunStep, Zenon DEF Holds
<1>2. CASE ~Holds(p, "ready")
  BY <1>2, Leaves DEF Fail, Guarded
<1> QED
  BY <1>1, <1>2

(* A process releases its lease.                                           *)
LEMMA ReleaseInv ==
    ASSUME IInv, NEW p \in Process, Release(p) PROVE IInv'
<1>1. run \in RunRow
  BY DEF IInv, Base, TypeInv
<1>2. run' \in RunRow /\ run'.owner \in {0, run.owner} /\ run'.status = run.status
  BY <1>1, Zenon DEF Release, RunRow
<1>3. Idle.at # "verify"
  BY DEF Idle
<1> QED
  BY <1>2, <1>3, IdleRow, RunStep, Zenon DEF Release, Ends

-----------------------------------------------------------------------------
(* Dispatch, cancellation, expired leases and crashes.                     *)

(* A chunk of a running run is dispatched.                                 *)
LEMMA DispatchInv ==
    ASSUME IInv, NEW a \in Alias, NEW page \in Page, Dispatch(a, page) PROVE IInv'
<1>0. local[a] \in LocalRow /\ local[a].chunks[page] = "pending"
  BY DEF IInv, Base, TypeInv, Dispatch
<1>1. /\ local' = [local EXCEPT ![a] = [local[a] EXCEPT !.chunks =
                     [local[a].chunks EXCEPT ![page] = "dispatched"]]]
      /\ routes /\ run.status = "pending"
      /\ UNCHANGED <<run, plan, objects, blobs, routes, procs, cancel>>
  BY DEF Dispatch, IInv, Base, TypeInv, LocalRow
<1>2. /\ local'[a] \in LocalRow
      /\ local'[a].admission = local[a].admission /\ local'[a].run = local[a].run
      /\ \A g \in Page : local'[a].chunks[g] = IF g = page THEN "dispatched"
                                               ELSE local[a].chunks[g]
      /\ \A b \in Alias \ {a} : local'[b] = local[b]
  BY <1>0, <1>1, Zenon DEF IInv, Base, TypeInv, LocalRow
<1>3. TypeInv'
  <2>1. local' \in [Alias -> LocalRow]
    BY <1>1, <1>2 DEF IInv, Base, TypeInv
  <2> QED
    BY <1>1, <2>1 DEF IInv, Base, TypeInv
<1>4. PlanInv'
  BY <1>1 DEF IInv, Base, PlanInv
<1>5. LocalInv'
  <2>1. plan.status = "ready"
    BY <1>0 DEF IInv, Base, LocalInv
  <2>2. ActivatedIsSeeded'
    BY <1>1, <1>2 DEF IInv, Base, LocalInv, ActivatedIsSeeded
  <2> QED
    BY <1>1, <1>2, <2>1, <2>2 DEF IInv, Base, LocalInv
<1>6. CancelInv'
  BY <1>1 DEF IInv, Base, CancelInv
<1>7. \A p \in Process : ProcOf(procs[p])'
  BY <1>1 DEF IInv, ProcInv, ProcOf
<1> QED
  BY <1>1, <1>3, <1>4, <1>5, <1>6, <1>7 DEF IInv, Base, ProcInv

(* A cancellation is requested.                                            *)
LEMMA RequestCancelInv ==
    ASSUME IInv, RequestCancel PROVE IInv'
<1>1. /\ run' = [status |-> "cancelled", owner |-> 0, live |-> FALSE]
      /\ cancel' = [at |-> "clean", left |-> IF plan.status = "ready" THEN Alias ELSE {}]
      /\ UNCHANGED <<plan, objects, blobs, local, routes, procs>>
      /\ run.status # "none"
  BY DEF RequestCancel
<1>2. TypeInv'
  BY <1>1 DEF IInv, Base, TypeInv, RunRow, CancelRow
<1>3. PlanInv'
  BY <1>1 DEF IInv, Base, TypeInv, PlanInv, PlanRow
<1>4. LocalInv'
  BY <1>1 DEF IInv, Base, LocalInv, ActivatedIsSeeded
<1>5. CancelInv'
  BY <1>1 DEF IInv, Base, LocalInv, CancelInv, Shut
<1>6. \A p \in Process : ProcOf(procs[p])'
  BY <1>1 DEF IInv, ProcInv, ProcOf
<1> QED
  BY <1>1, <1>2, <1>3, <1>4, <1>5, <1>6 DEF IInv, Base, ProcInv

(* The chunks of a cancelled run are deleted from a database.              *)
LEMMA CleanDatabaseInv ==
    ASSUME IInv, NEW a \in Alias, CleanDatabase(a) PROVE IInv'
<1>0. local[a] \in LocalRow /\ cancel \in CancelRow /\ cancel.at = "clean"
  BY DEF IInv, Base, TypeInv, CleanDatabase
<1> DEFINE row == [admission |-> IF routes THEN local[a].admission ELSE "closed",
                   run |-> IF local[a].run = "none" THEN "none" ELSE "cancelled",
                   chunks |-> [g \in Page |-> IF local[a].chunks[g] = "none"
                                              THEN "none" ELSE "cancelled"]]
<1>1. /\ local' = [local EXCEPT ![a] = row]
      /\ cancel' = [cancel EXCEPT !.left = cancel.left \ {a}]
      /\ UNCHANGED <<run, plan, objects, blobs, routes, procs>>
  BY DEF CleanDatabase
<1>2. row \in LocalRow
  BY <1>0 DEF LocalRow
<1>3. /\ local'[a] = row
      /\ \A b \in Alias \ {a} : local'[b] = local[b]
  BY <1>1 DEF IInv, Base, TypeInv
<1>4. cancel' \in CancelRow /\ cancel'.at = "clean" /\ cancel'.left = cancel.left \ {a}
  BY <1>0, <1>1 DEF CancelRow
<1>5. run.status = "cancelled"
  BY <1>0 DEF IInv, Base, CancelInv
<1>6. TypeInv'
  BY <1>1, <1>2, <1>4 DEF IInv, Base, TypeInv
<1>7. PlanInv'
  BY <1>1 DEF IInv, Base, PlanInv
<1>8. /\ row.admission = IF routes THEN local[a].admission ELSE "closed"
      /\ row.run = IF local[a].run = "none" THEN "none" ELSE "cancelled"
      /\ \A g \in Page : row.chunks[g] = IF local[a].chunks[g] = "none"
                                         THEN "none" ELSE "cancelled"
  OBVIOUS
<1> HIDE DEF row
<1>9. LocalInv'
  <2>1. ActivatedIsSeeded'
    BY <1>1, <1>5 DEF ActivatedIsSeeded
  <2> QED
    BY <1>1, <1>3, <1>8, <2>1 DEF IInv, Base, LocalInv
<1>10. Shut(a)'
  <2>1. \A g \in Page : local'[a].chunks[g] \notin {"pending", "dispatched"}
    BY <1>3, <1>8
  <2>2. CASE ~routes
    BY <1>3, <1>8, <2>1, <2>2 DEF Shut
  <2>3. CASE routes
    <3>1. local[a].admission \in {"open", "closed"}
      BY <1>0, <2>3 DEF IInv, Base, LocalInv, LocalRow
    <3> QED
      BY <1>3, <1>8, <2>1, <2>3, <3>1 DEF Shut, IInv, Base, LocalInv
  <2> QED
    BY <2>2, <2>3
<1>11. CancelInv'
  <2>1. ASSUME NEW b \in Alias \ cancel'.left PROVE Shut(b)'
    <3>1. CASE b = a
      BY <1>10, <3>1
    <3>2. CASE b # a
      <4>1. Shut(b) /\ local'[b] = local[b]
        BY <1>0, <1>3, <1>4, <3>2 DEF IInv, Base, CancelInv
      <4> QED
        BY <1>1, <4>1 DEF Shut
    <3> QED
      BY <3>1, <3>2
  <2> QED
    BY <1>1, <1>4, <1>5, <2>1 DEF CancelInv
<1>12. \A p \in Process : ProcOf(procs[p])'
  BY <1>1, <1>5 DEF IInv, ProcInv, ProcOf
<1> QED
  BY <1>1, <1>6, <1>7, <1>9, <1>11, <1>12 DEF IInv, Base, ProcInv

(* The cancellation is complete when every database is clean.              *)
LEMMA EndCancelInv ==
    ASSUME IInv, EndCancel PROVE IInv'
<1>0. cancel \in CancelRow /\ cancel.at = "clean" /\ cancel.left = {}
  BY DEF IInv, Base, TypeInv, EndCancel
<1>1. /\ cancel' = [cancel EXCEPT !.at = "done"]
      /\ UNCHANGED <<run, plan, objects, blobs, local, routes, procs>>
  BY DEF EndCancel
<1>2. cancel' \in CancelRow /\ cancel'.at = "done" /\ cancel'.left = {}
  BY <1>0, <1>1 DEF CancelRow
<1>3. TypeInv' /\ PlanInv' /\ LocalInv'
  BY <1>1, <1>2 DEF IInv, Base, TypeInv, PlanInv, LocalInv, ActivatedIsSeeded
<1>4. CancelInv'
  BY <1>0, <1>1, <1>2 DEF IInv, Base, CancelInv, Shut
<1>5. ProcInv'
  BY <1>1 DEF IInv, ProcInv, ProcOf, Exact
<1> QED
  BY <1>3, <1>4, <1>5 DEF IInv, Base

(* A lease expires.                                                        *)
LEMMA LeaseExpiresInv ==
    ASSUME IInv, LeaseExpires PROVE IInv'
<1>0. run \in RunRow
  BY DEF IInv, Base, TypeInv
<1>1. /\ run' = [run EXCEPT !.live = FALSE]
      /\ UNCHANGED <<plan, objects, blobs, local, routes, procs, cancel>>
  BY DEF LeaseExpires
<1>2. run' \in RunRow /\ run'.status = run.status /\ run'.owner = run.owner
  BY <1>0, <1>1, Zenon DEF RunRow
<1>3. TypeInv' /\ PlanInv'
  BY <1>1, <1>2 DEF IInv, Base, TypeInv, PlanInv
<1>4. LocalInv' /\ CancelInv'
  BY <1>1, <1>2 DEF IInv, Base, LocalInv, ActivatedIsSeeded, CancelInv, Shut
<1>5. ProcInv'
  BY <1>1, <1>2 DEF IInv, ProcInv, ProcOf, Exact
<1> QED
  BY <1>3, <1>4, <1>5 DEF IInv, Base

(* A process crashes.                                                      *)
LEMMA CrashInv ==
    ASSUME IInv, Crash PROVE IInv'
<1>0. UNCHANGED <<run, plan, objects, blobs, local, routes>>
  BY DEF Crash
<1>1. CASE \E p \in Process : procs[p] # Idle /\ Ends(p) /\ UNCHANGED cancel
  BY <1>0, <1>1, IdleRow, OwnRow, Zenon DEF Ends
<1>2. CASE cancel' = [at |-> "idle", left |-> {}] /\ UNCHANGED procs
  <2>1. TypeInv' /\ PlanInv'
    BY <1>0, <1>2 DEF IInv, Base, TypeInv, PlanInv, CancelRow
  <2>2. LocalInv' /\ CancelInv'
    BY <1>0, <1>2 DEF IInv, Base, LocalInv, ActivatedIsSeeded, CancelInv
  <2>3. ProcInv'
    BY <1>0, <1>2 DEF IInv, ProcInv, ProcOf, Exact
  <2> QED
    BY <2>1, <2>2, <2>3 DEF IInv, Base
<1> QED
  BY <1>1, <1>2 DEF Crash

(* A step that changes at most the drained databases and the probes.       *)
LEMMA StutterInv ==
    ASSUME IInv, UNCHANGED <<run, plan, objects, blobs, local, routes, procs, cancel>>
    PROVE  IInv'
<1>1. TypeInv' /\ PlanInv'
  BY DEF IInv, Base, TypeInv, PlanInv
<1>2. LocalInv' /\ CancelInv'
  BY DEF IInv, Base, LocalInv, ActivatedIsSeeded, CancelInv, Shut
<1>3. ProcInv'
  BY DEF IInv, ProcInv, ProcOf, Exact
<1> QED
  BY <1>1, <1>2, <1>3 DEF IInv, Base

(* Every step of a process keeps the invariant.                            *)
LEMMA StepInv ==
    ASSUME AdmissionConstants, IInv, NEW p \in Process, Step(p) PROVE IInv'
<1>1. CASE ClaimPlan(p)
  BY <1>1, ClaimInv DEF ClaimPlan
<1>2. CASE ClaimAdmission(p)
  BY <1>2, ClaimInv DEF ClaimAdmission
<1>3. CASE \E a \in Alias : Seed(p, a) \/ Verify(p, a)
  BY <1>3, SeedInv, VerifyInv
<1> QED
  BY <1>1, <1>2, <1>3, RegisterProbeInv, ConnectInv, RegisterFilesInv, PutFileInv,
     AcknowledgeInv, PublishInv, LoadInv, OpenFailsInv, AcknowledgePageInv, ActivateInv,
     FailInv, ReleaseInv DEF Step

(* Every step keeps the invariant.                                         *)
LEMMA NextInv ==
    ASSUME AdmissionConstants, IInv, [Next]_admissionVars PROVE IInv'
<1>1. CASE \E p \in Creator : \E execute \in BOOLEAN : Begin(p, execute)
  BY <1>1, BeginInv DEF Process
<1>2. CASE \E p \in Coordinator : Recover(p)
  BY <1>2, RecoverInv DEF Process
<1>3. CASE \E p \in Process : Step(p)
  BY <1>3, StepInv
<1>4. CASE \E a \in Alias, page \in Page : Dispatch(a, page)
  BY <1>4, DispatchInv
<1>5. CASE RequestCancel \/ EndCancel
  BY <1>5, RequestCancelInv, EndCancelInv
<1>6. CASE \E a \in Alias : CleanDatabase(a)
  BY <1>6, CleanDatabaseInv
<1>7. CASE \E a \in Alias : DrainDatabase(a)
  BY <1>7, StutterInv DEF DrainDatabase
<1>8. CASE LeaseExpires \/ Crash
  BY <1>8, LeaseExpiresInv, CrashInv
<1>9. CASE UNCHANGED admissionVars
  BY <1>9, StutterInv DEF admissionVars
<1> QED
  BY <1>1, <1>2, <1>3, <1>4, <1>5, <1>6, <1>7, <1>8, <1>9 DEF Next

(* The invariant holds of every reachable state.                           *)
LEMMA Invariance == ASSUME AdmissionConstants PROVE Spec => []IInv
<1>1. Init => IInv
  BY InitInv
<1>2. IInv /\ [Next]_admissionVars => IInv'
  BY NextInv
<1> QED
  BY <1>1, <1>2, PTL DEF Spec

-----------------------------------------------------------------------------
(* Rows, files and counters are of their types, and a checkpoint of        *)
(* admitted pages never runs ahead of the acknowledged plan.               *)
THEOREM AdmissionTypes == ASSUME AdmissionConstants PROVE Spec => []TypeOK
<1>1. IInv => TypeOK
  <2> SUFFICES ASSUME IInv PROVE TypeOK
    OBVIOUS
  <2>1. /\ run \in RunRow /\ plan \in PlanRow
        /\ run.owner <= plan.generation /\ plan.generation <= MaxGeneration
        /\ plan.chunks <= Pages /\ plan.admitted <= Pages
        /\ plan.status # "ready" => plan.admitted = 0
        /\ plan.status = "ready" => plan.chunks = Pages
    BY DEF IInv, Base, TypeInv, PlanInv
  <2>2. /\ run.owner \in Nat /\ plan.generation \in Nat
        /\ plan.chunks \in Nat /\ plan.admitted \in Nat
        /\ run.status \in {"none", "creating", "pending", "failed", "cancelled"}
        /\ plan.status \in {"none", "preparing", "ready"}
    BY <2>1 DEF RunRow, PlanRow
  <2>3. run.owner \in 0 .. MaxGeneration /\ plan.generation \in 0 .. MaxGeneration
    BY <2>1, <2>2 DEF AdmissionConstants
  <2>4. plan.chunks \in 0 .. Pages /\ plan.admitted \in 0 .. plan.chunks
    BY <2>1, <2>2 DEF AdmissionConstants
  <2>5. \A a \in Alias : local[a].chunks \in
          [Page -> {"none", "pending", "dispatched", "cancelled"}]
    BY DEF IInv, Base, TypeInv, LocalRow
  <2> QED
    BY <2>2, <2>3, <2>4, <2>5 DEF IInv, Base, TypeInv, TypeOK
<1> QED
  BY <1>1, Invariance, PTL

(* A published plan is whole: each of its files is in storage, whichever   *)
(* of the creators wrote it and wherever they stopped (publish).           *)
THEOREM PublishedPlansAreWhole ==
    ASSUME AdmissionConstants PROVE Spec => []PublishedIsWhole
<1>1. IInv => PublishedIsWhole
  BY DEF IInv, Base, TypeInv, PlanInv, PublishedIsWhole
<1> QED
  BY <1>1, Invariance, PTL

(* Routes exist only over databases that have every chunk of the run: what *)
(* an admission verified still holds when it activates (activate).         *)
THEOREM ActivatedRunsAreSeeded ==
    ASSUME AdmissionConstants PROVE Spec => []ActivatedIsSeeded
<1>1. IInv => ActivatedIsSeeded
  BY DEF IInv, Base, LocalInv
<1> QED
  BY <1>1, Invariance, PTL

(* After a cancellation no database holds work of the run, although a      *)
(* creator may still be seeding (cancel_unadmitted_plan).                  *)
THEOREM CancelledRunsAreEmpty ==
    ASSUME AdmissionConstants PROVE Spec => []CancelledIsEmpty
<1>1. IInv => CancelledIsEmpty
  BY DEF IInv, Base, CancelInv, Shut, CancelledIsEmpty
<1> QED
  BY <1>1, Invariance, PTL

(* Who decides the run first decides it: a creator that lost its lease     *)
(* neither fails nor activates nor reopens what another one or the         *)
(* operator settled (guard).                                               *)
THEOREM RunsAreDecidedOnce ==
    ASSUME AdmissionConstants PROVE Spec => DecidedOnce
<1>1. IInv /\ [Next]_admissionVars => [DecidedOnceStep]_admissionVars
  <2> SUFFICES ASSUME IInv, Next PROVE DecidedOnceStep
    BY DEF admissionVars, DecidedOnceStep
  <2>0. run \in RunRow
    BY DEF IInv, Base, TypeInv
  <2>1. /\ run.status \in {"failed", "cancelled"} => run'.status = run.status
        /\ run.status = "pending" => run'.status \in {"pending", "cancelled"}
        /\ routes => routes'
    <3>1. CASE \E p \in Creator : \E execute \in BOOLEAN : Begin(p, execute)
      BY <2>0, <3>1 DEF Begin
    <3>2. CASE \E p \in Coordinator : Recover(p)
      BY <3>2 DEF Recover
    <3>3. ASSUME NEW p \in Process, Step(p)
          PROVE  /\ run.status \in {"failed", "cancelled"} => run'.status = run.status
                 /\ run.status = "pending" => run'.status \in {"pending", "cancelled"}
                 /\ routes => routes'
      <4>1. CASE ClaimPlan(p) \/ ClaimAdmission(p)
        BY <2>0, <4>1 DEF ClaimPlan, ClaimAdmission, Claim, RunRow
      <4>2. CASE \/ RegisterProbe(p) \/ Connect(p) \/ RegisterFiles(p) \/ Acknowledge(p)
                 \/ Publish(p) \/ AcknowledgePage(p) \/ Activate(p) \/ Fail(p)
        BY <4>2 DEF RegisterProbe, Connect, RegisterFiles, Acknowledge, Publish,
                    AcknowledgePage, Activate, Fail, Guarded, Holds
      <4>3. CASE Release(p)
        BY <2>0, <4>3 DEF Release, RunRow
      <4>4. CASE \/ PutFile(p) \/ Load(p) \/ OpenFails(p)
                 \/ \E a \in Alias : Seed(p, a) \/ Verify(p, a)
        BY <4>4 DEF PutFile, Load, OpenFails, Seed, Verify
      <4> QED
        BY <3>3, <4>1, <4>2, <4>3, <4>4 DEF Step
    <3>4. CASE \E a \in Alias, page \in Page : Dispatch(a, page)
      BY <3>4 DEF Dispatch
    <3>5. CASE RequestCancel \/ EndCancel
      BY <3>5 DEF RequestCancel, EndCancel
    <3>6. CASE \E a \in Alias : CleanDatabase(a) \/ DrainDatabase(a)
      BY <3>6 DEF CleanDatabase, DrainDatabase
    <3>7. CASE LeaseExpires
      BY <2>0, <3>7 DEF LeaseExpires, RunRow
    <3>8. CASE Crash
      BY <3>8 DEF Crash
    <3> QED
      BY <3>1, <3>2, <3>3, <3>4, <3>5, <3>6, <3>7, <3>8 DEF Next
  <2> QED
    BY <2>1 DEF DecidedOnceStep
<1> QED
  BY <1>1, Invariance, PTL DEF Spec, DecidedOnce
=============================================================================
