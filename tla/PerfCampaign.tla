---------------------------- MODULE PerfCampaign ----------------------------
(***************************************************************************)
(* cargo perf run and compare: the campaign that measures one binary, or   *)
(* a candidate against a baseline, and says whether the candidate is       *)
(* slower.                                                                 *)
(*                                                                         *)
(* A campaign takes the host lease, runs each workload in blocks of four   *)
(* scheduled ABBA or BAAB, rewrites its journals after every block,        *)
(* estimates the candidate's harm from whole blocks, and reports.  A       *)
(* regression is declared only by a second campaign that confirms what an  *)
(* earlier one reported as inconclusive.  A campaign may crash anywhere,   *)
(* the executables lie on a disk that others write, and the host may slow  *)
(* down while it measures.                                                 *)
(*                                                                         *)
(* Wall times are kept as logarithms, in whole units, so that a ratio is a *)
(* difference; an effect is kept doubled and a median of effects doubled   *)
(* again, so that both halvings of the estimator stay exact.               *)
(***************************************************************************)
EXTENDS Integers, Sequences, FiniteSets, FiniteSetsExt, SequencesExt

CONSTANTS
    Campaign,     \* campaigns, one process each
    Nobody,
    Build,        \* candidate builds
    Slower,       \* how much slower than the baseline a build is
    Seed,         \* schedule seeds
    FirstIsAbba,  \* what the hash of a seed and the workload decides
    Modes,        \* "single", "reliability": one binary; "compare" without,
                  \* "gate" with a budget policy
    Workloads,    \* number of workloads the profile selects
    Blocks,       \* blocks per workload, an even number
    Drifts,       \* how much the host slows down per execution
    Noise,        \* what may disturb one execution
    Budget,       \* the practical budget, in units of a doubled median
    Residual,     \* the largest accepted difference between orientations
    Overlap,      \* bound: campaigns alive at a time
    MaxFaults     \* bound: crashes, failures, disturbances

VARIABLES
    lock,    \* target/perf/campaign.lock
    camps,   \* the campaign processes
    dirs,    \* what each campaign has written to its run directory
    disk,    \* whether an executable still has the digest of its manifest
    faults

campaignVars == <<lock, camps, dirs, disk, faults>>

Baseline == "baseline"
Binary == Build \union {Baseline}
Position == 1 .. 4
NoLock == [there |-> FALSE, creator |-> Nobody, owner |-> Nobody]
NoReport == [status |-> "none", comparisons |-> <<>>]
EmptyDir == [samples |-> <<>>, blocks |-> <<>>, status |-> "none", report |-> NoReport,
             mode |-> "single", build |-> Nobody, seed |-> 0]
Gone(pc) ==
    [pc |-> pc, mode |-> "single", build |-> Nobody, seed |-> 0, prior |-> Nobody, drift |-> 0,
     tries |-> 0, workload |-> 1, block |-> 0, pos |-> 1, samples |-> <<>>, blocks |-> <<>>,
     comparisons |-> <<>>, exit |-> "pass"]

Alive(c) == camps[c].pc \notin {"idle", "exited"}
To(c, camp) == camps' = [camps EXCEPT ![c] = camp]
Fault == faults < MaxFaults /\ faults' = faults + 1

-----------------------------------------------------------------------------
(* The schedule.                                                           *)
Orientation(seed, block) ==
    IF FirstIsAbba[seed] = (block % 2 = 0) THEN "ABBA" ELSE "BAAB"

Executions(orientation) ==
    IF orientation = "ABBA"
    THEN <<"baseline", "candidate", "candidate", "baseline">>
    ELSE <<"candidate", "baseline", "baseline", "candidate">>

(* A campaign of one binary runs the candidate's positions only, and the   *)
(* first of them when it times reliability.                                *)
Single(mode) == mode \in {"single", "reliability"}
PerBlock(mode) == IF mode = "reliability" THEN 1 ELSE IF mode = "single" THEN 2 ELSE 4

Scheduled(camp) ==
    LET own == {p \in Position : Executions(Orientation(camp.seed, camp.block))[p] = "candidate"}
    IN  IF camp.mode = "reliability" THEN {Min(own)}
        ELSE IF camp.mode = "single" THEN own ELSE Position

RoleAt(camp, p) ==
    IF Single(camp.mode) THEN "single"
    ELSE Executions(Orientation(camp.seed, camp.block))[p]

BinaryFor(camp, role) == IF role = "baseline" THEN Baseline ELSE camp.build

-----------------------------------------------------------------------------
(* The estimator.                                                          *)
BlockSamples(samples, w, b) == SelectSeq(samples, LAMBDA s : s.workload = w /\ s.block = b)
\* mutant: the second pair of an ABBA block is divided the other way round
EffectUnpaired(times, orientation) ==
    IF orientation = "ABBA"
    THEN (times[2] - times[1]) + (times[4] - times[3])
    ELSE (times[1] - times[2]) + (times[4] - times[3])
Effect(times, orientation) ==
    IF orientation = "ABBA"
    THEN (times[2] - times[1]) + (times[3] - times[4])
    ELSE (times[1] - times[2]) + (times[4] - times[3])

(* Twice the median.                                                       *)
Median(values) ==
    LET sorted == SortSeq(values, <)
        n == Len(values)
    IN  IF n % 2 = 0 THEN sorted[n \div 2] + sorted[(n \div 2) + 1]
        ELSE 2 * sorted[(n + 1) \div 2]

(* The bootstrap draws as many effects of each orientation as there are;   *)
(* its interval lies between medians of draws.                             *)
Draws(abba, baab) ==
    {Median([i \in 1 .. Len(abba) |-> abba[f[i]]] \o [i \in 1 .. Len(baab) |-> baab[g[i]]]) :
        f \in [1 .. Len(abba) -> 1 .. Len(abba)], g \in [1 .. Len(baab) -> 1 .. Len(baab)]}

DecideVerdict(lower, upper, gated, residual, confirmation) ==
    IF residual > Residual THEN "invalid"
    ELSE IF ~gated THEN "informative"
    ELSE IF upper < 0 THEN "improvement"
    ELSE IF lower > Budget THEN (IF confirmation THEN "regression" ELSE "inconclusive")
    ELSE IF upper <= Budget THEN "pass"
    ELSE "inconclusive"

(* compare_wall_time: the comparisons the bootstrap may come to.           *)
CompareWallTime(camp, confirmation) ==
    LET w == camp.workload
        EffectOf(b) == Effect([p \in Position |-> BlockSamples(camp.samples, w, b)[p].time],
                              Orientation(camp.seed, b))
        EffectsOf(o) == LET bs == SetToSortSeq({b \in 0 .. Blocks - 1 :
                                                   Orientation(camp.seed, b) = o}, <)
                        IN  [i \in 1 .. Len(bs) |-> EffectOf(bs[i])]
        all == [o \in {"ABBA", "BAAB"} |-> EffectsOf(o)]
        used == Min({Len(all["ABBA"]), Len(all["BAAB"])})
        abba == SubSeq(all["ABBA"], 1, used)
        baab == SubSeq(all["BAAB"], 1, used)
        residual == LET d == Median(abba) - Median(baab) IN IF d < 0 THEN -d ELSE d
        gated == camp.mode = "gate"
    IN  {[workload |-> w, effect |-> Median(abba \o baab), residual |-> residual,
          lower |-> l, verdict |-> DecideVerdict(l, u, gated, residual, confirmation)] :
            <<l, u>> \in {d \in Draws(abba, baab) \X Draws(abba, baab) : d[1] <= d[2]}}

(* confirms_prior_signal: what the report of an earlier campaign must say. *)
ConfirmsPriorSignal(report, w) == \E i \in 1 .. Len(report.comparisons) :
    LET m == report.comparisons[i] IN
    m.workload = w /\ m.verdict = "inconclusive" /\ m.lower > Budget

(* load_confirmation: a compatible inconclusive campaign of the same       *)
(* builds under the same policy, with a signal to confirm.                 *)
MayConfirm(mode, build, p) ==
    /\ mode = "gate" /\ dirs[p].status = "invalid" /\ dirs[p].report.status = "invalid"
    /\ dirs[p].mode = mode /\ dirs[p].build = build
    /\ \E w \in 1 .. Workloads : ConfirmsPriorSignal(dirs[p].report, w)

-----------------------------------------------------------------------------
(* Starting.  Everything is checked before the lease is asked for; a       *)
(* command that fails a check leaves no trace.                             *)
VerifiedBinaries(mode, build) == disk[build] /\ (~Single(mode) => disk[Baseline])

\* mutant: a confirmation may reuse the schedule of what it confirms
IndependentAny(seed, p) == TRUE
Independent(seed, p) == seed # dirs[p].seed

Start(c) == \E mode \in Modes, build \in Build, seed \in Seed, drift \in Drifts,
               prior \in Campaign \union {Nobody} :
    /\ camps[c].pc = "idle" /\ Cardinality({d \in Campaign : Alive(d)}) < Overlap
    /\ VerifiedBinaries(mode, build)
    /\ prior # Nobody => MayConfirm(mode, build, prior) /\ Independent(seed, prior)
    /\ To(c, [Gone("create") EXCEPT !.mode = mode, !.build = build, !.seed = seed,
                                    !.prior = prior, !.drift = drift])
    /\ UNCHANGED <<lock, dirs, disk, faults>>

(* CampaignLease::acquire.  The file is created empty, and its owner is    *)
(* written by a second call.                                               *)
Create(c) ==
    /\ camps[c].pc = "create"
    /\ IF lock.there
       THEN To(c, [camps[c] EXCEPT !.pc = "read"]) /\ UNCHANGED lock
       ELSE /\ lock' = [there |-> TRUE, creator |-> c, owner |-> Nobody]
            /\ To(c, [camps[c] EXCEPT !.pc = "write"])
    /\ UNCHANGED <<dirs, disk, faults>>

(* The write goes to the file that was created, linked still or not.       *)
WriteOwner(c) ==
    /\ camps[c].pc = "write"
    /\ lock' = IF lock.there /\ lock.creator = c THEN [lock EXCEPT !.owner = c] ELSE lock
    /\ To(c, [camps[c] EXCEPT !.pc = "prepare"])
    /\ UNCHANGED <<dirs, disk, faults>>

ReadOwner(c) ==
    /\ camps[c].pc = "read"
    /\ To(c, IF ~lock.there \/ (lock.owner # Nobody /\ Alive(lock.owner))
             THEN Gone("exited") ELSE [camps[c] EXCEPT !.pc = "remove"])
    /\ UNCHANGED <<lock, dirs, disk, faults>>

RemoveStale(c) ==
    /\ camps[c].pc = "remove"
    /\ lock' = NoLock
    /\ To(c, IF camps[c].tries = 2 THEN Gone("exited")
             ELSE [camps[c] EXCEPT !.pc = "create", !.tries = @ + 1])
    /\ UNCHANGED <<dirs, disk, faults>>

(* The run directory, with what the campaign was started from frozen in it.*)
Prepare(c) ==
    /\ camps[c].pc = "prepare"
    /\ dirs' = [dirs EXCEPT ![c] = [EmptyDir EXCEPT !.status = "running", !.mode = camps[c].mode,
                                       !.build = camps[c].build, !.seed = camps[c].seed]]
    /\ To(c, [camps[c] EXCEPT !.pc = "precondition", !.tries = 0])
    /\ UNCHANGED <<lock, disk, faults>>

-----------------------------------------------------------------------------
(* Measuring.  A failure of the baseline leaves no reference and makes the *)
(* campaign invalid; one of the candidate is the product's.  A sample that *)
(* lacks a required metric is invalid whoever ran.                         *)
FailureStates(role) == IF role = "baseline" THEN {"invalid"} ELSE {"product_failure", "invalid"}

ClassificationExit(state) ==
    CASE state = "valid" -> "pass"
      [] state = "product_failure" -> "regression"
      [] state = "invalid" -> "invalid"

Precondition(c) ==
    /\ camps[c].pc = "precondition"
    /\ \/ To(c, [camps[c] EXCEPT !.pc = "block"]) /\ UNCHANGED faults
       \/ /\ Fault
          /\ \E role \in {RoleAt(camps[c], p) : p \in Position} :
             \E state \in FailureStates(role) :
                To(c, [camps[c] EXCEPT !.pc = "settle", !.exit = ClassificationExit(state)])
    /\ UNCHANGED <<lock, dirs, disk>>

(* Before a block both executables are hashed again.                       *)
\* mutant: executables are verified only when the campaign starts
VerifyUnchangedNever(camp) == TRUE
VerifyExecutableUnchanged(camp) == VerifiedBinaries(camp.mode, camp.build)

BeginBlock(c) ==
    LET camp == camps[c] IN
    /\ camp.pc = "block"
    /\ To(c, IF VerifyExecutableUnchanged(camp)
             THEN [camp EXCEPT !.pc = "sample", !.pos = Min(Scheduled(camp))]
             ELSE [camp EXCEPT !.pc = "drop"])
    /\ UNCHANGED <<lock, dirs, disk, faults>>

(* The time an execution takes: the host's drift so far, the build, and    *)
(* what disturbed this execution alone.                                    *)
WallTime(camp, role, noise) ==
    camp.drift * (camp.block * 4 + camp.pos)
        + (IF role = "baseline" THEN 0 ELSE Slower[camp.build]) + noise

(* execute_workload, and the block's record after its last execution or    *)
(* its first that is not valid.                                            *)
Execute(c) == \E noise \in Noise, state \in {"valid", "product_failure", "invalid"} :
    LET camp == camps[c]
        role == RoleAt(camp, camp.pos)
        sample == [workload |-> camp.workload, block |-> camp.block, pos |-> camp.pos,
                   role |-> role, state |-> state, noise |-> noise,
                   time |-> WallTime(camp, role, noise), pinned |-> disk[BinaryFor(camp, role)]]
        rest == {p \in Scheduled(camp) : p > camp.pos}
        count == Len(BlockSamples(camp.samples, camp.workload, camp.block)) + 1
        valid == state = "valid"
    IN
    /\ camp.pc = "sample" /\ state \in {"valid"} \union FailureStates(role)
    /\ ~valid => noise = 0
    /\ IF valid /\ noise = 0 THEN UNCHANGED faults ELSE Fault
    /\ To(c, [camp EXCEPT
            !.samples = Append(@, sample),
            !.exit = ClassificationExit(state),
            !.pos = IF valid /\ rest # {} THEN Min(rest) ELSE 1,
            !.pc = IF valid /\ rest # {} THEN "sample" ELSE "journal_samples",
            !.blocks = IF valid /\ rest # {} THEN @
                ELSE Append(@, [workload |-> camp.workload, block |-> camp.block, valid |-> valid,
                                count |-> IF Single(camp.mode) THEN PerBlock(camp.mode)
                                          ELSE count])])
    /\ UNCHANGED <<lock, dirs, disk>>

(* checkpoint: each journal is replaced whole, one after the other.        *)
\* mutant: the journal is rewritten with the samples of the last block alone
JournalLastBlock(c) ==
    /\ camps[c].pc = "journal_samples"
    /\ dirs' = [dirs EXCEPT ![c].samples =
                   BlockSamples(camps[c].samples, camps[c].workload, camps[c].block)]
    /\ To(c, [camps[c] EXCEPT !.pc = "journal_blocks"])
    /\ UNCHANGED <<lock, disk, faults>>
JournalSamples(c) ==
    /\ camps[c].pc = "journal_samples"
    /\ dirs' = [dirs EXCEPT ![c].samples = camps[c].samples]
    /\ To(c, [camps[c] EXCEPT !.pc = "journal_blocks"])
    /\ UNCHANGED <<lock, disk, faults>>

JournalBlocks(c) ==
    LET camp == camps[c] IN
    /\ camp.pc = "journal_blocks"
    /\ dirs' = [dirs EXCEPT ![c].blocks = camp.blocks]
    /\ To(c, IF camp.exit # "pass" THEN [camp EXCEPT !.pc = "settle"]
             ELSE IF camp.block + 1 < Blocks THEN [camp EXCEPT !.pc = "block", !.block = @ + 1]
             ELSE [camp EXCEPT !.pc = "compare"])
    /\ UNCHANGED <<lock, disk, faults>>

-----------------------------------------------------------------------------
(* Judging.                                                                *)
VerdictExit(verdict) ==
    CASE verdict = "regression" -> "regression"
      [] verdict \in {"invalid", "inconclusive"} -> "invalid"
      [] OTHER -> "pass"

NextWorkload(camp) ==
    IF camp.exit = "pass" /\ camp.workload < Workloads
    THEN [camp EXCEPT !.workload = @ + 1, !.block = 0, !.pc = "precondition"]
    ELSE [camp EXCEPT !.pc = "settle"]

Confirmation(camp) ==
    camp.prior # Nobody /\ ConfirmsPriorSignal(dirs[camp.prior].report, camp.workload)

Compare(c) ==
    LET camp == camps[c] IN
    /\ camp.pc = "compare"
    /\ IF Single(camp.mode) THEN To(c, NextWorkload(camp))
       ELSE \E comparison \in CompareWallTime(camp, Confirmation(camp)) :
                To(c, NextWorkload([camp EXCEPT !.comparisons = Append(@, comparison),
                                                !.exit = VerdictExit(comparison.verdict)]))
    /\ UNCHANGED <<lock, dirs, disk, faults>>

StatusOf(exit) ==
    CASE exit = "pass" -> "pass" [] exit = "regression" -> "failure" [] OTHER -> "invalid"

(* campaign.json, then the report.                                         *)
SettleCampaign(c) ==
    /\ camps[c].pc = "settle"
    /\ dirs' = [dirs EXCEPT ![c].status = StatusOf(camps[c].exit)]
    /\ To(c, [camps[c] EXCEPT !.pc = "report"])
    /\ UNCHANGED <<lock, disk, faults>>

WriteReport(c) ==
    /\ camps[c].pc = "report"
    /\ dirs' = [dirs EXCEPT ![c].report = [status |-> StatusOf(camps[c].exit),
                                            comparisons |-> camps[c].comparisons]]
    /\ To(c, [camps[c] EXCEPT !.pc = "drop"])
    /\ UNCHANGED <<lock, disk, faults>>

(* CampaignLease::drop: the file is read, then removed.                    *)
DropLease(c) ==
    /\ camps[c].pc = "drop"
    /\ To(c, IF lock.there /\ lock.owner = c THEN Gone("unlink") ELSE Gone("exited"))
    /\ UNCHANGED <<lock, dirs, disk, faults>>

Unlink(c) ==
    /\ camps[c].pc = "unlink"
    /\ lock' = NoLock
    /\ To(c, Gone("exited"))
    /\ UNCHANGED <<dirs, disk, faults>>

-----------------------------------------------------------------------------
(* Faults: an error the campaign returns (the wall-time cap, the artifact  *)
(* cap, a harness failure), a crash, an executable overwritten.            *)
Abort(c) ==
    /\ camps[c].pc \in {"precondition", "block", "sample", "journal_samples", "journal_blocks"}
    /\ Fault
    /\ To(c, Gone("drop"))
    /\ UNCHANGED <<lock, dirs, disk>>

Crash(c) ==
    /\ Alive(c) /\ Fault
    /\ To(c, Gone("exited"))
    /\ UNCHANGED <<lock, dirs, disk>>

Overwrite(b) ==
    /\ disk[b] /\ Fault
    /\ disk' = [disk EXCEPT ![b] = FALSE]
    /\ UNCHANGED <<lock, camps, dirs>>

Init ==
    /\ lock = NoLock
    /\ camps = [c \in Campaign |-> Gone("idle")]
    /\ dirs = [c \in Campaign |-> EmptyDir]
    /\ disk = [b \in Binary |-> TRUE]
    /\ faults = 0

Next ==
    \/ \E c \in Campaign :
        \/ Start(c) \/ Create(c) \/ WriteOwner(c) \/ ReadOwner(c) \/ RemoveStale(c) \/ Prepare(c)
        \/ Precondition(c) \/ BeginBlock(c) \/ Execute(c) \/ JournalSamples(c) \/ JournalBlocks(c)
        \/ Compare(c) \/ SettleCampaign(c) \/ WriteReport(c) \/ DropLease(c) \/ Unlink(c)
        \/ Abort(c) \/ Crash(c)
    \/ \E b \in Binary : Overwrite(b)

Spec == Init /\ [][Next]_campaignVars

-----------------------------------------------------------------------------
(* The fields have their types.                                            *)
TypeOK ==
    /\ lock.there \in BOOLEAN /\ {lock.creator, lock.owner} \subseteq Campaign \union {Nobody}
    /\ \A c \in Campaign :
        /\ camps[c].exit \in {"pass", "regression", "invalid"}
        /\ camps[c].tries \in 0 .. 2 /\ camps[c].block \in 0 .. Blocks - 1
        /\ dirs[c].status \in {"none", "running", "pass", "failure", "invalid"}
    /\ disk \in [Binary -> BOOLEAN] /\ faults \in 0 .. MaxFaults

(* The estimate does not see a steady drift of the host.  When it slowed   *)
(* down by the same amount per execution, and no execution of a campaign   *)
(* was disturbed on its own, every comparison the campaign reports states  *)
(* exactly how much slower the candidate is and no difference between the  *)
(* orientations, although baseline and candidate never ran at one moment.  *)
DriftCancels == \A c \in Campaign :
    (\A i \in 1 .. Len(dirs[c].samples) : dirs[c].samples[i].noise = 0) =>
        \A i \in 1 .. Len(dirs[c].report.comparisons) :
            LET m == dirs[c].report.comparisons[i] IN
            m.effect = 4 * Slower[dirs[c].build] /\ m.residual = 0

(* A campaign fails the candidate for its speed only on the second         *)
(* measurement: an earlier campaign of the same builds, under another      *)
(* seed, ended invalid with the same workload over its budget.             *)
RegressionIsConfirmed == \A c \in Campaign :
    \A i \in 1 .. Len(dirs[c].report.comparisons) :
        dirs[c].report.comparisons[i].verdict = "regression" =>
            \E p \in Campaign :
                /\ dirs[p].build = dirs[c].build /\ dirs[p].seed # dirs[c].seed
                /\ dirs[p].report.status = "invalid"
                /\ \E j \in 1 .. Len(dirs[p].report.comparisons) :
                    /\ dirs[p].report.comparisons[j].workload = dirs[c].report.comparisons[i].workload
                    /\ dirs[p].report.comparisons[j].lower > Budget

(* A report that passes stands for whole blocks of the builds it names:    *)
(* every scheduled execution is in the journal and valid, and an           *)
(* executable overwritten during the campaign can have run only in the     *)
(* very last block, which no verification follows.                         *)
PassIsMeasured == \A c \in Campaign :
    dirs[c].report.status = "pass" =>
        /\ \A w \in 1 .. Workloads, b \in 0 .. Blocks - 1 :
              LET block == BlockSamples(dirs[c].samples, w, b) IN
              /\ Len(block) = PerBlock(dirs[c].mode)
              /\ \A i \in 1 .. Len(block) : block[i].state = "valid"
        /\ \A i \in 1 .. Len(dirs[c].samples) :
              ~dirs[c].samples[i].pinned =>
                  dirs[c].samples[i].workload = Workloads /\ dirs[c].samples[i].block = Blocks - 1

(* Wherever a campaign is cut off, its journals agree: a block recorded as *)
(* valid has all its samples in the other journal, and a report never      *)
(* appears before campaign.json has left "running".                        *)
JournalsAgree == \A c \in Campaign :
    /\ \A i \in 1 .. Len(dirs[c].blocks) :
          LET block == dirs[c].blocks[i] IN
          block.valid =>
              Len(BlockSamples(dirs[c].samples, block.workload, block.block)) = block.count
    /\ dirs[c].report.status # "none" => dirs[c].status = dirs[c].report.status
=============================================================================
