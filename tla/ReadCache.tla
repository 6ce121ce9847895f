----------------------------- MODULE ReadCache -----------------------------
(***************************************************************************)
(* The worker-local cache of immutable files (case_reader/cache.rs).       *)
(* Readers of several shards share it; the mutex covers the lookup and the *)
(* insertion, never the download between them, so two readers may miss the *)
(* same file and both come back with it.                                   *)
(***************************************************************************)
EXTENDS Integers, Sequences, SequencesExt, FiniteSets

CONSTANTS Reader,       \* concurrent readers of one worker command
          File,         \* files by binding and reference
          Charge,       \* Charge[f]: the bytes charged for a file
          TooLarge,     \* files above MAX_FILE, never kept
          Capacity,     \* CAPACITY
          MaxEntries    \* MAX_ENTRIES

VARIABLES entries,   \* State.entries, the least recently used first
          charged,   \* State.charged
          reading    \* each reader: the file it reads and whether it has it

cacheVars == <<entries, charged, reading>>

Idle == [step |-> "idle"]

Find(file) == {i \in DOMAIN entries : entries[i] = file}

(* A hit moves its entry to the back and copies the bytes out.             *)
Lookup(r, file) ==
  /\ reading[r] = Idle
  /\ IF Find(file) = {}
     THEN /\ reading' = [reading EXCEPT ![r] = [step |-> "fetch", file |-> file]]
          /\ UNCHANGED <<entries, charged>>
     ELSE LET index == CHOOSE i \in Find(file) : \A j \in Find(file) : i <= j IN
          /\ entries' = Append(RemoveAt(entries, index), file)
          /\ reading' = [reading EXCEPT ![r] = [step |-> "check", file |-> file]]
          /\ UNCHANGED charged

(* The download outside the lock; a failed or cancelled one inserts        *)
(* nothing.                                                                *)
Fetch(r) ==
  /\ reading[r].step = "fetch"
  /\ reading' = [reading EXCEPT ![r] = [step |-> "check", file |-> reading[r].file]]
  /\ UNCHANGED <<entries, charged>>

GiveUp(r) ==
  /\ reading[r].step \in {"fetch", "check"}
  /\ reading' = [reading EXCEPT ![r] = Idle]
  /\ UNCHANGED <<entries, charged>>

(* mutant: one entry leaves, whatever room that makes *)
EvictOnce(kept, total, charge) ==
  IF total + charge > Capacity \/ Len(kept) >= MaxEntries
  THEN [kept |-> Tail(kept), total |-> total - Charge[kept[1]]]
  ELSE [kept |-> kept, total |-> total]

(* Entries leave from the front until the new one fits.                    *)
RECURSIVE Evict(_, _, _)
Evict(kept, total, charge) ==
  IF total + charge > Capacity \/ Len(kept) >= MaxEntries
  THEN Evict(Tail(kept), total - Charge[kept[1]], charge)
  ELSE [kept |-> kept, total |-> total]

(* mutant: the insertion trusts the lookup made before the download *)
KeepsUnchecked(file) == file \notin TooLarge /\ Charge[file] <= Capacity

Keeps(file) == file \notin TooLarge /\ Charge[file] <= Capacity /\ Find(file) = {}

Insert(r) ==
  /\ reading[r].step = "check"
  /\ LET file == reading[r].file
         left == Evict(entries, charged, Charge[file])
     IN IF Keeps(file)
        THEN /\ entries' = Append(left.kept, file)
             /\ charged' = left.total + Charge[file]
        ELSE UNCHANGED <<entries, charged>>
  /\ reading' = [reading EXCEPT ![r] = Idle]

Init == /\ entries = <<>>
        /\ charged = 0
        /\ reading = [r \in Reader |-> Idle]

Next == \E r \in Reader : \/ \E file \in File : Lookup(r, file)
                          \/ Fetch(r)
                          \/ GiveUp(r)
                          \/ Insert(r)

Spec == Init /\ [][Next]_cacheVars

-----------------------------------------------------------------------------
TypeOK == /\ entries \in Seq(File \ TooLarge)
          /\ charged \in 0..Capacity
          /\ \A r \in Reader : reading[r].step \in {"idle", "fetch", "check"}

(* However misses, hits and evictions interleave, a file is kept once,     *)
(* what is charged is the sum over the kept files, and neither bound is    *)
(* passed; the eviction loop never runs out of entries to drop.            *)
CacheIsExact ==
  /\ charged = FoldLeft(LAMBDA n, f : n + Charge[f], 0, entries)
  /\ charged <= Capacity
  /\ Len(entries) <= MaxEntries
  /\ \A i, j \in DOMAIN entries : entries[i] = entries[j] => i = j
=============================================================================
