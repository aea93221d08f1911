--------------------------- MODULE SweepRun_proofs --------------------------
(***************************************************************************)
(* Proofs about SweepRun, for every grid, number of jobs and threads, and  *)
(* number of faults.                                                       *)
(***************************************************************************)
EXTENDS SweepRun, FiniteSetTheorems, SequenceTheorems, TLAPS

(***************************************************************************)
(* Facts about the helpers.                                                *)
(***************************************************************************)
LEMMA CellFacts ==
  /\ Cells \subseteq Nat \ {0}
  /\ 1 \in Cells
  /\ \A c \in Cells : Grid[c] \in GridIds
<1>1. Grid \in Seq(STRING) /\ Grid # <<>>
  BY GridAssumption
<1>2. PICK n \in Nat : Cells = 1..n /\ (n = 0 => Grid = <<>>)
  BY <1>1 DEF Cells
<1>3. QED
  BY <1>1, <1>2 DEF Cells, GridIds

LEMMA PartTypes ==
  ASSUME NEW c \in Cells
  PROVE  PartOf(c) \in Part /\ TornPart(c) \in Part
BY CellFacts DEF PartOf, TornPart, Part

LEMMA StoredTypes ==
  ASSUME TypeOK
  PROVE  StoredIds \subseteq GridIds
BY DEF TypeOK, StoredIds, Part

(* A worker's step sets the stage of one future.                           *)
LEMMA SetStage ==
  ASSUME TypeOK, NEW j \in Jobs, NEW c \in Cells, NEW s,
         future' = [future EXCEPT ![j][c] = s]
  PROVE  \A k \in Jobs, d \in Cells :
           future'[k][d] = IF k = j /\ d = c THEN s ELSE future[k][d]
BY DEF TypeOK

(***************************************************************************)
(* Type correctness.                                                       *)
(***************************************************************************)
LEMMA InitType == Init => TypeOK
<1> SUFFICES ASSUME Init PROVE TypeOK
  OBVIOUS
<1>1. PICK kind \in Inherited : InheritedDisk(kind)
  BY DEF Init
<1>2. /\ dirExists \in BOOLEAN
      /\ manifest \in {"absent", "torn", "whole", "foreign"}
      /\ index \in {"absent", "torn", "listed"}
  BY <1>1 DEF InheritedDisk
<1>3. /\ DOMAIN parts \subseteq Nat /\ IsFiniteSet(DOMAIN parts)
      /\ \A i \in DOMAIN parts : parts[i] \in Part
  <2>1. [PartOf(1) EXCEPT !.world = "other"] \in Part
    BY CellFacts, PartTypes DEF PartOf, Part
  <2>2. CASE kind = "foreign"
    <3>1. DOMAIN parts = {0} /\ \A i \in DOMAIN parts : parts[i] \in Part
      BY <1>1, <2>1, <2>2 DEF InheritedDisk
    <3>2. IsFiniteSet({0})
      BY FS_Singleton
    <3> QED
      BY <3>1, <3>2
  <2>3. CASE kind # "foreign"
    BY <1>1, <2>3, FS_EmptySet DEF InheritedDisk
  <2> QED
    BY <2>2, <2>3
<1>4. QED
  BY <1>2, <1>3, MaxFaultsAssumption DEF Init, TypeOK, Phases, Stages

LEMMA NextType == TypeOK /\ [Next]_vars => TypeOK'
<1> SUFFICES ASSUME TypeOK, [Next]_vars PROVE TypeOK'
  OBVIOUS
<1> USE DEF TypeOK, Phases, Stages, disk
<1>1. ASSUME NEW j \in Jobs, Start(j) PROVE TypeOK'
  BY <1>1 DEF Start
<1>2. ASSUME NEW j \in Jobs, Main(j) PROVE TypeOK'
  <2>1. CASE ScanFails(j)
    BY <2>1 DEF ScanFails
  <2>2. CASE Submit(j)
    BY <2>2 DEF Submit
  <2>3. CASE CancelRest(j)
    BY <2>3 DEF CancelRest
  <2>4. CASE Raise(j)
    BY <2>4 DEF Raise
  <2>5. CASE PoolDrained(j)
    BY <2>5 DEF PoolDrained
  <2>6. CASE Summarise(j)
    BY <2>6, StoredTypes DEF Summarise
  <2>7. CASE SummariseFails(j)
    BY <2>7 DEF SummariseFails
  <2>8. CASE PublishManifest(j)
    BY <2>8 DEF PublishManifest
  <2>9. CASE ReadIndex(j)
    BY <2>9 DEF ReadIndex
  <2>10. CASE WriteIndex(j)
    BY <2>10 DEF WriteIndex
  <2> QED
    BY <1>2, <2>1, <2>2, <2>3, <2>4, <2>5, <2>6, <2>7, <2>8, <2>9, <2>10 DEF Main
<1>3. ASSUME NEW j \in Jobs, NEW c \in Cells, Worker(j, c) PROVE TypeOK'
  <2>1. CASE TakeEpisode(j, c)
    BY <2>1 DEF TakeEpisode
  <2>2. CASE OpenPart(j, c)
    <3>1. NextPartIndex \in Nat
      BY FS_CardinalityType DEF NextPartIndex
    <3> QED
      BY <2>2, <3>1 DEF OpenPart
  <2>3. CASE WriteTemporary(j, c)
    BY <2>3, PartTypes DEF WriteTemporary, Put
  <2>4. CASE RenamePart(j, c)
    <3>1. slot[j][c] \in Nat /\ tmp[slot[j][c]] \in Part
      BY <2>4 DEF RenamePart
    <3>2. /\ DOMAIN parts' = DOMAIN parts \cup {slot[j][c]}
          /\ \A i \in DOMAIN parts' : parts'[i] \in Part
      BY <2>4, <3>1 DEF RenamePart, Put
    <3>3. IsFiniteSet(DOMAIN parts \cup {slot[j][c]})
      BY FS_AddElement
    <3>4. DOMAIN tmp' \subseteq Nat /\ \A i \in DOMAIN tmp' : tmp'[i] \in Part
      BY <2>4 DEF RenamePart, Remove
    <3> QED
      BY <2>4, <3>1, <3>2, <3>3, <3>4 DEF RenamePart, ReleaseLock
  <2>5. CASE RenameFails(j, c)
    BY <2>5 DEF RenameFails, ReleaseLock
  <2> QED
    BY <1>3, <2>1, <2>2, <2>3, <2>4, <2>5 DEF Worker
<1>4. ASSUME NEW j \in Jobs, NEW c \in Cells, EpisodeFails(j, c) \/ WriteFails(j, c)
      PROVE  TypeOK'
  <2>1. CASE EpisodeFails(j, c)
    BY <2>1, MaxFaultsAssumption DEF EpisodeFails, Fault
  <2>2. CASE WriteFails(j, c)
    <3>1. DOMAIN tmp' \subseteq Nat /\ \A i \in DOMAIN tmp' : tmp'[i] \in Part
      BY <2>2, PartTypes DEF WriteFails, Put
    <3>2. future' \in [Jobs -> [Cells -> Stages]] /\ holder' \in [Jobs -> Cells \cup {0}]
      BY <2>2 DEF WriteFails, ReleaseLock
    <3>3. faults' \in 0..MaxFaults
      BY <2>2, MaxFaultsAssumption DEF WriteFails, Fault
    <3> QED
      BY <2>2, <3>1, <3>2, <3>3 DEF WriteFails
  <2> QED
    BY <1>4, <2>1, <2>2
<1>5. ASSUME NEW j \in Jobs, Crash(j) PROVE TypeOK'
  <2>1. DOMAIN tmp' \subseteq Nat /\ \A i \in DOMAIN tmp' : tmp'[i] \in Part
    <3>1. tmp' = tmp \/ \E c \in Cells : tmp' = Put(tmp, slot[j][c], TornPart(c))
      BY <1>5 DEF Crash
    <3>2. ASSUME NEW c \in Cells, tmp' = Put(tmp, slot[j][c], TornPart(c))
          PROVE  DOMAIN tmp' \subseteq Nat /\ \A i \in DOMAIN tmp' : tmp'[i] \in Part
      BY <3>2, PartTypes DEF Put
    <3> QED
      BY <3>1, <3>2
  <2>2. /\ pc' \in [Jobs -> Phases]
        /\ future' \in [Jobs -> [Cells -> Stages]]
        /\ slot' \in [Jobs -> [Cells -> Nat]]
    BY <1>5 DEF Crash
  <2>3. holder' \in [Jobs -> Cells \cup {0}] /\ seen' \in [Jobs -> SUBSET GridIds]
    BY <1>5 DEF Crash
  <2>4. faults' \in 0..MaxFaults
    BY <1>5, MaxFaultsAssumption DEF Crash, Fault
  <2> QED
    BY <1>5, <2>1, <2>2, <2>3, <2>4 DEF Crash
<1>6. CASE UNCHANGED vars
  BY <1>6 DEF vars, memory
<1> QED
  BY <1>1, <1>2, <1>3, <1>4, <1>5, <1>6 DEF Next, Progress, Trouble

(* Every variable keeps its type in every behaviour.                       *)
THEOREM TypeCorrect == Spec => []TypeOK
BY InitType, NextType, PTL DEF Spec

-----------------------------------------------------------------------------
(***************************************************************************)
(* Part indices have no gaps, for any number of jobs. NoGaps alone is not  *)
(* inductive: a rename must also know that the index it took from the glob *)
(* is at most the number of parts, however many have been added since.     *)
(***************************************************************************)
Writing(j, c) == future[j][c] \in {"opened", "written"}

SlotsBounded ==
  \A j \in Jobs, c \in Cells : Writing(j, c) => slot[j][c] <= Cardinality(DOMAIN parts)

IndexInv == NoGaps /\ SlotsBounded

(* Adding an index that is no larger than the count leaves no gap.         *)
LEMMA PutIndex ==
  ASSUME NEW n \in Nat, NEW i \in Nat, i <= n
  PROVE  /\ (0..(n - 1)) \cup {i} = IF i = n THEN 0..n ELSE 0..(n - 1)
         /\ Cardinality(0..n) = n + 1 /\ Cardinality(0..(n - 1)) = n
<1>1. (0..(n - 1)) \cup {i} = IF i = n THEN 0..n ELSE 0..(n - 1)
  OBVIOUS
<1>2. Cardinality(0..n) = n + 1
  BY FS_Interval
<1>3. Cardinality(0..(n - 1)) = n
  BY FS_Interval
<1> QED
  BY <1>1, <1>2, <1>3

(* What a rename does to the indices, when the slot is within the count.   *)
LEMMA RenameIndices ==
  ASSUME TypeOK, NoGaps, NEW j \in Jobs, NEW c \in Cells, RenamePart(j, c),
         slot[j][c] <= Cardinality(DOMAIN parts)
  PROVE  /\ DOMAIN parts' = DOMAIN parts \cup {slot[j][c]}
         /\ NoGaps'
         /\ Cardinality(DOMAIN parts) <= Cardinality(DOMAIN parts')
<1> DEFINE n == Cardinality(DOMAIN parts)
           i == slot[j][c]
<1>1. n \in Nat /\ i \in Nat /\ i <= n
  BY FS_CardinalityType DEF TypeOK
<1>2. DOMAIN parts = 0..(n - 1)
  BY DEF NoGaps
<1>3. DOMAIN parts' = DOMAIN parts \cup {i}
  BY DEF RenamePart, Put
<1> HIDE DEF n, i
<1>4. DOMAIN parts' = IF i = n THEN 0..n ELSE 0..(n - 1)
  BY <1>1, <1>2, <1>3, PutIndex
<1>5. Cardinality(DOMAIN parts') = IF i = n THEN n + 1 ELSE n
  BY <1>1, <1>4, PutIndex
<1>6. DOMAIN parts' = 0..(Cardinality(DOMAIN parts') - 1)
  BY <1>1, <1>4, <1>5
<1>7. n <= Cardinality(DOMAIN parts')
  BY <1>1, <1>5
<1> QED
  BY <1>3, <1>6, <1>7 DEF NoGaps, n, i

LEMMA InitIndex == Init => IndexInv
<1> SUFFICES ASSUME Init PROVE IndexInv
  OBVIOUS
<1>1. PICK kind \in Inherited : InheritedDisk(kind)
  BY DEF Init
<1>2. DOMAIN parts = {} \/ DOMAIN parts = {0}
  BY <1>1 DEF InheritedDisk
<1>3. Cardinality({}) = 0 /\ Cardinality({0}) = 1
  BY FS_EmptySet, FS_Singleton
<1>4. {} = 0..(0 - 1) /\ {0} = 0..(1 - 1)
  OBVIOUS
<1>5. NoGaps
  <2>1. CASE DOMAIN parts = {}
    BY <2>1, <1>3, <1>4 DEF NoGaps
  <2>2. CASE DOMAIN parts = {0}
    BY <2>2, <1>3, <1>4 DEF NoGaps
  <2> QED
    BY <1>2, <2>1, <2>2
<1> QED
  BY <1>5 DEF Init, IndexInv, SlotsBounded, Writing

LEMMA NextIndex == TypeOK /\ IndexInv /\ [Next]_vars => IndexInv'
<1> SUFFICES ASSUME TypeOK, IndexInv, [Next]_vars PROVE IndexInv'
  OBVIOUS
<1> USE DEF IndexInv
<1>0. Cardinality(DOMAIN parts) \in Nat
  BY FS_CardinalityType DEF TypeOK
(* A step that adds no part and opens none.                                *)
<1>1. ASSUME parts' = parts, slot' = slot,
             \A j \in Jobs, c \in Cells : Writing(j, c)' => Writing(j, c)
      PROVE  IndexInv'
  BY <1>1 DEF NoGaps, SlotsBounded
<1>2. ASSUME NEW j \in Jobs, Start(j) \/ Main(j) PROVE IndexInv'
  <2>1. CASE Submit(j)
    BY <2>1, <1>1 DEF Submit, disk, Writing, TypeOK
  <2>2. CASE CancelRest(j)
    BY <2>2, <1>1 DEF CancelRest, disk, Writing, TypeOK
  <2>3. CASE ~Submit(j) /\ ~CancelRest(j)
    <3>1. parts' = parts /\ slot' = slot /\ future' = future
      BY <1>2, <2>3 DEF Start, Main, ScanFails, Raise, PoolDrained, Summarise,
           SummariseFails, PublishManifest, ReadIndex, WriteIndex, disk
    <3> QED
      BY <3>1, <1>1 DEF Writing
  <2> QED
    BY <2>1, <2>2, <2>3
<1>3. ASSUME NEW j \in Jobs, NEW c \in Cells, Worker(j, c) PROVE IndexInv'
  <2>1. CASE TakeEpisode(j, c) \/ RenameFails(j, c)
    <3>1. parts' = parts /\ slot' = slot
      BY <2>1 DEF TakeEpisode, RenameFails, disk
    <3>2. \A k \in Jobs, d \in Cells : Writing(k, d)' => Writing(k, d)
      <4>1. CASE TakeEpisode(j, c)
        BY <4>1, SetStage DEF TakeEpisode, Writing
      <4>2. CASE RenameFails(j, c)
        BY <4>2, SetStage DEF RenameFails, Writing
      <4> QED
        BY <2>1, <4>1, <4>2
    <3> QED
      BY <3>1, <3>2, <1>1
  <2>2. CASE OpenPart(j, c)
    <3>1. parts' = parts /\ slot' = [slot EXCEPT ![j][c] = Cardinality(DOMAIN parts)]
      BY <2>2 DEF OpenPart, NextPartIndex
    <3>2. \A k \in Jobs, d \in Cells :
            Writing(k, d)' => Writing(k, d) \/ (k = j /\ d = c)
      BY <2>2 DEF OpenPart, Writing, TypeOK
    <3>3. \A k \in Jobs, d \in Cells :
            slot'[k][d] = IF k = j /\ d = c THEN Cardinality(DOMAIN parts) ELSE slot[k][d]
      BY <3>1 DEF TypeOK
    <3> QED
      BY <1>0, <3>1, <3>2, <3>3 DEF NoGaps, SlotsBounded
  <2>3. CASE WriteTemporary(j, c)
    BY <2>3, <1>1 DEF WriteTemporary, Writing, TypeOK
  <2>4. CASE RenamePart(j, c)
    <3>1. slot[j][c] <= Cardinality(DOMAIN parts)
      BY <2>4 DEF RenamePart, SlotsBounded, Writing
    <3>2. NoGaps' /\ Cardinality(DOMAIN parts) <= Cardinality(DOMAIN parts')
      BY <2>4, <3>1, RenameIndices
    <3>3. IsFiniteSet(DOMAIN parts')
      <4>1. TypeOK'
        BY NextType
      <4> QED
        BY <4>1 DEF TypeOK
    <3>4. Cardinality(DOMAIN parts') \in Nat
      BY <3>3, FS_CardinalityType
    <3>5. \A k \in Jobs, d \in Cells : Writing(k, d)' => Writing(k, d)
      BY <2>4 DEF RenamePart, Writing, TypeOK
    <3>6. slot' = slot /\ \A k \in Jobs, d \in Cells : slot[k][d] \in Nat
      BY <2>4 DEF RenamePart, TypeOK
    <3> QED
      BY <1>0, <3>2, <3>4, <3>5, <3>6 DEF SlotsBounded
  <2> QED
    BY <1>3, <2>1, <2>2, <2>3, <2>4 DEF Worker
<1>4. ASSUME NEW j \in Jobs, NEW c \in Cells, EpisodeFails(j, c) \/ WriteFails(j, c)
      PROVE  IndexInv'
  <2>1. parts' = parts /\ slot' = slot
    BY <1>4 DEF EpisodeFails, WriteFails, disk
  <2>2. \A k \in Jobs, d \in Cells : Writing(k, d)' => Writing(k, d)
    BY <1>4 DEF EpisodeFails, WriteFails, Writing, TypeOK
  <2> QED
    BY <2>1, <2>2, <1>1
<1>5. ASSUME NEW j \in Jobs, Crash(j) PROVE IndexInv'
  <2>1. parts' = parts
    BY <1>5 DEF Crash
  <2>2. \A k \in Jobs, d \in Cells :
          Writing(k, d)' => Writing(k, d) /\ slot'[k][d] = slot[k][d]
    BY <1>5 DEF Crash, Writing, TypeOK
  <2> QED
    BY <2>1, <2>2 DEF NoGaps, SlotsBounded
<1>6. CASE UNCHANGED vars
  BY <1>6, <1>1 DEF vars, disk, memory, Writing
<1> QED
  BY <1>2, <1>3, <1>4, <1>5, <1>6 DEF Next, Progress, Trouble

(* The parts of a dataset are numbered 0, 1, ... without a gap, whatever   *)
(* the number of jobs that write it: len(glob) is never an existing part's *)
(* name unless another job is between its own glob and rename.             *)
THEOREM IndicesContiguous == Spec => []NoGaps
<1>1. TypeOK /\ IndexInv /\ [Next]_vars => IndexInv'
  BY NextIndex
<1>2. IndexInv => NoGaps
  BY DEF IndexInv
<1> QED
  BY <1>1, <1>2, InitIndex, TypeCorrect, PTL DEF Spec

-----------------------------------------------------------------------------
(***************************************************************************)
(* One job, distinct episode ids: the inductive invariant behind the       *)
(* safety properties. Read it as the story of an episode: it is stored     *)
(* exactly when its future is complete (CompleteIffStored); between glob   *)
(* and rename the only writer is the lock's holder, so its index is still  *)
(* free (SlotsFresh) and its temporary is its own (TemporaryIsOwn);        *)
(* threads run only inside the pool (FuturesInPool); and once the pool has *)
(* drained nothing is missing (WholeGridStored).                           *)
(***************************************************************************)
WriterHoldsLock ==
  \A j \in Jobs, c \in Cells : Writing(j, c) => holder[j] = c /\ dirExists

SlotsFresh ==
  \A j \in Jobs, c \in Cells : Writing(j, c) => slot[j][c] = Cardinality(DOMAIN parts)

TemporaryIsOwn ==
  \A j \in Jobs, c \in Cells :
    future[j][c] = "written" =>
      slot[j][c] \in DOMAIN tmp /\ tmp[slot[j][c]] = PartOf(c)

FuturesInPool ==
  \A j \in Jobs, c \in Cells :
    /\ future[j][c] = "queued" => pc[j] = "pool"
    /\ future[j][c] \in Busy => pc[j] \in {"pool", "raising"}

CompleteIffStored ==
  \A j \in Jobs, c \in Cells :
    pc[j] \in {"pool", "raising"} => (future[j][c] \in Complete <=> Grid[c] \in StoredIds)

WholeGridStored ==
  \A j \in Jobs :
    pc[j] \in {"summarise", "publishing", "registering", "indexing"}
      => GridIds \subseteq StoredIds

SummaryCurrent == \A j \in Jobs : pc[j] = "publishing" => seen[j] = StoredIds

DirHoldsParts == DOMAIN parts # {} => dirExists

OtherWorldUntouched ==
  (\E i \in DOMAIN parts : parts[i].world = "other") =>
    /\ \A i \in DOMAIN parts : parts[i].world = "other"
    /\ manifest = "foreign"
    /\ \A j \in Jobs : pc[j] \in Resting

WriterInv == WriterHoldsLock /\ SlotsFresh /\ TemporaryIsOwn
PoolInv == FuturesInPool /\ CompleteIffStored
ResultInv == WholeGridStored /\ SummaryCurrent /\ ManifestIsTrue
DatasetInv == DirHoldsParts /\ OtherWorldUntouched /\ NoDuplicateEpisode

RunInv == WriterInv /\ PoolInv /\ ResultInv /\ DatasetInv

LEMMA InitRun == Init => RunInv
<1> SUFFICES ASSUME Init PROVE RunInv
  OBVIOUS
<1>1. PICK kind \in Inherited : InheritedDisk(kind)
  BY DEF Init
<1>2. WriterInv /\ PoolInv
  BY DEF Init, WriterInv, WriterHoldsLock, SlotsFresh, TemporaryIsOwn, Writing,
         PoolInv, FuturesInPool, CompleteIffStored, Busy
<1>3. ResultInv
  BY <1>1 DEF Init, InheritedDisk, ResultInv, WholeGridStored, SummaryCurrent,
              ManifestIsTrue
<1>4. DatasetInv
  <2>1. CASE kind = "foreign"
    <3>1. /\ dirExists = TRUE /\ manifest = "foreign"
          /\ \A i, k \in DOMAIN parts : i = k
          /\ \A i \in DOMAIN parts : parts[i].world = "other"
      BY <1>1, <2>1 DEF InheritedDisk, PartOf
    <3> QED
      BY <3>1 DEF Init, DatasetInv, DirHoldsParts, OtherWorldUntouched,
                  NoDuplicateEpisode, Resting
  <2>2. CASE kind # "foreign"
    <3>1. DOMAIN parts = {}
      BY <1>1, <2>2 DEF InheritedDisk
    <3> QED
      BY <3>1 DEF DatasetInv, DirHoldsParts, OtherWorldUntouched, NoDuplicateEpisode
  <2> QED
    BY <2>1, <2>2
<1> QED
  BY <1>2, <1>3, <1>4 DEF RunInv

(* A step of the main thread: no part, temporary, slot or lock changes.    *)
LEMMA MainThread ==
  ASSUME TypeOK, RunInv, SingleJob, NEW j \in Jobs, Start(j) \/ Main(j)
  PROVE  /\ parts' = parts /\ StoredIds' = StoredIds
         /\ WriterInv'
<1>1. /\ parts' = parts /\ tmp' = tmp /\ slot' = slot /\ holder' = holder
      /\ dirExists' = dirExists
  BY DEF Start, Main, ScanFails, Submit, CancelRest, Raise, PoolDrained, Summarise,
         SummariseFails, PublishManifest, ReadIndex, WriteIndex, disk
<1>2. \A k \in Jobs, c \in Cells, s \in {"opened", "written"} :
        future'[k][c] = s <=> future[k][c] = s
  <2>1. CASE Submit(j)
    <3>1. pc[j] = "scan"
      BY <2>1 DEF Submit
    <3>2. \A k \in Jobs, c \in Cells : future[k][c] \notin Busy
      BY <3>1 DEF SingleJob, RunInv, PoolInv, FuturesInPool
    <3>3. \A k \in Jobs, c \in Cells : future'[k][c] \in {"skipped", "queued"}
      BY <2>1 DEF Submit, TypeOK, SingleJob
    <3> QED
      BY <3>2, <3>3 DEF Busy
  <2>2. CASE CancelRest(j)
    <3>1. \A k \in Jobs, c \in Cells :
            future'[k][c] = IF future[k][c] = "queued" THEN "cancelled" ELSE future[k][c]
      BY <2>2 DEF CancelRest, TypeOK, SingleJob
    <3> QED
      BY <3>1
  <2>3. CASE ~Submit(j) /\ ~CancelRest(j)
    <3>1. future' = future
      BY <2>3 DEF Start, Main, ScanFails, Raise, PoolDrained, Summarise, SummariseFails,
                  PublishManifest, ReadIndex, WriteIndex
    <3> QED
      BY <3>1
  <2> QED
    BY <2>1, <2>2, <2>3
<1>3. StoredIds' = StoredIds
  BY <1>1 DEF StoredIds
<1>4. WriterInv'
  BY <1>1, <1>2 DEF RunInv, WriterInv, Writing, WriterHoldsLock, SlotsFresh, TemporaryIsOwn
<1> QED
  BY <1>1, <1>3, <1>4

LEMMA MainRun ==
  ASSUME TypeOK, RunInv, SingleJob, NEW j \in Jobs, Start(j) \/ Main(j)
  PROVE  RunInv'
<1> USE DEF RunInv
<1>1. parts' = parts /\ StoredIds' = StoredIds /\ WriterInv'
  BY MainThread
<1>2. \A k \in Jobs : k = j
  BY DEF SingleJob
<1>3. PoolInv'
  <2>1. CASE Submit(j)
    <3>1. pc' = [pc EXCEPT ![j] = "pool"] /\ pc'[j] = "pool"
      BY <2>1 DEF Submit, TypeOK
    <3>2. \A c \in Cells :
            future'[j][c] = IF Grid[c] \in StoredIds THEN "skipped" ELSE "queued"
      BY <2>1 DEF Submit, TypeOK, CompletedIds
    <3> QED
      BY <1>1, <1>2, <3>1, <3>2 DEF PoolInv, FuturesInPool, CompleteIffStored, Busy, Complete
  <2>2. CASE CancelRest(j)
    <3>1. pc[j] = "pool" /\ pc'[j] = "raising"
      BY <2>2 DEF CancelRest, TypeOK
    <3>2. \A c \in Cells :
            future'[j][c] = IF future[j][c] = "queued" THEN "cancelled" ELSE future[j][c]
      BY <2>2 DEF CancelRest, TypeOK
    <3> QED
      BY <1>1, <1>2, <3>1, <3>2 DEF PoolInv, FuturesInPool, CompleteIffStored, Busy, Complete
  <2>3. CASE ~Submit(j) /\ ~CancelRest(j)
    <3>1. future' = future /\ pc'[j] \notin {"pool", "raising"}
      BY <2>3 DEF Start, Main, ScanFails, Raise, PoolDrained, Summarise, SummariseFails,
                  PublishManifest, ReadIndex, WriteIndex, TypeOK
    <3>2. \A c \in Cells : future[j][c] \notin Busy \cup {"queued"}
      <4>1. CASE Raise(j)
        BY <4>1 DEF Raise, WorkersFinished, BusyCells, PoolInv, FuturesInPool
      <4>2. CASE PoolDrained(j)
        BY <4>2 DEF PoolDrained, EveryResultReturned, Complete, Busy
      <4>3. CASE ~Raise(j) /\ ~PoolDrained(j)
        <5>1. pc[j] \notin {"pool", "raising"}
          BY <2>3, <4>3 DEF Start, Main, ScanFails, Summarise, SummariseFails,
                            PublishManifest, ReadIndex, WriteIndex, Resting
        <5> QED
          BY <5>1 DEF PoolInv, FuturesInPool
      <4> QED
        BY <4>1, <4>2, <4>3
    <3> QED
      BY <1>2, <3>1, <3>2 DEF PoolInv, FuturesInPool, CompleteIffStored
  <2> QED
    BY <2>1, <2>2, <2>3
<1>4. ResultInv'
  <2>1. CASE PoolDrained(j)
    <3>1. pc'[j] = "summarise" /\ manifest' = manifest /\ recorded' = recorded
      BY <2>1 DEF PoolDrained, TypeOK, disk
    <3>2. GridIds \subseteq StoredIds
      BY <2>1 DEF PoolDrained, EveryResultReturned, PoolInv, CompleteIffStored, GridIds
    <3> QED
      BY <1>1, <1>2, <3>1, <3>2
         DEF ResultInv, WholeGridStored, SummaryCurrent, ManifestIsTrue
  <2>2. CASE Summarise(j)
    BY <1>1, <1>2, <2>2
       DEF Summarise, TypeOK, ResultInv, WholeGridStored, SummaryCurrent, ManifestIsTrue
  <2>3. CASE PublishManifest(j)
    <3>1. /\ pc[j] = "publishing" /\ pc'[j] = "registering"
          /\ manifest' = "whole" /\ recorded' = seen[j]
      BY <2>3 DEF PublishManifest, TypeOK
    <3>2. seen[j] = StoredIds /\ GridIds \subseteq StoredIds
      BY <3>1 DEF ResultInv, SummaryCurrent, WholeGridStored
    <3> QED
      BY <1>1, <1>2, <3>1, <3>2, StoredTypes
         DEF ResultInv, WholeGridStored, SummaryCurrent, ManifestIsTrue
  <2>4. CASE ~PoolDrained(j) /\ ~Summarise(j) /\ ~PublishManifest(j)
    <3>1. /\ manifest' = manifest /\ recorded' = recorded /\ seen' = seen
          /\ pc'[j] \notin {"summarise", "publishing"}
          /\ pc'[j] \in {"registering", "indexing"} =>
               pc[j] \in {"summarise", "publishing", "registering", "indexing"}
      BY <2>4 DEF Start, Main, ScanFails, Submit, CancelRest, Raise, SummariseFails,
                  ReadIndex, WriteIndex, TypeOK, disk
    <3> QED
      BY <1>1, <1>2, <3>1 DEF ResultInv, WholeGridStored, SummaryCurrent, ManifestIsTrue
  <2> QED
    BY <2>1, <2>2, <2>3, <2>4
<1>5. DatasetInv'
  <2>1. dirExists' = dirExists
    BY DEF Start, Main, ScanFails, Submit, CancelRest, Raise, PoolDrained, Summarise,
           SummariseFails, PublishManifest, ReadIndex, WriteIndex, disk
  <2>2. ASSUME NEW i \in DOMAIN parts, parts[i].world = "other"
        PROVE  manifest' = "foreign" /\ pc'[j] \in Resting
    <3>1. manifest = "foreign" /\ pc[j] \in Resting /\ dirExists
      BY <2>2 DEF DatasetInv, OtherWorldUntouched, DirHoldsParts
    <3>2. Start(j)
      BY <3>1 DEF Main, ScanFails, Submit, CancelRest, Raise, PoolDrained, Summarise,
                  SummariseFails, PublishManifest, ReadIndex, WriteIndex, Resting
    <3> QED
      BY <3>1, <3>2 DEF Start, SimulationMatches, TypeOK, Resting, disk
  <2> QED
    BY <1>1, <1>2, <2>1, <2>2
       DEF DatasetInv, DirHoldsParts, OtherWorldUntouched, NoDuplicateEpisode
<1> QED
  BY <1>1, <1>3, <1>4, <1>5

(* A worker's step that adds no part leaves what the main thread knows.    *)
LEMMA NoNewPart ==
  ASSUME RunInv, parts' = parts, pc' = pc, manifest' = manifest, recorded' = recorded,
         seen' = seen, dirExists => dirExists'
  PROVE  StoredIds' = StoredIds /\ ResultInv' /\ DatasetInv'
<1>1. StoredIds' = StoredIds
  BY DEF StoredIds
<1>2. ResultInv'
  BY <1>1 DEF RunInv, ResultInv, WholeGridStored, SummaryCurrent, ManifestIsTrue
<1>3. DatasetInv'
  BY DEF RunInv, DatasetInv, DirHoldsParts, OtherWorldUntouched, NoDuplicateEpisode
<1> QED
  BY <1>1, <1>2, <1>3

(* ... and moves one future between stages that are not complete.          *)
LEMMA OneFuture ==
  ASSUME TypeOK, RunInv, NEW j \in Jobs, NEW c \in Cells, NEW s \in Stages,
         future' = [future EXCEPT ![j][c] = s], pc' = pc, parts' = parts,
         future[j][c] \in Busy \cup {"queued"},
         s \in Busy \cup {"failed"}
  PROVE  PoolInv'
<1>1. \A k \in Jobs, d \in Cells :
        future'[k][d] = IF k = j /\ d = c THEN s ELSE future[k][d]
  BY DEF TypeOK
<1>2. StoredIds' = StoredIds
  BY DEF StoredIds
<1>3. pc[j] \in {"pool", "raising"}
  BY DEF RunInv, PoolInv, FuturesInPool
<1>4. FuturesInPool'
  BY <1>1, <1>3 DEF RunInv, PoolInv, FuturesInPool, Busy
<1>5. CompleteIffStored'
  BY <1>1, <1>2 DEF RunInv, PoolInv, CompleteIffStored, Busy, Complete
<1> QED
  BY <1>4, <1>5 DEF PoolInv

LEMMA WorkerRun ==
  ASSUME TypeOK, IndexInv, RunInv, SingleJob, DistinctIds,
         NEW j \in Jobs, NEW c \in Cells, Worker(j, c)
  PROVE  RunInv'
<1> USE DEF RunInv
<1>1. \A k \in Jobs : k = j
  BY DEF SingleJob
<1>2. Cells \subseteq Nat \ {0}
  BY CellFacts
<1>3. CASE TakeEpisode(j, c)
  <2>1. /\ future' = [future EXCEPT ![j][c] = "episode"] /\ future[j][c] = "queued"
        /\ UNCHANGED <<dirExists, parts, tmp, manifest, recorded, pc, slot, holder, seen>>
    BY <1>3 DEF TakeEpisode, disk
  <2>2. PoolInv'
    BY <2>1, OneFuture DEF Busy, Stages
  <2>3. WriterInv'
    BY <2>1, SetStage
       DEF WriterInv, WriterHoldsLock, SlotsFresh, TemporaryIsOwn, Writing
  <2> QED
    BY <2>1, <2>2, <2>3, NoNewPart
<1>4. CASE OpenPart(j, c)
  <2>1. /\ future' = [future EXCEPT ![j][c] = "opened"] /\ future[j][c] = "episode"
        /\ holder[j] = 0 /\ holder'[j] = c
        /\ slot'[j][c] = Cardinality(DOMAIN parts)
        /\ dirExists' /\ UNCHANGED <<parts, tmp, manifest, recorded, pc, seen>>
    BY <1>4 DEF OpenPart, LockFree, NextPartIndex, TypeOK
  <2>2. PoolInv'
    BY <2>1, OneFuture DEF Busy, Stages
  <2>3. \A d \in Cells : future[j][d] \notin {"opened", "written"}
    BY <1>2, <2>1 DEF WriterInv, WriterHoldsLock, Writing
  <2>4. \A d \in Cells : future'[j][d] \in {"opened", "written"} =>
                           d = c /\ future'[j][d] = "opened"
    BY <2>1, <2>3, SetStage
  <2>5. WriterInv'
    BY <1>1, <2>1, <2>4
       DEF WriterInv, WriterHoldsLock, SlotsFresh, TemporaryIsOwn, Writing
  <2> QED
    BY <2>1, <2>2, <2>5, NoNewPart
<1>5. CASE WriteTemporary(j, c)
  <2>1. /\ future' = [future EXCEPT ![j][c] = "written"] /\ future[j][c] = "opened"
        /\ tmp' = Put(tmp, slot[j][c], PartOf(c))
        /\ UNCHANGED <<dirExists, parts, manifest, recorded, pc, slot, holder, seen>>
    BY <1>5 DEF WriteTemporary
  <2>2. PoolInv'
    BY <2>1, OneFuture DEF Busy, Stages
  <2>3. holder[j] = c /\ \A d \in Cells : future[j][d] \in {"opened", "written"} => d = c
    BY <2>1 DEF WriterInv, WriterHoldsLock, Writing
  <2>4. \A d \in Cells : future'[j][d] \in {"opened", "written"} => d = c
    BY <2>1, <2>3, SetStage
  <2>5. slot[j][c] \in DOMAIN tmp' /\ tmp'[slot[j][c]] = PartOf(c)
    BY <2>1 DEF Put
  <2>6. slot[j][c] = Cardinality(DOMAIN parts)
    BY <2>1 DEF WriterInv, SlotsFresh, Writing
  <2>7. WriterInv'
    BY <1>1, <2>1, <2>3, <2>4, <2>5, <2>6
       DEF WriterInv, WriterHoldsLock, SlotsFresh, TemporaryIsOwn, Writing
  <2> QED
    BY <2>1, <2>2, <2>7, NoNewPart
<1>6. CASE RenamePart(j, c)
  <2> DEFINE i == slot[j][c]
  <2>1. /\ future' = [future EXCEPT ![j][c] = "done"] /\ future[j][c] = "written"
        /\ parts' = Put(parts, i, tmp[i])
        /\ UNCHANGED <<dirExists, manifest, recorded, pc, slot, seen>>
    BY <1>6 DEF RenamePart
  <2>2. holder[j] = c /\ i = Cardinality(DOMAIN parts) /\ tmp[i] = PartOf(c)
    BY <2>1 DEF WriterInv, WriterHoldsLock, SlotsFresh, TemporaryIsOwn, Writing
  <2>3. i \notin DOMAIN parts
    <3>1. Cardinality(DOMAIN parts) \in Nat
      BY FS_CardinalityType DEF TypeOK
    <3>2. DOMAIN parts = 0..(Cardinality(DOMAIN parts) - 1)
      BY DEF IndexInv, NoGaps
    <3> QED
      BY <2>2, <3>1, <3>2
  <2>4. pc[j] \in {"pool", "raising"}
    BY <2>1 DEF PoolInv, FuturesInPool, Busy
  <2>5. Grid[c] \notin StoredIds
    BY <2>1, <2>4 DEF PoolInv, CompleteIffStored, Complete
  <2>6. /\ DOMAIN parts' = DOMAIN parts \cup {i}
        /\ parts'[i] = PartOf(c)
        /\ \A k \in DOMAIN parts : parts'[k] = parts[k]
    BY <2>1, <2>2, <2>3 DEF Put
  <2> HIDE DEF i
  <2>7. StoredIds' = StoredIds \cup {Grid[c]}
    <3>1. parts'[i].episode = Grid[c]
      BY <2>6 DEF PartOf
    <3>2. ASSUME NEW e \in StoredIds' PROVE e \in StoredIds \cup {Grid[c]}
      BY <2>6, <3>1, <3>2 DEF StoredIds
    <3>3. ASSUME NEW e \in StoredIds PROVE e \in StoredIds'
      BY <2>6, <3>3 DEF StoredIds
    <3>4. Grid[c] \in StoredIds'
      BY <2>6, <3>1 DEF StoredIds
    <3> QED
      BY <3>2, <3>3, <3>4
  <2>8. \A d \in Cells : future'[j][d] = IF d = c THEN "done" ELSE future[j][d]
    BY <2>1 DEF TypeOK
  <2>9. WriterInv'
    <3>1. \A d \in Cells : future'[j][d] \notin {"opened", "written"}
      BY <2>2, <2>8 DEF WriterInv, WriterHoldsLock, Writing
    <3> QED
      BY <1>1, <3>1 DEF WriterInv, WriterHoldsLock, SlotsFresh, TemporaryIsOwn, Writing
  <2>10. PoolInv'
    <3>1. FuturesInPool'
      BY <1>1, <2>1, <2>8 DEF PoolInv, FuturesInPool, Busy
    <3>2. CompleteIffStored'
      BY <1>1, <2>1, <2>4, <2>7, <2>8 DEF PoolInv, CompleteIffStored, Complete, DistinctIds
    <3> QED
      BY <3>1, <3>2 DEF PoolInv
  <2>11. ResultInv'
    <3>1. manifest # "whole"
      BY <2>5, CellFacts DEF ResultInv, ManifestIsTrue
    <3> QED
      BY <1>1, <2>1, <2>4, <3>1
         DEF ResultInv, WholeGridStored, SummaryCurrent, ManifestIsTrue
  <2>12. DatasetInv'
    <3>1. dirExists'
      BY <2>1 DEF WriterInv, WriterHoldsLock, Writing
    <3>2. \A k \in DOMAIN parts' : parts'[k].world # "other"
      <4>1. \A k \in DOMAIN parts : parts[k].world # "other"
        BY <2>4 DEF DatasetInv, OtherWorldUntouched, Resting
      <4> QED
        BY <2>6, <4>1 DEF PartOf
    <3>3. NoDuplicateEpisode'
      BY <2>5, <2>6 DEF DatasetInv, NoDuplicateEpisode, StoredIds, PartOf
    <3> QED
      BY <3>1, <3>2, <3>3 DEF DatasetInv, DirHoldsParts, OtherWorldUntouched
  <2> QED
    BY <2>9, <2>10, <2>11, <2>12
<1>7. CASE RenameFails(j, c)
  BY <1>7 DEF RenameFails, WriterInv, TemporaryIsOwn
<1> QED
  BY <1>3, <1>4, <1>5, <1>6, <1>7 DEF Worker

LEMMA TroubleRun ==
  ASSUME TypeOK, RunInv, SingleJob, NEW j \in Jobs, Trouble(j)
  PROVE  RunInv'
<1> USE DEF RunInv
<1>1. \A k \in Jobs : k = j
  BY DEF SingleJob
<1>2. ASSUME NEW c \in Cells, EpisodeFails(j, c) PROVE RunInv'
  <2>1. /\ future' = [future EXCEPT ![j][c] = "failed"] /\ future[j][c] = "episode"
        /\ UNCHANGED <<dirExists, parts, tmp, manifest, recorded, pc, slot, holder, seen>>
    BY <1>2 DEF EpisodeFails, disk
  <2>2. PoolInv'
    BY <2>1, OneFuture DEF Busy, Stages
  <2>3. WriterInv'
    BY <2>1, SetStage
       DEF WriterInv, WriterHoldsLock, SlotsFresh, TemporaryIsOwn, Writing
  <2> QED
    BY <2>1, <2>2, <2>3, NoNewPart
<1>3. ASSUME NEW c \in Cells, WriteFails(j, c) PROVE RunInv'
  <2>1. /\ future' = [future EXCEPT ![j][c] = "failed"] /\ future[j][c] = "opened"
        /\ UNCHANGED <<dirExists, parts, manifest, recorded, pc, slot, seen>>
    BY <1>3 DEF WriteFails
  <2>2. PoolInv'
    BY <2>1, OneFuture DEF Busy, Stages
  <2>3. \A d \in Cells : future'[j][d] = IF d = c THEN "failed" ELSE future[j][d]
    BY <2>1 DEF TypeOK
  <2>4. \A d \in Cells : future'[j][d] \notin {"opened", "written"}
    BY <2>1, <2>3 DEF WriterInv, WriterHoldsLock, Writing
  <2>5. WriterInv'
    BY <1>1, <2>4 DEF WriterInv, WriterHoldsLock, SlotsFresh, TemporaryIsOwn, Writing
  <2> QED
    BY <2>1, <2>2, <2>5, NoNewPart
<1>4. ASSUME Crash(j) PROVE RunInv'
  <2>1. /\ pc'[j] = "idle" /\ \A c \in Cells : future'[j][c] = "none"
        /\ UNCHANGED <<dirExists, parts, manifest, recorded>>
    BY <1>4 DEF Crash, TypeOK
  <2>2. StoredIds' = StoredIds
    BY <2>1 DEF StoredIds
  <2>3. WriterInv'
    BY <1>1, <2>1 DEF WriterInv, WriterHoldsLock, SlotsFresh, TemporaryIsOwn, Writing
  <2>4. PoolInv'
    BY <1>1, <2>1 DEF PoolInv, FuturesInPool, CompleteIffStored, Busy
  <2>5. ResultInv'
    BY <1>1, <2>1, <2>2 DEF ResultInv, WholeGridStored, SummaryCurrent, ManifestIsTrue
  <2>6. DatasetInv'
    BY <1>1, <2>1
       DEF DatasetInv, DirHoldsParts, OtherWorldUntouched, NoDuplicateEpisode, Resting
  <2> QED
    BY <2>3, <2>4, <2>5, <2>6
<1> QED
  BY <1>2, <1>3, <1>4 DEF Trouble

LEMMA NextRun ==
  ASSUME SingleJob, DistinctIds
  PROVE  TypeOK /\ IndexInv /\ RunInv /\ [Next]_vars => RunInv'
<1> SUFFICES ASSUME TypeOK, IndexInv, RunInv, [Next]_vars PROVE RunInv'
  OBVIOUS
<1>1. ASSUME NEW j \in Jobs, Start(j) \/ Main(j) PROVE RunInv'
  BY <1>1, MainRun
<1>2. ASSUME NEW j \in Jobs, NEW c \in Cells, Worker(j, c) PROVE RunInv'
  BY <1>2, WorkerRun
<1>3. ASSUME NEW j \in Jobs, Trouble(j) PROVE RunInv'
  BY <1>3, TroubleRun
<1>4. CASE UNCHANGED vars
  BY <1>4 DEF vars, disk, memory, RunInv, WriterInv, WriterHoldsLock, SlotsFresh,
     TemporaryIsOwn, Writing, PoolInv, FuturesInPool, CompleteIffStored, ResultInv,
     WholeGridStored, SummaryCurrent, ManifestIsTrue, StoredIds, DatasetInv,
     DirHoldsParts, OtherWorldUntouched, NoDuplicateEpisode
<1> QED
  BY <1>1, <1>2, <1>3, <1>4 DEF Next, Progress

(* The invariant holds in every behaviour of one job on a grid whose ids   *)
(* are distinct.                                                           *)
THEOREM RunInvariant ==
  ASSUME SingleJob, DistinctIds
  PROVE  Spec => [](TypeOK /\ IndexInv /\ RunInv)
<1>1. TypeOK /\ IndexInv /\ [Next]_vars => IndexInv'
  BY NextIndex
<1>2. TypeOK /\ IndexInv /\ RunInv /\ [Next]_vars => RunInv'
  BY NextRun
<1> QED
  BY <1>1, <1>2, InitIndex, InitRun, TypeCorrect, PTL DEF Spec

(* No episode is ever stored twice, through any number of kills, episode   *)
(* errors, write errors and resumed runs.                                  *)
THEOREM NoDuplicates ==
  ASSUME SingleJob, DistinctIds
  PROVE  Spec => []NoDuplicateEpisode
<1>1. RunInv => NoDuplicateEpisode
  BY DEF RunInv, DatasetInv
<1> QED
  BY <1>1, RunInvariant, PTL

(* A readable manifest counts exactly the stored episodes, which are the   *)
(* whole grid: no run publishes a dataset that has a hole.                 *)
THEOREM ManifestTrue ==
  ASSUME SingleJob, DistinctIds
  PROVE  Spec => []ManifestIsTrue
<1>1. RunInv => ManifestIsTrue
  BY DEF RunInv, ResultInv
<1> QED
  BY <1>1, RunInvariant, PTL

(* Episodes of two worlds are never pooled in one dataset.                 *)
THEOREM OneWorldOnly ==
  ASSUME SingleJob, DistinctIds
  PROVE  Spec => []OneWorld
<1>1. TypeOK /\ RunInv => OneWorld
  BY DEF TypeOK, Part, RunInv, DatasetInv, OtherWorldUntouched, OneWorld
<1> QED
  BY <1>1, RunInvariant, PTL

(* When run_grid has returned or raised, none of its threads is running.   *)
THEOREM NoStraggler ==
  ASSUME SingleJob, DistinctIds
  PROVE  Spec => []NoStragglers
<1>1. RunInv => NoStragglers
  BY DEF RunInv, PoolInv, FuturesInPool, NoStragglers, Resting, BusyCells
<1> QED
  BY <1>1, RunInvariant, PTL

(* No episode whose part is in place is ever simulated again.              *)
THEOREM NotRerun ==
  ASSUME SingleJob, DistinctIds
  PROVE  Spec => CompletedNotRerun
<1> DEFINE Rerun == \A j \in Jobs, c \in Cells :
                      future[j][c] = "queued" /\ future'[j][c] = "episode"
                        => Grid[c] \notin StoredIds
<1>1. RunInv => Rerun
  BY DEF RunInv, PoolInv, FuturesInPool, CompleteIffStored, Complete
<1> QED
  BY <1>1, RunInvariant, PTL DEF Spec, CompletedNotRerun

(* A part is never removed, overwritten or truncated once it is in place.  *)
THEOREM PartsKept ==
  ASSUME SingleJob, DistinctIds
  PROVE  Spec => PartsSurvive
<1> DEFINE Kept == \A i \in DOMAIN parts : i \in DOMAIN parts' /\ parts'[i] = parts[i]
<1>1. TypeOK /\ IndexInv /\ RunInv /\ [Next]_vars => Kept
  <2> SUFFICES ASSUME TypeOK, IndexInv, RunInv, [Next]_vars PROVE Kept
    OBVIOUS
  <2>1. CASE UNCHANGED vars
    BY <2>1 DEF vars, disk
  <2>2. ASSUME NEW j \in Jobs, NEW c \in Cells, RenamePart(j, c) PROVE Kept
    <3>1. slot[j][c] = Cardinality(DOMAIN parts)
      BY <2>2 DEF RenamePart, RunInv, WriterInv, SlotsFresh, Writing
    <3>2. slot[j][c] \notin 0..(Cardinality(DOMAIN parts) - 1)
      BY <3>1, FS_CardinalityType DEF TypeOK
    <3> QED
      BY <2>2, <3>2 DEF RenamePart, Put, IndexInv, NoGaps
  <2>3. ASSUME NEW j \in Jobs, Start(j) \/ Main(j) PROVE Kept
    BY <2>3, MainThread
  <2>4. ASSUME NEW j \in Jobs, NEW c \in Cells, Worker(j, c), ~RenamePart(j, c) PROVE Kept
    BY <2>4 DEF Worker, TakeEpisode, OpenPart, WriteTemporary, RenameFails, disk
  <2>5. ASSUME NEW j \in Jobs, Trouble(j) PROVE Kept
    BY <2>5 DEF Trouble, Crash, EpisodeFails, WriteFails, disk
  <2> QED
    BY <2>1, <2>2, <2>3, <2>4, <2>5 DEF Next, Progress
<1> QED
  BY <1>1, RunInvariant, PTL DEF Spec, PartsSurvive
-----------------------------------------------------------------------------
(***************************************************************************)
(* The files implement the log of episodes. A rename is the one step that  *)
(* appends; publishing and rewriting the manifest are the steps of the     *)
(* same name; everything else, kills and failures included, stutters.      *)
(***************************************************************************)
LogOfParts == [n \in 1..Cardinality(OurParts) |-> parts[n - 1].episode]

(* A dataset this job has added to holds no other part.                    *)
LEMMA AllOurs ==
  ASSUME TypeOK, IndexInv, \A i \in DOMAIN parts : parts[i].world # "other"
  PROVE  /\ OurParts = DOMAIN parts
         /\ Cardinality(OurParts) \in Nat
         /\ DOMAIN parts = 0..(Cardinality(OurParts) - 1)
         /\ Log!Logged = StoredIds
<1>1. OurParts = DOMAIN parts
  BY DEF OurParts, TypeOK, Part
<1>2. Cardinality(OurParts) \in Nat
  BY <1>1, FS_CardinalityType DEF TypeOK
<1>3. DOMAIN parts = 0..(Cardinality(OurParts) - 1)
  BY <1>1 DEF IndexInv, NoGaps
<1> DEFINE n == Cardinality(OurParts)
<1>4. Log!Logged = {LogOfParts[i] : i \in DOMAIN LogOfParts}
  BY DEF Log!Logged, LogOfParts
<1>5. DOMAIN LogOfParts = 1..n /\ \A i \in 1..n : LogOfParts[i] = parts[i - 1].episode
  BY DEF LogOfParts
<1> HIDE DEF n
<1>6. \A i \in 1..n : i - 1 \in DOMAIN parts
  BY <1>2, <1>3 DEF n
<1>7. \A i \in DOMAIN parts : i + 1 \in 1..n /\ (i + 1) - 1 = i
  BY <1>2, <1>3 DEF n
<1>8. Log!Logged \subseteq StoredIds
  BY <1>4, <1>5, <1>6 DEF StoredIds
<1>9. StoredIds \subseteq Log!Logged
  <2> SUFFICES ASSUME NEW i \in DOMAIN parts PROVE parts[i].episode \in Log!Logged
    BY DEF StoredIds
  <2>1. LogOfParts[i + 1] = parts[i].episode
    BY <1>5, <1>7
  <2> QED
    BY <1>4, <1>5, <1>7, <2>1
<1> QED
  BY <1>1, <1>2, <1>3, <1>8, <1>9

LEMMA InitLog == Init => Log!Init
<1> SUFFICES ASSUME Init PROVE Log!Init
  OBVIOUS
<1>1. PICK kind \in Inherited : InheritedDisk(kind)
  BY DEF Init
<1>2. \A i \in DOMAIN parts : parts[i].world # "ours"
  BY <1>1 DEF InheritedDisk, PartOf
<1>3. OurParts = {}
  BY <1>2 DEF OurParts
<1>4. LogOfParts = <<>>
  BY <1>3, FS_EmptySet DEF LogOfParts
<1>5. manifest # "whole"
  BY <1>1 DEF InheritedDisk
<1> QED
  BY <1>4, <1>5 DEF Log!Init, LogOfParts

(* Where no part changes, the log does not.                                *)
LEMMA SameLog ==
  ASSUME parts' = parts
  PROVE  LogOfParts' = LogOfParts
BY DEF LogOfParts, OurParts

LEMMA RenameAppends ==
  ASSUME TypeOK, IndexInv, RunInv, TypeOK', IndexInv', DistinctIds,
         NEW j \in Jobs, NEW c \in Cells, RenamePart(j, c)
  PROVE  Log!Store(Grid[c])
<1> DEFINE i == slot[j][c]
           n == Cardinality(OurParts)
<1>1. pc[j] \in {"pool", "raising"} /\ future[j][c] = "written"
  BY DEF RenamePart, RunInv, PoolInv, FuturesInPool, Busy
<1>2. \A k \in DOMAIN parts : parts[k].world # "other"
  BY <1>1 DEF RunInv, DatasetInv, OtherWorldUntouched, Resting
<1>3. n \in Nat /\ OurParts = DOMAIN parts /\ DOMAIN parts = 0..(n - 1)
      /\ Log!Logged = StoredIds
  BY <1>2, AllOurs
<1>4. i = n /\ tmp[i] = PartOf(c)
  BY <1>1, <1>3 DEF RunInv, WriterInv, SlotsFresh, TemporaryIsOwn, Writing
<1>5. Grid[c] \notin StoredIds
  BY <1>1 DEF RunInv, PoolInv, CompleteIffStored, Complete
<1>6. parts' = Put(parts, i, tmp[i]) /\ manifest' = manifest
  BY DEF RenamePart
<1> HIDE DEF i, n
<1>7. /\ DOMAIN parts' = 0..n
      /\ parts'[n] = PartOf(c)
      /\ \A k \in 0..(n - 1) : parts'[k] = parts[k]
  <2>1. (0..(n - 1)) \cup {n} = 0..n /\ n \notin 0..(n - 1)
    BY <1>3
  <2> QED
    BY <1>3, <1>4, <1>6, <2>1 DEF Put
<1>8. \A k \in DOMAIN parts' : parts'[k].world = "ours"
  <2>1. \A k \in DOMAIN parts : parts[k].world = "ours"
    BY <1>3 DEF OurParts
  <2>2. \A k \in 0..n : k \in 0..(n - 1) \/ k = n
    BY <1>3
  <2> QED
    BY <1>3, <1>7, <2>1, <2>2 DEF PartOf
<1>9. Cardinality(OurParts') = n + 1
  <2>1. OurParts' = 0..n
    BY <1>7, <1>8 DEF OurParts
  <2> QED
    BY <1>3, <2>1, PutIndex
<1>10. LogOfParts' = Append(LogOfParts, Grid[c])
  <2>1. LogOfParts = [k \in 1..n |-> parts[k - 1].episode]
    BY DEF LogOfParts, n
  <2>2. LogOfParts' = [k \in 1..(n + 1) |-> parts'[k - 1].episode]
    BY <1>9 DEF LogOfParts
  <2>3. \A k \in 1..n : k - 1 \in 0..(n - 1)
    BY <1>3
  <2>4. \A k \in 1..n : LogOfParts'[k] = LogOfParts[k]
    BY <1>3, <1>7, <2>1, <2>2, <2>3
  <2>5. LogOfParts'[n + 1] = Grid[c]
    BY <1>3, <1>7, <2>2 DEF PartOf
  <2>6. LogOfParts \in Seq(GridIds) /\ Len(LogOfParts) = n
    <3>1. \A k \in 1..n : parts[k - 1].episode \in GridIds
      BY <1>3, <2>3 DEF TypeOK, Part
    <3> QED
      BY <1>3, <2>1, <3>1
  <2>7. /\ Append(LogOfParts, Grid[c]) \in Seq(GridIds)
        /\ Len(Append(LogOfParts, Grid[c])) = n + 1
        /\ Append(LogOfParts, Grid[c])[n + 1] = Grid[c]
        /\ \A k \in 1..n : Append(LogOfParts, Grid[c])[k] = LogOfParts[k]
    BY <1>3, <2>6, CellFacts, AppendProperties
  <2>8. LogOfParts' \in Seq(GridIds) /\ Len(LogOfParts') = n + 1
    <3>1. \A k \in 0..n : parts'[k].episode \in GridIds
      BY <1>7 DEF TypeOK, Part
    <3>2. \A k \in 1..(n + 1) : k - 1 \in 0..n
      BY <1>3
    <3> QED
      BY <1>3, <2>2, <3>1, <3>2
  <2>9. \A k \in 1..(n + 1) : LogOfParts'[k] = Append(LogOfParts, Grid[c])[k]
    BY <1>3, <2>4, <2>5, <2>7
  <2> QED
    BY <2>7, <2>8, <2>9, SeqEqual
<1> QED
  BY <1>3, <1>5, <1>6, <1>10 DEF Log!Store, LogOfParts

(* Every step of one job is a step of the log, or none.                    *)
LEMMA StepLog ==
  ASSUME SingleJob, DistinctIds, TypeOK, IndexInv, RunInv, TypeOK', IndexInv', [Next]_vars
  PROVE  [Log!Next]_<<LogOfParts, manifest = "whole">>
<1>1. ASSUME NEW j \in Jobs, NEW c \in Cells, RenamePart(j, c) PROVE Log!Next
  BY <1>1, RenameAppends, CellFacts DEF Log!Next
<1>2. ASSUME NEW j \in Jobs, PublishManifest(j) PROVE Log!Next
  <2>1. pc[j] = "publishing" /\ parts' = parts /\ manifest' = "whole"
    BY <1>2 DEF PublishManifest
  <2>2. StoredIds = GridIds
    BY <2>1, StoredTypes DEF RunInv, ResultInv, WholeGridStored
  <2>3. \A i \in DOMAIN parts : parts[i].world # "other"
    BY <2>1 DEF RunInv, DatasetInv, OtherWorldUntouched, Resting
  <2>4. Log!Logged = GridIds
    BY <2>2, <2>3, AllOurs
  <2> QED
    BY <2>1, <2>4, SameLog DEF Log!Next, Log!Publish, LogOfParts
<1>3. ASSUME NEW j \in Jobs, Summarise(j) PROVE [Log!Next]_<<LogOfParts, manifest = "whole">>
  <2>1. parts' = parts /\ manifest' = "torn"
    BY <1>3 DEF Summarise
  <2> QED
    BY <2>1, SameLog DEF Log!Next, Log!Retract, LogOfParts
<1>4. ASSUME UNCHANGED <<parts, manifest>> PROVE UNCHANGED <<LogOfParts, manifest = "whole">>
  BY <1>4, SameLog
<1>5. ASSUME NEW j \in Jobs, Start(j) \/ Main(j), ~PublishManifest(j), ~Summarise(j)
      PROVE  UNCHANGED <<parts, manifest>>
  BY <1>5 DEF Start, Main, ScanFails, Submit, CancelRest, Raise, PoolDrained, SummariseFails,
              ReadIndex, WriteIndex, disk
<1>6. ASSUME NEW j \in Jobs, NEW c \in Cells, Worker(j, c), ~RenamePart(j, c)
      PROVE  UNCHANGED <<parts, manifest>>
  BY <1>6 DEF Worker, TakeEpisode, OpenPart, WriteTemporary, RenameFails, disk
<1>7. ASSUME NEW j \in Jobs, Trouble(j) PROVE UNCHANGED <<parts, manifest>>
  BY <1>7 DEF Trouble, Crash, EpisodeFails, WriteFails, disk
<1>8. ASSUME UNCHANGED vars PROVE UNCHANGED <<parts, manifest>>
  BY <1>8 DEF vars, disk
<1> QED
  BY <1>1, <1>2, <1>3, <1>4, <1>5, <1>6, <1>7, <1>8 DEF Next, Progress

(* One job on distinct ids, however often it is killed, fails and is       *)
(* resubmitted: what is on disk is an append-only log of the grid's        *)
(* episodes, published only while it is complete.                          *)
THEOREM Refinement ==
  ASSUME SingleJob, DistinctIds
  PROVE  Spec => ImplementsEpisodeLog
<1>1. /\ TypeOK /\ IndexInv /\ RunInv /\ TypeOK' /\ IndexInv' /\ [Next]_vars
      => [Log!Next]_<<LogOfParts, manifest = "whole">>
  BY StepLog
<1> QED
  BY <1>1, InitLog, RunInvariant, PTL DEF Spec, ImplementsEpisodeLog, Log!Spec, LogOfParts
=============================================================================
