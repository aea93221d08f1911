------------------------------ MODULE SweepRun ------------------------------
(***************************************************************************)
(* The batch sweep executor (experiments/runner.py) over the append-only   *)
(* Parquet writer (data/writer.py): what a run of run_grid does to the     *)
(* files of ONE dataset, with its pool of worker threads, its failures,    *)
(* and a kill at any point followed by a resubmitted run.                  *)
(*                                                                         *)
(* A job is one operating-system process that calls run_grid on the        *)
(* dataset. The write lock is a threading.Lock: it belongs to a job.       *)
(* A cell is a position of the expanded grid; its future goes through      *)
(*                                                                         *)
(*    queued --> episode --> opened --> written --> done                   *)
(*       \           \----------\----------\--> failed                     *)
(*        \--> cancelled                                                   *)
(*                                                                         *)
(* "skipped" is a cell the resume scan found complete (it has no future)   *)
(* and "none" the cells of a job that has not built its pool.              *)
(*                                                                         *)
(* A part file holds the records of one episode, so the model keeps the    *)
(* episode. write_table's bytes are one step; a kill or a full disk in it  *)
(* leaves a torn temporary file. Two jobs whose write_table calls overlap  *)
(* on the same temporary file are not modelled byte by byte.               *)
(***************************************************************************)
EXTENDS Naturals, Sequences, FiniteSets

CONSTANTS
  Grid,         \* the episode ids of expand(sweep), in the order of the product
  Jobs,         \* the processes that run the sweep
  Concurrency,  \* sweep.concurrency, the worker threads of one job
  MaxFaults,    \* bound on the kills, episode errors and write errors together
  Inherited     \* what may be on disk before the first run, see Init

ASSUME GridAssumption == Grid \in Seq(STRING) /\ Grid # <<>>
ASSUME ConcurrencyAssumption == Concurrency \in Nat \ {0}
ASSUME MaxFaultsAssumption == MaxFaults \in Nat
ASSUME InheritedAssumption == Inherited \subseteq {"clean", "moved_aside", "foreign"}

VARIABLES
  (* The files of the dataset, which survive a kill.                       *)
  dirExists,    \* the directory root/<hash> exists
  parts,        \* part index -> what part-<index>.parquet holds
  tmp,          \* part index -> what .part-<index>.parquet.tmp holds
  manifest,     \* root/<hash>-run/manifest.json
  recorded,     \* the episodes the manifest's summary counts
  index,        \* root/index.json, as far as it concerns this dataset
  (* The memory of a job.                                                  *)
  pc,           \* where run_grid is
  future,       \* cell -> the stage of its future
  slot,         \* cell -> the part index its writer took from the glob
  holder,       \* the cell whose thread holds the write lock, or 0
  seen,         \* the episodes _summarise read
  (* Bookkeeping.                                                          *)
  faults        \* kills and errors so far

disk == <<dirExists, parts, tmp, manifest, recorded, index>>
memory == <<pc, future, slot, holder, seen>>
vars == <<disk, memory, faults>>

(***************************************************************************)
(* Types and helpers.                                                      *)
(***************************************************************************)
Cells == DOMAIN Grid
GridIds == {Grid[c] : c \in Cells}

Phases == {"idle", "scan", "pool", "raising", "summarise", "publishing",
           "registering", "indexing", "failed", "done"}
Resting == {"idle", "failed", "done"}       \* no run_grid call in progress
Stages == {"none", "skipped", "queued", "episode", "opened", "written",
           "done", "failed", "cancelled"}
Busy == {"episode", "opened", "written"}    \* a worker thread is executing it
Complete == {"skipped", "done"}

(* One file of records: the episode, the world (simulation fingerprint) it *)
(* was simulated in, and whether the bytes are all there.                  *)
Part == [episode : GridIds, world : {"ours", "other"}, whole : BOOLEAN]
PartOf(c) == [episode |-> Grid[c], world |-> "ours", whole |-> TRUE]
TornPart(c) == [PartOf(c) EXCEPT !.whole = FALSE]

StoredIds == {parts[i].episode : i \in DOMAIN parts}
Put(f, i, v) == [k \in DOMAIN f \cup {i} |-> IF k = i THEN v ELSE f[k]]
Remove(f, i) == [k \in DOMAIN f \ {i} |-> f[k]]

(* load_records succeeds: there is a part, and every part parses.          *)
Readable == DOMAIN parts # {} /\ \A i \in DOMAIN parts : parts[i].whole

BusyCells(j) == {c \in Cells : future[j][c] \in Busy}
Failed(j, c) == future[j][c] = "failed"
Fault == faults < MaxFaults /\ faults' = faults + 1

(***************************************************************************)
(* Small definitions that carry a decision of the code each, preceded by   *)
(* the regression the properties are tried against.                        *)
(***************************************************************************)
MatchUnchecked == TRUE
(* _assert_simulation_matches: a dataset with a manifest resumes only when *)
(* the manifest parses and records this process's fingerprint.             *)
SimulationMatches == dirExists => manifest \notin {"torn", "foreign"}

LockIgnored(j) == TRUE
(* with write_lock: one thread of a job writes at a time.                  *)
LockFree(j) == holder[j] = 0

ForgetCompleted == {}
TrustTemporaries == StoredIds \cup {tmp[i].episode : i \in DOMAIN tmp}
(* _completed_ids: the ids read back from the parts.                       *)
CompletedIds == StoredIds

PreviousPartIndex == Cardinality(DOMAIN parts) - 1
CountTemporaries == Cardinality(DOMAIN parts) + Cardinality(DOMAIN tmp)
(* part_index = len(glob("part-*.parquet"))                                *)
NextPartIndex == Cardinality(DOMAIN parts)

StragglersIgnored(j) == TRUE
(* ThreadPoolExecutor.__exit__ is shutdown(wait=True).                     *)
WorkersFinished(j) == BusyCells(j) = {}

NothingLeftToRun(j) == \A c \in Cells : future[j][c] \notin Busy \cup {"queued"}
(* list(pool.map(...)) returned: every future gave its result.             *)
EveryResultReturned(j) == \A c \in Cells : future[j][c] \in Complete

LockKept(j) == holder' = holder
(* Leaving the with block, by return or by exception.                      *)
ReleaseLock(j) == holder' = [holder EXCEPT ![j] = 0]

-----------------------------------------------------------------------------
(***************************************************************************)
(* Initially nothing, or what identity cannot catch: a dataset directory   *)
(* and manifest of another world under this hash ("foreign"), or only that *)
(* manifest, after the dataset directory was moved aside as the refusal    *)
(* tells the operator to do ("moved_aside").                               *)
(***************************************************************************)
InheritedDisk(kind) ==
  /\ dirExists = (kind = "foreign")
  /\ parts = IF kind = "foreign"
             THEN [i \in {0} |-> [PartOf(1) EXCEPT !.world = "other"]]
             ELSE [i \in {} |-> PartOf(1)]
  /\ manifest = IF kind = "clean" THEN "absent" ELSE "foreign"
  /\ index = IF kind = "clean" THEN "absent" ELSE "listed"

Init ==
  /\ \E kind \in Inherited : InheritedDisk(kind)
  /\ tmp = [i \in {} |-> PartOf(1)]
  /\ recorded = {}
  /\ pc = [j \in Jobs |-> "idle"]
  /\ future = [j \in Jobs |-> [c \in Cells |-> "none"]]
  /\ slot = [j \in Jobs |-> [c \in Cells |-> 0]]
  /\ holder = [j \in Jobs |-> 0]
  /\ seen = [j \in Jobs |-> {}]
  /\ faults = 0

(***************************************************************************)
(* Before the pool: the fingerprint check, then the resume scan.           *)
(***************************************************************************)
Start(j) ==
  /\ pc[j] \in Resting
  /\ pc' = [pc EXCEPT ![j] = IF SimulationMatches THEN "scan" ELSE "failed"]
  /\ UNCHANGED <<disk, future, slot, holder, seen, faults>>

(* The directory is there and load_records raises: _completed_ids does too. *)
ScanFails(j) ==
  /\ pc[j] = "scan"
  /\ dirExists /\ ~Readable
  /\ pc' = [pc EXCEPT ![j] = "failed"]
  /\ UNCHANGED <<disk, future, slot, holder, seen, faults>>

(* Completed cells are skipped, one future is submitted for every other.   *)
Submit(j) ==
  /\ pc[j] = "scan"
  /\ dirExists => Readable
  /\ future' = [future EXCEPT ![j] =
       [c \in Cells |-> IF Grid[c] \in CompletedIds THEN "skipped" ELSE "queued"]]
  /\ pc' = [pc EXCEPT ![j] = "pool"]
  /\ UNCHANGED <<disk, slot, holder, seen, faults>>

(***************************************************************************)
(* The worker threads.                                                     *)
(***************************************************************************)
(* A free thread takes the future submitted first and runs the episode.    *)
TakeEpisode(j, c) ==
  /\ future[j][c] = "queued"
  /\ \A d \in Cells : future[j][d] = "queued" => c <= d
  /\ Cardinality(BusyCells(j)) < Concurrency
  /\ future' = [future EXCEPT ![j][c] = "episode"]
  /\ UNCHANGED <<disk, pc, slot, holder, seen, faults>>

(* run_episode raises (a serving error fails the whole episode).           *)
EpisodeFails(j, c) ==
  /\ future[j][c] = "episode"
  /\ Fault
  /\ future' = [future EXCEPT ![j][c] = "failed"]
  /\ UNCHANGED <<disk, pc, slot, holder, seen>>

(* The episode is over: take the lock, mkdir, choose the part's index.     *)
OpenPart(j, c) ==
  /\ future[j][c] = "episode"
  /\ LockFree(j)
  /\ future' = [future EXCEPT ![j][c] = "opened"]
  /\ holder' = [holder EXCEPT ![j] = c]
  /\ slot' = [slot EXCEPT ![j][c] = NextPartIndex]
  /\ dirExists' = TRUE
  /\ UNCHANGED <<parts, tmp, manifest, recorded, index, pc, seen, faults>>

(* pq.write_table to the hidden temporary.                                 *)
WriteTemporary(j, c) ==
  /\ future[j][c] = "opened"
  /\ tmp' = Put(tmp, slot[j][c], PartOf(c))
  /\ future' = [future EXCEPT ![j][c] = "written"]
  /\ UNCHANGED <<dirExists, parts, manifest, recorded, index, pc, slot, holder,
                 seen, faults>>

(* ... or it raises part-way, and the exception releases the lock.         *)
WriteFails(j, c) ==
  /\ future[j][c] = "opened"
  /\ Fault
  /\ tmp' \in {tmp, Put(tmp, slot[j][c], TornPart(c))}
  /\ future' = [future EXCEPT ![j][c] = "failed"]
  /\ ReleaseLock(j)
  /\ UNCHANGED <<dirExists, parts, manifest, recorded, index, pc, slot, seen>>

(* os.replace moves the temporary over whatever has the part's name.       *)
RenamePart(j, c) ==
  /\ future[j][c] = "written"
  /\ slot[j][c] \in DOMAIN tmp
  /\ parts' = Put(parts, slot[j][c], tmp[slot[j][c]])
  /\ tmp' = Remove(tmp, slot[j][c])
  /\ future' = [future EXCEPT ![j][c] = "done"]
  /\ ReleaseLock(j)
  /\ UNCHANGED <<dirExists, manifest, recorded, index, pc, slot, seen, faults>>

(* FileNotFoundError: another job renamed the temporary of the same index. *)
RenameFails(j, c) ==
  /\ future[j][c] = "written"
  /\ slot[j][c] \notin DOMAIN tmp
  /\ future' = [future EXCEPT ![j][c] = "failed"]
  /\ ReleaseLock(j)
  /\ UNCHANGED <<disk, pc, slot, seen, faults>>

(***************************************************************************)
(* The main thread: results in submission order, then the artefacts.       *)
(***************************************************************************)
(* The first result that is an exception is only reached when every        *)
(* earlier cell returned; Executor.map then cancels what has not started.  *)
CancelRest(j) ==
  /\ pc[j] = "pool"
  /\ \E c \in Cells : /\ Failed(j, c)
                      /\ \A d \in Cells : d < c => future[j][d] \in Complete
  /\ future' = [future EXCEPT ![j] =
       [c \in Cells |-> IF @[c] = "queued" THEN "cancelled" ELSE @[c]]]
  /\ pc' = [pc EXCEPT ![j] = "raising"]
  /\ UNCHANGED <<disk, slot, holder, seen, faults>>

(* The with block waits for the running threads, then the error leaves.    *)
Raise(j) ==
  /\ pc[j] = "raising"
  /\ WorkersFinished(j)
  /\ pc' = [pc EXCEPT ![j] = "failed"]
  /\ UNCHANGED <<disk, future, slot, holder, seen, faults>>

PoolDrained(j) ==
  /\ pc[j] = "pool"
  /\ EveryResultReturned(j)
  /\ pc' = [pc EXCEPT ![j] = "summarise"]
  /\ UNCHANGED <<disk, future, slot, holder, seen, faults>>

(* _summarise reads the whole dataset; write_text truncates the manifest.  *)
Summarise(j) ==
  /\ pc[j] = "summarise"
  /\ Readable
  /\ seen' = [seen EXCEPT ![j] = StoredIds]
  /\ manifest' = "torn"
  /\ pc' = [pc EXCEPT ![j] = "publishing"]
  /\ UNCHANGED <<dirExists, parts, tmp, recorded, index, future, slot, holder,
                 faults>>

SummariseFails(j) ==
  /\ pc[j] = "summarise"
  /\ ~Readable
  /\ pc' = [pc EXCEPT ![j] = "failed"]
  /\ UNCHANGED <<disk, future, slot, holder, seen, faults>>

PublishManifest(j) ==
  /\ pc[j] = "publishing"
  /\ manifest' = "whole"
  /\ recorded' = seen[j]
  /\ pc' = [pc EXCEPT ![j] = "registering"]
  /\ UNCHANGED <<dirExists, parts, tmp, index, future, slot, holder, seen, faults>>

(* register_dataset parses the index it finds, then truncates it ...       *)
ReadIndex(j) ==
  /\ pc[j] = "registering"
  /\ IF index = "torn"
     THEN /\ pc' = [pc EXCEPT ![j] = "failed"]
          /\ UNCHANGED index
     ELSE /\ pc' = [pc EXCEPT ![j] = "indexing"]
          /\ index' = "torn"
  /\ UNCHANGED <<dirExists, parts, tmp, manifest, recorded, future, slot, holder,
                 seen, faults>>

(* ... and writes it back with this dataset's entry.                       *)
WriteIndex(j) ==
  /\ pc[j] = "indexing"
  /\ index' = "listed"
  /\ pc' = [pc EXCEPT ![j] = "done"]
  /\ UNCHANGED <<dirExists, parts, tmp, manifest, recorded, future, slot, holder,
                 seen, faults>>

(***************************************************************************)
(* A kill (wall clock, preemption, power): the memory goes, files stay as  *)
(* they are, the temporary being written possibly torn.                    *)
(***************************************************************************)
Crash(j) ==
  /\ pc[j] \notin Resting
  /\ Fault
  /\ tmp' \in {tmp} \cup {Put(tmp, slot[j][c], TornPart(c)) :
                            c \in {d \in Cells : future[j][d] = "opened"}}
  /\ pc' = [pc EXCEPT ![j] = "idle"]
  /\ future' = [future EXCEPT ![j] = [c \in Cells |-> "none"]]
  /\ slot' = [slot EXCEPT ![j] = [c \in Cells |-> 0]]
  /\ holder' = [holder EXCEPT ![j] = 0]
  /\ seen' = [seen EXCEPT ![j] = {}]
  /\ UNCHANGED <<dirExists, parts, manifest, recorded, index>>

-----------------------------------------------------------------------------
Worker(j, c) ==
  \/ TakeEpisode(j, c) \/ OpenPart(j, c) \/ WriteTemporary(j, c)
  \/ RenamePart(j, c) \/ RenameFails(j, c)

Main(j) ==
  \/ ScanFails(j) \/ Submit(j)
  \/ CancelRest(j) \/ Raise(j) \/ PoolDrained(j)
  \/ Summarise(j) \/ SummariseFails(j) \/ PublishManifest(j) \/ ReadIndex(j) \/ WriteIndex(j)

(* What a running job does unless something goes wrong.                    *)
Progress(j) == Main(j) \/ \E c \in Cells : Worker(j, c)

Trouble(j) == Crash(j) \/ \E c \in Cells : EpisodeFails(j, c) \/ WriteFails(j, c)

Next == \E j \in Jobs : Start(j) \/ Progress(j) \/ Trouble(j)

Spec == Init /\ [][Next]_vars

(* The operating system keeps scheduling a job's threads; nothing makes an *)
(* operator resubmit.                                                      *)
FairSpec == Spec /\ \A j \in Jobs : WF_vars(Progress(j))

(* An operator (or a requeueing scheduler) who resubmits a run that ended. *)
ResubmittedSpec == FairSpec /\ \A j \in Jobs : WF_vars(Start(j))
-----------------------------------------------------------------------------
(***************************************************************************)
(* Properties.                                                             *)
(***************************************************************************)
(* Two hypotheses some of them need, both about how run_grid is called.    *)
SingleJob == \A i, j \in Jobs : i = j
DistinctIds == \A c, d \in Cells : Grid[c] = Grid[d] => c = d

(* Every variable has its type (the disk's files and run_grid's memory).   *)
TypeOK ==
  /\ dirExists \in BOOLEAN
  /\ DOMAIN parts \subseteq Nat /\ IsFiniteSet(DOMAIN parts)
  /\ \A i \in DOMAIN parts : parts[i] \in Part
  /\ DOMAIN tmp \subseteq Nat /\ \A i \in DOMAIN tmp : tmp[i] \in Part
  /\ manifest \in {"absent", "torn", "whole", "foreign"}
  /\ recorded \subseteq GridIds
  /\ index \in {"absent", "torn", "listed"}
  /\ pc \in [Jobs -> Phases]
  /\ future \in [Jobs -> [Cells -> Stages]]
  /\ slot \in [Jobs -> [Cells -> Nat]]
  /\ holder \in [Jobs -> Cells \cup {0}]
  /\ seen \in [Jobs -> SUBSET GridIds]
  /\ faults \in 0..MaxFaults

(* Part indices have no gaps, whatever the jobs do: this is what makes     *)
(* len(glob) a name that no existing part has (writer.py, write_handoffs). *)
NoGaps == DOMAIN parts = 0..(Cardinality(DOMAIN parts) - 1)

(* No episode is stored by two parts, through any number of killed and     *)
(* resumed runs ("restarts without duplicating cells", runner.py).         *)
NoDuplicateEpisode ==
  \A i, k \in DOMAIN parts : parts[i].episode = parts[k].episode => i = k

(* A resume never pools episodes of two worlds in one dataset.             *)
OneWorld == \A i, k \in DOMAIN parts : parts[i].world = parts[k].world

(* A readable manifest of this world stands beside exactly the episodes it *)
(* counted, and those are the whole grid: a run that looks complete is.    *)
ManifestIsTrue ==
  manifest = "whole" => recorded = StoredIds /\ StoredIds = GridIds

(* A part, once in place, is never removed or overwritten ("concurrent     *)
(* episode writes never clobber each other", writer.py).                   *)
PartsSurvive ==
  [][\A i \in DOMAIN parts : i \in DOMAIN parts' /\ parts'[i] = parts[i]]_vars

(* No episode whose part is in place is simulated again.                   *)
CompletedNotRerun ==
  [][\A j \in Jobs, c \in Cells :
       future[j][c] = "queued" /\ future'[j][c] = "episode"
         => Grid[c] \notin StoredIds]_vars

(* run_grid never returns or raises while one of its threads still runs:   *)
(* the caller may start the next arm, or the same grid again.              *)
NoStragglers == \A j \in Jobs : pc[j] \in Resting => BusyCells(j) = {}

(* A pool that was started comes to an end, whatever fails in it: no       *)
(* thread waits for ever on the lock, nor the main thread on a result.     *)
PoolEnds == \A j \in Jobs : pc[j] = "pool" ~> pc[j] \in Resting \cup {"summarise"}

(* Resubmitting leads to a published, registered, complete dataset, unless *)
(* the files are in one of the four states a resume cannot get past: a     *)
(* dataset directory without parts, a torn or foreign manifest beside a    *)
(* dataset, a torn index.                                                  *)
Published == manifest = "whole" /\ index = "listed" /\ StoredIds = GridIds
Unresumable ==
  \/ dirExists /\ (DOMAIN parts = {} \/ manifest \in {"torn", "foreign"})
  \/ index = "torn"
EventuallyPublished ==
  <>(Published \/ (Unresumable /\ \A j \in Jobs : pc[j] \in Resting))

(* The files implement the log of episodes: the parts in index order are   *)
(* the log (a foreign dataset is an empty one), and it only ever grows.    *)
OurParts == {i \in DOMAIN parts : parts[i].world = "ours"}
Log == INSTANCE EpisodeLog WITH
         Episodes <- GridIds,
         log <- [n \in 1..Cardinality(OurParts) |-> parts[n - 1].episode],
         published <- manifest = "whole"
ImplementsEpisodeLog == Log!Spec

(* What the code's words promise of a resume, refuted by the violation     *)
(* runs. "A truncated part can never poison a resume or read" (writer.py   *)
(* 120) and "empty if none yet" (runner.py 73): the scan never fails.      *)
ScanNeverFails ==
  [][\A j \in Jobs : pc[j] = "scan" => pc'[j] # "failed"]_vars

(* "An interrupted run restarts" (runner.py 7): a dataset of this world is *)
(* never refused by the check against other worlds.                        *)
OwnDatasetResumes ==
  [][\A j \in Jobs : pc[j] = "idle" /\ manifest # "foreign" => pc'[j] # "failed"]_vars
=============================================================================
