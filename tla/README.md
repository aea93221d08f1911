# PRECEPT: formal models of the experiment pipeline

TLA+ models of the parts of `preceptx` in which the order of steps decides
whether a dataset can be trusted, the TLC runs that check small instances of
them, and TLAPS proofs of what holds for instances of any size. Paths below are
relative to the repository, `R:` is `src/preceptx/experiments/runner.py`, `W:`
`data/writer.py`, `G:` `agents/graph.py`, `F:` `measure/featuriser.py`.

## 1. The system

A *sweep* is a grid of cells (channel condition x serialisation x difficulty x
seed). Each cell is one *episode*: two language-model agents push a T-shaped load
through two slits. A sees the scene and speaks, a *channel* degrades what it says
(C0 to C4), a runtime *gate* may block the message and make A speak again, B
chooses an action, the physics moves the load, and a handoff record is kept. A
finished episode is labelled and appended to a Parquet dataset, named by a hash
of everything that shaped it. Analyses read datasets and nothing else, so what
the sweep leaves on disk is the experiment.

### Inventory

| component | state it keeps | operations | talks to |
|---|---|---|---|
| sweep executor (R) | futures, write lock, completed ids; `<hash>-run/manifest.json` | `run_grid`, `_completed_ids`, `_assert_simulation_matches`, `_summarise` | writer, episode loop (callback per cell, from pool threads) |
| dataset writer (W) | `root/<hash>/part-*.parquet`, hidden temporaries, `root/index.json` | `write_handoffs`, `load_records`, `register_dataset` | files only |
| sweep identity (`sweep.py`, `sim/fingerprint.py`, `manifest.py`) | none (hashes); serving sidecar file | `expand`, `episode_id`, `sweep_hash`, `dataset_hash_for`, `serve_env` | executor, drivers, job scripts |
| episode loop (G) | the graph's state: step, buffer, records, done; load pose | `agent_A`, `agent_B`, `apply`, `route` | channel, gate, serving client, physics |
| channel (`channel.py`) | none; the C2 buffer is the loop's | `apply_channel` | called by the loop |
| gate (`integration.py`, `controls.py`) | frozen artefacts, a warn-once flag | `decide` | embedding cache; shared by all worker threads |
| labels (`outcomes.py`) | none | `label_episode` | called by the loop |
| embedding cache (F) | one `.npy` per text | `embed_texts` | shared by all worker threads and jobs |
| serving client (`client.py`) | one HTTP client | `chat`, `structured`, `health_check` | endpoint started by the job scripts |
| serving job (`scripts/myriad`) | server pid, trap, port, sidecar | `pilot.sh`, `serve.sh` | server process, driver |
| calibration (`gate/calibration.py`, `gate/statistics.py`) | `calibration.json` and, per statistic, a model and its manifest, each written in place | `calibrate`, `write_report`, `fit_statistics`, `save_statistic`, `load_statistic` | a dataset; read by the gate and by the transfer arm |
| pilot (`pilot.py`) | a report; the attempt number is an argument | `g1_capability`, `g2_signal`, `g3_correctness`, `run_pilot` | a small sweep, its reader |
| gradient analysis, RQ1 (`rq1.py`) | a report | `analyse_rq1` | a dataset |
| label choice, RQ2 (`rq2.py`) | a report | `compare_labels`, `proxy_tracking`, `recommend` | a dataset, two encoders |
| failure localisation, RQ3a (`rq3a.py`, `rq3a_run.py`) | a table of methods | three judges (`judge_all_at_once` and others), baselines, `transfer_scores`, `refit_scores`, `evaluate` | annotated corpora, a judge model, calibration artefacts |
| counterfactual replay (`rq3a_replay.py`) | a meter of calls and seconds | `stratified_sample`, `project`, `label_by_replay` | a replay backend |
| causal arms, RQ3b (`rq3b.py`) | one dataset per arm | `run_rq3b`, `analyse_rq3b` | executor, calibration artefacts, RQ1's dataset |
| statistics (`analysis/stats.py`) | none | Holm and BH corrections, bootstraps | called by the analyses |
| command line (`cli.py`) | none | one command per study | everything above |

### What is hard here

* **Concurrency.** A sweep's pool of threads shares one lock, one gate and one
  embedding cache. The lock is a `threading.Lock`, so two jobs are not kept apart.
* **Crashes.** Jobs are killed at wall clock and resubmitted; a resume trusts
  what it finds on disk. Parts are written by temporary and rename; the manifest,
  the index, the vectors and the sidecar are written in place.
* **Failure.** An episode, a write or a manifest fails while other threads run.
* **Stages that read what an earlier stage left.** A calibration may be half
  written when another command loads it, arms of one experiment are run by several
  submissions, and a server answers whoever finds its port.
* **Data at the boundary.** Ties at a quantile, a stratum with fewer steps than its
  share, a trace of one step, a grid with a missing seed, a label nobody recorded:
  each changes which numbers may be reported.
* **Ordering within an episode.** The C2 buffer crosses steps, the gate's retry
  loop replaces messages, and the record must say what really happened.

### What makes each component correct

* *Executor and writer*: no episode is stored twice or lost; no part is ever
  overwritten; nothing stored is simulated again; a dataset never mixes two
  worlds; a readable manifest means a complete grid; a pool ends; a resumed sweep
  finishes.
* *Episode loop, channel, gate*: what B read, what the gate rejected and what the
  record says agree, under each condition and arm; retries and steps are bounded;
  an outage is never recorded as actions.
* *Labels*: each label means what its documentation says, clamped windows included.
* *Embedding cache*: a text has one vector; a vector that exists can be loaded.
* *Identity*: two sweeps whose data differ have different datasets.
* *Serving job*: the recorded server is the one that answered; none is left over.
* *Calibration*: the cut is as low as the budget lets it be; the orientation, the
  threshold and the statistic of one gate come from one dataset.
* *Pilot*: nobody proceeds without gates that could fail and did not; one retune.
* *RQ1, RQ2*: a reported number has data behind it, and the recommended label is
  the one the fixed rule says.
* *RQ3a*: a judge that is right is reported right, at the projected cost; no method
  scores by input order; the replay budget holds and a cut is visible.
* *RQ3b*: an arm's dataset holds that arm's episodes only; the verdict is what the
  corrected family shows.

`PROJECT.json` lists the hazards line by line with the properties that cover
them; those without a property say why.

## 2. The modules

| module | models |
|---|---|
| `EpisodeLog` | abstract: a log to which each episode of a grid is appended once, with a manifest that is published only when the log is complete |
| `SweepRun` | `run_grid` and the writer, on the files of one dataset, with threads, several jobs, failures and kills |
| `MCSweepRun` | its instances for TLC |
| `SweepRun_proofs` | its theorems |
| `EpisodeLoop` | one episode: graph, channel, gate, labels |
| `MCEpisodeLoop` | its instance for TLC |
| `EpisodeLoop_proofs` | its theorems |
| `EmbedCache` | `embed_texts` called by several threads, with kills |
| `EmbedCache_proofs` | its theorems |
| `ServingJob` | `pilot.sh`, `serve.sh`, the health check and the sidecar, for several jobs |
| `ServingJob_proofs` | its theorems |
| `Localisation` | RQ3a: the judges, the offline methods and `evaluate` |
| `Replay` | RQ3a: the sample, the forecast and the metered replay |
| `Localisation_proofs` | the theorems of `Localisation` and `Replay` |
| `Calibration`, `MCCalibration` | the operating point of a runtime statistic, and its budgets for TLC |
| `GateArtefacts` | the directory a calibration writes and the transfer arm reads |
| `Gate_proofs` | the theorems of `GateArtefacts` and `Calibration` |
| `CausalArms` | RQ3b: four arms, their gates and datasets, over submissions |
| `CausalVerdict` | RQ3b: the correction of the family and the verdict |
| `PilotGates` | the pilot's gates, and what its reader does next |
| `GradientAnalysis` | RQ1: which numbers an incomplete grid yields |
| `LabelChoice` | RQ2: the comparison of labels and the recommendation |
| `MCStudies` | the nine studies (`Localisation` to `LabelChoice`) as one instance for TLC |
| `Studies_proofs` | the theorems of the other studies, and of `MCStudies` |
| `SumLemmas` | lemmas on integers, induction and sums over a set, for the proofs |

The nine studies are sequential programs that share no memory: each reads finished
datasets. `MCStudies` extends them all; a behaviour of it takes up one study with
every input of its bounds and leaves the others idle at one input, so the run
explores the sum of the studies and not their product. Where two studies do
interact it is through files, and those are the state of `GateArtefacts`
(calibration and transfer) and `CausalArms` (RQ1's and RQ3b's datasets).

In each module a small definition that carries one decision of the code (a guard,
an index, a bound) is preceded by a plausible regression of it, such as
`LockIgnored` before `LockFree`. The regressions are used by nothing; replacing
the definition by its regression must break the property that `PROJECT.json`
pairs them with.

### SweepRun

State on disk: `dirExists`, `parts` and `tmp` (functions from part index to
content), `manifest` (absent, torn, whole, or of another world), `recorded` (the
episodes the manifest counted), `index`. Memory of a job, which a kill forgets:
`pc` (the place in `run_grid`), `future` (the stage of each cell), `slot` (the
part index the writer took), `holder` (the lock), `seen`.

| action | code |
|---|---|
| `Start` | fingerprint check, R:45-69 |
| `ScanFails`, `Submit` | `_completed_ids`, R:72-76, 118-120 |
| `TakeEpisode`, `EpisodeFails` | a thread runs `run_episode`, R:141-142 |
| `OpenPart` | lock, mkdir, index from the glob, R:143, W:115-117 |
| `WriteTemporary`, `WriteFails` | `pq.write_table`, W:124 |
| `RenamePart`, `RenameFails` | `os.replace`, W:125; lock released |
| `CancelRest`, `Raise` | an exception leaves `pool.map` and the `with` block, R:147-148 |
| `PoolDrained`, `Summarise`, `SummariseFails`, `PublishManifest` | R:149-167 |
| `ReadIndex`, `WriteIndex` | `register_dataset`, W:138-146 |
| `Crash` | a kill at any point |

A part holds one episode, so the model keeps its id, its world and whether its
bytes are complete. Column conversion, the summary's rates and two processes
interleaving bytes inside one temporary are not distinguished. The initial disk
is empty, or holds a dataset and manifest of another world under this hash, or
only that manifest after its dataset was moved aside.

### EpisodeLoop

State: `node` (where the graph is), `step`, `distance` (the load's geodesic
distance in whole steps), `buffered`, the locals of one `agent_A` call (`raw`,
`delivered`, `retries`, `message_blocked`, and `verdicts`, the gate's answers so
far), `action`, `records`, `labels`. `cell` fixes condition, gate arm, whether the
gate has its artefacts, and whether the other episodes of the sweep leave the
vectors of its texts as they are (`steady`).

| action | code |
|---|---|
| `Emit` | `emit`: prompt A, apply the channel, G:182-197 |
| `GatePasses`, `GateRetries`, `GateGivesUp` | the loop G:211-225 and the return G:226-235 |
| `GateFails` | `embed_texts` raises out of `decide` |
| `AgentB` | G:237-250, an invalid action is WAIT |
| `ServingFails` | `ServingError` of either agent ends the episode without records |
| `Apply` | G:252-288 |
| `FillLabels` | `label_episode` |

The gate's verdict is any function of what its code reads: in the active arm of
the vectors of the delivered pair, in the two control arms of the step, and "pass"
without a gate, when off, or when failing open. A vector comes from the embedding
cache, which other threads write (finding 5 of section 5): in a cell that is not
`steady`, two decisions on one pair may differ. The physics is a move by one step or none.

### EmbedCache

State: for each text the vector its file holds (identified with the batch it was
encoded in, because encoding is batch sensitive, F:131-136), the torn files, and
for each thread where its call is and its locals. `Miss`, `Hit`, `LoadFails` are
one text of the loop F:149-154, `Encode` F:155-165, `OpenFile` and `CloseFile`
the two ends of `np.save`, `Kill` a kill of the job.

### ServingJob

State: `node`, `model`, `served` (what the scheduler and the configuration fixed),
`pc` (where `pilot.sh` is), `trap`, `server` (where the job's `vllm` is), `port`
(who listens on a node), `sidecar`, and what each job will look back on: `checked`,
`answered`, `recorded`. `lost` and `shared` are bookkeeping.

| action | code |
|---|---|
| `PreflightFails`, `Launch`, `SetTrap` | `pilot.sh` 90-130 |
| `ResolveTier`, `WriteServeEnv` | `_common.sh` 16-101: `cat >` empties the sidecar, then fills it |
| `Bind`, `ServerDies`, `ServerStops` | the external server: takes a free port, exits, stops on the trap |
| `EndpointLive`, `PollFails` | the `curl` loop, `pilot.sh` 132-147 |
| `HealthCheck`, `HealthCheckFails` | `client.py` 218-247: the configured model id is served |
| `Episode`, `DriverFails`, `RecordManifest` | the driver's calls, and the sidecar read at the end |
| `Leave`, `Terminate` | bash exits or is signalled; the trap runs if it is set |

`curl` succeeds for whoever listens, before the job looks at its own server's pid,
and a server that stops keeps its port for a while: both are in the model.

### Localisation

State: `method`, `corpus` (per trace its handoffs and annotations), `pending`, `walk`
(the trace being judged and the segment left), `calls`, `abstained`, `risk`,
`status`, and `honest` (every answer so far was the truth). `TakeUp` begins a trace;
`SelectStep` is the one question of all-at-once; `ContainsError` and `OneLeft` the
bisection; `IsError` and `NoneFound` the walk; `Abstain` an answer that names no
step; `JudgeFails` a `ServingError`; `AllWalked` the end. `Baseline`, `Transfer`
and `Refit` are the offline methods with the conditions that leave a trace or a
whole method without scores. `Report` is `evaluate` and its counters. A risk is 0
or 1 in the model, since only order and ties are used.

### Replay

State: the strata, `plan`, `spent`, `overtime`, `done`, `failures`, `labels`,
`stopped`. `Draw` is `stratified_sample` with its largest remainders, `Forecast`
permits or refuses, `Attempt` is one replay at a cost within the declared band,
`TimePasses` the moment the limit is reached, `StepDone` a full vote,
`BudgetStops` a meter that refuses, `Finish` the end.

### Calibration and GateArtefacts

`Calibration`: a data set is how many handoffs have each score and how many of them
failed. `CheckLabels` and `CrossFit` refuse, `Orient` turns the scores towards
failure, `TakeQuantile` is numpy's interpolated quantile, `StepAbove` the move to
the next score when the rate is over budget. The threshold is multiplied by the
budget's denominator, so everything is an integer.

`GateArtefacts`: each file is absent, torn or filled from a dataset.
`BeginCalibration`, `Open`, `Fill` and `EndCalibration` write the report and then
each statistic with its manifest; `EndCalibration` is also a kill. `Configure` reads
the report, and `ApplyTransfer`, after the corpus was loaded, the statistic.

### CausalArms and CausalVerdict

`CausalArms`: `stored` maps a dataset and a cell to what its episode was run with.
`Submit` takes a request (gate key and salt, or RQ1's ungated sweep), `BuildGate`
builds the arm's gate or refuses, `RunCell` runs one missing cell, `ArmDone` goes to
the next arm or the analysis, `Die` is a kill or a failed episode.

`CausalVerdict`: `RequireArms`, `CorrectFamily` (Holm, as its code computes it, with
running maxima over the sorted p-values) and `DrawVerdict`.

### PilotGates, GradientAnalysis, LabelChoice

`PilotGates`: `RunPilot` runs a cell, `Gate` assesses three gates and recommends,
`Again` is the reader: a failed gate makes the next run the second attempt; an
error, a gate that could not be assessed or too few seeds repeat the attempt.

`GradientAnalysis`: a grid of condition by seed, each cell absent, failed or
successful, and a word for how the handoffs carry the progress label. `Check` refuses
a dataset without labels of both values; `FitProbes` is the three probes, which may
raise on a training side of one value; `FitHandoffs` and `FitMediation` the mixed
models, which nothing guards, so that each may raise whenever it is fitted at all, with
what the mediation withholds: everything for outcomes of one kind, its intervals for
want of bootstrap draws, the length-controlled path b for lengths that do not differ.
`Contrast` and `Sensitivity` find a missing C0 and a missing pair of seeds. Left out are
the numbers withheld or set to 0 for what the *values* are: a proportion mediated of a
zero total, an attenuation without a non-zero effect, a convergence flag, the length
strata of a contrast, a rank correlation of constants, and the shuffled-message audit
that a setting turns off.

`LabelChoice`: how each label is recorded (`CannotFold`: which of them may fail to be
cross-fitted), then `CheckPrimary`, `Twins`,
`CompareLabel` (one label), `Compared`, `TrackProxies`, `RecommendLabel`.

## 3. The runs

| run | instance | question |
|---|---|---|
| `sweep_one_job` | 1 job, 2 threads, 3 cells, 3 faults, each initial disk | is the dataset right through failures, kills and resumes, and does it implement `EpisodeLog`? |
| `sweep_two_jobs` | 2 jobs, 2 threads each, 2 cells, 1 fault | what still holds when two jobs share a dataset? |
| `episode` | all conditions and arms, 3 steps, 2 retries, horizons 1, 2, 4 | do records, gate fields and labels say what happened, and does an episode end? |
| `embed_cache` | 2 threads, 2 texts, 1 kill | what does the cache guarantee? |
| `serving_job` | 2 jobs on one or two nodes, 2 models, any failure and kill | who answers a job, what does its manifest record, do servers go and jobs end? |
| `studies` | the nine studies, bounds below | is what each study reports earned by its data? |
| `sweep_scan_never_fails`, `sweep_own_dataset_resumes`, `sweep_parts_survive`, `embed_safe_to_share`, `embed_cold_equals_warm`, `calibration_never_over_budget` | minimal | each refutes a sentence of the code (section 5) |

**Bounds.** Every bound is a constant. Three cells and two threads are the least
where one episode runs, one waits for the lock and one is queued when another
fails; three faults allow a failed run, a kill in its resume, and another. Two
jobs with one cell in common already collide. In an episode three steps tell
"delayed by one" from "delayed for ever" and give a horizon of 2 both whole and
clamped windows, 4 only clamped ones, and 1 none; two retries tell the first
rejection from the last. One wording per prompt is an endpoint under greedy
decoding, which is how the sweeps are served: a second retry then repeats the
first, and in a steady cell the verdict with it. Two texts are the least with two batches for one text.

Two serving jobs are the least that share a port or the sidecar; their servers may
serve the same model or two, on the same node or two. For the studies:

| study | bounds | why enough |
|---|---|---|
| localisation | 2 traces of up to 5 handoffs under a judge, up to 3 offline | 5 is an odd length that halves to both 2 and 3 and needs three questions; two traces give counters to add up and a second trace after an abstention |
| replay | strata of up to 4 steps, 3 strata; 3 steps x 2 replays at a cost of up to 2, caps below and above | remainders tie, a stratum is exhausted, a vote of two ties, and a cut falls before, in and after a step |
| calibration | up to 7 handoffs on 3 scores, four budgets with the default 1/5 | a quantile on a rank, between two ranks and on a tie |
| artefacts | 2 datasets, 3 calibrations | a reader meets a calibration that replaces another, killed or not |
| arms | 2 cells, 2 salts, 3 submissions | a killed submission, one with another request, and the resume |
| verdict | p-values 1, 2, 5, 12 units with the level at 12 | 6, 3 and 2 times a value lie on both sides of the level |
| pilot | groups of 0 or 2 episodes, 2 or 3 seeds, 4 pilots | both attempts, each with a run that has to be repeated |
| gradient | 3 conditions, 3 seeds, four ways to carry the label | a missing hardest condition, a missing C0, seeds without both; a probe or a fit that raises on each grid |
| labels | 3 labels, correlations 0 and 0.52 | equal, and apart by more than the tie band |

**Fairness.** `SweepRun!FairSpec` asks that a job that can do something (its
main thread or one of its pool) eventually does: operating-system scheduling,
with no promise to any one thread. Faults and kills are never promised.
`ResubmittedSpec` adds an operator who resubmits a run that ended, and only
`EventuallyPublished` needs it. In `EpisodeLoop` one thread runs and each call
returns or raises, the client having a timeout. In `EmbedCache` each thread is
scheduled; nobody is obliged to call or kill. In `ServingJob` what bash and the
driver do by themselves goes on (`Shell(j)`: the poll has a deadline and each call
a timeout) and a server that was signalled goes (`ServerStops`); nothing is promised
of the scheduler, of a server that comes up, or of an answer.

**Deadlock** is checked except in `episode`, `serving_job`, `studies` and
`calibration_never_over_budget`, where an episode, a job or a study that returned
or raised has really ended.

## 4. The proofs

`SweepRun_proofs` proves, for any grid, thread count and number of faults, and
from the module's assumptions only:

* `TypeCorrect` (`TypeOK`) and `IndicesContiguous` (`NoGaps`), for any number of
  jobs. The part indices are gapless because a rename adds the index counted at
  `OpenPart` and a later rename in between only makes it an existing one; this
  needs, as strengthening, that a slot taken is at most the number of parts.
* For one job (`SingleJob`) and a grid without repeated ids (`DistinctIds`):
  `NoDuplicates`, `OneWorldOnly`, `PartsKept` (`PartsSurvive`), `ManifestTrue`,
  `NoStraggler`, `NotRerun`, and the refinement `Refinement`
  (`ImplementsEpisodeLog`).

`SingleJob` and `DistinctIds` are hypotheses about how `run_grid` is called, and
they are needed: `sweep_parts_survive` shows what a second job does, and equal
seeds in a grid would store one id twice. The properties of one job are not
inductive. `RunInv` adds what ties memory to disk: the writer that holds the lock
is the only one past the glob and its slot is the next free index; a cell that is
`done` or `skipped` is stored and a cell not yet renamed is not; parts of another
world stop the run before the pool; what `_summarise` saw is still what is there
when the manifest is published. `TypeOK /\ IndexInv /\ RunInv` is preserved by
every step (`RunInvariant`), and each property follows from it.

For the refinement the log of a dataset is the episodes of its parts in the order
of their indices (`LogOfParts`), and the log is published when the manifest is
whole. Indices without gaps make the parts of this world the first `n` positions
(`AllOurs`), so that `RenamePart` appends the episode of its slot, `PublishManifest`
publishes, `Summarise`, which empties the manifest before it is written, retracts, and
every other step, failures and kills included, is a stutter of the log (`StepLog`).

`EpisodeLoop_proofs` proves, for any step budget, retry budget, distance, set of
answers and set of horizons: `EpisodeTypes`, `RecordsAreSteps`
(`OneRecordPerStep`), `DelayedOneStep` (`DelayIsOneStep`), `GateFieldsAgree`
(`RetriesExplained`), `BlockedIsFirst` (`BlockedIsUngated`), `AcceptedOrSpent`
(`OnlyAcceptedOrSpent`), `LabelsAlwaysMean` (`LabelsMeanWhatTheySay`) and
`EveryStepAdvances`. Most of them speak of records, which nothing
changes once written, so the work is in what is known while a handoff is under
way: `StepsInv` (the last record ended where the load is), `DelayInv` (the buffer
is the last record's message until agent A returns, and this step's afterwards)
and `GateInv` (the first rejection is kept; where the gate's question is the same
for every re-prompt and nobody saves over its vectors, its recorded answer is "block",
so that a pass is impossible and the loop can only end at the retry budget).
The labels are read off the finished records: `ProgressRuns` shows that the running
sum in the property exists, and `ProgressTelescopes` that over records joined end to
end it is the difference of two distances, whatever the window. `EveryStepAdvances`
is the half of `EpisodeEnds` that needs no fairness: each step increases `Advance`,
which cannot pass `Budget * (2 * MaxRetries + 4) + 1`.

`ServingJob_proofs` proves, for any jobs, nodes and models, assuming only that
`NoJob` is no job: `TypeCorrect` (a port belongs to one server, which is up and on
that node), `AloneIsTrueAlways` and `OtherModelOnlyAfter`. `Inv` has three parts:
`PlaceInv` ties where bash is to where its server is, `CheckedInv` says that a
server that passed the health check holds its port until it is gone, so that another
answers only afterwards, and `AloneInv` that a job which never had company finds in
the sidecar what the stage of its own server says.

`EmbedCache_proofs` proves, for any threads and texts: `TypeCorrect` and
`AloneIsSafeAlways`. While calls come one at a time and nothing was killed, a text
that a call has answered for is in its file as answered (`Kept`), what a call looked
up or saved so far is what the files hold (`Looked`, `Saved`), and a torn file is one
the single call has open (`HeldInv`, `WholeInv`).

`Localisation_proofs` proves what RQ3a rests on.

* `Replay`, for any strata: `SampleAlwaysFits` and `BudgetAlwaysKept`. Each stratum
  gets the integer part of its share; the parts left over are fewer than the strata
  with a remainder, so that handing out one each, by largest remainder, reaches the
  size without exceeding any stratum (`DrawFits`). `ReplayInv` adds to the budget what
  the meter reads while the replays are as cheap as they can be (`CheapMeter`) and
  that a stop is final (`StopLasts`).
* `Localisation`, for any finite set of traces of any length:
  `TruthfulJudgeStaysRight` and `HitsAreEarned`. `TruthKept` is the heart of the
  first: while the judge is honest the annotated handoff is inside the segment that
  is left. `CallsKept` bounds the calls by a sum, over the traces, of those allowed
  less those the current trace may still need; a question of the bisection halves the
  segment, and `CeilLog2Halves` says that this lowers the logarithm by one. `HitIsEarned`
  is about the ranking of the finished scores and the three disjoint sets the counters
  count (`HitStandsOut`, `CountersClose`).

`TracesAssumption` says that the traces are finitely many and that "no answer" is
neither a trace nor a number.

`Gate_proofs` proves `TransferIsCoherent` from `FileStatesAssumption`: the files
filled so far are of the dataset under way (`FilledWith`, `FreshInv`), and from the
moment the transfer took its orientation, in a directory of one calibration or in one
that had settled, what it will load is of the same dataset (`SettledInv`, `Promise`).
It proves `ThresholdAlwaysTight` for any scores and budgets: the handoffs on a scale
of scores are a weighted order (`ScaleSplit`, `ScaleGrows`, `ScaleRank`), the position
of the quantile lies between two ranks (`QuantileCuts`), so the cut leaves less than
one handoff over the budget above it, and the next score up is within it
(`QuantileIsTight`, `NextCutIsTight`). `CalInv` carries that the threshold in hand is
the quantile of the oriented scores.

`Studies_proofs` proves, of the other studies:

* `CausalArms`: `OneDatasetPerArm` (`OneArmOneDataset`), for any cells, salts and
  submissions. `StoreInv`: an episode stored in a dataset was run with a gate
  configuration that hashes to it and decided as that configuration says; `GateInv`:
  the gate that is built is the current arm's; `ProgressInv`: the arms already passed
  are complete.
* `CausalVerdict`: `HolmIsClosed`, that the corrected p-values the code computes
  reject a contrast exactly when Bonferroni rejects every set of contrasts it belongs
  to, and from it `SupportedIsEarnedAlways`.
* `PilotGates`: `VerdictIsEarnedAlways` from `PilotAssumption`: between two reports the
  number of cells refuted is the attempt less one, so that the fallback can only follow
  the second.
* `GradientAnalysis`: `NumbersAlwaysHaveData`, for any finite set of seeds and whatever
  probes and fits raise. `RqInv` keeps, stage by stage, over which conditions an analysis
  was made. What a written report holds follows from it (`ReportHasData`), and so does
  what a lost one lacked: before the contrasts it is a probe on clustered labels, a grid
  of several conditions, or a mediation, which is fitted to both outcomes only
  (`RaisedEarly`).
* `LabelChoice`: `RecommendationAlwaysEarned`, for any list of labels and any
  correlations. The ranking is a strict order on keys with ties broken by position
  (`StandingOrder`), so exactly one admissible label stands first (`OneStandsFirst`,
  `RankedIsOne`), and a lead beyond the tie band is a lead in bands (`BandsFollow`).
  `LabelsAssumption`: the primary label and the terminal success are candidates.
* `MCStudies`: `StudiesTyped`, and `StudiesKeepTheirPromises`: since each study runs in
  `StudiesSpec` as it does alone (`EachRunsAlone`), the theorems above hold of the
  specification the run `studies` checks.

**Induction and sums.** No theorem of the library that takes a predicate as a parameter
can be used here, but induction over a *set* can: `SumLemmas` derives from well-founded
minima that a set with 0 and successors holds every natural (`NatSetInduction`) and that
what passes from every `s \ {x}` to `s` holds of a finite set (`SubsetInduction`). From
these come the existence, uniqueness and laws of the sums `MapThenSumSet` computes.

**Only model-checked**: the liveness properties (`PoolEnds`, `EventuallyPublished`,
`EpisodeEnds`, `TornHeals`, `CallsEnd`, `ServerFollowsJob`, `JobsEnd`), which depend on
fairness, and with it on ENABLED. Every invariant and action property of a passing run
and the refinement are proved.

## 5. Where the code and its words part

1. A run that stops between `mkdir` and its first rename leaves a directory on
   which the resume scan raises for ever (`ScanNeverFails`, W:115).
2. A kill while the manifest is written refuses every later resume of the same
   dataset (`OwnDatasetResumes`, R:167).
3. Two jobs on one dataset overwrite each other's parts (`PartsSurvive`, W:116).
4. A thread may load a vector another is saving, and its episode fails
   (`SafeToShare`, F:169).
5. Overlapping calls give one text two vectors (`ColdEqualsWarm`, F:154). An active
   gate asked twice about one pair may then answer twice differently, though
   `integration.py` 127-128 calls it a pure function of the scored pair.
6. A quantile between two scores is over budget, and the step above it stops at the
   very score that fires: without a tie the gate blocks more than its budget
   (`NeverOverBudget`, `gate/calibration.py` 147).

`PROJECT.json` quotes the sentences. Seven smaller divergences were met while
modelling; the models follow the code:

* `pilot.py` 407 says a gate is real above every permutation; the code asks for more
  than their 95th percentile (388-392). The text for a retune (469 on) says that a
  gate failed also when it could not be assessed or seeds were few.
* `sweep.py` 64-68 hashes neither the calibration's threshold nor, at 113-118, the
  re-prompt's template, so an arm resumed with either changed mixes operating points.
  `cli.py` never compares `--calibration` with `--calibration-dataset`.
* `rq3a.py` 614-616 gives the counters as scored = evaluated + off_boundary +
  not_evaluable; for `refit`, which skips traces, they do not close
  (`CountersCloseUnlessSkipped` says exactly when they do). A judge that abstains on
  a trace of at most five handoffs counts as a top-3 hit, and its agent pick follows
  input order. A `ServingError` in one judge loses the whole table.
* `rq2.py` 160-165 says that a label that cannot be scored keeps its row; a discrete
  label with a one-valued fold, a label in one episode only, or a handoff without its
  terminal success raises and loses the report. The tie band (103) is a rounding into buckets, so two values
  closer than the band may be told apart.
* `rq1.py` finds a missing C0, or that no seed ran both ends, only after every probe
  was fitted, and raises. Its mixed models (462-463, 570-572, 582) are fitted without the
  guard that the bootstrap of the same models has (522-526), so one that cannot be fitted
  loses the report as late.
* `rq3a_replay.py` gives a step whose budget ran out after one replay an agreement of
  one, and counts a new budget for each labelling. `statistics.py` takes a torn
  manifest for a statistic that exists.
* `cli.py` 522-524 says that the persisted joblib of a transfer is checked up front; the
  code (537) checks its manifest. With the manifest of an earlier calibration beside a
  statistic that the next one is writing, or was killed writing, the transfer is accepted
  and fails after the corpus was embedded; with one directory for two datasets its
  orientation and its statistic may be of different ones. `AcceptedTransferIsCoherent`
  speaks of neither case.

## 6. The plan

Done: every module of section 2, with a theorem for each invariant, each action
property and the refinement. Left:

1. Variants for the other loops, as `EveryStepAdvances` is for an episode: the pool of
   one `run_grid` between two kills, a call of the embedding cache, the poll of a
   serving job.
2. What of `SweepRun`'s guarantees two jobs keep beyond `NoGaps`.
3. The stratified fold assignment against its definition, and the index of a root that
   registers several datasets.

### Not modelled, and why

Physics, probe fitting, bootstraps and test statistics are floating-point
computations in external libraries: where one decides what the code does next it is
an input of a model. Prompts, scene serialisation, reports and figures are
formatting. The feasibility search, the benchmark, the determinism checks and the
diagnostics are scripts run by hand whose output no other code reads back. Argument
parsing of the command line has no state; the order in which its commands read and
write files is modelled where it matters. The gate's warn-once flag affects a log
line only, and loading the encoder twice costs memory only. `dataset_hash_for` is
taken to be injective on the fields it hashes; only the gate's configuration is
modelled as hashed.
