# A verification of PixelFlowCache

PixelFlowCache speeds up pixel-space diffusion models (JiT, DeCo, PixelGen) by reusing the outputs of
transformer blocks between sampling steps, and evaluates the result on thousands of images generated
by sharded worker processes. Two things have to be right: **what a reused tensor is** (of this batch, of
this branch and solver stage, recent or close enough, and honestly counted), and **what is left in a run
directory** when workers fail, are interrupted and are resumed, down to the statistics merged from
it. A third part, PixARC, measures what reuse would have cost, and its records must be what they claim. This
directory models all of it in TLA+, checks it with TLC and proves the central invariants with TLAPS.

Contents: [1 The system](#1-the-system) · [2 Modules](#2-modules-and-their-correspondence-to-the-code) ·
[3 Runs](#3-runs) · [4 Bounds](#4-bounds) · [5 Fairness](#5-fairness) · [6 Proofs](#6-proofs) ·
[7 Findings](#7-findings) · [8 Not modelled](#8-what-is-not-modelled) · [9 Plan](#9-plan)

## 1 The system

| Component | State it keeps | Operations | Talks to |
|---|---|---|---|
| Runtime cache (`pfc/cache/cache_state.py`, `cached_module.py`, `wrap.py`) | entries per (module, branch, solver stage, batch size), input signatures, call statistics, the current context | `begin_batch`, `set_context`, `CachedModule.forward`, `clear`, `reset_stats` | called by the samplers; asks its policy per call |
| Samplers (`eval/jit_runtime.py`, `cache/deco_cached_sampler.py`, `eval/pixelgen_runtime.py`) | step, branch, stage | the loop: context, evaluations, observation of the dynamic signal | runtime cache, policies |
| Fixed-interval policy, "BoundaryFlowCache" (`fixed_interval_policy.py`, `core/cache_scheduler.py`) | warm-up counters of the active window | `should_refresh`, `_consume_active_window_warmup_refresh` | runtime cache |
| Dynamic policies, TeaCache/SeaCache style (`spectral_dynamic_policy.py`, `dynamic_policy_adapter.py`) | per signal: previous proxy, accumulated distance, last decision, counters | `update`, `should_refresh`, `clear_batch`, `reset` | sampler (observations), runtime cache |
| TaylorSeer policy (`taylorseer_policy.py`) | per stream: history of refreshed outputs | `should_reuse_entry`, `make_reuse_tensor`, `on_refresh_committed`, `clear_batch` | runtime cache, worker script |
| SpeCa policy and verifier (`speca_policy.py`, `speca_verifier.py`) | TaylorSeer's, and per stream the step's decision, pending errors, run lengths | the above, `_decision_for_step`, the verification wrapper | runtime cache, worker script |
| DiCache policy and sampler (`dicache_policy.py`, `dicache_state.py`, `eval/jit_dicache_runtime.py`) | accumulated error, two residuals per branch, pending gammas, counters | `decide`, `record_refresh`, `approximate_residual`, `finish_step`, resets | its own sampler, not the runtime cache |
| Safe-map policy, Safe-BFC (`safe_map_policy.py`) | a calibrated table, decision statistics | `should_reuse_entry`, `on_reuse_committed`, `on_refresh_committed`, resets | runtime cache |
| Worker (`scripts/run_*_stage4a_generate.py`, `eval/generation_io.py`) | PNGs, shard manifest, shard reports | reconcile, sample, save, upsert, report | the files of the run; policies |
| Sharding (`eval/sharding.py`) | none | `compute_shard_indices`, `apply_shard_paths` | worker, merge |
| Launchers (`scripts/run_parallel_generate.py`, JiT-only `run_jit_parallel_generate.py`) | child processes, the options they forward | check, spawn, poll, terminate, merge | workers, merge |
| Options and presets (`eval/method_presets.py`, both ends' argument parsers, the policies' constructors) | none | forward, resolve, validate | launcher, worker, policies |
| Strict merge (`scripts/merge_jit_parallel_shards.py`) | the merged manifest and reports | check, add up, publish | the files of the run |
| PixARC samples (`pfc/risk/io.py`, `run_jit_pixarc_stage1_parallel.py`, `merge_jit_pixarc_stage1.py`) | run configuration, sample directories with a DONE marker, merged records | reconcile, commit, merge | its own launcher |
| PixARC instrument (`run_jit_pixarc_stage1_instrument.py`, `pfc/risk/jit_*.py`) | the state of one sample, fresh outputs, histories of three steps, records | `instrument_sample` and what it calls | the block executor, the validator |
| PixARC validation (`validate_jit_pixarc_stage1.py`) | none | `validate_stage1` | the records of a run |
| Calibration, evaluation, plans, metrics | files in, files out | single passes | — |

What makes it hard:

* *State that outlives what it describes.* Entries, histories and counters belong to a batch, yet no key
  names the batch: in the scripts every batch ends with `session_id` 1. Only the clearing calls, made in
  different places (sampler, script, warm-up code), separate one batch from the next and the warm-up from
  the formal run.
* *Decisions in the middle of a step.* A step is many calls: two CFG branches, several modules, two solver
  stages. The fixed-interval policy counts calls, the dynamic ones share an accumulated distance, SpeCa's
  first call decides for all the others and the errors of its last calls decide the next step.
* *Processes and files.* PNGs are written in place and manifests replaced after a read; any worker may die
  between two of those steps, be resumed, be terminated because another failed, or outlive its launcher.
* *The same rule twice.* Options are checked by launcher, worker and policy, statistics are computed by a
  worker and recomputed by the merge, and PixARC's validator repeats the instrumenter's rules in its own
  words: each pair must agree for every input.

What each component has to guarantee:

* runtime cache and fixed interval: a served tensor is of this batch, branch and stage and less than
  `interval` steps old; every batch is treated alike; statistics count every call once;
* dynamic: an output is served only while its proxy moved at most the threshold since it was computed;
  guidance never combines branches of different ages; counters describe the formal batches;
* TaylorSeer: forecasts go through distinct, ascending steps of this batch; which steps are forecast is a
  function of the schedule alone;
* SpeCa: a step is wholly full or wholly speculative; a run of forecasts is as long as its errors earn;
  what is measured is used, and what is reported is what happened;
* DiCache: a residual is reused only within the threshold; histories hold true refreshes only; statistics
  add up and exclude the warm-up;
* safe map: only calibrated ages are reused; the modules of a boundary stay together;
* generation: what is on disk can always be completed; manifests never get ahead of images; what is
  published is whole, of one launch and complete;
* options and statistics: a policy runs with what the user gave or the preset says; the merged report is the
  one a single worker would have left;
* PixARC: a candidate is made of exactly the blocks and steps it is recorded under and leaves the trajectory
  alone; a DONE marker means a complete sample of the run's configuration; a run that was measured without
  an error is not blocked by the validator for its form.

## 2 Modules and their correspondence to the code

```
BoundedReuse  <-----------  FixedIntervalCache, ReuseWorker, ForecastWorker
                                 |
                            CacheRuntime  <- extended by FixedIntervalCache, DynamicCache,
                                 TaylorSeerCache, SpeCaCache (both with TaylorHistory), SafeMapCache
ReuseWorker                 DynamicCache or SafeMapCache        (a worker builds one of them)
ForecastWorker              SpeCaCache or TaylorSeerCache
DiCache                     (stand-alone: it does not use the runtime cache)
GenerationContract <------  GenerationRun, PixarcSamples  --extend-->  Sharding
                                 ^ ShardingContract, MCGenerationRun
JitLaunch  --extends-->     ShardMerge  --extends-->  ShardSummaries;  JitOptions
PixarcValidation --extends--> PixarcInstrument --extends--> PixarcBlocks
*_proofs                    theorems about the module they are named for
```

(`<---` is refinement: `INSTANCE ... WITH`, the abstract specification checked as a property.)

**BoundedReuse** — abstract: what any cache promises the sampler. Every output is computed now or was
produced by the same stream, in the same batch, fewer than `limit` steps ago.

**CacheRuntime** — `RuntimeCacheState`, the cache effects of `CachedModule.forward`, and the samplers' loop.
A tensor is its provenance (batch, step); `served` is what the last forward returned. `at` says where the
driver is: between batches, before an evaluation (`pass`), at a wrapped module, at the reset after warm-up.
`Evals`/`Runs` give the evaluations of one step: JiT runs cond then uncond, DeCo one concatenated
evaluation, PixelGen predictor and corrector (the approximate sampler evaluates the predictor once and then
correctors only, the exact one both). `Bypass`, `Compute` and `Serve` are the three ways out of `forward`;
which of them runs is the policy's action. Batch sizes vary (the last batch may be short) and are part of
the key; modules whose output is not a tensor (`NonTensorModules`) are never stored.

**FixedIntervalCache** — one action per way through `CachedModule.forward` with this policy: inactive, miss,
scheduled refresh, window warm-up, reuse. `WarmupPending` and `ConsumeWarmup` model
`_consume_active_window_warmup_refresh`, which resets only when the step goes back.
Times are schedule indices; `active_t_min/max` are bounds on them.

**DynamicCache** — `RawAccumulatedDistancePolicy` and its adapter. `StartEval` is the sampler's observation
(`update`), before the modules of an evaluation run; a proxy moves by a number of `Distances` per step. The
history variable `drift` is how far each kept output's proxy has really moved.

**TaylorHistory** — histories and Lagrange forecasts, used by **TaylorSeerCache** (interval schedule) and
**SpeCaCache** (decisions per step from verification errors; an error is a member of `Errors`, chosen at
each verified call; `verifier` is the module whose forecasts are verified). **ForecastWorker** is the worker that
builds one of the two; the properties of the pair, and the refinement of `BoundedReuse`, are stated there once.
`MCForecasts` gives it values.

**DiCache** — the policy under its own Euler sampler: `Decide` is `decide` for both branches at once,
`RecordRefresh`/`Approximate` run once per branch in the code's order, `FinishStep`, `EndBatch` and
`EndWarmup` flush and reset. Errors are integers, doubled where branches are averaged, so the strict
comparison with the threshold is exact. The reason `insufficient_history` is kept although the sampler never
reaches it (the first step is always full).

**SafeMapCache** — the table `safe[branch][boundary][step]`, a tuple over ages, with missing branches, steps
and ages; `default_safe` and the fallback to the global row. `BoundariesInStep` says that the modules of a
boundary are stored together, and across the branches too where one global row serves both (`OneRow`). A
policy that manages only cond may still hold nothing but a global row, and then cond alone is cached: nothing
keeps it in step with uncond, which is computed every time.

**ReuseWorker** — the worker script's choice between the last two: one of the two policies is built, over the
same cache and samplers, and the properties of the pair are stated here once. `MCReuse` gives it values.

**Sharding** — `compute_shard_indices`, `_chunked`; index lists are sets since they are built and consumed
ascending. **ShardingContract** states what they are for.

**GenerationContract** — abstract: an image made stays made, and a merged output is published only when all
are made. **GenerationRun** — the run directory and its processes. A worker's states are the points between
two effects on disk: open a PNG, close it, read the manifest, replace it, write each report. `Crash` may
happen at any of them, `Die` follows the launcher's SIGTERM or SIGKILL, `Interrupt` is Ctrl-C, `LauncherDies`
leaves orphans (only with `OrphansPossible`), `MergeTimeout` is the 300 s limit. `LaunchAgain` is the user,
with or without `--resume`. Abstractions: an image is its index, a manifest row the index it holds, a report
the launch that wrote it; `reconcile_resume_state` is one step (it reads only files of its own shard);
reading all shards for the merge is one step and publishing another. Launches
with more shards than images are not checked.

**JitOptions** — an option's way from the command line to a constructor: `Forwarded` is what the launcher
puts on a worker's command line (a flag only when true, a value only when given), `Resolved` what the worker
makes of it with the method's preset, `LauncherTakes`, `WorkerTakes` and `Builds` the three places that
refuse. **ShardSummaries** — a policy's ledger and the summary the worker writes of it, for every policy;
fractions are exact. **ShardMerge** — what the merge recomputes from summaries alone: sums, weighted means,
variance from mean and standard deviation, maxima. **JitLaunch** composes them with the JiT-only launcher and
its workers: refusals, spawning that fails in the middle, poll, SIGTERM, the wait without a time limit, Ctrl-C,
the merge and its timeout. A batch is a step that adds an outcome to the ledger; `Outcomes` are consistent
ledgers of one batch.

**PixarcSamples** — one PixARC run directory, its launcher, workers and merge. A record file is the
configuration it was measured under. `Reconcile`, `Clear`, `Sweep` are `reconcile_sample_output`, then
`AtomicSampleWriter` file by file, the check of its target, `os.replace` and the marker; `Raise` ends a worker
through the `with` statement, `Kill` without it. A step that refuses to merge is missing because it never
comes to that (`MergeNeverRefused`). It implements the same `GenerationContract`, with samples for images.

**PixarcBlocks** — boundary plans, ranges of blocks, the in-context tokens; a hidden tensor is the blocks that
made it, the steps each was run on, and how many token prefixes it carries. **PixarcInstrument** —
`instrument_sample`, action by action: the fresh step, the equivalence checks, replay and counterfactual
candidates, histories, and the records of all. A measurement comes out as one of `Outcomes`: of the reference's
form or not, finite or not, close for the instrumenter's tolerance and for the validator's; what is not finite, or of
another type, ends the sample where the metrics raise (`MetricsRaise`) and is recorded as a number where they do not
(`NanToNum`). `Breaks` collects the other places that would raise. **PixarcValidation** — `validate_stage1`, as one
Boolean (`Holds`) for each of the twelve codes it issues on collected records, in its order: `nonfinite` looks at every
record, `shape_dtype` at the form of every ready candidate and every check, `future_leakage` at a constant. The
thirteenth, `record_collection`, says that records cannot be collected; that is the subject of `PixarcSamples`.

Facts about the code met on the way and kept in the models: `max_steps`, `cooldown_steps` and
`warmup_steps` of the fixed-interval policy are never set by a script (they are modelled and checked all the
same); only the JiT script takes `--warmup-batches`; DeCo's dynamic signal is never per branch; the forecast
policies run under JiT only, with both branches managed; the reset of the window warm-up when leaving the
window is not reached from `CachedModule`, which never asks the policy outside its window.

## 3 Runs

| Run | Distinct states | Checks | Shows |
|---|---|---|---|
| `fixed_interval` | 17 754 | `IInv`, `MatchesSchedule`, refinement of `BoundedReuse` | four samplers, eleven configurations, warm-up and two batches: reuse follows the schedule, is recent and of its batch |
| `reuse` | 88 720 | `ReuseWarranted`, `OutputsInStep`, `RefreshesEarned`, refinement | dynamic policies against every movement of the proxy, safe maps against nine tables, complete and with holes: what is reused is near or calibrated, what is combined has one age, nothing is recomputed without need |
| `forecasts` | 23 325 | `HistoriesInStep`, `PointsSound`, `SameStepsForecast`, `DecisionsSettled`, `ForecastsEarned`, `StepsAccounted`, refinement | eight TaylorSeer schedules; seven SpeCa configurations against every sequence of verification errors |
| `dicache` | 448 394 | `IInv`, `ReuseEarned`, `StatsOfFormalRun` | every sequence of probe errors, degenerate trajectory and gamma |
| `generation` | 53 041 | files, merge, liveness, refinement of `GenerationContract`, and the sharding helpers | two shards, one fault anywhere, a second launch with or without `--resume` |
| `generation_orphans` | 930 309 | `MergedIsExact` | workers of a dead launcher race those of the next one: the merge may be refused, it is never wrong |
| `jit_launch` | 20 064 | `OptionsHonoured`, `MergedAsOne`, `LaunchEnds` | 37 command lines of all methods: options arrive as given or preset, merged statistics are those of one worker, and the launcher ends after a failure although another worker would go on for good |
| `pixarc` | 80 312 | `MarkedIsOfTheRun`, `MergeNeverRefused`, `CompleteIsWhole`, `NothingLeftBehind`, refinement, `ResumeCompletes` | three launches under two configurations, one failure anywhere |
| `pixarc_instrument` | 55 089 | `NothingRaises`, `CandidatesSound`, `TrajectoryFresh`, `BlocksOnlyMeasured` | networks of 3 to 6 blocks, tokens anywhere or nowhere, all plans and actions, one measurement that comes out wrong in any way |
| `single_gpu`, `torn_image`, `jit_options` | — | one property each, violated | the findings of section 7 |

The policies that exclude each other in a worker share a run: `ReuseWorker` and `ForecastWorker` start in one of two
modules and take that module's steps; their properties are those of the module that runs.

`Partition` does not depend on the progress of a run: it quantifies over all counts up to its bounds and is
evaluated in the initial state of `generation`; the other generation runs set these bounds to nothing.
`CHECK_DEADLOCK FALSE` appears only where launches are used up and the directory is at rest: the generation
runs, `pixarc` and the JiT launches. The cache models and the instrument end in an explicit stuttering action
and are checked for deadlock.

## 4 Bounds

* *Steps* 4–7 instead of 50–100: intervals, windows and orders of the presets are scaled with them so that
  windows start off and on a multiple of the interval, contain one or several refreshes, and are cut by the
  end. A run longer than the largest interval plus the longest history repeats itself.
* *Batches* 2 after one warm-up batch (`reuse`: 1 after 1): state can leak from a batch only
  to the next, and from the warm-up only to the formal batches.
* *Modules* 2–3: one managed or unmanaged, one whose output is no tensor, two of one boundary.
* *Distances* 0..3 with threshold 2, *Errors* {0,2,4} with thresholds 3 and 1 (SpeCa), {0,1} per branch with
  thresholds of 1.5 and 2 (DiCache): below, at and above, alone and summed.
* *Batch sizes* {1,2}: a short last batch.
* *Generation*: 3 images on 2 shards in batches of 2 give a full, a short and a single-image batch; 2
  launches and 1 fault suffice for every pair of steps of an old and a new attempt. `Partition` runs to 11
  images and 5 shards; it is proved for all.
* *JiT launches*: 2 shards of 2 batches, resumed with any number of them left, so that an empty shard, a full
  one and the end of either in the other's batch occur; outcomes with and without reuse, with and without
  errors; each option that has a zero, a boundary or a rule with another one appears on some command line.
* *PixARC*: 2 samples on 2 GPUs or 1, 3 launches (start, start over or another configuration, resume) and one
  failure. The instrument runs up to 5 steps, two more than a history holds; the depths 3, 4 and 6 give all
  orders of split and token block, and the theorems cover every depth. One measurement per sample comes out
  wrong (`MaxMisses`): a check that fails, is of another form or not finite, a fresh velocity or a candidate that is
  not finite. Each step handles its own measurement only; the theorems hold for every number of them.

## 5 Fairness

`GenerationRun`: `FairSpec` assumes weak fairness of each worker's steps (processes are scheduled and a batch
ends), of `Die` (SIGTERM, or SIGKILL after 5 s, takes effect: `_terminate_running`), of the launcher's own
steps, and of the user launching again while launches are left. Nothing makes a crash, an interrupt or a
timeout happen. Under it the launcher always returns, and with fewer faults than launches the run is
published. `PixarcSamples` assumes the same; a last launch with `--resume` and no more failures completes
the run (`ResumeCompletes`).

`JitLaunch` assumes less: the launcher's steps, and `Die` of a worker that was sent a signal. Workers have no
fairness, since one may hang in a GPU call, so `LaunchEnds` says that a failure alone ends the launch. It
relies on SIGTERM having its default action in a worker: this launcher never sends SIGKILL on this path
(`run_jit_parallel_generate.py:412`), and a worker in an uninterruptible call would keep it waiting.

## 6 Proofs

`FixedIntervalCache_proofs` — for every number of modules, steps, batches, warm-up batches and sizes, every
sampler and every policy configuration `ConfigOK` admits:

* `TypeCorrect`, `Invariance` (`IInv`), `NeverStaleBatch`, `AgeBounded`;
* `Refinement`: `Spec => ImplementsContract`, i.e. the cache implements `BoundedReuse`;
* `ScheduleRealised` (`MatchesSchedule`): where `WarmupsSeparate`, every call is answered as the documented schedule says.

That an entry is younger than the interval is not inductive: it is true because between the step that
filled it and now *no active step was a scheduled refresh*. `IInv` says exactly that of every entry
(`EntriesCurrent`), and the age bound follows from two lemmas: the active window is an interval of
steps (`ActiveBetween`), and any `interval` consecutive steps contain a multiple of it (`LastMultiple`).

The schedule is about the future as well: that the next candidate is reused depends on the warm-up counters and on
an entry being there at all. The invariant adds that entries of this batch are kept (`EntriesKept`), that inputs of
one stream keep their signature (`SignaturesCurrent`), that the counters are those of the last candidate step
(`CountersTrue`), and that what was answered so far is the schedule (`Scheduled`). `WarmupsSeparate` is the hypothesis
of the property itself: section 7 has what happens without it.

`CacheRuntime_proofs` holds what the proofs about policies share: the runtime keeps its types and the cache's
context is the sampler's, however a policy answers (`DriverKeeps`, `AnswerKeeps`).

`ReuseWorker_proofs` — for every number of modules, steps, batches and sizes, every configuration, all distances and
all safe maps. About `DynamicCache` alone, under every sampler:

* `Invariance` (`FullInv`), `TypeCorrect`, `SumAccounts` (`SumCoversDrift`);
* `DriftIsBounded`: no output is reused once its proxy has moved past the threshold since it was computed, unless
  exact Heun's stages share one signal.

About a worker that builds either policy (`PolicySpec`; exact Heun with one signal per stage, as its `PolicyInit` says):

* `WorkerInvariance`, `AllReuseWarranted` (`ReuseWarranted`), `OutputsOfOneAge` (`OutputsInStep`);
* `NoRefreshInVain` (`RefreshesEarned`), an action property;
* `PromiseKept`: `PolicySpec => KeepsPromise`, i.e. the cache implements `BoundedReuse` under either policy.

The policy clears its sum when it *decides* a refresh, before any module has run, and keeps one sum for many
outputs; that no reuse hides movement is a matter of order. `FullInv` says where the movement of each stored
output is: in its signal's sum, or its refresh is decided and its call still ahead in this step (`RefreshOwed`). A
decision may therefore only be overwritten when nothing is owed (`NothingOwed`), and must come before the calls of
every output of its signal (`ObservedInTime`). Both rest on which evaluations the samplers make and observe: the
uncond branch does not observe a shared signal, and approximate Heun predicts once, in step 0.

That no refresh is in vain is the other direction: an output's drift is *at least* the sum, since nothing is stored
after the sum has started (`SumStarts`, `DriftCoversSum`). That the branches stay together under one shared signal
needs that both read the same decision and that what cond has done in this step, uncond is still going to do
(`PairsInStep`, `Stored`, `Decided`). With one signal per branch their proxies are the same latent, so the two sums
move alike (`SignalsAlike`). For the safe map, the age of an entry is that of its boundary's whole row (`Grouped`): a
module that already ran in this step is one decision ahead of those that come after it.

`GenerationRun_proofs` — for every number of images, shards, batches, launches and faults, orphans included:

* `TypeCorrect`;
* `ManifestsNeverAhead` (`RowsHavePngs`): no manifest ever names an image that is not on disk. The
  strengthening says of each process what it is about to write: records upserted were saved, rows read
  from a manifest exist, rows the merge publishes exist; `Exist` never shrinks;
* `ContractImplemented`: `Spec => ImplementsContract`, i.e. a generation implements `GenerationContract`. A merge
  publishes what its checks found, and no process takes it away before it is published (`PublishesAll`).

If no launcher dies without its workers (`~OrphansPossible`):

* `SoleWriters` (`SoleWriter`): processes alive are of one launch (`Attended`), and `DealtOnce` keeps those apart;
* `ResumeNeverRewrites` (`ResumeKeepsWhole`), an action property: a worker's images to save were missing when it read
  the directory (`SkipsExisting`), and nobody else saves them since;
* `MergedHoldsAll` (`MergedIsExact`); with orphans too, if every launch has several shards;
* `MergesItsOwn` (`MergedIsFresh`), for a launch of several shards: each worker that ended well has overwritten the
  four reports of its shard (`ReportsFresh`);
* `MergeAccepted` (`MergeNeverRefused`), if all launches deal the images out alike, to several workers and none
  without an image (`DealtAlike`): what a worker read, saved and upserted adds up to its shard at every point
  (`HoldsOwn`, `LosesNone`), so its manifest is its shard exactly (`OwnRows`).

Section 7 has a counterexample for each hypothesis but the first.

`DealtOnce` — for all counts and both modes an image belongs to exactly one worker: the one named by its remainder
for strided shards; for contiguous ones, whose blocks adjoin, the last that starts at or before it. It is proved at the
head of `GenerationRun_proofs`, which turns it into the run's `Partition` for every bound (`ShardsPartition`), and
again in `PixarcSamples_proofs`, which knows nothing of the generation.

`ForecastWorker_proofs` — for every number of modules, steps, batches and sizes, every TaylorSeer schedule and SpeCa
configuration the constructors accept, and every sequence of verification errors:

* `WorkerInvariance` (`WorkerInv`), `HistoriesFollow` (`HistoriesInStep`), `PointsAreSound` (`PointsSound`);
* `ForecastStepsFixed` (`SameStepsForecast`): TaylorSeer's forecast steps are a function of its schedule;
* `DecisionsAreSettled` (`DecisionsSettled`): none of SpeCa's checks raises in the middle of a batch, and every
  verified step counts once for each branch;
* `RunsAreEarned` (`ForecastsEarned`) and `StepsAreAccounted` (`StepsAccounted`);
* `PromiseKept`: `PolicySpec => KeepsPromise`, i.e. the cache implements `BoundedReuse` under either policy.

Both policies share `HistoryInv`: a history ends with its entry and holds ascending steps of this batch. A step's
calls come one after the other, so all else is said of the calls behind and ahead (`Done`, `Behind`).

TaylorSeer decides every call for itself. Until `min_history` steps are behind, a history holds all of them
(`LengthOK`): before that every call refreshes, after it the schedule alone decides, as `SameStepsForecast` has it. No
multiple of the interval was left out since an entry was computed (`AgeOK`), so the next one bounds its age (`SeerAge`).

SpeCa's first managed call of a step decides for both branches and all modules. `DecidedInStep` says whose step the
decision is, before that call and after it; `ErrorsInStep` that its errors are those of the verifier's calls behind;
`EntriesInStep` that the entries date from the full step before the run of forecasts, for keys a full step has
reached; `ReadyInStep` that histories found long enough stay so during the step. `NowGives` has one form for the
call that decides and those that follow, so each action is proved once. A decision needs the errors of the step
before; both of the verifier's calls are then behind, so it is never taken without them. Nor does a call that carries
it out raise: it is not of a later step, and a forecast's entry is there (`NothingRaises`). The counters hold between the calls with what is still to come (`CountsOK`, `Awaited`): an
unreported run, a branch not yet verified, a verification not yet accepted or rejected. An entry's age is the length
of the run (`SpeCaAge`), at most `max_forecast_steps`.

`DiCache_proofs` — for every number of steps and blocks, all sets of errors and all configurations:

* `Invariance` (`IInv`) and `TypeCorrect`, with one lemma per action (`DecideKeeps`, ...);
* `ReuseWithinThreshold` (`ReuseEarned`): a residual is reused only while the errors measured since the last full
  step stay below the threshold: of each branch under `max`; under `mean`, the default, of both on average. Then one
  branch alone may pass the threshold while the other stands still, but never reach twice the threshold;
* `StatisticsAreTrue` (`StatsOfFormalRun`): the summary counts the formal batches, each step and each call once, and
  the block calls it derives are those that were made.

`IInv` says that a branch's history mirrors the last two full steps *that branch has already computed*: while
a full step is in progress the branch that comes second still mirrors the earlier steps (`Waiting`,
`FullsOf`). `RecordedMirrors` shows that recording the step restores the equality, deque of two included.
`AggregatedAdds` carries the accumulated error: a mean adds up exactly, a maximum is at most the sum of maxima.

The statistics hold at the end of each batch only: within a step a reuse is counted before its two calls, a full step
before its deep blocks, a fallback call before the fallback step. `Accounted` therefore says, at every point of the
loop, what is counted and what is still to come (`CallsToCome`, `BlocksToCome`, `Decisions`).

`PixarcValidation_proofs` — for networks of every depth from 3, tokens anywhere, any plans, actions and number
of steps:

* `NothingEverRaises` (`NothingRaises`), `CandidatesAreSound` (`CandidatesSound`), `TrajectoryStaysFresh`
  (`TrajectoryFresh`);
* `BlocksForMeasurements` (`BlocksOnlyMeasured`): the validator counts the records in its own words and finds them
  all, finite and of the form it asks for; what it blocks a finished sample for was measured.

The argument for the first three: what blocks `0 .. k-1` make is a `Prefix`, and every hidden tensor the code keeps is
one (`FreshIsPrefix`, `BlendIsPrefix`). A prefix that ends where a plan ends fits in behind it (`PrefixFits`, from
`PlansFit` for the thirds of the depth) and its continuation is whole (`PrefixContinues`). `IInv` says of the
state only that the fresh outputs are those of this step and that a history holds the steps before it without
a gap; `LatestTwo` therefore finds the last two, `SelectAge` the one asked for.

For the fourth, completeness at the end says nothing of the middle of a step. `LogInv` therefore names at every point
the keys that have a record by then (`RiskKeys`, `FreshKeys`, `ReplayKeys`) and says that the records are these keys,
once each (`Logged`). A step adds one key to the set and one record to the log, or neither (`RiskGrows`, `RiskStays`
and their like); that no key comes twice rests on plans and actions being lists without duplicates
(`UniqueInjective`). A reuse is refused exactly when the validator says it must be (`AvailableWhen`), because the
histories are full as early as they can be (`HistoriesFull`). The form of a candidate is that of the fresh output
because both are whole continuations; only the model's own output, in the equivalence check, may be of another.

`PixarcSamples_proofs` — for every number of samples, configurations, workers, launches and faults:

* `MarksAreSound` (`MarkedIsOfTheRun`), `MergeIsAccepted` (`MergeNeverRefused`), `CompleteRunsAreWhole`
  (`CompleteIsWhole`), `CompleteRunsAreClean` (`NothingLeftBehind`), `TypeCorrect`;
* `Refinement`: `Spec => ImplementsContract`, i.e. a measurement implements `GenerationContract`.

The argument: only workers of the current launch run, and no two of them have a sample in common (`DealtOnce`),
so a step of one leaves the directories the others are working on alone (`BystanderOK`). `IInv` says of each point
of the commit what is then in the directories of the sample (`SampleAt`): after the sweep nothing, during the
commit the own temporary directory with the records written so far and nothing else, before the marker the
whole target. A worker that dies leaves an unmarked sample, which the next one clears. The records a merge
collects are therefore everything (`CollectedIsEverything`). On the way: neither `AtomicSampleWriter`'s check
of an existing target nor `os.replace` ever fails (`CheckTargetKeeps`, `RenameKeeps`).

Assumptions: only the named `ASSUME`s on constants, each evaluated by TLC in a run, and the hypotheses named above.

Only model-checked:

* liveness (`LauncherReturns`, `RunCompletes`, `LaunchEnds`, `ResumeCompletes`): the prover has no `ENABLED`;
* `MergedAsOne` of `JitLaunch`: sums over shards are folds, and a fold's value follows by induction over data only;
* `OptionsHonoured` of `JitLaunch`, a fact about finitely many options and command lines: no proof has been tried.

## 7 Findings

| Run | What the code does | What is said of it |
|---|---|---|
| `single_gpu` | one shard writes unsuffixed files, the merge the launcher then runs looks for suffixed ones and refuses | `--execute`: "Execute workers and merge shards." |
| `torn_image` | PNGs are written in place and any existing file counts as complete on resume: a truncated one is published | docs: "Atomic label schedules and PNG/manifest resume reconciliation" |
| `jit_options` | `--taylorseer-max-order 0` is taken for an absent option and replaced by the preset's order | "--taylorseer-max-order must be non-negative" |

`PROJECT.json` quotes the lines. Further observations, kept in the models but without a run of their own.

Where the hypotheses of a theorem are needed:

* `WarmupsSeparate`: with one reuse candidate per active window and batch (interval 2, `active_t_max` 2, warm-up 1),
  the warm-up happens in the first batch only. Its counters restart when the step goes back
  (`fixed_interval_policy.py:147`), and a window asked once per batch sees the same step again. The test
  `test_active_window_warmup_resets_after_leaving_window` expects the refresh again: it asks the policy directly
  outside the window, which clears the counters, while `CachedModule` asks `is_active` first and never gets there.
  With both Heun stages in the window the key is shared by them: at the last warm-up step the predictor refreshes and
  the corrector already reuses;
* `MergedIsExact` with orphans: the orphan of a launch with one shard writes `manifest.jsonl` itself, also after a
  later launch of two shards has published it;
* `MergedIsFresh`: a launch of one shard finds shard reports of two resumed launches before it (dealt out in two ways)
  and merges those instead of its own;
* `MergeNeverRefused`: with fewer images than shards a worker without images never writes a manifest, and the merge
  refuses although every worker returned 0; with shards dealt out in two ways an image has rows in two manifests.

Others: with exact Heun and the default shared signal a corrector's refresh clears
the sum the predictor's entry still owes, so an output may be served although its proxy moved past the threshold
(`PolicyInit` takes exact Heun with one signal per stage); the JiT launcher accepts combinations every worker refuses (a
base threshold below the preset's minimum, a probe depth of 12, an unknown method); single-GPU and
`--no-save-png` launches never merge; a dynamic threshold of 0 is refused only after the model is loaded; the merge
adds up TaylorSeer's `interval` and `max_order` over the shards (`Settings` of `JitLaunch`); PixARC's
`future_leakage_count` is the constant 0 (`run_jit_pixarc_stage1_instrument.py:790`), so the validator's check of it
says nothing (`LeakageCount`). A candidate whose transition is NaN is recorded as zero risk (`metrics.py:25`, `:36`) and
passes the validator like one that equals the fresh step. The code `nonfinite` is never issued by the command:
`tensor_scalar` refuses such a number before it is recorded, the record types and the strict reader of the files
again, so that a file that held one would end as `record_collection`. Smaller ones: SpeCa with `max_forecast_steps`
equal to `min_forecast_steps` never acts on a verification; TaylorSeer accepts a `min_history` larger than it keeps
and then never forecasts; merged `dynamic_cache` statistics are those of shard 0; cache statistics describe the last attempt only.

## 8 What is not modelled

Pixels, latents, labels and timings; the arithmetic of metrics, filters and forecasts (their results are the
numbers models choose from); `torch` and process start-up; label files, NPZ output; `conda run` as a wrapper
between launcher and worker; FID and other evaluation. A resume with another number of shards is not checked, one
with another shard mode is. In `GenerationRun` Ctrl-C reaches a launcher once. A
second one, during `_terminate_running`, ends the launcher with workers still alive: that is `LauncherDies`, and the
properties that exclude orphans exclude it; that it may come between two SIGTERMs is not modelled. Nor is the end of
that function, which does not wait after `kill()` (`run_parallel_generate.py:335`): in the model a worker is gone
before its launcher returns. Orphans of a dead launcher are modelled for generation, not for PixARC, whose
reconciliation removes the temporary directories of whoever still writes them. The merged statistics leave out the
nested counts by module, branch and step, and quantiles of samples.

*Calibration* (`run_jit_safe_calibration.py`) replays recorded steps and thresholds their errors: it keeps no state
between its passes, and what it computes is the arithmetic of metrics; `SafeMapCache` takes any table it may write.
The *generator scripts of DeCo and PixelGen* share the skeleton of `GenerationRun` and the samplers of
`CacheRuntime`. *Wrapping*, *proxies*, *metrics*, *timing*, *evaluation* and *plans* keep no state a property could
be about. `PROJECT.json` lists each with its reason.

## 9 Plan

Written, in this order: runtime cache and fixed interval with contract and proofs; dynamic; TaylorSeer and SpeCa;
sharding and generation with proofs; safe map; DiCache with proofs; PixARC samples and instrument (with proofs)
and validation; JiT options, launcher and the merge of statistics; proofs of the dynamic policy; proofs of the
worker with either policy, of the fixed schedule, of the generation's merge, resume and contract, of DiCache's
statistics and of the PixARC validator; the worker that forecasts, with its proofs.

Left, in the order of what they would add:

1. `MergedAsOne`, with sums as recursive functions rather than folds, and `OptionsHonoured`.
2. Orphans of a PixARC launcher, and the calibration's map as an input of `SafeMapCache`.
