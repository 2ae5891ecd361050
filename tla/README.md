# Verification of topox

topox trains motion models over skeletons of any topology. Clips of many sources
are curated into one data set; a graph VQ-VAE (the *tokenizer*) turns motion into
discrete codes, an export turns the data set into a cache of codes, and a flow
model (the *backbone*) is trained on that cache. An older line trains a graph VAE
and a diffusion *denoiser* on its latents; a *baseline* and an *evaluator* complete
the picture. This directory models

* the processes: ranks that must meet in the same collectives, runs that die and are
  resumed from files, scripts that watch a run through ssh, exports and curation
  scripts that share directories;
* the algorithms on skeletons: pooling, pruning, reordering, distances;
* the networks, as far as masks and indices decide what may depend on what.

Contents: [1 inventory](#1-inventory) · [2 modules](#2-the-modules-and-the-code) ·
[3 runs](#3-what-the-runs-check) · [4 observations](#4-what-the-models-show-about-the-code) ·
[5 proofs](#5-what-is-proved) · [6 limits](#6-what-is-not-modelled) · [7 plan](#7-plan)

To check: `tlc -config <cfg> <Module>` for a run of section 3, `tlapm
<Module>Proofs.tla` for the proofs. `PROJECT.json` lists runs, mutants (for every
property a plausible bug of the code that breaks it), the source lines of every
definition, the hazards that weigh most, and theorems.

## 1 Inventory

Paths are relative to `src/`, the root of the repository; `…` stands for
`src/models/graph_salad/`.

### 1.1 Tokenizer training — `scripts/train_graph_vqvae.py`, `src/models/vq_model/quantizer.py`

* State: on every rank the weights, the optimizer, the step and epoch counters and,
  per residual stage, a codebook held in *buffers* (`embed`, `cluster_size`,
  `embed_avg`). DDP averages gradients; with `broadcast_buffers=False` it leaves
  the buffers alone.
* Operations: broadcast of the codebooks at start-up; per step the draw of the
  quantizer-dropout depth, per stage assignment, EMA update, dead-code reset and
  diagnostics; the loss gate, `backward`, the gradient gate, the optimizer step; at
  the end of an epoch validation and saves on rank 0 and a barrier for all.
* Hard: a rank without a valid token; different random draws per rank; a rank that
  leaves at a gate while others go into the next collective; rank 0 that saves while
  others wait. Two comments in the quantizer record bugs of exactly this kind.
* Correct if: ranks that wait, wait in the same collective; codebooks never drift
  apart; a padded slot never becomes a code; nobody applies an update another rank
  rejected; the checkpoint holds what all ranks hold; every rank ends.

### 1.2 Checkpoints and resume — the same script and `scripts/train_graph_codeflow.py`

* State: in memory the epoch, the weights, `best_val`; on disk `last_model.pt`,
  `best_model.pt` and snapshots `epN_model.pt`.
* Operations: validate and save on the epochs that are due, last, then best when it
  improved, then the snapshot; resume from any of the files. The tokenizer writes in
  place, the backbone writes a temporary file and renames it.
* Hard: a crash between two files or inside one; a chain of resumes; which best the
  resumed run compares with.
* Correct if: a loadable file holds what it says; a better best is never replaced; no
  epoch is left out or trained twice; a crash costs less than a save period; the run
  can be resumed and finishes.

### 1.3 Watchdog and launcher — `scripts/_watchdog_h200_vqvae.sh`, `scripts/_launch_graph_vqvae_2node_h200.sh`

* State: `down_streak`; on the cluster the allocations, launchers, training
  processes, possibly the backbone's processes, the launcher's lock, `last_model.pt`.
* Operations: `alive()` every few minutes; after two checks in a row that found the
  run down, `resume()`: discover the nodes, require a checkpoint, refuse if a
  backbone is there, require the fabric, check again, clean both nodes, require idle
  GPUs, launch, probe.
* Hard: every look is an ssh command that may fail, and each failure is read in its
  own way (as no process, as no backbone, as 9999 MiB in use, as success); the
  cluster changes between two looks.
* Correct if: a healthy run is never killed; a backbone is never touched; there is
  never a second launcher; a run that is down comes back.

### 1.4 Export and merge — `scripts/export_graph_vq_tokens.py`, `scripts/merge_export_shards.py`, `scripts/_run_export_parallel_l4safe_human.sh`

* State: one output directory: npz per clip, per split and shard an index and a
  sidecar, the merged `index.jsonl` per split and `manifest.json`.
* Operations: launch one process per shard, export clip by clip, write index and
  sidecar, wait for all, merge: compare the sidecars, count, write, remove.
* Hard: nothing clears the directory, so older runs, of other shard counts and other
  tokenizers, leave files behind; shards and the merge can die anywhere.
* Correct if: what is published comes from one tokenizer and lists every clip once; a
  merge that died can be run again; a good export is not refused.

### 1.5 Backbone training — `scripts/train_graph_codeflow.py`, `src/models/CodeFlow_Model/token_dataset.py`, `src/data/human_curriculum_sampler.py`

* State: the token cache and its sidecar of captions, the empirical statistics and
  their cache file, the sampler's epoch and phase, accumulated micro-batches,
  weights, `last_model.pt`.
* Operations: rank 0 verifies the sidecar and scans or loads the statistics, all
  take the broadcast; strided or weighted draws per rank; accumulation; gate and
  update; validation, save and generation evaluation on rank 0; the barrier.
* Hard: a relaunch with another command line, a cache exported again between two
  launches, a fault of one rank in the middle of an accumulation.
* Correct if: a resumed run is the run that was interrupted; all ranks normalise by
  one pair of statistics, which fits the clips; only verified captions are trained
  on; an epoch shows every clip once while the curriculum sleeps; every run ends.

### 1.6 Latent training — `scripts/train_denoiser.py`, `scripts/train_graph_vae.py`

* State: as 1.2 with two best files in the VAE, a metrics file, a learning-rate
  schedule that is a function of `global_it`.
* Hard: the two scripts save in opposite orders, so each loses in a crash what the
  other keeps; the denoiser's `last` carries `best_val` in place of its own loss.
* Correct if: files hold what they claim; the VAE's best is never replaced by a worse
  one; the denoiser's claim of a best is backed by a file; the schedule is the one of
  an uninterrupted run; metrics have no gap a crash did not make.

### 1.7 Start of a trainer — all four trainers

* State: the output directory, the ranks, the loaded checkpoint.
* Operations: the guard against a directory that holds something, `mkdir`, the first
  line of `train.log` by rank 0, the checks, warm start or resume, the DDP wrap.
* Hard: every rank judges the directory for itself while rank 0 writes into it;
  the lists of keys a warm start drops or lets be missing are written by hand.
* Correct if: all ranks judge alike; another run's files are safe; a warm start
  keeps every weight both networks have.

### 1.8 Pools and graphs — `…pool_edge_segment.py`, `…pool_deterministic.py`, `…pool_dynamic.py`, `…unpool.py`, `…graph_utils.py`, `…batch.py`, `…attention.py`, `src/data/skeleton_graph.py`

* State: parent list, adjacency, distances, anchors or segments, assignment, coarse
  graph; loops over work lists and over the pivots of Floyd-Warshall.
* Hard: which parent lists pass validation; chains cut by a cap, merged and cut
  again; distances in the middle of a relaxation; masks of padded joints and frames.
* Correct if: exactly trees are accepted; segments partition the joints into
  connected parts and the coarse graph is a tree of at most the cap; distances are
  the shortest; a pooled graph passes the checks of whoever takes it; no feature
  reads padding; pooling and unpooling gives every joint its own features back.

### 1.9 Data set and item — `src/data/anytop_dataset.py`

* State: `cond.npy` and its cache of normalised skeletons, clips, the split lists.
* Operations: build or load the cache, match clips to skeletons by longest prefix,
  read or draw the split, check; serve an item: reorder, remove end effectors, crop,
  pad, mask, derive relations.
* Hard: constructions of two processes interleave with the export of the lists, with
  added clips and a new `cond.npy`; a file name that is a prefix of another.
* Correct if: the cache describes the file it was made from; train, val and held are
  disjoint and cover the samples; an item's arrays are all in one order of joints.

### 1.10 Captions — `scripts/precompute_t5_captions.py`, `scripts/convert_caption_npz_to_npy.py`, `scripts/precompute_t5_caption_tokens.py`, `scripts/build_anytop_t2m_eval_splits.py`, `src/data/anytop_t2m_eval_dataset.py`

* State: the corpus of captions, vectors, tokens and keys made from it, manifests.
* Hard: the corpus is edited between two scripts; a script is killed; the same index
  names one caption in one file and another in the next.
* Correct if: what the gate lets pass binds a text to its own vector and tokens.

### 1.11 Networks and losses — `src/models/CodeFlow_Model/`, `…denoiser.py`, `…vae.py`, `src/models/vq_model/`, `…losses.py`, `…world_recovery.py`, `src/models/encoder.py`, `motion_decoder.py`, `treeik_decoder.py`

* State: tensors with padded joints, slots and frames, and the masks.
* Hard: every sub-block has to mask again what the one before dirtied; guidance runs
  the same batch with and without text; kinematics go up the parents in order.
* Correct if: no valid position depends on padding; text reaches a sample only when
  its gate is open; every valid joint is supervised; the losses read what is decoded.

### 1.12 Curation — `scripts/filter_*.py`, `clean_*.py`, `fix_preprocess_J_mismatch.py`, `convert_humanml3d_to_anytop13.py`

* State: a directory of motions and a dozen files about them, backups, marks.
* Hard: files are rewritten one after another in place; a script killed and run again.
* Correct if: a finished directory agrees with itself; originals are in the backups;
  a pruned skeleton is the old one without the joints asked for.

### 1.13 Baseline, evaluator, measurement — `scripts/train.py`, `src/utils.py`, `scripts/train_anytop_t2m_evaluator.py`, `…t2m_evaluator.py`, `src/eval/codeflow_gen_eval.py`

* Hard: rank 0 alone looks at some inputs and the others must learn of it; a
  contrastive batch over all ranks in which equal captions are not negatives; an
  evaluation in the middle of training that draws random numbers.
* Correct if: ranks refuse together and meet in the same collectives; the pairs
  pushed apart have nothing in common; row i is one clip in every table.

### 1.14 Not modelled

The other watchdogs (`_watchdog_h200_backbone.sh`, `_watchdog_a100_backbone.sh`: the
modelled one was adapted from the first), one-off launchers, monitors and
renderers, `protocol/*.json` (data files; the modules that enforce them, `provenance` and
`holdout_guard`, are not in the repository), FID and the other numbers of the metrics.

## 2 The modules and the code

| Module | Models | Proofs |
|---|---|---|
| `RVQTraining` (`MCRVQTraining` gives it a small arithmetic) | 1.1 | `RVQTrainingProofs` |
| `CheckpointRun` | 1.2, both ways of writing a file | `CheckpointRunProofs` |
| `DurableProgress` | what 1.2 promises: the abstract specification `CheckpointRun` implements | – |
| `Watchdog` | 1.3 | `WatchdogProofs` |
| `ExportMerge` (`MCExportMerge`) | 1.4 | `ExportMergeProofs` |
| `Backbone` (`MCBackbone`) | 1.5 | `BackboneProofs` |
| `LatentRun` | 1.6, the main rank | `LatentRunProofs` |
| `RankStartup` | 1.7, the ranks and the directory | end of `WatchdogProofs` |
| `WarmStart` | 1.7, the weights | – |
| `SkeletonTree` | parent lists, adjacency, distances: shared definitions | – |
| `SkeletonPool` (`MCSkeletonPool`) | 1.8 | `SkeletonPoolProofs` |
| `MotionDataset` (`MCMotionDataset`) | 1.9, construction | end of `RVQTrainingProofs` |
| `ClipItem` | 1.9, one item and the checks of a batch | – |
| `CaptionStore` (`MCCaptionStore`) | 1.10 | `CaptionStoreProofs` |
| `Dependence` | tensors by what they depend on | – |
| `LossTerms` | 1.11, the losses | – |
| `FlowNet`, `MotionCodec` | 1.11, the networks on slots and the codecs | – |
| `DatasetFilter`, `SkeletonPrune`, `PreprocessFix`, `HumanConversion` | 1.12 | – |
| `PairedTraining`, `EvaluatorTraining`, `GenEval` | 1.13 | – |
| `MCNetworks` | composes `ClipItem`, `FlowNet`, `MotionCodec` for checking | – |
| `MCScripts` | composes the modules of 1.12, 1.13 and 1.7 for checking | – |

`MCNetworks` and `MCScripts` check several small machines in one run: a behaviour is one
of the *parts*, chosen in the initial state, and the parts keep their variables in the same
registers `v1, v2, …`, substituted by `INSTANCE … WITH`. Nothing is shared between parts;
a property of a part is stated for its behaviours only (`part = "…" => …`).

**RVQTraining.** An action is what one rank does from the end of one collective to
its arrival in the next: `LeaveEma(r)` takes the reduced populations, updates the
codebook, decides whether codes are dead and arrives in the reset or the
diagnostics. `rep[r]` is the state every rank should hold a replica of, `loc[r]` its
own tokens. `Complete` is the collective itself: it needs every rank in it and
delivers one `result`. Because a fast rank arrives in the next collective before a
slow one has taken its result, at any time the ranks are in two groups, those that
wait and those that still hold the last result; the interleavings are those of the
program. Which tokens a batch has, also none, which depth is drawn, which tokens
replace dead codes and whether a loss or a gradient is finite are free choices.
Vectors, nearest code, residual and moving averages are constants: agreement must
not depend on them. `EpochEnd(r)` contains validation and save, which have no
collective and end before rank 0 arrives at the barrier.

**CheckpointRun.** The actions follow the main rank through an epoch: `RunEpoch`
(train, and validate when due), the save of `last_model.pt`, of `best_model.pt`, the
snapshot, the next epoch. A save in place is two steps with a torn file in between;
a renamed one is a single step (`atomic`, chosen initially, as is whether an operator
resumes from snapshots). `Crash` drops everything in memory and leaves the
files as they are. The weights are represented by the number of epochs trained
into them, so that a file whose epoch field lies can be told from one that does not.
`served` is a history variable.

**Watchdog.** One action per ssh command of the script, in the script's order;
`wd` names the command about to run. `Ssh(ok)` lets any of them fail, and each
action says what the script makes of it. The cluster's own steps (a process comes
up or dies, the peer times out, the launcher exits, the first checkpoint appears,
an allocation goes and comes back, the backbone ends) interleave with them.
`flakes` counts the failed commands, `late` records that a launch was still pending
at a check; `victims` is a history variable.

**ExportMerge.** Shard processes run clip by clip next to each other, each with the
tokenizer it read. `Launch`, `Rerun`, `AllEnded` are the launching script and its
operator, `CheckContracts`, `MergeSplit`, `WriteManifest`, `Clean` the merge; each can
refuse or die, and what it leaves is what the next one finds. A tokenizer stands for
the whole static contract of a sidecar. Every run has its own number of clips (`count`, one of
`Sizes`), so the directory may hold clips of a larger export. The merge runs only when every shard
succeeded, as the launching script does it, unless `ManualMerge` lets the operator run
it regardless.

**Backbone.** A collective is a `pc` in which ranks wait; the weights are the *sequence*
of updates, each named by the batches that went into it, so that two models are equal
only if they were trained on the same things in the same order. Random numbers and
optimizer state are not told apart. Every configuration has two ranks or more: the
single-process shuffle draws from the global generator, which no checkpoint holds, so
that a resumed single-process run without a curriculum is another run.
A re-export replaces the token cache in one step. `provenance.py` and
`holdout_guard.py` are external.

**LatentRun.** `todo` is what is still to be written in this epoch, in the script's
order. A crash keeps the files written so far; the one being written is torn.

**RankStartup.** `Guard(r)` and `FirstLine(r)` of different ranks interleave. `Admits` is
the test of the code; only the denoiser has `Barrier` between the two. `Agent` is
torchrun. Files are represented by the launch that wrote them, 0 is another run.
**WarmStart** represents a state dict by groups of keys (`Keys` of the options).

**SkeletonPool.** The loops are steps, so that their invariants can be stated.
A feature tensor is the set of joints and frames it was computed from. The learned
argmax of the dynamic pool may be any candidate. `Attend` applies the checks of the
attention to the pooled graph.

**MotionDataset.** Four constructions share one directory; each line that touches a
file is a step. **ClipItem.** A joint's name is its index in the source file: an
array is known by whose rows it holds, in the order they are in.

**CaptionStore.** A file is known by the revision of the corpus it was made from, an
encoding by the text encoded. Kills leave half-written caches.

**FlowNet, MotionCodec, LossTerms.** A value is the set of inputs it was computed from
(`Dependence`): multiplication by a mask empties it, attention joins the keys its mask
admits, a biased layer adds `Weight`. A step is one sub-block of the forward pass.
All claims about masks, conditioning and supervision are statements about these sets.

**DatasetFilter.** A script is a list of steps, each rewriting one file, and a kill leaves
that file truncated. An index is updated, not made: a script counts again the rows it finds, and
rows lost in a kill are lost for good. **SkeletonPrune** runs the stack and the remapping step by step.
**PreprocessFix**, **HumanConversion**: every deletion or save is a step and a place to
be killed. **PairedTraining**, **EvaluatorTraining**, **GenEval**: ranks, collectives and
files as above. A rank of the baseline that raises outside the flags all ranks reduce (`LoneExits`)
leaves alone, and the others wait.

## 3 What the runs check

| Run (module, cfg) | Bounds | Properties |
|---|---|---|
| `rvq` (`MCRVQTraining`, `RVQTraining.cfg`) | 2 ranks, 2 stages, 2 codes, 2 epochs of 2 steps, no snapshots, 1 outside fault | `CollectivesMatch`, `CodebookAgreement`, `NoPaddedCode`, `NoStepPastFailedGate`, `CheckpointAgreed`, `TypeOK`; `Termination` |
| `ckpt` (`CheckpointRun`) | 5 epochs, save every 2, snapshot every 3, 2 crashes, in place and renamed, both kinds of operator | `FilesConsistent`, `BestNeverWorsens`, `SnapshotsKept`, `TypeOK`; `ImplementsDurableProgress`, `FinishesUnlessTorn` |
| `wd` (`Watchdog`) | 3 failed commands, 2 deaths, processes come up at any time | `OneLauncher`, `BackboneSpared`, `HealthyNeverKilled`; `Recovery` |
| `export_merge` (`MCExportMerge`) | 2 splits, exports of 2 or 3 clips, 2 or 3 shards, 2 tokenizers (symmetric), 3 runs, 1 failure | `UniformCache`, `Rerunnable`, `ExactIndex`; `NoFalseRefusal` |
| `backbone` (`MCBackbone`) | 2 ranks, 7 clips, 3 epochs, 2 launches, 1 re-export, 1 fault, 3 configurations | `SameRun`, `UpdatesSound`; `Ends` |
| `latent` (`LatentRun`) | 4 epochs of 2 steps, save every 2, snapshot every 2, 2 crashes, both scripts | `ResumesFaithfully`; `FinishesUnlessTorn` |
| `pools` (`MCSkeletonPool`) | every parent list of up to 3 joints, every root-first tree of up to 5, five skeletons of 7 or 8; 3 settings, 5 pools | `AssignmentSound`, `PooledSound`; `LoopsEnd` |
| `dataset` (`MCMotionDataset`) | 4 clips, 2 species, 4 constructions, 1 added clip, 1 new `cond.npy` | `CacheHonest`, `SplitsSound` |
| `dataset_prefix` | a species whose name is a prefix of another | `OwnSkeleton` **fails** (section 4) |
| `captions` (`MCCaptionStore`) | 2 motions, 4 corpora, 2 edits, 4 script runs | `CaptionsBound` |
| `networks` (`MCNetworks`) | skeletons of up to 4 joints, every mask of the small grid, every network, mode and decoder | `ItemFaithful`, `PaddingInert`, `SignalReaches` |
| `scripts` (`MCScripts`) | see below | `DirectoriesAgree`, `RanksAgree`, `ScoredIsTrained`; `NothingLost`, `ScriptsEnd` |

A property after the semicolon is about steps or about whole behaviours. Most invariants
are conjunctions of named parts, each stated and commented where it is defined; with the
type invariant of the module they are

* `UpdatesSound` (`Backbone`): `OneNormalisation`, `StatsFit`, `VerifiedOnly`,
  `OncePerEpoch`;
* `ResumesFaithfully` (`LatentRun`): `FilesTrue`, `VaeBestNeverWorsens`,
  `DenoiserClaimBacked`, `SeamlessSchedule`, `ReachesFloor`, `MetricsCover`;
* `AssignmentSound` (`SkeletonPool`): `AcceptsExactlyTrees`, `SegmentsPartition`,
  `OverflowExact`, `AnchorSpacing`, `RadiusSuffices`, `PoolFits`; `PooledSound`:
  `CoarseTree`, `FloydLayers`, `Contracts`, `ReadsValid`, `RoundTrip`;
* `SplitsSound` (`MotionDataset`): `SplitsPartition`, `ExportServes`;
* `CaptionsBound` (`CaptionStore`): `GateBinds`, `PipelineBinds`, `EvalViews`;
* `ItemFaithful` (part *clip*): `OrderIsFaithful`, `RelationsExact`, `ReductionExact`,
  `HeldNeverServed`, `ItemAligned`, `ServedIsAccepted` (reordering, relations, removal of
  end effectors and what the batch then demands);
* `PaddingInert` (parts *flow* and *codec*): `NoPaddingLeak`, `PaddedZero`, `TextGated`,
  `LossOverValid`; `NoPaddedContent`, `DecoderIgnoresPadding`, `LeakIsLocal` (encoder
  convolutions read padded frames, and only within their kernel);
* `SignalReaches` (the same parts): `Reaches`; `DecoderReaches`, `KinematicsExact`,
  `LossesReadDecoded`, `AllSupervised`, `FkTermExact`. It keeps `PaddingInert` honest: a
  network that depends on nothing would satisfy that one;
* `DirectoriesAgree`: *filter* (4 clips, 2 objects, 3 script runs, 1 kill)
  `FilteredAgrees`, `OriginalsKept`, `CleanAgrees` (an index agrees by `IndexAgrees`: it is right
  in the rows it has, and has all of them unless a kill truncated it or its source); *prune*
  (forests of up to 4 joints) `RemovedExact`, `PrunedFaithful`; *fix* (4 clips, 2 species, 2 runs) `FinishedAgrees`;
  *convert* (5 clips, 3 selections, 3 runs) `LoadedIsOneRun`, `ConvertedLoads`;
* `RanksAgree`: *pair* (2 ranks, 5 clips, 3 epochs, 12 kinds of input)
  `CollectivesMatch`, `AbortTogether`, `StrandedByLoneExit`, `LoneExitStops`, `EpochExact`,
  `UpdatedOnce`, `BestIsLowest`; *judge* (2 ranks, 5 clips that share motions, sources and captions, 2
  launches) `CollectivesMatch`, `NegativesExact`, `BatchesDisjoint`, `BestFollowsLog`;
  *start* (3 ranks, 4 trainers, 2 launches, 1 kill) `RefusesOwnLog`, `OneVerdict`;
* `ScoredIsTrained`: *measure* (7 clips of all kinds and lengths) `ChosenExact`,
  `RowsAligned`, `ScoredIsGenerated`, `MaskCoversScored`, `LookupRight`, `GeneratorKept`;
  *warm* (every pair of options with 3 pools) `SharedKept`, `RoutesOpen`,
  `FrozenIsTrained`;
* `NothingLost`: `MajorityStep` of *fix*, `StrangersStep` of *start*;
* `ScriptsEnd`: the ends of *prune*, *pair* (unless a rank leaves alone) and *judge*; `Resolved`
  and `CleanEnd` of *start*. An end is any end: a refusal is one, also that of a launch by its own
  log (section 4). That it trains is claimed of the denoiser in an empty directory only.

Why the bounds are enough to be interesting:

* `rvq`. Two ranks give every order of arrival and the case of one rank with tokens and
  one without; two stages give the dropout depth and a residual; epoch 0 is not saved
  and epoch 1 is; two codes give a dead one next to a live one. Mass is cut off at the
  threshold, since only being below it matters. Snapshots are off (`PeriodicEvery = 0`): they add
  epochs at which rank 0 saves; `ckpt` has them on. The proofs cover all other sizes and
  any arithmetic.
* `ckpt`. Five epochs hold two save periods, a snapshot that is not on a
  regular save epoch, and the last epoch, which is always saved; three losses and an
  infinite one (a `nan` behaves the same in the comparison) give better, equal and
  worse; two crashes let the second hit the resumed run.
* `wd`. Three failed commands is the first number at which a healthy run can be
  killed: the two checks and the recheck. `HealthyNeverKilled` is about at most two and
  launches that are over before the next check; the run goes past both.
* `export_merge`. Three clips and shard counts 2 and 3 leave shard 2's files behind when
  the directory goes from 3 shards to 2, and spread the clips differently; an export of two
  clips after one of three leaves the third behind; three runs are an old export, a new one and a re-run.
* `backbone`. Seven clips over two ranks leave one over; accumulation by two leaves a
  micro-batch over; three epochs cross both phases of the curriculum and one unsaved epoch;
  the second launch may have another command line.
* `latent`. Two crashes, so that the second hits a resumed run; warm-up ends within an epoch.
* `pools`. Lists of three joints include every malformed one (two roots, cycles, parents out
  of range or after their child); the longer skeletons make the cap cut, merge and cut again.
* `dataset`, `captions`. Two of everything, so that each file can be of another
  revision than the next one.
* `networks`, `scripts`. The smallest instance in which each guard of the code is met both ways.

**Deadlock** is checked in `rvq`, `ckpt`, `wd`, `export_merge` and `latent`, where the
specification never stops: `Ended`, `Resume` of a finished run and `Rest` are the places where
the program is over or an operator does nothing. The other runs are about programs that end.

**Fairness.** `RVQTraining`: a collective all ranks are in completes, a rank that holds a
result goes on, torchrun notices a failed worker. `CheckpointRun`, `LatentRun`: a live process
goes on, an operator starts the run and somebody relaunches it; crashes are not fair
and there are finitely many. `Watchdog`: the script keeps polling, a launched
process comes up unless its launch is cancelled, a node whose peer is gone reaches
its NCCL timeout, the launcher's `wait` returns. Nothing is assumed of ssh, of the
allocations or of the backbone; `Recovery` says that a run that is down comes back
unless an allocation is lost, and that a backbone delays it only while it is there.
`Backbone`, `PairedTraining`, `EvaluatorTraining`, `RankStartup`: the processes and torchrun
go on; kills and relaunches are not fair. `SkeletonPool`, `SkeletonPrune`: a loop goes on.

## 4 What the models show about the code

One disagreement is kept as a run that fails:

* `dataset_prefix` — a species that is skipped (too many joints, or it does not
  normalise) leaves its clips to a species whose name is a prefix of its own, and they
  are read with that skeleton. The warning at `src/data/anytop_dataset.py:611` says
  "clips of this type will be skipped".

The following were met while modelling. The properties allow for them (by an exception or a
premise, named here), so each is a sentence a property would be without its exception.

Saves and resumes:

* Tokenizer: `last_model.pt`, which already counts the new best, is saved before
  `best_model.pt`; after a crash between the two no file has that best and the next ones
  are compared with it (`train_graph_vqvae.py:984`; line 721 calls `best_model.pt` the
  historical best). A crash *inside* the save in place leaves a torn
  `last_model.pt` into which the watchdog relaunches for ever (`FinishesUnlessTorn`). Resuming
  from an earlier `epN_model.pt` restores the best as of that epoch, and the next
  validation may overwrite a better file (`BestNeverWorsens` has `~operator`). A crash between
  `last` and the copy to `epN` loses that snapshot (`SnapshotsKept`: one per crash).
* Denoiser and VAE both lose a best model in a crash between the two saves, each in its own way, and
  `ResumesFaithfully` excludes neither. The denoiser writes `best_model.pt` first: the resumed run
  takes the older `best_val` of `last_model.pt` and may write a worse model over the better one. The
  VAE writes `last_model.pt` first: the best it counts was never saved, and only a better one will be.
* Denoiser: `metrics.jsonl` and `train.log` are opened anew on a resume. VAE: the metrics row of
  an epoch is lost in a crash after `last`; its best files hold no optimizer.
* Start: the VAE, the tokenizer and the backbone let rank 0 write `train.log` before a slower
  rank has looked at the directory; without `--overwrite` a first launch on several ranks may
  be refused by its own log. The denoiser has a barrier and a comment about exactly this
  race. The launchers pass `--overwrite` by default, which hides it.
  A start that fails in its checks leaves its log behind.
* Warm start: under graphormer attention `--init_ckpt` drops every key that contains
  `.geodesic_bias.` or `.adjacency_bias.`, also those of the fk6 tree decoder, and since
  `treeik_head.` may be missing they start fresh without a word (exception in `SharedKept`).
  `--resume` compares keys only; options without keys may change.

Processes:

* Watchdog: one ssh failure reads as "no backbone", and the cleanup that follows may reach the
  node (`_watchdog_h200_vqvae.sh:188`; lines 180-182 say never). The header lists the idle test
  of the GPUs before the cleanup, the code has it after.
* Export: a shard that dies in the middle of a clip it had already exported leaves its older
  index and sidecar; a merge by hand publishes a truncated clip (`merge_export_shards.py:130`).
  The launching script merges only when every shard succeeded.
* Export: the merge counts every `.npz` it finds (`merge_export_shards.py:87-94,128-134`) and nothing
  clears the directory (`export_graph_vq_tokens.py:170`): after an export with more clips (another
  `--max_clips`, split list or corpus) a good smaller one is refused until somebody removes the
  clips left over. `NoFalseRefusal` excepts it (`LeftOver`).
* Baseline: three errors end one rank alone, and the others wait in the next collective until
  the launcher or its timeout ends them: keys of the checkpoint that rank 0 does not expect
  (`train.py:366-371`), a loss that is not finite (`579-582`), an offline IK target of another
  shape, looked at when it is drawn (`StrandedByLoneExit` says there is no fourth, `Ends` excepts
  them). Too few clips for one step of all ranks end every rank (`498-501`). The clips of the
  diagnostic "holdout" are training clips; a diagnostic that is nan or above 1e9 never saves a best.
* Evaluator: relaunched in its directory it starts its best at -1 and appends to its logs; an
  error in rank 0's validation leaves the others waiting for the 30-minute timeout.
* Captions: the loader parses the corpus (`src/data/anytop_dataset.py:802`) before the gate
  hashes it (`888`). An edit in between passes the gate: `GateBinds` excepts it, and covers an edit at
  any other time.
* Data set: a `cond.npy` edited between the load and the save of the cache leaves a cache of the old
  file with a newer time (`CacheHonest` excepts it, `straddled`). A parent list with a cycle makes
  the loader hang (`src/data/skeleton_graph.py:53`); `LoopsEnd` has lists without one.
* Evaluation: the keys of a caption cache are compared in three rows only.

Skeletons, clips and networks:

* The docstring of the dynamic pool (`…pool_dynamic.py:27`) promises coarse nodes in
  topological order; the learned argmax does not keep it. Nothing downstream relies on it.
  The graph checks of the attention run in the denoiser's preflight only.
* Manifests of the evaluation number captions differently than the vectors do; the wrapper looks
  up by text.
* Tokenizer encoder: convolutions read padded frames; the coarse temporal attention spreads
  that. It is harmless while the data set pads to one window. Joint semantics are handed
  to `encode_skeleton` only. The VAE's decoder attends to padded slots and frames and is masked
  afterwards.
* Losses: a rotation is stored at the last child; unknown names of weights are skipped; the FK
  loss fails when a child precedes its parent.

Curation:

* The filter killed between moving and recomputing leaves stale statistics; an object emptied by
  it fails for ever after its clips were moved; the zoo filter cannot finish once a
  training has made the cache again. A backup that was interrupted is never made again, and the
  rewrite destroys the original (`OriginalsKept` excepts it, `cut`). Rows of `object_index.csv` lost in
  a kill never come back, since each script updates the rows it reads
  (`filter_animo4d_proximal_rotation.py:370-392`, `filter_planet_zoo*.py:295-312`,
  `clean_animo4d*.py:316-321,558-568`). A truncated manifest raises in
  one script and is skipped in the other.
* `metadata_removed/<name>` is overwritten by each run; the zoo cleaner slices its statistics
  from the source's; a leaf pattern is looked at once.
* `fix_preprocess_J_mismatch.py` truncates matrices in their rows only.
* The human conversion killed between the statistics and the lists leaves a directory for
  which the loader draws its own split. Clips with nan are noted and kept.

## 5 What is proved

For every value of the constants that satisfies the modules' assumptions:

| Theorem | Says |
|---|---|
| `RVQTrainingProofs`: `TypeCorrect`, `CollectivesMatchCorrect`, `CodebookAgreementCorrect`, `NoPaddedCodeCorrect`, `NoStepPastFailedGateCorrect`, `CheckpointAgreedCorrect` | the six invariants of run `rvq`, for any number of ranks, stages, codes, steps, epochs, faults and any arithmetic closed under its types |
| `CheckpointRunProofs`: `TypeCorrect`, `FilesConsistentCorrect` | for either way of saving, with or without resumes from snapshots |
| `CheckpointRunProofs`: `BestNeverWorsensCorrect` | unless snapshots are resumed from |
| `CheckpointRunProofs`: `SnapshotsKeptCorrect` | a finished run misses at most one due snapshot per crash, whatever file each resume took |
| `CheckpointRunProofs`: `RefinesDurableProgress` | the run implements `DurableProgress`; for renamed files resumed from `last_model.pt` this bounds what a crash costs |
| `WatchdogProofs`: `TypeCorrect`, `OneLauncherCorrect`, `BackboneSparedCorrect` | for any number of failures and deaths |
| `WatchdogProofs`: `HealthyNeverKilledCorrect` | for at most two failed commands and launches that end before the next check |
| `WatchdogProofs`: `OneVerdictCorrect`, `RefusesOwnLogCorrect`, `StrangersKeptCorrect` | of `RankStartup` (instantiated as `Start`), for any number of ranks, launches and kills |
| `ExportMergeProofs`: `UniformCacheCorrect`, `ExactIndexCorrect`, `RerunnableCorrect`, `NoFalseRefusalCorrect` | run `export_merge`, for any splits, shards, tokenizers, runs and failures and any number of clips in each run, when only what succeeded is merged (`~ ManualMerge`); that nothing good is refused, but for the clips a larger export left over |
| `RVQTrainingProofs`: `CacheHonestCorrect` | for any edits of `cond.npy` but those between a load and its save |
| `RVQTrainingProofs`: `SplitsSoundCorrect` | for any finitely many clips, any types and prefixes and any validation share: the parts of one construction are disjoint and cover its samples; a train and a validation set agree if both were made from lists that were not exported again, without a whitelist; an export of unchanged data with nothing held is accepted by both and divides the clips |
| `LatentRunProofs`: `ResumesFaithfullyCorrect` | the invariant of run `latent`, for any schedules, warm-up, losses and crashes; it does not say that the best model is kept (section 4) |
| `CaptionStoreProofs`: `CaptionsBoundCorrect` | the invariant of run `captions`, for any motions, corpora, edits and script runs; the gate's part except for an edit between parse and hash, and for files replaced under a reader |
| `SkeletonPoolProofs`: `AssignmentCorrect`, `PooledCorrect` | both invariants of run `pools`, for any parent lists of up to `Inf` joints, any number of frames, any stride and any limits of the pools |
| `BackboneProofs`: `SameRunCorrect`, `UpdatesSoundCorrect` | both invariants of run `backbone`, for two or more ranks, any clips, batch size, accumulation, epochs, command lines, launches and exports |

**RVQTraining.** The inductive invariant is `IInv == Typed /\ InStep /\ GateInv /\
CkptInv`. None of the properties is inductive: that two waiting ranks agree says
nothing about the rank that has not arrived yet. `InStep` describes both groups: all
waiting ranks share one replica; all ranks that still hold the result share one; and
if there are both, the first is what the second becomes by `Advance`, a function of the
replica and the result alone. That is the heart of the argument: every `After...`
operator depends on nothing local. `contrib` carries the matching kind of every
waiting rank, so that what `Complete` combines is of the right type. `GateInv` says that when
a rank left at a gate nobody is past its step, and `CkptInv` ties the checkpoint to
rank 0's replica while it waits at a barrier.

**CheckpointRun.** `IInv` is `TypeOK`, `FilesConsistent` and `Phase`, which says for every
value of `pc` how epoch, weights and checkpoint relate. `BestInv` adds that the best
recorded in `last_model.pt` never exceeds what `best_model.pt` ever held; it depends on
the order of the saves. `ProgressInv` adds that unsaved epochs are at most
`epoch % SaveEvery`, with a lemma on the modulus for the step to the next epoch;
each action is then a step of `DurableProgress` or a stutter.

**Watchdog.** `LaunchInv`: no process is pending without the launcher, and pending and
running are disjoint. `FlakeInv` counts: at each command of `resume()`, if the run is
healthy, the watchdog has already misread it a known number of times, and only a
failed command makes it misread. With three needed and two available there is no
cleanup of a healthy run. `BackboneInv`: without a failure the backbone count is what is
on the nodes, and no backbone appears while the watchdog works.

**RankStartup.** `Verdicts` is the reason for the barrier: while a rank of the denoiser is still
at the door, all ranks are, so nothing was written since the launch began and every rank that was
refused or admitted judged the same directory. `OwnFiles` says that a directory found empty holds
nothing but this launch's files, `Outside` that a launch which may not touch another run's files
has no rank inside. The theorems assume at least one rank, as `RankStartup` itself need not. Run `scripts` checks the same
formulas on three ranks, `OneVerdict` and `RefusesOwnLog` as parts of `RanksAgree` and the steps of
`StrangersKept` in `NothingLost`.

**CheckpointRun, snapshots.** `SnapInv` counts, for every epoch the run is known to have reached
(by the epoch field of `last_model.pt`, by a later snapshot, or by where a live process is), the due
snapshots before it that are not there whole; the one a live process is about to copy does not
count yet. A crash at that moment makes it count, and nothing else raises the number: so it never
exceeds the crashes.

**ExportMerge.** `Shards` says of every shard that the splits behind it hold its clips, its rows and its
sidecar, each of the tokenizer it read, and of the split it is at what its step says; shards of one
run share no file, since `Mine` divides the clips by their remainder (`MineParts`, `MineApart`). `Merge`
says that between the check and the removal all shards stand succeeded, agree in their contracts, and
have been merged up to `msplit`. `Published` ties the manifest to the run whose shards all succeeded.
What older runs with other numbers of shards left of shard files is nowhere mentioned: it never
matters. Their clips do: `Published` lists the run's own and no others, and a refusal in a split whose
rows are those of the run means clips on disk the run does not have (`LeftOver`).
The theorems assume `~ ManualMerge`: the launching script exits before the merge when a shard failed
(`_run_export_parallel_l4safe_human.sh`). An operator who merges by hand may publish what a failed
shard left, and that is not what the properties promise.

**MotionDataset** (its specification is named `DataSpec`, so that one module can hold the proofs about
it and about the training that reads the data). `DataInv` is the invariant. `CacheInv` strengthens
`CacheHonest` by what a construction about to write the cache holds; it needs the exception for an
edit in between (`straddled`). For the splits, `ListInv` says what was read from the lists is what they hold, and was accepted by the checks against them; `ExportInv` that
as long as the data stay, both constructions of an export work with the same keys and clips, so that
what they keep are the two parts of one stratified division (`StratifiedPart`). The module assumes of
the shuffle only that it picks some of the clips it is given, and that a directory has finitely many.

**LatentRun.** `Phase` fixes, for each place in an epoch, what epoch, weights and the losses in memory
stand for and what can still be left to write; `Schedule` that the denoiser's iteration counter is the
number of updates and its rate that of the last one. `VaeInv` and `DenoiserInv` differ because the
scripts save in different orders: the VAE's `last_model.pt` comes first and is never worse than what its
best files ever held, the denoiser's best file comes first and backs whatever loss the run believes in.
`RowsInv` gives `MetricsCover`: a row is written before the file that counts its epoch. The invariant
reads `Head(todo)`, the file a crash would tear; the order of the files is what the argument is about.

**SkeletonPool.** `SoundInv` has a part for every loop of the program. The argument needs to know what
the loops compute for *every* skeleton, and the prover has no induction rule that takes a predicate: so
each induction is over a set, from the least number outside it (`StrongInduction`, by the library's
`WFMin`).

* Graphs: `Near(E, S, v, w, m)` says that at most `m` edges through `S` lead from `v` to `w`.
  `BallsAre` shows that the breadth-first balls of `SkeletonTree` are what is near, `HopsAre` that
  `HopsThrough` is the least such `m` or `Inf`, and `PivotHops` is the step of Floyd and Warshall: a
  shortest walk uses the new pivot once or not at all (`NearThroughOne`). `PooledInv` therefore states
  the distances *at* pivot `k` by an equation, with `Exact`, and `FloydHolds` reads the end off it.
  Distances stay below `Inf` because `PoolAssumption` has `J <= Inf`: the code has `float("inf")`, the
  model the number 1000, so that the theorems are about skeletons of up to 1000 joints.
* Validation: `VisitInv` says the search queues no joint twice and visits the children of what it
  has left; on a list it accepts, what was visited is all there is, so the list is a tree.
* Anchors: `Passed` describes the walk from a leaf in the middle: every joint it has passed has an
  anchor less than a chunk above it, or is still counted. Later walks only add anchors, so it stays
  true of the leaves done (`ChosenInv`), and half a chunk is radius enough for every joint (`InReach`).
* Segments: `SegInv` says of the list, while it is cut and while it is merged, that the
  segments are downward paths, share out the joints cut so far, hang below one another in the order
  of the list, and that those of one chain are consecutive. `CutKeeps` and `MergeKeeps` are the two steps.
* Trees: an assignment whose cells hang together contracts a tree to a tree (`CellTree`),
  in root-first order if the cells are numbered by their tops (`CellOrder`). The segments are such cells
  by `SegInv` (`CelledSegments`), the cells of the nearest anchors because ties are always broken for the
  smaller index: a joint on the way to its anchor has the same one (`VoronoiStep`, `CelledAnchors`).
* Features: `MotionInv` gives what every joint has read as a set of joints and frames.

For the learned argmax of the dynamic pool nothing is claimed about trees: there `CoarseTree` is not
stated, as section 4 explains.

**Backbone.** The weights are a sequence of updates, so the theorem is an equation:
`Trained(c, x, n)` is the sequence of the first `n` updates of a run nothing interrupts, with
normalisation `x`, and `IInv` says that the weights of every rank past the broadcast *are*
`Trained(conf, stats, Cycles)`, where `Cycles` is a function of its epoch and iteration. `RanksInv` adds
what it has collected of the cycle it is in; `StepInv` that all ranks past the broadcast have the same
`Cycles` and statistics, though their epochs, iterations and places in the code differ;
`CkptInv` that the checkpoint is `Trained` of its own command line up to its epoch. An update then is
the next element of `Trained` on all ranks at once (`FullCycle`, `TrainedOneMore`); a load, the same
equation with the checkpoint's statistics. `StatsInv` follows the key of the statistics
through re-exports, `VerifiedInv` the sidecar. That no clip is used twice (`OncePerEpoch`) is
arithmetic on the equation: the place of a clip in the permutation is a number in mixed radix (cycle,
micro-batch, position, rank), below the number of clips (`Places`) and of one clip only
(`OnePlace`). It needs of `Shuffle` that it is a permutation, as `torch.randperm` is; that
assumption is in `BackboneAssumption`. Nothing is assumed of the draws with replacement.

**CaptionStore.** `FilesInv` relates the files in place to the script under way: what a script holds in
memory are whole revisions of the corpus, and as long as the chain of scripts is unbroken the
vectors, keys and tokens are of the revision the sidecar names. `LoaderInv` is about time: a loader
reads its files one after the other, so what it has built is of the files in place *while none of
them moved*, and the corpus it parsed is the one that they name; edits past the gate
change neither. `ItemInv` says that a sample
is one the loader would serve again, `ViewInv` that an open view has found a row for every caption
it plans. The content is in three enumerations of the captions (the rows of the vectors, the
groups of the loader, the index of the manifest), which the code builds independently: `KeptFacts`
follows the filter along the list by induction, `InOrderFacts` and `GroupFacts` place a key by
counting the keys before it.

Only model-checked:

* the liveness properties (`Termination`, `FinishesUnlessTorn`, `Recovery`, `Ends`, `LoopsEnd`,
  `ScriptsEnd`): temporal reasoning under fairness is beyond the prover;
* the parts of `MCNetworks` and `MCScripts`, but for those of `RankStartup`: finite case analyses
  over every mask, option and small directory, where the case is the content.

## 6 What is not modelled

* Values: losses, gradients, weights, metrics. A loss is finite or not, a validation is
  better or not; a tensor is what it depends on.
* The two all-reduces of one EMA update, and the two broadcasts of one reset, are one
  collective each: nothing happens between them.
* A rank that hangs without dying. The group's timeout makes it a fault.
* Renaming is taken to be atomic and a completed file to survive the loss of the node,
  as the code takes it.
* Watchdog: the two fabric queries are one step; which fabric the nodes have is not
  told apart; the run does not finish while it is watched (a finished run looks down and
  is relaunched for ever, each relaunch ending at once; a hazard without a property);
  nobody starts a backbone on the nodes while the watchdog works, as it demands.
* Export: the single-process mode, the content of a clip, and a checkpoint that is
  replaced while it is hashed.
* Backbone: smoke and memory-profile modes, random numbers, optimizer state, decoded losses.
* Latent training: the ranks other than the main one after the start; sampling.
* Start: the checks are one step; which of two problems is reported first is not told apart.
* Captions: the files of the builder of the sidecar change together: the builder is not in
  the repository, nor is the order in which it writes.
* Tokenizer: smoke runs, which save in every epoch. Baseline: a single process.
* Curation: the geometry of conversions, the importers of other sources.
* Measurement: FID, precision and the other numbers; the reach metrics of the baseline.
* `provenance.py` and `holdout_guard.py`, which are not in the repository; what they refuse is
  a free choice.

## 7 Plan

Modelled so far: every component of section 1 except those of 1.14. What is left:

1. `NothingLost`: the step of `PreprocessFix` for any clips.
2. Composition: a reader of the cache next to `ExportMerge`; `CheckpointRun` with `Watchdog`, so
   that "comes back" and "makes progress" meet.
