------------------------------ MODULE Backbone ------------------------------
(***************************************************************************)
(* Training of the flow backbone on the offline token cache                *)
(* (scripts/train_graph_codeflow.py with CodeFlow_Model/token_dataset.py), *)
(* killed and relaunched from last_model.pt.                               *)
(*                                                                         *)
(* Ranks meet in three collectives: the broadcast of the normalisation     *)
(* statistics, the gradient all-reduce of a final micro-batch, and the     *)
(* barrier that ends an epoch.  Rank 0 alone verifies the caption sidecar, *)
(* scans or loads the statistics, validates, saves and runs the generation *)
(* evaluation.  torchrun stops every rank once one has failed.             *)
(*                                                                         *)
(* The weights are the sequence of the updates applied to them; an update  *)
(* names the batches of every rank that went into it, so that two models   *)
(* are the same exactly when they were trained on the same things.         *)
(***************************************************************************)
EXTENDS Naturals, Sequences, FiniteSets

CONSTANTS
  Clips,           \* number of rows of train/index.jsonl
  BatchSize,       \* --batch_size
  Epochs,          \* --epochs
  SaveEvery,       \* --save_every
  EvalEvery,       \* --gen_eval_every
  Configs,         \* command lines a launch may use
  Shuffle(_),      \* randperm of a generator seed: a permutation of 1 .. Clips
  Weighted(_, _, _), \* a clip of multinomial(weights): seed, factor, position
  Sidecars,        \* what the caption sidecar may be: pinned, swapped, truncated
  MaxLaunches,     \* bound: launches of the run
  MaxExports,      \* bound: new exports of the token cache
  MaxFaults        \* bound: numerical faults and missing captions

(* One command line.  A phase of the curriculum is a factor and its start; *)
(* a start of 0 is the negative default, epoch e of the code is e + 1.     *)
(* Two ranks or more: a single process shuffles with the global generator. *)
Config == [world : Nat \ {0, 1}, accum : Nat \ {0}, random : BOOLEAN,
           workers : BOOLEAN, lookup : BOOLEAN,
           factor : Nat \ {0}, start : Nat, factor2 : Nat \ {0}, start2 : Nat]

ASSUME BackboneAssumption ==
  /\ {Clips, BatchSize, Epochs, SaveEvery, EvalEvery} \subseteq Nat \ {0}
  /\ Configs \subseteq Config
  /\ Sidecars \subseteq {"pinned", "swapped", "truncated"}
  /\ \A e \in 1 .. Epochs :
       /\ Shuffle(e) \in [1 .. Clips -> 1 .. Clips]
       /\ \A i, j \in 1 .. Clips : Shuffle(e)[i] = Shuffle(e)[j] => i = j
  /\ {MaxLaunches, MaxExports, MaxFaults} \subseteq Nat

VARIABLES
  job,       \* the torchrun job: off, up, finished
  conf,      \* its command line
  rank,      \* per rank: the process
  ckpt,      \* last_model.pt
  statsFile, \* empirical_stats.pt beside the token cache
  cache,     \* generation of the token cache
  sidecar,   \* the caption sidecar on disk
  overlap,   \* history: an export ran while the statistics were scanned
  launches, faults

env  == <<cache, sidecar, overlap>>
vars == <<job, conf, rank, ckpt, statsFile, env, launches, faults>>

-----------------------------------------------------------------------------
(* The sampler.                                                            *)

Phase2(c, e) == c.factor2 > 1 /\ c.start2 > 0 /\ e >= c.start2
Phase1(c, e) == c.factor > 1 /\ c.start > 0 /\ e >= c.start

Factor(c, e) == CASE Phase2(c, e) -> c.factor2
                  [] ~Phase2(c, e) /\ Phase1(c, e) -> c.factor
                  [] OTHER -> 1

NumSamples(c) == Clips \div c.world

(* One permutation in disjoint strides, or draws of the rank's own with    *)
(* replacement while a phase of the curriculum is on.                      *)
Draws(c, e, r) ==
  [i \in 1 .. NumSamples(c) |->
     IF Factor(c, e) > 1 THEN Weighted(e * 1009 + r, Factor(c, e), i)
                         ELSE Shuffle(e)[r + (i - 1) * c.world + 1]]

\* Mutant: the stride of the last rank is not cut to the common length.
Uneven_Batches(c, r) ==
  (NumSamples(c) - (IF r = c.world - 1 THEN 1 ELSE 0)) \div BatchSize

(* drop_last.                                                              *)
Batches(c, r) == NumSamples(c) \div BatchSize

StepsPerEpoch(c) == Batches(c, 0) \div c.accum

Baked == 0

(* What a batch is made of: clips, and captions drawn for an epoch, or the *)
(* ones baked into the payload.                                            *)
Batch(clips, n, caption) ==
  [clips |-> [i \in 1 .. BatchSize |-> clips[(n - 1) * BatchSize + i]],
   caption |-> caption]

-----------------------------------------------------------------------------
(* Processes.                                                              *)

Ranks(c) == 0 .. (c.world - 1)

NoStats == 0
Mixed   == MaxExports + 2      \* sums over payloads of two exports

Off == [pc |-> "off", epoch |-> 0, it |-> 0, caption |-> 0, fork |-> 0,
        grads |-> <<>>, net |-> <<>>, key |-> NoStats, stats |-> NoStats]

NoCkpt  == [epoch |-> 0]
NoFile  == [state |-> "none", key |-> NoStats, stats |-> NoStats]

Init ==
  /\ job = "off"
  /\ conf \in Configs
  /\ rank = [r \in Ranks(conf) |-> Off]
  /\ ckpt = NoCkpt
  /\ statsFile = NoFile
  /\ cache = 1
  /\ sidecar \in Sidecars
  /\ overlap = FALSE
  /\ launches = 0
  /\ faults = 0

Goto(r, pc) == rank' = [rank EXCEPT ![r] = [rank[r] EXCEPT !.pc = pc]]

(* A launch passes last_model.pt to --resume when there is one.            *)
Launch ==
  /\ job = "off" /\ launches < MaxLaunches
  /\ launches' = launches + 1
  /\ job' = "up"
  /\ conf' \in Configs
  /\ rank' = [r \in Ranks(conf') |-> [Off EXCEPT !.pc = "open"]]
  /\ overlap' = FALSE
  /\ UNCHANGED <<ckpt, statsFile, cache, sidecar, faults>>

(* Sizes on every rank; hashes, lattice, identities and spot checks on     *)
(* rank 0 only.  Fixed captions do not open the sidecar.                   *)
Verified(r) ==
  \/ ~conf.random
  \/ sidecar = "pinned"
  \/ sidecar = "swapped" /\ r # 0

\* Mutant: a changed command line is resumed all the same.
Any_Contract == TRUE

(* The digest of the configuration must be the checkpoint's.               *)
Contract == ckpt = NoCkpt \/ ckpt.conf = conf

(* A factor without a start would be a silent no-op.                       *)
Curriculum ==
  /\ conf.factor > 1 => conf.start > 0
  /\ conf.factor2 > 1 => conf.start2 > 0

OpenTokens(r) ==
  /\ rank[r].pc = "open"
  /\ IF Verified(r) /\ Contract /\ Clips >= BatchSize
       THEN rank' = [rank EXCEPT ![r] =
              IF r = 0 THEN [rank[r] EXCEPT !.pc = "stats", !.key = cache]
                       ELSE [rank[r] EXCEPT !.pc = "bcast"]]
       ELSE Goto(r, "failed")
  /\ UNCHANGED <<job, conf, ckpt, statsFile, env, launches, faults>>

(* A file that cannot be loaded, or of another key, is scanned again.      *)
Hit(key) == statsFile.state = "whole" /\ statsFile.key = key

LoadStats ==
  /\ rank[0].pc = "stats" /\ Hit(rank[0].key)
  /\ rank' = [rank EXCEPT ![0] = [rank[0] EXCEPT !.pc = "bcast", !.stats = statsFile.stats]]
  /\ UNCHANGED <<job, conf, ckpt, statsFile, env, launches, faults>>

StartScan ==
  /\ rank[0].pc = "stats" /\ ~Hit(rank[0].key)
  /\ rank' = [rank EXCEPT ![0] = [rank[0] EXCEPT !.pc = "scan", !.stats = cache]]
  /\ UNCHANGED <<job, conf, ckpt, statsFile, env, launches, faults>>

(* The write is neither atomic nor checked: an error, or a kill, may leave *)
(* the old file or half of the new one.                                    *)
EndScan ==
  /\ rank[0].pc = "scan"
  /\ LET found == IF rank[0].stats = cache THEN cache ELSE Mixed
         whole == [state |-> "whole", key |-> rank[0].key, stats |-> found]
     IN  /\ rank' = [rank EXCEPT ![0] = [rank[0] EXCEPT !.pc = "bcast", !.stats = found]]
         /\ statsFile' \in {whole, statsFile, [NoFile EXCEPT !.state = "torn"]}
  /\ UNCHANGED <<job, conf, ckpt, env, launches, faults>>

Meet(pc) == job = "up" /\ \A r \in Ranks(conf) : rank[r].pc = pc

\* Mutant: the checkpoint does not carry the latent statistics.
Weights_Restored(me) ==
  IF ckpt = NoCkpt THEN me
  ELSE [me EXCEPT !.epoch = ckpt.epoch + 1, !.net = ckpt.net]

(* The strict load brings weights, optimizer and latent statistics.        *)
Restored(me) ==
  IF ckpt = NoCkpt THEN me
  ELSE [me EXCEPT !.epoch = ckpt.epoch + 1, !.net = ckpt.net, !.stats = ckpt.stats]

Enter(me) == [me EXCEPT !.pc = IF me.epoch < Epochs THEN "epoch" ELSE "done"]

(* Rank 0's statistics on every rank, the guards of the curriculum, then   *)
(* the checkpoint.  epoch counts finished epochs.                          *)
BroadcastStats ==
  /\ Meet("bcast")
  /\ rank' = [r \in Ranks(conf) |->
       IF ~Curriculum THEN [rank[r] EXCEPT !.pc = "failed"]
       ELSE LET me == Restored([rank[r] EXCEPT !.stats = rank[0].stats])
            IN  IF r = 0 THEN [me EXCEPT !.pc = "arm"] ELSE Enter(me)]
  /\ UNCHANGED <<job, conf, ckpt, statsFile, env, launches, faults>>

(* The evaluation is set up on rank 0.  A failure switches it off, unless  *)
(* captions are looked up: then it stops the rank.                         *)
ArmEval ==
  /\ rank[0].pc = "arm"
  /\ \/ rank' = [rank EXCEPT ![0] = Enter(rank[0])] /\ UNCHANGED faults
     \/ /\ conf.lookup /\ faults < MaxFaults
        /\ faults' = faults + 1
        /\ Goto(0, "failed")
  /\ UNCHANGED <<job, conf, ckpt, statsFile, env, launches>>

-----------------------------------------------------------------------------
(* The loop of an epoch.                                                   *)

Persistent == conf.workers /\ ~conf.random

(* Sampler and captions are given the epoch, gradients are cleared, and    *)
(* the workers are forked with what the parent holds now.                  *)
StartEpoch(r) ==
  /\ rank[r].pc = "epoch"
  /\ LET me == rank[r]
         e  == me.epoch + 1
     IN  rank' = [rank EXCEPT ![r] =
           [me EXCEPT !.pc = "train", !.it = 0, !.caption = e, !.grads = <<>>,
                      !.fork = IF Persistent /\ me.fork > 0 THEN me.fork ELSE e]]
  /\ UNCHANGED <<job, conf, ckpt, statsFile, env, launches, faults>>

Served(r) ==
  LET me == rank[r]
      seen == IF conf.workers THEN me.fork ELSE me.caption
  IN  Batch(Draws(conf, me.epoch + 1, r), me.it + 1,
            IF conf.random THEN seen ELSE Baked)

SyncMicro(it) == it % conf.accum = 0

(* A micro-batch: forward and backward; only the last of a cycle waits for *)
(* the other ranks.  A loss that is not finite ends the process.           *)
Micro(r) ==
  /\ rank[r].pc = "train" /\ rank[r].it < Batches(conf, r)
  /\ \/ /\ LET me == rank[r]
           IN  rank' = [rank EXCEPT ![r] =
                 [me EXCEPT !.pc = IF SyncMicro(me.it + 1) THEN "grad" ELSE "train",
                            !.it = me.it + 1, !.grads = Append(me.grads, Served(r))]]
        /\ UNCHANGED faults
     \/ /\ faults < MaxFaults
        /\ faults' = faults + 1
        /\ Goto(r, "failed")
  /\ UNCHANGED <<job, conf, ckpt, statsFile, env, launches>>

(* The accumulated gradients of all ranks make one update at the rate of   *)
(* n_iter, which counts the updates.  A bad norm is bad on every rank.     *)
Update(r) == [lr |-> Len(rank[r].net), stats |-> rank[r].stats,
              grads |-> [s \in Ranks(conf) |-> rank[s].grads]]

Step ==
  /\ Meet("grad")
  /\ \/ /\ rank' = [r \in Ranks(conf) |->
              [rank[r] EXCEPT !.pc = "train", !.grads = <<>>,
                              !.net = Append(rank[r].net, Update(r))]]
        /\ UNCHANGED faults
     \/ /\ faults < MaxFaults
        /\ faults' = faults + 1
        /\ rank' = [r \in Ranks(conf) |-> [rank[r] EXCEPT !.pc = "failed"]]
  /\ UNCHANGED <<job, conf, ckpt, statsFile, env, launches>>

DoVal(e) == e % SaveEvery = 0 \/ e = Epochs

EndLoader(r) ==
  /\ rank[r].pc = "train" /\ rank[r].it = Batches(conf, r)
  /\ LET me == rank[r]
     IN  rank' = [rank EXCEPT ![r] =
           [me EXCEPT !.epoch = me.epoch + 1,
                      !.pc = IF r # 0 THEN "barrier"
                             ELSE IF DoVal(me.epoch + 1) THEN "val" ELSE "gen"]]
  /\ UNCHANGED <<job, conf, ckpt, statsFile, env, launches, faults>>

(* Validation and the save, renamed into place.                            *)
Save ==
  /\ rank[0].pc = "val"
  /\ ckpt' = [epoch |-> rank[0].epoch - 1, net |-> rank[0].net,
              stats |-> rank[0].stats, conf |-> conf]
  /\ Goto(0, "gen")
  /\ UNCHANGED <<job, conf, statsFile, env, launches, faults>>

(* The generation evaluation fails in silence, but for a missing caption.  *)
GenEval ==
  /\ rank[0].pc = "gen"
  /\ \/ Goto(0, "barrier") /\ UNCHANGED faults
     \/ /\ conf.lookup /\ rank[0].epoch % EvalEvery = 0
        /\ faults < MaxFaults /\ faults' = faults + 1
        /\ Goto(0, "failed")
  /\ UNCHANGED <<job, conf, ckpt, statsFile, env, launches>>

Barrier ==
  /\ Meet("barrier")
  /\ rank' = [r \in Ranks(conf) |-> Enter(rank[r])]
  /\ UNCHANGED <<job, conf, ckpt, statsFile, env, launches, faults>>

-----------------------------------------------------------------------------
(* torchrun and the world outside.                                         *)

Finish ==
  /\ Meet("done")
  /\ job' = "finished"
  /\ UNCHANGED <<conf, rank, ckpt, statsFile, env, launches, faults>>

Down == job' = "off" /\ rank' = [r \in Ranks(conf) |-> Off]

AgentStops ==
  /\ job = "up" /\ \E r \in Ranks(conf) : rank[r].pc = "failed"
  /\ Down
  /\ UNCHANGED <<conf, ckpt, statsFile, env, launches, faults>>

(* The allocation ends: a write of the statistics file may be cut short.   *)
Kill ==
  /\ job = "up" /\ launches < MaxLaunches
  /\ Down
  /\ statsFile' \in {statsFile} \cup
       (IF rank[0].pc = "scan" THEN {[NoFile EXCEPT !.state = "torn"]} ELSE {})
  /\ UNCHANGED <<conf, ckpt, env, launches, faults>>

(* The operator exports the token cache again.                             *)
Export ==
  /\ cache <= MaxExports
  /\ cache' = cache + 1
  /\ overlap' = (overlap \/ (job = "up" /\ rank[0].pc \in {"stats", "scan"}))
  /\ UNCHANGED <<job, conf, rank, ckpt, statsFile, sidecar, launches, faults>>

RankStep(r) ==
  OpenTokens(r) \/ StartEpoch(r) \/ Micro(r) \/ EndLoader(r)

MainStep == LoadStats \/ StartScan \/ EndScan \/ ArmEval \/ Save \/ GenEval

Collective == BroadcastStats \/ Step \/ Barrier

Next ==
  \/ Launch \/ Kill \/ Export \/ Finish \/ AgentStops
  \/ MainStep \/ Collective
  \/ \E r \in Ranks(conf) : RankStep(r)

(* A process that can go on does, collectives everyone has joined return,  *)
(* and torchrun notices an exit.  Launches are not promised.               *)
AllRanks == UNION {Ranks(c) : c \in Configs}

Fairness ==
  /\ \A r \in AllRanks : WF_vars(r \in Ranks(conf) /\ RankStep(r))
  /\ WF_vars(MainStep)
  /\ WF_vars(Collective)
  /\ WF_vars(Finish)
  /\ WF_vars(AgentStops)

Spec == Init /\ [][Next]_vars /\ Fairness

-----------------------------------------------------------------------------
(* Properties.                                                             *)

Pcs == {"off", "open", "stats", "scan", "bcast", "arm", "epoch", "train", "grad",
        "val", "gen", "barrier", "done", "failed"}

\* The types: only rank 0 is ever in a step of rank 0.
TypeOK ==
  /\ job \in {"off", "up", "finished"} /\ conf \in Configs
  /\ DOMAIN rank = Ranks(conf)
  /\ \A r \in Ranks(conf) :
       /\ rank[r].pc \in IF r = 0 THEN Pcs
                         ELSE Pcs \ {"stats", "scan", "arm", "val", "gen"}
       /\ rank[r].epoch \in 0 .. Epochs
       /\ rank[r].it \in 0 .. Batches(conf, r)
       /\ Len(rank[r].grads) <= conf.accum
       /\ Len(rank[r].net) <= Epochs * StepsPerEpoch(conf)
  /\ statsFile.state \in {"none", "torn", "whole"}
  /\ cache \in 1 .. (MaxExports + 1) /\ sidecar \in Sidecars
  /\ launches \in 0 .. MaxLaunches /\ faults \in 0 .. MaxFaults

(* Update number n (from 0) of a run nothing ever interrupts: full cycles  *)
(* of micro-batches of one epoch, with that epoch's captions.              *)
Uninterrupted(c, n) ==
  LET e == n \div StepsPerEpoch(c) + 1
      k == n % StepsPerEpoch(c)
  IN  [lr |-> n,
       grads |-> [r \in Ranks(c) |-> [m \in 1 .. c.accum |->
          Batch(Draws(c, e, r), k * c.accum + m, IF c.random THEN e ELSE Baked)]]]

\* Killed and resumed however often, a run applies the updates of a run that
\* was never interrupted, in their order and each at its own learning rate, on
\* every rank (the resume block and the loop of main; the captions of
\* set_caption_epoch).
SameRun ==
  \A r \in Ranks(conf) : \A i \in 1 .. Len(rank[r].net) :
    rank[r].pc # "failed" =>
      LET u == rank[r].net[i]
      IN  [lr |-> u.lr, grads |-> u.grads] = Uninterrupted(conf, i - 1)

\* All updates of a run were computed with one normalisation, on all ranks and
\* over all its relaunches, whatever happens to the token cache meanwhile
\* (compute_empirical_stats, set_latent_stats and the strict load).
OneNormalisation ==
  \A r, s \in Ranks(conf) :
    \A i \in 1 .. Len(rank[r].net), j \in 1 .. Len(rank[s].net) :
      rank[r].net[i].stats = rank[s].net[j].stats

\* Statistics read or scanned belong to the export whose identity was taken
\* as the key, unless an export ran meanwhile (the disk cache of
\* compute_empirical_stats).
StatsFit ==
  (job = "up" /\ rank[0].pc \in {"scan", "bcast"} /\ ~overlap) =>
     rank[0].stats = rank[0].key

\* No update is ever made with captions rank 0 has not verified ("every rank
\* still trains only on a verified artifact").
VerifiedOnly ==
  (conf.random /\ sidecar # "pinned") => \A r \in Ranks(conf) : rank[r].net = <<>>

ClipsOf(u) == {<<r, m, i>> : r \in DOMAIN u.grads, m \in 1 .. conf.accum, i \in 1 .. BatchSize}

\* Before the curriculum starts no clip is used twice in one epoch, by any two
\* micro-batches of any ranks ("the no-duplicate invariant" of the sampler).
OncePerEpoch ==
  \A n \in 1 .. Len(rank[0].net) : \A p \in 1 .. n :
    LET e(k) == (k - 1) \div StepsPerEpoch(conf) + 1
        clip(k, t) == rank[0].net[k].grads[t[1]][t[2]].clips[t[3]]
    IN  (e(n) = e(p) /\ Factor(conf, e(n)) = 1) =>
          \A s \in ClipsOf(rank[0].net[n]), t \in ClipsOf(rank[0].net[p]) :
            clip(n, s) = clip(p, t) => n = p /\ s = t

\* What the updates are made of: one normalisation, of the export it is filed
\* under; captions that were verified; and no clip twice in an epoch.
UpdatesSound == TypeOK /\ OneNormalisation /\ StatsFit /\ VerifiedOnly /\ OncePerEpoch

\* A launch comes to an end: no rank waits for ever in a collective another one
\* never joins, and a failed rank takes the others with it.
Ends == (job = "up") ~> (job # "up")

=============================================================================
