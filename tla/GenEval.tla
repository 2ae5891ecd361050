------------------------------ MODULE GenEval ------------------------------
(***************************************************************************)
(* Generation measured by the evaluator (src/src/eval/codeflow_gen_eval.py *)
(* and src/scripts/_eval_codeflow_gen_in_evalspace.py): clips are chosen   *)
(* from the validation list, generated in padded batches, and their        *)
(* embeddings compared with those of the captions and of the real clips.   *)
(* The training loop calls it between two epochs.                          *)
(*                                                                         *)
(* A motion is the clip it is for, the frames that hold it and the frames  *)
(* marked valid.                                                           *)
(***************************************************************************)
EXTENDS Integers, Sequences, FiniteSets, SequencesExt, FiniteSetsExt

CONSTANTS
  Frames,     \* clip of the validation list 1 .. Len(Frames) -> its frames
  Captions,   \* its caption
  Kind,       \* its kind: "animal", "human" or "truebones"
  Stride,     \* temporal_stride of the tokenizer
  MaxLatent,  \* flow.max_T_lat
  GenBatch,   \* gen_batch
  Takes,      \* values of n_samples
  Pool        \* pool

(* What the constants have to satisfy; the module that gives them values *)
(* assumes it.                                                             *)
GenEvalAssumption ==
  /\ {Stride, MaxLatent, GenBatch, Pool} \subseteq Nat \ {0}
  /\ Takes \subseteq Nat
  /\ Frames \in Seq(Nat \ {0})
  /\ Len(Captions) = Len(Frames) /\ Len(Kind) = Len(Frames)

List == DOMAIN Frames

VARIABLES
  pc,        \* "choose", "arm", "batch", "report", "done", "refused" (before
             \* anything is seeded) or "raised"
  baseline,  \* gt_baseline: the real clips take the place of the generated
  sidecar,   \* keys.json of the caption cache: a clip for each row
  asked,     \* n_samples and whether half of them are animals
  idxs,      \* clips to measure
  at,        \* how many are embedded
  rng,       \* the state of the global generator: "caller" or "seeded"
  text,      \* rows of TE: captions
  read,      \* rows the captions were conditioned on: clips of the sidecar
  gen,       \* rows of GE
  real,      \* rows of GTE
  mids,      \* rows of motion_ids
  clamps,    \* rows of clamp_rows
  subsets    \* report: subset -> rows, and the pools of the whole

vars == <<pc, baseline, sidecar, asked, idxs, at, rng, text, read, gen, real, mids, clamps, subsets>>

embedded == <<text, read, gen, real, mids, clamps>>

(* The rows in which the cache was made: one for each clip of the list.    *)
Occurrences == [i \in List |-> i]

(* The caches a run may be given: of this corpus, of one that has grown at *)
(* the front, and one of a shorter corpus.                                 *)
Sidecars == {Occurrences, Tail(Occurrences) \o <<1>>, Tail(Occurrences)}

Init ==
  /\ pc = "choose"
  /\ baseline \in BOOLEAN /\ sidecar \in Sidecars
  /\ asked \in {[take |-> t, balanced |-> b] : t \in Takes, b \in BOOLEAN}
  /\ asked.balanced => asked.take >= 2
  /\ idxs = <<>> /\ at = 0 /\ rng = "caller"
  /\ text = <<>> /\ read = <<>> /\ gen = <<>> /\ real = <<>> /\ mids = <<>> /\ clamps = <<>>
  /\ subsets = [s \in {} |-> {}]

-----------------------------------------------------------------------------
(* The clips.                                                              *)

(* lst[:: max(1, len // k)][:k]                                            *)
Spread(s, k) ==
  LET by == Max({1, Len(s) \div k})
      every == [i \in 1 .. ((Len(s) + by - 1) \div by) |-> s[1 + (i - 1) * by]]
  IN  SubSeq(every, 1, Min({k, Len(every)}))

(* All of a list when as many or more are asked for.                       *)
AtMost(s, k) == IF k >= Len(s) THEN s ELSE Spread(s, k)

OfKind(kind) == SelectSeq(Occurrences, LAMBDA i : Kind[i] = kind)

(* The whole list, a part of it, or as many animals as humans.             *)
Choose ==
  /\ pc = "choose"
  /\ idxs' = IF asked.balanced
             THEN AtMost(OfKind("animal"), asked.take \div 2)
                    \o AtMost(OfKind("human"), asked.take \div 2)
             ELSE AtMost(Occurrences, IF asked.take = 0 THEN Len(Frames) ELSE asked.take)
  /\ pc' = "arm"
  /\ UNCHANGED <<baseline, sidecar, asked, at, rng, embedded, subsets>>

(* The cache has a row for every occurrence, and the first, the middle and *)
(* the last row have the key they should.                                  *)
Accepted ==
  /\ Len(sidecar) = Len(Occurrences)
  /\ \A i \in {1, Len(Occurrences) \div 2 + 1, Len(Occurrences)} : sidecar[i] = Occurrences[i]

(* make_caption_lookup_encoder, then the seeds.                            *)
Arm ==
  /\ pc = "arm"
  /\ IF Accepted THEN pc' = "batch" /\ rng' = "seeded"
                 ELSE pc' = "refused" /\ rng' = rng
  /\ UNCHANGED <<baseline, sidecar, asked, idxs, at, embedded, subsets>>

-----------------------------------------------------------------------------
(* A batch.                                                                *)

Chosen == SubSeq(idxs, at + 1, Min({at + GenBatch, Len(idxs)}))

(* row_of: the first row with the caption.                                 *)
RowOf(c) == Min({i \in List : Captions[i] = Captions[c]})

(* Latent frames for n frames.                                             *)
Latent(n) == Max({1, (n + Stride - 1) \div Stride})

(* T_lat of the batch.                                                     *)
BatchLatent == Min({MaxLatent, Latent(Max({Frames[c] : c \in ToSet(Chosen)}))})
(* Latent frames marked valid for a clip.                                  *)
ClipLatent(c) == Min({BatchLatent, Latent(Frames[c])})

\* Mutant: the mask of the real clip is kept.
Whole_Generated(c) ==
  LET placed == Min({BatchLatent * Stride, Frames[c]})
  IN  [clip |-> c, filled |-> 1 .. placed, valid |-> 1 .. Frames[c]]

(* The decoder returns frames for every latent frame of the batch; what    *)
(* fits the clip is placed, and a clip that is too long for the flow is    *)
(* marked valid up to there only.                                          *)
Generated(c) ==
  LET placed == Min({BatchLatent * Stride, Frames[c]})
  IN  [clip |-> c, filled |-> 1 .. placed, valid |-> 1 .. placed]

Real == [c \in List |-> [clip |-> c, filled |-> 1 .. Frames[c], valid |-> 1 .. Frames[c]]]

Rows(f) == [i \in DOMAIN Chosen |-> f[Chosen[i]]]

(* Sampling can fail, on a device or in the dataset.                       *)
Fail ==
  /\ pc \in {"batch", "report"}
  /\ pc' = "raised" /\ rng' = "caller"
  /\ UNCHANGED <<baseline, sidecar, asked, idxs, at, embedded, subsets>>

(* gt_baseline: the same rows without sampling.                            *)
Baseline ==
  /\ pc = "batch" /\ baseline /\ at < Len(idxs)
  /\ gen' = gen \o Rows(Real) /\ real' = real \o Rows(Real)
  /\ text' = text \o Chosen /\ mids' = mids \o Chosen
  /\ clamps' = clamps \o Rows([c \in List |-> <<Frames[c], Frames[c]>>])
  /\ at' = at + Len(Chosen)
  /\ UNCHANGED <<pc, baseline, sidecar, asked, idxs, rng, read, subsets>>

(* Captions looked up, latents sampled, decoded, placed and embedded.      *)
Sample ==
  /\ pc = "batch" /\ ~baseline /\ at < Len(idxs)
  /\ read' = read \o Rows([c \in List |-> sidecar[RowOf(c)]])
  /\ gen' = gen \o Rows([c \in List |-> Generated(c)]) /\ real' = real \o Rows(Real)
  /\ text' = text \o Chosen /\ mids' = mids \o Chosen
  /\ clamps' = clamps \o Rows([c \in List |-> <<Frames[c], Cardinality(Generated(c).filled)>>])
  /\ at' = at + Len(Chosen)
  /\ UNCHANGED <<pc, baseline, sidecar, asked, idxs, rng, subsets>>

Embedded ==
  /\ pc = "batch" /\ at = Len(idxs)
  /\ pc' = "report"
  /\ UNCHANGED <<baseline, sidecar, asked, idxs, at, rng, embedded, subsets>>

(* shuffle_pool_rprec: whole pools of a permutation of n rows; fewer rows  *)
(* than a pool give no result.                                             *)
Pools(n) == n \div Pool

(* The part of a report on one kind.                                       *)
Subset(s) == LET own == {i \in DOMAIN mids : Kind[mids[i]] = s}
             IN  [rows |-> own, pools |-> Pools(Cardinality(own))]

(* The whole and each kind that occurs; the finally block gives the        *)
(* generator back.                                                         *)
Report ==
  /\ pc = "report"
  /\ subsets' = [s \in {Kind[c] : c \in ToSet(mids)} |-> Subset(s)]
  /\ pc' = "done" /\ rng' = "caller"
  /\ UNCHANGED <<baseline, sidecar, asked, idxs, at, embedded>>

Next == Choose \/ Arm \/ Fail \/ Baseline \/ Sample \/ Embedded \/ Report

Spec == Init /\ [][Next]_vars

-----------------------------------------------------------------------------

Motion == [clip : List, filled : SUBSET (1 .. Max(ToSet(Frames))),
           valid : SUBSET (1 .. Max(ToSet(Frames)))]

(* Every variable keeps its type.                                          *)
TypeOK ==
  /\ pc \in {"choose", "arm", "batch", "report", "done", "refused", "raised"}
  /\ idxs \in Seq(List) /\ at \in 0 .. Len(idxs)
  /\ rng \in {"caller", "seeded"}
  /\ \A s \in {text, read, mids} : s \in Seq(List)
  /\ \A s \in {gen, real} : s \in Seq(Motion)

(* The clips chosen are distinct, and as many as were asked for unless     *)
(* there are fewer.                                                        *)
ChosenExact ==
  pc = "arm" =>
    /\ Cardinality(ToSet(idxs)) = Len(idxs)
    /\ LET of(kind) == Min({asked.take \div 2, Len(OfKind(kind))})
       IN  Len(idxs) = IF asked.balanced THEN of("animal") + of("human")
                       ELSE IF asked.take = 0 THEN Len(Frames)
                       ELSE Min({asked.take, Len(Frames)})

(* Row i of every table of the report is the same clip: the metrics pair   *)
(* rows by their place.                                                    *)
RowsAligned ==
  LET n == Len(text)
  IN  /\ n = at
      /\ Len(gen) = n /\ Len(real) = n /\ Len(mids) = n /\ Len(clamps) = n
      /\ \A i \in 1 .. n : /\ gen[i].clip = text[i] /\ real[i].clip = text[i]
                           /\ mids[i] = text[i] /\ text[i] = idxs[i]
                           /\ clamps[i] = <<Frames[text[i]], Cardinality(gen[i].filled)>>

(* What is scored as a motion was generated, from latent frames that the   *)
(* flow was told are this clip's: no zero tail and no padding is scored,   *)
(* and nothing generated for the clip is left out.                         *)
ScoredIsGenerated ==
  \A i \in DOMAIN gen :
    /\ gen[i].valid = gen[i].filled
    /\ baseline \/ gen[i].valid =
         1 .. Min({Frames[gen[i].clip], MaxLatent * Stride,
                   Min({MaxLatent, (Frames[gen[i].clip] + Stride - 1) \div Stride}) * Stride})

(* A latent frame that a scored frame is decoded from is in the mask.      *)
MaskCoversScored ==
  (pc = "batch" /\ ~baseline /\ at < Len(idxs)) =>
    \A c \in ToSet(Chosen) :
      Cardinality(Generated(c).filled) <= ClipLatent(c) * Stride

(* A caption is conditioned on a row made from the same caption.           *)
LookupRight ==
  \A i \in DOMAIN read : Captions[read[i]] = Captions[text[i]]

(* However the evaluation ends, the trainer goes on with the generator it  *)
(* had.                                                                    *)
GeneratorKept == pc \in {"done", "refused", "raised"} => rng = "caller"

=============================================================================
