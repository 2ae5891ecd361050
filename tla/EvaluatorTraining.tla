------------------------- MODULE EvaluatorTraining -------------------------
(***************************************************************************)
(* The text-motion evaluator: its trainer                                  *)
(* (src/scripts/train_anytop_t2m_evaluator.py) and the contrastive loss    *)
(* (src/src/models/graph_salad/t2m_evaluator.py).                          *)
(*                                                                         *)
(* The ranks gather their embeddings and, in a call of its own, what the   *)
(* clips are, so that the loss sees one batch over all ranks.  Rank 0      *)
(* measures on the validation list and saves; the launcher may kill the    *)
(* job, and start it again in the same directory.                          *)
(***************************************************************************)
EXTENDS Integers, Sequences, FiniteSets, SequencesExt, FiniteSetsExt

CONSTANTS
  World,      \* number of ranks
  Batch,      \* args.batch_size, per rank
  Epochs,     \* args.epochs
  SaveEvery,  \* args.save_every, 0 for never
  ValEvery,   \* args.val_every, 0 for never
  MaxSteps,   \* args.max_steps, 0 for no limit
  Scores,     \* values of R@1 on the validation list
  Lists,      \* training lists: sequences of records [motion, source, caption]
  Orders,     \* epoch -> permutations the sampler may make
  MaxRuns     \* bound: launches in one directory

(* What the constants have to satisfy; the module that gives them values *)
(* assumes it.                                                             *)
EvaluatorAssumption ==
  /\ {World, Batch, Epochs, MaxRuns} \subseteq Nat \ {0}
  /\ {SaveEvery, ValEvery, MaxSteps} \subseteq Nat
  /\ Scores \subseteq Nat

Ranks == 0 .. (World - 1)
Main  == 0

VARIABLES
  clips,    \* the training list
  valList,  \* what the validation list is: "none", "good", "held" (the guard
            \* refuses it) or "small" (less than one batch)
  pc,       \* rank -> what it does next
  epoch,    \* epoch of the loop
  step,     \* rank -> batches of this epoch
  total,    \* rank -> global_step
  batch,    \* rank -> clips of its batch
  texts,    \* gathered text embeddings: the clip of each row
  motions,  \* gathered motion embeddings: the clip of each row
  metas,    \* gathered metadata: the clip of each row
  best,     \* best_val_r1, -1 at the start
  valLog,   \* val.log: <<run, epoch, score>>
  bestFile, \* best_model.pt: the same, or NoFile
  saved,    \* evaluator_ep*.pt: <<run, epoch>> of the last writer
  run       \* launches so far

vars == <<clips, valList, pc, epoch, step, total, batch, texts, motions, metas,
          best, valLog, bestFile, saved, run>>

rows  == <<texts, motions, metas>>
files == <<best, valLog, bestFile, saved>>
given == <<clips, valList, run>>

NoFile      == <<0, -1, -1>>
Collectives == {"wrap", "text", "motion", "meta", "grad", "validated", "finish"}
Stopped     == {"done", "dead", "killed"}

Init ==
  /\ clips \in Lists /\ valList \in {"none", "good", "held", "small"}
  /\ pc = [r \in Ranks |-> "build"]
  /\ epoch = 0
  /\ step = [r \in Ranks |-> 0] /\ total = [r \in Ranks |-> 0]
  /\ batch = [r \in Ranks |-> <<>>]
  /\ texts = <<>> /\ motions = <<>> /\ metas = <<>>
  /\ best = -1 /\ valLog = <<>> /\ bestFile = NoFile /\ saved = {}
  /\ run = 1

Goto(r, where) == pc' = [pc EXCEPT ![r] = where]

Meet(name, next) ==
  /\ \A r \in Ranks : pc[r] = name
  /\ pc' = [r \in Ranks |-> next]

(* torch.cat over the ranks, in the order of the ranks.                    *)
Gathered == FlattenSeq([i \in 1 .. World |-> batch[i - 1]])

-----------------------------------------------------------------------------

(* Rank 0 alone opens the validation list, and its guard raises there.     *)
Build(r) ==
  /\ pc[r] = "build"
  /\ Goto(r, IF r = Main /\ valList = "held" THEN "dead" ELSE "wrap")
  /\ UNCHANGED <<given, epoch, step, total, batch, rows, files>>

Wrap == Meet("wrap", "load") /\ UNCHANGED <<given, epoch, step, total, batch, rows, files>>

(* DistributedSampler and DataLoader, both with drop_last.                 *)
Share == Len(clips) \div World
Steps == Share \div Batch

(* indices[rank : total : world] of the epoch's permutation.               *)
BatchOf(r) ==
  LET perm == Orders[Len(clips)][epoch]
  IN  [i \in 1 .. Batch |-> clips[perm[1 + r + (step[r] * Batch + i - 1) * World]]]

Load(r) ==
  /\ pc[r] = "load"
  /\ step[r] < Steps
  /\ batch' = [batch EXCEPT ![r] = BatchOf(r)]
  /\ Goto(r, "text")
  /\ UNCHANGED <<given, epoch, step, total, rows, files>>

(* run_step: three gathers, one after the other.                           *)
GatherText ==
  /\ Meet("text", "motion")
  /\ texts' = Gathered
  /\ UNCHANGED <<given, epoch, step, total, batch, motions, metas, files>>

GatherMotion ==
  /\ Meet("motion", "meta")
  /\ motions' = Gathered
  /\ UNCHANGED <<given, epoch, step, total, batch, texts, metas, files>>

(* _gather_meta: the lists of the ranks one after the other.               *)
GatherMeta ==
  /\ Meet("meta", "grad")
  /\ metas' = Gathered
  /\ UNCHANGED <<given, epoch, step, total, batch, texts, motions, files>>

(* build_false_negative_mask: off the diagonal, any of the three keys.     *)
SharedKey(i, j) ==
  /\ i # j
  /\ \/ metas[i].motion = metas[j].motion
     \/ metas[i].source = metas[j].source
     \/ metas[i].caption = metas[j].caption

(* symmetric_infonce: the pairs of rows that are pushed apart; the diagonal *)
(* is never masked.                                                        *)
Negatives ==
  {p \in (DOMAIN metas) \X (DOMAIN metas) : p[1] # p[2] /\ ~SharedKey(p[1], p[2])}

(* backward and the optimizer step; at max_steps the loop is left.         *)
Update ==
  /\ Meet("grad", IF MaxSteps > 0 /\ total[Main] + 1 >= MaxSteps THEN "stop" ELSE "load")
  /\ step' = [r \in Ranks |-> step[r] + 1]
  /\ total' = [r \in Ranks |-> total[r] + 1]
  /\ texts' = <<>> /\ motions' = <<>> /\ metas' = <<>>
  /\ UNCHANGED <<given, epoch, batch, files>>

EpochOver(r) == pc[r] = "stop" \/ (pc[r] = "load" /\ step[r] = Steps)

Due(every) == every > 0 /\ (epoch + 1) % every = 0
RunVal     == valList # "none" /\ Due(ValEvery)

(* What follows an epoch on every rank: the barrier only when there was a  *)
(* validation, and the end when the steps are used up.                     *)
Stops      == (MaxSteps > 0 /\ total[Main] >= MaxSteps) \/ epoch + 1 = Epochs

\* Mutant: the barrier is rank 0's, who has the validation list.
Lone_After(r) == IF RunVal /\ r = Main THEN "validated" ELSE "next"

After(r) == IF RunVal THEN "validated" ELSE "next"

(* evaluator_epN.pt, written beside and put in place; the line of the log  *)
(* asks for the last loss, which an epoch without a batch does not have.   *)
SaveEpoch ==
  /\ EpochOver(Main)
  /\ saved' = IF Due(SaveEvery)
              THEN {s \in saved : s[2] # epoch} \cup {<<run, epoch>>} ELSE saved
  /\ Goto(Main, IF Due(SaveEvery) /\ total[Main] = 0 THEN "dead" ELSE "validate")
  /\ UNCHANGED <<given, epoch, step, total, batch, rows, best, valLog, bestFile>>

(* val_eval on rank 0; a list smaller than a batch gives no result.        *)
Validate ==
  /\ pc[Main] = "validate"
  /\ IF RunVal /\ valList = "good"
     THEN /\ \E score \in Scores : valLog' = Append(valLog, <<run, epoch, score>>)
          /\ Goto(Main, "best")
     ELSE UNCHANGED valLog /\ Goto(Main, After(Main))
  /\ UNCHANGED <<given, epoch, step, total, batch, rows, best, bestFile, saved>>

(* best_model.pt, the same way, when R@1 has grown.                        *)
SaveBest ==
  /\ pc[Main] = "best"
  /\ IF Last(valLog)[3] > best
     THEN best' = Last(valLog)[3] /\ bestFile' = Last(valLog)
     ELSE UNCHANGED <<best, bestFile>>
  /\ Goto(Main, After(Main))
  /\ UNCHANGED <<given, epoch, step, total, batch, rows, valLog, saved>>

(* The other ranks.                                                        *)
Pass(r) ==
  /\ r # Main
  /\ EpochOver(r)
  /\ Goto(r, After(r))
  /\ UNCHANGED <<given, epoch, step, total, batch, rows, files>>

Validated == Meet("validated", "next") /\ UNCHANGED <<given, epoch, step, total, batch, rows, files>>

(* The next epoch.  Without a barrier a rank may go on before the others;  *)
(* it cannot finish a batch before they follow, so that the epoch of the   *)
(* ranks is advanced together.                                             *)
NextEpoch ==
  /\ \A r \in Ranks : pc[r] = "next"
  /\ pc' = [r \in Ranks |-> IF Stops THEN "finish" ELSE "load"]
  /\ epoch' = IF Stops THEN epoch ELSE epoch + 1
  /\ step' = IF Stops THEN step ELSE [r \in Ranks |-> 0]
  /\ UNCHANGED <<given, total, batch, rows, files>>

Finish == Meet("finish", "done") /\ UNCHANGED <<given, epoch, step, total, batch, rows, files>>

(* The job is killed: the files stay.                                      *)
Kill ==
  /\ run < MaxRuns
  /\ \E r \in Ranks : pc[r] \notin Stopped
  /\ pc' = [r \in Ranks |-> "killed"]
  /\ UNCHANGED <<given, epoch, step, total, batch, rows, files>>

(* A new job in the same directory starts from nothing; nothing is read    *)
(* back, the logs are appended to.                                         *)
Relaunch ==
  /\ run < MaxRuns
  /\ \A r \in Ranks : pc[r] \in {"killed", "done"}
  /\ pc' = [r \in Ranks |-> "build"]
  /\ epoch' = 0 /\ step' = [r \in Ranks |-> 0] /\ total' = [r \in Ranks |-> 0]
  /\ batch' = [r \in Ranks |-> <<>>] /\ texts' = <<>> /\ motions' = <<>> /\ metas' = <<>>
  /\ best' = -1
  /\ run' = run + 1
  /\ UNCHANGED <<clips, valList, valLog, bestFile, saved>>

Work ==
  \/ Wrap \/ GatherText \/ GatherMotion \/ GatherMeta \/ Update
  \/ SaveEpoch \/ Validate \/ SaveBest \/ Validated \/ NextEpoch \/ Finish
  \/ \E r \in Ranks : Build(r) \/ Load(r) \/ Pass(r)

Next == Work \/ Kill \/ Relaunch

Spec == Init /\ [][Next]_vars /\ WF_vars(Work)

-----------------------------------------------------------------------------

Row == (1 .. MaxRuns) \X (0 .. (Epochs - 1)) \X Scores

(* Every variable keeps its type.                                          *)
TypeOK ==
  /\ pc \in [Ranks -> Collectives \cup Stopped \cup
                      {"build", "load", "stop", "validate", "best", "next"}]
  /\ epoch \in 0 .. (Epochs - 1)
  /\ step \in [Ranks -> 0 .. Steps] /\ total \in [Ranks -> 0 .. (Epochs * Steps)]
  /\ \A s \in {texts, motions, metas} : s \in Seq(ToSet(clips))
  /\ best \in Scores \cup {-1} /\ valLog \in Seq(Row) /\ bestFile \in Row \cup {NoFile}
  /\ run \in 1 .. MaxRuns

(* Two ranks never wait in different collectives.                          *)
CollectivesMatch ==
  (\A r \in Ranks : pc[r] \in Collectives) => \A q, r \in Ranks : pc[q] = pc[r]

(* In the loss, row i of the texts, of the motions and of the metadata are *)
(* the same clip, and exactly those texts and motions are pushed apart     *)
(* that have no motion, source or caption in common, over all ranks.       *)
NegativesExact ==
  (\A r \in Ranks : pc[r] = "grad")
    => /\ texts = motions
       /\ Negatives = {p \in (DOMAIN texts) \X (DOMAIN motions) :
            LET t == texts[p[1]]  m == motions[p[2]]
            IN  t.motion # m.motion /\ t.source # m.source /\ t.caption # m.caption}

(* best_model.pt is the first of the highest scores of the launch that     *)
(* wrote it, up to the last line of the log, which is written before it;   *)
(* it is of this launch as soon as this launch has measured twice.         *)
BestFollowsLog ==
  LET of(k)  == SelectSeq(valLog, LAMBDA v : v[1] = k)
      until(s) == IF s # <<>> /\ pc[Main] \in {"best", "killed", "build"} THEN Front(s) ELSE s
      top(s) == CHOOSE i \in DOMAIN s : /\ \A j \in DOMAIN s : s[j][3] <= s[i][3]
                                        /\ \A j \in 1 .. (i - 1) : s[j][3] < s[i][3]
  IN  /\ bestFile # NoFile =>
           LET s == of(bestFile[1])
           IN  bestFile \in {s[top(s)]} \cup (IF Front(s) = <<>> THEN {} ELSE {s[top(Front(s))]})
      /\ until(of(run)) # <<>> => bestFile[1] = run

(* The rows of a global batch are as many clips of the list: no clip twice,*)
(* whichever ranks drew it.                                                *)
BatchesDisjoint ==
  \A i, j \in DOMAIN texts : i # j => texts[i] # texts[j]

(* A job ends on every rank, or is killed, when rank 0 can open the        *)
(* validation list and the training list fills a batch: <>Ends.            *)
Ends == (valList # "held" /\ Steps > 0) => \A r \in Ranks : pc[r] \in Stopped

=============================================================================
