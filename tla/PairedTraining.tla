--------------------------- MODULE PairedTraining ---------------------------
(***************************************************************************)
(* The baseline trainer (src/scripts/train.py, src/src/utils.py): every    *)
(* rank reads the same two lists of clips, rank 0 alone looks at the rest  *)
(* of the inputs and tells the others, and the epochs run in lock step.    *)
(*                                                                         *)
(* A collective is a pc in which a rank waits; it completes when every     *)
(* rank is in it.  A rank that raises something leaves alone, and the      *)
(* others wait for it until the launcher's agent ends them.  The baseline  *)
(* cannot be resumed: a run is one behaviour.                              *)
(***************************************************************************)
EXTENDS Integers, Sequences, FiniteSets, SequencesExt, FiniteSetsExt

CONSTANTS
  World,      \* number of ranks; a single process loops without a sampler
  Batch,      \* batch_size of a rank
  Epochs,     \* args.epochs
  SaveEvery,  \* args.save_every
  Losses,     \* values of the diagnostic loss; above them 1e9, and NaN
  Inputs,     \* the files of a run, see Prepare, Initialise and Preflight
  Orders      \* functions: seed -> permutation of 1 .. Len(tgt)

(* What the constants have to satisfy; the module that gives them values *)
(* assumes it.                                                             *)
PairedAssumption ==
  /\ {World, Batch, Epochs, SaveEvery} \subseteq Nat \ {0}
  /\ World > 1
  /\ Losses \subseteq Nat

Ranks == 0 .. (World - 1)
Main  == 0

VARIABLES
  input,    \* the files
  order,    \* what a generator makes of each seed
  pc,       \* rank -> what it does next
  fine,     \* rank -> _preflight_ok
  epoch,    \* rank -> ep
  step,     \* rank -> steps taken in this epoch
  drawn,    \* clips of this epoch in the order they were loaded: <<rank, clip>>
  weights,  \* part of the model -> optimizer updates
  updates,  \* optimizer steps
  best,     \* lowest diagnostic loss
  logs,     \* diagnostic loss of each epoch
  bestFile, \* best_model.pt: epoch and loss
  lastFile  \* last_model.pt: the same

vars == <<input, order, pc, fine, epoch, step, drawn, weights, updates,
          best, logs, bestFile, lastFile>>

Infinite == Max(Losses) + 1
NoFile   == [epoch |-> -1, loss |-> Infinite]

(* The parts of the parameters: the decoder is also the base of the head.  *)
Parts == {"name_embedding", "encoder", "decoder", "head"}

Collectives == {"start", "agree", "ready", "wrap", "grad", "end_epoch", "cleanup"}

(* The exits that one rank takes alone: rank 0 does not know a key of the  *)
(* checkpoint, an offline target does not fit, a loss is not finite.       *)
LoneExits == {"schema", "misfit", "diverged"}
Stopped   == {"done", "aborted"} \cup LoneExits

Init ==
  /\ input \in Inputs
  /\ order \in Orders[Len(input.tgt)]
  /\ pc = [r \in Ranks |-> "start"]
  /\ fine = [r \in Ranks |-> TRUE]
  /\ epoch = [r \in Ranks |-> 0] /\ step = [r \in Ranks |-> 0]
  /\ drawn = <<>>
  /\ weights = [p \in Parts |-> 0] /\ updates = 0
  /\ best = Infinite /\ logs = <<>> /\ bestFile = NoFile /\ lastFile = NoFile

files == <<best, logs, bestFile, lastFile>>
learned == <<weights, updates>>

Goto(r, where) == pc' = [pc EXCEPT ![r] = where]

(* A collective: every rank is in it, and leaves it.                       *)
Meet(name, next) ==
  /\ \A r \in Ranks : pc[r] = name
  /\ pc' = [r \in Ranks |-> next]

-----------------------------------------------------------------------------
(* The inputs.                                                             *)

(* The two data sets list the same clips in the same order.                *)
Aligned == input.src = input.tgt

(* _ik_filter: the clips with an offline target, by their target name, so  *)
(* that both lists keep the same places.                                   *)
Kept == SelectSeq(input.tgt, LAMBDA c : c \in input.retained)

(* A retained clip must have its file and fit the window.                  *)
Admissible == ToSet(Kept) \subseteq (input.ik \ input.long)

(* init_process_group, mkdir by rank 0, a barrier.                         *)
Started == Meet("start", "prepare") /\ UNCHANGED <<input, order, fine, epoch, step, drawn, learned, files>>

Prepare(r) ==
  /\ pc[r] = "prepare"
  /\ Goto(r, IF Aligned /\ Admissible THEN "init" ELSE "aborted")
  /\ UNCHANGED <<input, order, fine, epoch, step, drawn, learned, files>>

(* Every rank loads the initial checkpoint, strict=False; rank 0 alone     *)
(* looks at the keys the model does not have, and raises before the        *)
(* preflight and its flag.                                                 *)
Initialise(r) ==
  /\ pc[r] = "init"
  /\ Goto(r, IF r = Main /\ ~ input.keys THEN "schema" ELSE "preflight")
  /\ UNCHANGED <<input, order, fine, epoch, step, drawn, learned, files>>

(* write_preflight_manifest: the splits are files, not a ratio.            *)
ManifestOk == input.splits

(* assert_name_policy: the first clip of either list carries name hashes.  *)
NamesOk == Kept # <<>> /\ input.names

(* Rank 0 checks; what it raises becomes a flag.                           *)
Preflight(r) ==
  /\ pc[r] = "preflight"
  /\ fine' = [fine EXCEPT ![r] = r = Main => ManifestOk /\ NamesOk]
  /\ Goto(r, "agree")
  /\ UNCHANGED <<input, order, epoch, step, drawn, learned, files>>

(* _ddp_abort_if_any_rank_failed: the sum of the flags.                    *)
Agree ==
  /\ Meet("agree", IF \A r \in Ranks : fine[r] THEN "ready" ELSE "aborted")
  /\ UNCHANGED <<input, order, fine, epoch, step, drawn, learned, files>>

Ready == Meet("ready", "topology") /\ UNCHANGED <<input, order, fine, epoch, step, drawn, learned, files>>

(* Source and target of every batch have the same joints, bit for bit.     *)
SameTopology(r) ==
  /\ pc[r] = "topology"
  /\ Goto(r, IF ToSet(Kept) \cap input.unlike = {} THEN "wrap" ELSE "aborted")
  /\ UNCHANGED <<input, order, fine, epoch, step, drawn, learned, files>>

(* DDP broadcasts the parameters of rank 0; a barrier.                     *)
Wrap == Meet("wrap", "sampler") /\ UNCHANGED <<input, order, fine, epoch, step, drawn, learned, files>>

-----------------------------------------------------------------------------
(* The epochs.                                                             *)

(* drop_last: what does not fill a batch on every rank is left out.        *)
GlobalSteps == Len(Kept) \div (Batch * World)

(* Too few clips for a step: every rank finds so for itself.               *)
Sampler(r) ==
  /\ pc[r] = "sampler"
  /\ Goto(r, IF GlobalSteps < 1 THEN "aborted" ELSE "epoch")
  /\ UNCHANGED <<input, order, fine, epoch, step, drawn, learned, files>>

\* Mutant: the generator is seeded per rank.
PerRank_Seed(r) == epoch[r] + r

(* default_rng(seed + ep), the same on every rank.                         *)
Seed(r) == epoch[r]

(* Places 1 .. Len(Kept) in the order of this epoch; reshaped to           *)
(* [steps, ranks, batch], a rank's batch of a step is a run of places.     *)
BatchOf(r) ==
  LET shuffled == SelectSeq(order[Seed(r)], LAMBDA i : i <= Len(Kept))
      first    == (step[r] * World + r) * Batch
  IN  [i \in 1 .. Batch |-> Kept[shuffled[first + i]]]

(* load_ik_batch: each offline target has the frames and joints of its     *)
(* clip.                                                                   *)
Fits(taken) == ToSet(taken) \cap input.misfit = {}

(* The next batch of a rank, up to its loss.  A target that does not fit   *)
(* and a loss that is not finite raise on this rank only, before backward. *)
Load(r) ==
  /\ pc[r] = "epoch"
  /\ step[r] < GlobalSteps
  /\ LET batch == BatchOf(r)
     IN  IF Fits(batch)
         THEN /\ Goto(r, "grad") \/ Goto(r, "diverged")
              /\ drawn' = drawn \o [i \in 1 .. Batch |-> <<r, batch[i]>>]
         ELSE Goto(r, "misfit") /\ UNCHANGED drawn
  /\ UNCHANGED <<input, order, fine, epoch, step, learned, files>>

(* new_parameters(): without the base, which the model lists already.      *)
Extra == <<"head">>

(* What the optimizer is given: every parameter that is not frozen, and    *)
(* those of the head.                                                      *)
Optimised == <<"encoder", "decoder">> \o Extra

(* backward averages the gradients over the ranks; one optimizer step.     *)
Update ==
  /\ Meet("grad", "epoch")
  /\ step' = [r \in Ranks |-> step[r] + 1]
  /\ weights' = [p \in Parts |-> weights[p] + Len(SelectSeq(Optimised, LAMBDA q : q = p))]
  /\ updates' = updates + 1
  /\ UNCHANGED <<input, order, fine, epoch, drawn, files>>

EpochOver(r) == pc[r] = "epoch" /\ step[r] = GlobalSteps

(* Rank 0 measures the unwrapped model on a tenth of the training clips    *)
(* and saves; the others go to the barrier.                                *)
Diagnose ==
  /\ EpochOver(Main)
  /\ \E loss \in Losses \cup {Infinite} :
       LET file == [epoch |-> epoch[Main], loss |-> loss]
       IN  /\ logs' = Append(logs, loss)
           /\ best' = IF loss < best THEN loss ELSE best
           /\ bestFile' = IF loss < best THEN file ELSE bestFile
           /\ lastFile' = IF epoch[Main] % SaveEvery = 0 \/ epoch[Main] = Epochs - 1
                          THEN file ELSE lastFile
  /\ Goto(Main, "end_epoch")
  /\ UNCHANGED <<input, order, fine, epoch, step, drawn, learned>>

Skip(r) ==
  /\ r # Main
  /\ EpochOver(r)
  /\ Goto(r, "end_epoch")
  /\ UNCHANGED <<input, order, fine, epoch, step, drawn, learned, files>>

(* The barrier at the end of an epoch; at the end of the last one only     *)
(* the cleanup is left.                                                    *)
EndEpoch ==
  /\ LET more == epoch[Main] + 1 < Epochs
     IN  /\ Meet("end_epoch", IF more THEN "epoch" ELSE "cleanup")
         /\ epoch' = IF more THEN [r \in Ranks |-> epoch[r] + 1] ELSE epoch
         /\ step' = IF more THEN [r \in Ranks |-> 0] ELSE step
         /\ drawn' = IF more THEN <<>> ELSE drawn
  /\ UNCHANGED <<input, order, fine, learned, files>>

Cleanup == Meet("cleanup", "done") /\ UNCHANGED <<input, order, fine, epoch, step, drawn, learned, files>>

Next ==
  \/ Started \/ Agree \/ Ready \/ Wrap \/ Update \/ Diagnose \/ EndEpoch \/ Cleanup
  \/ \E r \in Ranks : \/ Prepare(r) \/ Initialise(r) \/ Preflight(r) \/ SameTopology(r)
                     \/ Sampler(r) \/ Load(r) \/ Skip(r)

Spec == Init /\ [][Next]_vars /\ WF_vars(Next)

-----------------------------------------------------------------------------

File == [epoch : -1 .. (Epochs - 1), loss : Losses \cup {Infinite}]

(* Every variable keeps its type.                                          *)
TypeOK ==
  /\ pc \in [Ranks -> Collectives \cup Stopped \cup {"prepare", "init", "preflight", "topology",
                                            "sampler", "epoch"}]
  /\ fine \in [Ranks -> BOOLEAN]
  /\ epoch \in [Ranks -> 0 .. (Epochs - 1)] /\ step \in [Ranks -> 0 .. GlobalSteps]
  /\ drawn \in Seq(Ranks \X ToSet(input.tgt))
  /\ weights \in [Parts -> Nat] /\ updates \in Nat
  /\ best \in Losses \cup {Infinite} /\ logs \in Seq(Losses \cup {Infinite})
  /\ bestFile \in File /\ lastFile \in File

Waiting == {r \in Ranks : pc[r] \in Collectives}

(* Two ranks never wait in different collectives: rank 0 alone checks,     *)
(* measures and saves, and none of that is a call the others must join.    *)
CollectivesMatch ==
  (\A r \in Ranks : pc[r] \in Collectives) => \A q, r \in Ranks : pc[q] = pc[r]

(* A refusal of the data, of the preflight or of too short a list is       *)
(* everybody's: once a rank has aborted none ever trains, although only    *)
(* rank 0 looked.                                                          *)
AbortTogether ==
  (\E r \in Ranks : pc[r] = "aborted")
    => /\ updates = 0 /\ logs = <<>> /\ drawn = <<>>
       /\ \A r \in Ranks : pc[r] \in {"prepare", "topology", "sampler", "aborted"}

(* A rank that has finished or refused leaves nobody waiting: whoever      *)
(* waits for a rank that has left waits for one of the lone exits, which   *)
(* no flag tells the others of.                                            *)
StrandedByLoneExit == Waiting # {} => \A r \in Ranks : pc[r] \notin Stopped \ LoneExits

(* The model of a rank that left alone is no further than its last whole   *)
(* step: a batch that raised on one rank is in nobody's weights.           *)
LoneExitStops ==
  \A r \in Ranks : pc[r] \in LoneExits => updates = epoch[r] * GlobalSteps + step[r]

(* At the end of an epoch every rank has had the same number of clips, no  *)
(* clip was drawn twice by anybody, and fewer than one global batch were   *)
(* left out.                                                               *)
EpochExact ==
  (\A r \in Ranks : EpochOver(r) \/ pc[r] = "end_epoch")
    => /\ \A i, j \in DOMAIN drawn : i # j => drawn[i][2] # drawn[j][2]
       /\ \A r \in Ranks : Len(SelectSeq(drawn, LAMBDA d : d[1] = r)) = GlobalSteps * Batch
       /\ Len(Kept) - Len(drawn) < Batch * World

(* Every trained part has been updated once by each optimizer step, and a  *)
(* frozen one never: the decoder belongs to the model and to the head.     *)
UpdatedOnce ==
  \A p \in Parts : weights[p] = IF p = "name_embedding" THEN 0 ELSE updates

(* best_model.pt is the first of the epochs with the lowest loss so far;   *)
(* there is none as long as no loss was below 1e9.                         *)
BestIsLowest ==
  IF ToSet(logs) \cap Losses = {} THEN bestFile = NoFile
  ELSE /\ bestFile.loss = Min(ToSet(logs))
       /\ bestFile.epoch + 1 = Min({i \in DOMAIN logs : logs[i] = Min(ToSet(logs))})

(* Unless a rank leaves alone, for keys of the checkpoint, a target that   *)
(* does not fit or a loss that is not finite, the run ends on every rank:  *)
(* <>Ends.                                                                 *)
Ends ==
  \/ \A r \in Ranks : pc[r] \in Stopped
  \/ ~ input.keys \/ input.misfit # {} \/ \E r \in Ranks : pc[r] = "diverged"

=============================================================================
