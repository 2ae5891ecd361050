------------------------------ MODULE LatentRun ------------------------------
(***************************************************************************)
(* The main rank of the two latent training scripts,                       *)
(* scripts/train_denoiser.py and scripts/train_graph_vae.py, through       *)
(* crashes and resumes.  Both overwrite their files in place, but in       *)
(* another order and on another schedule than CheckpointRun's scripts:     *)
(*   denoiser  metrics row, best_model.pt, last_model.pt, epN_model.pt;    *)
(*             last and epN carry best_val in place of their own loss;     *)
(*   vae       last_model.pt, which already counts this epoch's losses in  *)
(*             its best ones, best_model.pt, best_recon_model.pt, metrics  *)
(*             row, epN_model.pt.                                          *)
(* So each loses in a crash what the other keeps.  A launch without        *)
(* --resume into a directory that holds a last_model.pt is an operator's   *)
(* mistake nothing prevents; it is left out.                               *)
(***************************************************************************)
EXTENDS Integers, Sequences

CONSTANTS
  NEpochs,        \* --epochs
  Steps,          \* len(dl_train)
  SaveEvery,      \* --save_every
  ValEvery,       \* --val_every (denoiser)
  PeriodicEvery,  \* --periodic_save_every; 0 switches the snapshots off
  Warmup,         \* --warmup_iters (denoiser)
  Vals,           \* finite validation losses
  Inf,            \* a loss no comparison improves on: inf, or nan
  MaxCrashes      \* bound: crashes of the run

ASSUME LatentAssumption ==
  /\ {NEpochs, Steps, SaveEvery, ValEvery} \subseteq Nat \ {0}
  /\ {PeriodicEvery, Warmup, MaxCrashes} \subseteq Nat
  /\ Vals \subseteq Nat /\ Inf \in Nat /\ \A v \in Vals : v < Inf

VARIABLES
  script,     \* which of the two scripts runs
  operator,   \* an operator resumes from other files than last_model.pt
  pc,         \* where the main rank is
  epoch, step,
  weights,    \* epochs trained into the model in memory
  git,        \* global_it (denoiser), n_iter (vae)
  lr,         \* position in the learning-rate schedule of the last update
  val, rec,   \* losses of this epoch's validation
  bestVal,    \* best_val, best_val_loss
  bestRec,    \* best_val_recon (vae)
  todo,       \* what is still to be written in this epoch, in order
  last, best, recon, snaps,   \* files
  born,       \* epoch at which metrics.jsonl begins
  rows,       \* epochs with a row of their own in metrics.jsonl
  crashes,
  served, servedRec   \* history: lowest loss a complete best file ever held

process == <<pc, epoch, step, weights, git, lr, val, rec, bestVal, bestRec, todo>>
files   == <<last, best, recon, snaps>>
metrics == <<born, rows>>
history == <<served, servedRec>>
setup   == <<script, operator>>
vars    == <<setup, process, files, metrics, crashes, history>>

Losses == Vals \cup {Inf}

(* val and rec are what a resume takes for best_val and best_val_recon.    *)
File == [state : {"none", "torn", "whole"}, epoch : 0 .. (NEpochs - 1),
         weights : 0 .. NEpochs, val : Losses, rec : Losses]

NoFile == [state |-> "none", epoch |-> 0, weights |-> 0, val |-> Inf, rec |-> Inf]
Torn   == [NoFile EXCEPT !.state = "torn"]

Lower(a, b)  == IF b < a THEN b ELSE a
Higher(a, b) == IF a < b THEN b ELSE a

-----------------------------------------------------------------------------
(* Schedules.                                                              *)

FinalEpoch(e) == e = NEpochs - 1

ValDue(e) ==
  IF script = "denoiser" THEN e % ValEvery = 0 \/ FinalEpoch(e)
                         ELSE (e + 1) % SaveEvery = 0 \/ FinalEpoch(e)

LastDue(e) == script = "denoiser" => e % SaveEvery = 0 \/ FinalEpoch(e)

PeriodicDue(e) == PeriodicEvery > 0 /\ (e + 1) % PeriodicEvery = 0

TotalIters == NEpochs * Steps
Descent    == Higher(1, TotalIters - 1 - Warmup)

(* Linear warm-up: ramp of Warmup steps; then a cosine: down of its steps. *)
LrFor(it) ==
  IF it < Warmup THEN [ramp |-> it + 1, down |-> 0, of |-> Descent]
  ELSE [ramp |-> Warmup, down |-> Lower(Descent, it - Warmup), of |-> Descent]

\* Mutant: last_model.pt comes last in the VAE run too.
Early_Plan(e) ==
  IF script = "denoiser"
    THEN IF ValDue(e) THEN <<"row", "best", "last", "snap">> ELSE <<"last", "snap">>
    ELSE IF ValDue(e) THEN <<"best", "recon", "last", "row", "snap">> ELSE <<"snap">>

(* The order of the writes at the end of epoch e.                          *)
Plan(e) ==
  IF script = "denoiser"
    THEN IF ValDue(e) THEN <<"row", "best", "last", "snap">> ELSE <<"last", "snap">>
    ELSE IF ValDue(e) THEN <<"last", "best", "recon", "row", "snap">> ELSE <<"snap">>

-----------------------------------------------------------------------------
Init ==
  /\ script \in {"denoiser", "vae"}
  /\ operator \in BOOLEAN
  /\ pc = "off"
  /\ epoch = 0 /\ step = 0 /\ weights = 0 /\ git = 0
  /\ lr = LrFor(0)
  /\ val = Inf /\ rec = Inf /\ bestVal = Inf /\ bestRec = Inf
  /\ todo = << >>
  /\ last = NoFile /\ best = NoFile /\ recon = NoFile
  /\ snaps = [n \in 1 .. NEpochs |-> NoFile]
  /\ born = 0 /\ rows = {}
  /\ crashes = 0
  /\ served = Inf /\ servedRec = Inf

\* Mutant: a run that has no epoch left fails after its loop.
Dying_Start(e, w, g, b, r) ==
  /\ pc' = IF e < NEpochs THEN "train" ELSE "off"
  /\ epoch' = e /\ step' = 0 /\ weights' = w /\ git' = g
  /\ lr' = LrFor(Higher(0, g - 1))
  /\ val' = Inf /\ rec' = Inf /\ bestVal' = b /\ bestRec' = r
  /\ todo' = << >>
  /\ IF script = "denoiser" THEN born' = e /\ rows' = {} ELSE UNCHANGED metrics
  /\ UNCHANGED <<setup, files, crashes, history>>

(* The denoiser opens metrics.jsonl for writing, the VAE run appends.      *)
Start(e, w, g, b, r) ==
  /\ pc' = IF e < NEpochs THEN "train" ELSE "done"
  /\ epoch' = e /\ step' = 0 /\ weights' = w /\ git' = g
  /\ lr' = LrFor(Higher(0, g - 1))
  /\ val' = Inf /\ rec' = Inf /\ bestVal' = b /\ bestRec' = r
  /\ todo' = << >>
  /\ IF script = "denoiser" THEN born' = e /\ rows' = {} ELSE UNCHANGED metrics
  /\ UNCHANGED <<setup, files, crashes, history>>

Fresh ==
  /\ pc = "off"
  /\ last.state = "none"
  /\ Start(0, 0, 0, Inf, Inf)

(* The VAE run counts its iterations from zero again.                      *)
ResumeFrom(file) ==
  /\ pc \in {"off", "done"}
  /\ file.state = "whole"
  /\ Start(file.epoch + 1, file.weights,
           IF script = "denoiser" THEN (file.epoch + 1) * Steps ELSE 0, file.val, file.rec)

Resume == ResumeFrom(last)

(* The VAE's best files hold no optimizer state and cannot be resumed.     *)
ResumeOther ==
  /\ operator
  /\ \/ \E n \in 1 .. NEpochs : ResumeFrom(snaps[n])
     \/ script = "denoiser" /\ ResumeFrom(best)

(* Loading a torn file raises, at every attempt.                           *)
ResumeRefused == pc = "off" /\ last.state = "torn" /\ UNCHANGED vars

(* One optimizer step: the rate is set before the counter moves.           *)
Update ==
  /\ pc = "train"
  /\ step < Steps
  /\ lr' = IF script = "denoiser" THEN LrFor(git) ELSE lr
  /\ step' = step + 1
  /\ git' = git + 1
  /\ UNCHANGED <<setup, pc, epoch, weights, val, rec, bestVal, bestRec, todo,
                 files, metrics, crashes, history>>

(* What a validation may measure: the total loss, and for the VAE the      *)
(* reconstruction loss without the KL term, which need not agree.          *)
DenoiserValidation == Losses \X {Inf}
VaeValidation      == Losses \X Losses

Validation(e) ==
  IF ~ ValDue(e) THEN {<<Inf, Inf>>}
  ELSE IF script = "denoiser" THEN DenoiserValidation ELSE VaeValidation

(* The loader is exhausted: validate if it is due, then write.             *)
EndEpoch ==
  /\ pc = "train"
  /\ step = Steps
  /\ weights' = weights + 1
  /\ \E measured \in Validation(epoch) : val' = measured[1] /\ rec' = measured[2]
  /\ todo' = Plan(epoch)
  /\ pc' = "save"
  /\ UNCHANGED <<setup, epoch, step, git, lr, bestVal, bestRec, files, metrics,
                 crashes, history>>

Due(f) ==
  CASE f = "best"  -> val < bestVal
    [] f = "recon" -> rec < bestRec
    [] f = "last"  -> LastDue(epoch)
    [] f = "snap"  -> PeriodicDue(epoch)
    [] f = "row"   -> TRUE

(* What a save of this epoch holds; the VAE's last_model.pt is written     *)
(* before the best losses are updated and counts this epoch's in.          *)
Content(f) ==
  [state |-> "whole", epoch |-> epoch, weights |-> weights,
   val |-> IF script = "vae" /\ f = "last" THEN Lower(bestVal, val) ELSE
           IF f \in {"best", "recon"} THEN val ELSE bestVal,
   rec |-> IF script = "vae" /\ f = "last" THEN Lower(bestRec, rec) ELSE
           IF f \in {"best", "recon"} THEN rec ELSE bestRec]

Saving(f) == pc = "save" /\ todo # << >> /\ Head(todo) = f

Skip ==
  /\ pc = "save" /\ todo # << >>
  /\ ~ Due(Head(todo))
  /\ todo' = Tail(todo)
  /\ UNCHANGED <<setup, pc, epoch, step, weights, git, lr, val, rec, bestVal, bestRec,
                 files, metrics, crashes, history>>

WriteRow ==
  /\ Saving("row")
  /\ rows' = rows \cup {epoch}
  /\ todo' = Tail(todo)
  /\ UNCHANGED <<setup, pc, epoch, step, weights, git, lr, val, rec, bestVal, bestRec,
                 files, born, crashes, history>>

(* File f holds x; the others stay as they are.                            *)
Put(f, x) ==
  /\ last'  = IF f = "last"  THEN x ELSE last
  /\ best'  = IF f = "best"  THEN x ELSE best
  /\ recon' = IF f = "recon" THEN x ELSE recon
  /\ snaps' = IF f = "snap"  THEN [snaps EXCEPT ![epoch + 1] = x] ELSE snaps

(* torch.save truncates the file; the best loss was set just before it.    *)
BeginSave(f) ==
  /\ Saving(f)
  /\ Due(f)
  /\ pc' = "write"
  /\ bestVal' = IF f = "best" THEN val ELSE bestVal
  /\ bestRec' = IF f = "recon" THEN rec ELSE bestRec
  /\ Put(f, Torn)
  /\ UNCHANGED <<setup, epoch, step, weights, git, lr, val, rec, todo, metrics, crashes,
                 history>>

EndSave(f) ==
  /\ pc = "write"
  /\ Head(todo) = f
  /\ pc' = "save"
  /\ todo' = Tail(todo)
  /\ Put(f, Content(f))
  /\ served' = IF f = "best" THEN Lower(served, val) ELSE served
  /\ servedRec' = IF f = "recon" THEN Lower(servedRec, rec) ELSE servedRec
  /\ UNCHANGED <<setup, epoch, step, weights, git, lr, val, rec, bestVal, bestRec, metrics,
                 crashes>>

(* After the barrier the next epoch begins, or the run is complete.        *)
NextEpoch ==
  /\ pc = "save" /\ todo = << >>
  /\ IF FinalEpoch(epoch) THEN pc' = "done" /\ UNCHANGED <<epoch, step>>
                          ELSE pc' = "train" /\ epoch' = epoch + 1 /\ step' = 0
  /\ UNCHANGED <<setup, weights, git, lr, val, rec, bestVal, bestRec, todo, files, metrics,
                 crashes, history>>

(* Killed, or ended by a gradient that is not finite.                      *)
Crash ==
  /\ pc \notin {"off", "done"}
  /\ crashes < MaxCrashes
  /\ crashes' = crashes + 1
  /\ pc' = "off"
  /\ epoch' = 0 /\ step' = 0 /\ weights' = 0 /\ git' = 0
  /\ lr' = LrFor(0)
  /\ val' = Inf /\ rec' = Inf /\ bestVal' = Inf /\ bestRec' = Inf
  /\ todo' = << >>
  /\ UNCHANGED <<setup, files, metrics, history>>

Saved == {"last", "best", "recon", "snap"}

Train ==
  \/ Update \/ EndEpoch \/ Skip \/ WriteRow \/ NextEpoch
  \/ \E f \in Saved : BeginSave(f) \/ EndSave(f)

Next == Fresh \/ Resume \/ ResumeOther \/ ResumeRefused \/ Train \/ Crash

Spec == Init /\ [][Next]_vars

(* A live process goes on, and somebody relaunches a run that died.        *)
FairSpec == Spec /\ WF_vars(Fresh) /\ WF_vars(Resume) /\ WF_vars(Train)

-----------------------------------------------------------------------------
(* Properties.                                                             *)

Running == pc \notin {"off", "done"}

(* Types of the process, the files and the metrics.                        *)
TypeOK ==
  /\ script \in {"denoiser", "vae"} /\ operator \in BOOLEAN
  /\ pc \in {"off", "train", "save", "write", "done"}
  /\ epoch \in 0 .. NEpochs /\ step \in 0 .. Steps
  /\ weights \in 0 .. NEpochs /\ git \in 0 .. TotalIters
  /\ {val, rec, bestVal, bestRec, served, servedRec} \subseteq Losses
  /\ {last, best, recon} \subseteq File /\ snaps \in [1 .. NEpochs -> File]
  /\ born \in 0 .. NEpochs /\ rows \subseteq 0 .. (NEpochs - 1)
  /\ crashes \in 0 .. MaxCrashes

(* Every loadable file holds weights trained for exactly the epochs its    *)
(* epoch field claims, through any crashes and resumes, also from a        *)
(* snapshot or, for the denoiser, from best_model.pt.                      *)
FilesTrue ==
  /\ \A f \in {last, best, recon} : f.state = "whole" => f.weights = f.epoch + 1
  /\ \A n \in 1 .. NEpochs :
       snaps[n].state = "whole" => snaps[n].weights = n /\ snaps[n].epoch + 1 = n

(* A VAE run resumed from last_model.pt never puts a worse model over a    *)
(* better one, neither by total nor by reconstruction loss: what is in     *)
(* place is the best it ever wrote.  Its best may never be written: a      *)
(* crash after last_model.pt, which counts it already, loses it.           *)
VaeBestNeverWorsens ==
  script = "vae" /\ ~ operator =>
    /\ best.state = "whole" => best.val = served
    /\ recon.state = "whole" => recon.rec = servedRec

(* The best loss that the denoiser's last_model.pt claims is that of a     *)
(* model that was written: best_model.pt is at least that good, or a crash *)
(* cut off a later save of it.  No more: after a crash between the two     *)
(* files the resumed run knows the older loss only, and a model worse than *)
(* the one in place, but better than that, is written over it.             *)
DenoiserClaimBacked ==
  script = "denoiser" /\ ~ operator /\ last.state = "whole" /\ last.val < Inf =>
    best.state = "torn" \/ (best.state = "whole" /\ best.val <= last.val)

(* Crashes do not show in the denoiser's schedule: update number u uses    *)
(* the learning rate of number u of a run that was never interrupted, and  *)
(* the geometry terms, which come every so many updates, keep their phase. *)
SeamlessSchedule ==
  script = "denoiser" /\ Running =>
    LET u == IF pc = "train" THEN weights * Steps + step ELSE weights * Steps
    IN  git = u /\ lr = LrFor(Higher(0, u - 1))

(* The last update of a complete run is the one at the floor of the cosine.*)
ReachesFloor ==
  script = "denoiser" /\ Warmup < TotalIters - 1 /\ pc = "save" /\ FinalEpoch(epoch)
    => lr.down = lr.of

(* Every validated epoch that the denoiser's last_model.pt counts is in    *)
(* metrics.jsonl, from the epoch at which the file begins.                 *)
MetricsCover ==
  script = "denoiser" /\ ~ operator /\ last.state = "whole" =>
    \A e \in born .. last.epoch : ValDue(e) => e \in rows

(* Through any crashes and resumes the files are what they claim, the VAE  *)
(* puts no worse model over a better one, the denoiser's claimed loss is   *)
(* that of a model written, and the schedule of the denoiser goes on as if *)
(* nothing had happened.  That the best model is kept is not said: either  *)
(* script can lose it, in a crash between its two saves.                   *)
ResumesFaithfully ==
  /\ TypeOK /\ FilesTrue /\ VaeBestNeverWorsens /\ DenoiserClaimBacked
  /\ SeamlessSchedule /\ ReachesFloor /\ MetricsCover

(* The run finishes, unless a crash tore last_model.pt.                    *)
FinishesUnlessTorn == <>(pc = "done" \/ (pc = "off" /\ last.state = "torn"))
=============================================================================
