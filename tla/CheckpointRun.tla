---------------------------- MODULE CheckpointRun ----------------------------
(***************************************************************************)
(* The checkpoint protocol of a training run that is killed and resumed:   *)
(* scripts/train_graph_vqvae.py, which writes its files in place (~        *)
(* atomic), and scripts/train_graph_codeflow.py, which writes a temporary  *)
(* file and renames it (atomic).  The watchdogs resume from last_model.pt  *)
(* only; an operator may pass any epN_model.pt.  Both are fixed when the   *)
(* run is set up: any initial state has one or the other.                  *)
(*                                                                         *)
(* Process state (epoch, bestVal, the checkpoint dict) is lost in a crash; *)
(* the files in out_dir stay as the crash left them.  A file in the middle *)
(* of an in-place write is "torn": it exists and cannot be loaded.  The    *)
(* weights are represented by the number of epochs trained into them.      *)
(***************************************************************************)
EXTENDS Naturals, FiniteSets

CONSTANTS
  NEpochs,        \* --epochs
  SaveEvery,      \* --save_every
  PeriodicEvery,  \* --periodic_save_every; 0 switches the snapshots off
  Vals,           \* finite validation losses
  Inf,            \* a loss no comparison improves on: inf, or nan
  MaxCrashes      \* bound: crashes of the run

ASSUME RunAssumption ==
  /\ NEpochs \in Nat \ {0}
  /\ SaveEvery \in Nat \ {0}
  /\ PeriodicEvery \in Nat
  /\ Vals \subseteq Nat
  /\ Inf \in Nat /\ \A v \in Vals : v < Inf
  /\ MaxCrashes \in Nat

VARIABLES
  atomic,    \* last and best are written to a .tmp and renamed
  operator,  \* an operator may pass epN_model.pt to --resume
  pc,        \* where the main rank is
  epoch,     \* epoch being trained, or just trained
  weights,   \* epochs trained into the model in memory
  bestVal,   \* best_val
  ckpt,      \* the checkpoint dict of this epoch
  last,      \* last_model.pt
  best,      \* best_model.pt
  snaps,     \* epN_model.pt, N = 1 .. NEpochs
  crashes,   \* crashes so far
  served     \* history: lowest loss best_model.pt ever held complete

process == <<pc, epoch, weights, bestVal, ckpt>>
files   == <<last, best, snaps>>
setup   == <<atomic, operator>>
vars    == <<setup, process, files, crashes, served>>

Losses == Vals \cup {Inf}

File == [state : {"none", "torn", "whole"}, epoch : 0 .. (NEpochs - 1),
         weights : 0 .. NEpochs, val : Losses, best : Losses]

NoFile == [state |-> "none", epoch |-> 0, weights |-> 0, val |-> Inf, best |-> Inf]
Torn   == [NoFile EXCEPT !.state = "torn"]

Lower(a, b) == IF b < a THEN b ELSE a

PeriodicDue(e) ==
  PeriodicEvery > 0 /\ ((e + 1) % PeriodicEvery = 0 \/ e = NEpochs - 1)

DoVal(e) == (e + 1) % SaveEvery = 0 \/ e = NEpochs - 1 \/ PeriodicDue(e)

-----------------------------------------------------------------------------
Init ==
  /\ atomic \in BOOLEAN
  /\ operator \in BOOLEAN
  /\ pc = "off"
  /\ epoch = 0
  /\ weights = 0
  /\ bestVal = Inf
  /\ ckpt = NoFile
  /\ last = NoFile
  /\ best = NoFile
  /\ snaps = [n \in 1 .. NEpochs |-> NoFile]
  /\ crashes = 0
  /\ served = Inf

(* range(start_epoch, n_epochs) is empty when a finished run is resumed.   *)
Start(e, w, b) ==
  /\ pc' = IF e < NEpochs THEN "train" ELSE "done"
  /\ epoch' = e
  /\ weights' = w
  /\ bestVal' = b
  /\ ckpt' = NoFile
  /\ UNCHANGED <<files, crashes, served, setup>>

\* Mutant: a relaunch leaves --resume out.
Forgetful_Fresh ==
  /\ pc = "off"
  /\ Start(0, 0, Inf)

(* A first launch, or a new one after a crash that came before any save.   *)
Fresh ==
  /\ pc = "off"
  /\ last.state = "none"
  /\ Start(0, 0, Inf)

\* Mutant: the epoch of the checkpoint is trained once more.
Again_ResumeFrom(file) ==
  /\ pc \in {"off", "done"}
  /\ file.state = "whole"
  /\ Start(file.epoch, file.weights, file.best)

\* Mutant: best_val is restored from the loss of the resumed checkpoint.
OwnVal_ResumeFrom(file) ==
  /\ pc \in {"off", "done"}
  /\ file.state = "whole"
  /\ Start(file.epoch + 1, file.weights, file.val)

ResumeFrom(file) ==
  /\ pc \in {"off", "done"}
  /\ file.state = "whole"
  /\ Start(file.epoch + 1, file.weights, file.best)

(* The watchdogs pass last_model.pt.                                       *)
Resume == ResumeFrom(last)

ResumeSnap(n) == operator /\ ResumeFrom(snaps[n])

(* The watchdog only tests that the file exists; loading it raises.        *)
ResumeRefused ==
  /\ pc = "off"
  /\ last.state = "torn"
  /\ UNCHANGED vars

(* One epoch of training, then validation when it is due.                  *)
RunEpoch ==
  /\ pc = "train"
  /\ weights' = weights + 1
  /\ IF DoVal(epoch)
       THEN /\ pc' = "last"
            /\ \E v \in Losses :
                 ckpt' = [state |-> "whole", epoch |-> epoch, weights |-> weights + 1,
                          val |-> v, best |-> Lower(bestVal, v)]
       ELSE pc' = "barrier" /\ UNCHANGED ckpt
  /\ UNCHANGED <<epoch, bestVal, files, crashes, served, setup>>

\* Mutant: the renamed file is written in place after all.
InPlace_BeginLast ==
  /\ pc = "last"
  /\ last' = Torn
  /\ UNCHANGED <<process, best, snaps, crashes, served, setup>>

(* In place, a save truncates the file first and completes it later.       *)
BeginLast ==
  /\ pc = "last"
  /\ ~ atomic
  /\ pc' = "writeLast"
  /\ last' = Torn
  /\ UNCHANGED <<epoch, weights, bestVal, ckpt, best, snaps, crashes, served, setup>>

EndLast ==
  /\ pc = IF atomic THEN "last" ELSE "writeLast"
  /\ pc' = "best"
  /\ last' = ckpt
  /\ UNCHANGED <<epoch, weights, bestVal, ckpt, best, snaps, crashes, served, setup>>

KeepBest ==
  /\ pc = "best"
  /\ ~ (ckpt.val < bestVal)
  /\ pc' = "snap"
  /\ UNCHANGED <<epoch, weights, bestVal, ckpt, files, crashes, served, setup>>

BeginBest ==
  /\ pc = "best"
  /\ ~ atomic
  /\ ckpt.val < bestVal
  /\ pc' = "writeBest"
  /\ bestVal' = ckpt.val
  /\ best' = Torn
  /\ UNCHANGED <<epoch, weights, ckpt, last, snaps, crashes, served, setup>>

EndBest ==
  /\ IF atomic THEN pc = "best" /\ ckpt.val < bestVal
               ELSE pc = "writeBest"
  /\ pc' = "snap"
  /\ bestVal' = ckpt.val
  /\ best' = ckpt
  /\ served' = Lower(served, ckpt.val)
  /\ UNCHANGED <<epoch, weights, ckpt, last, snaps, crashes, setup>>

(* A snapshot is a copy of last_model.pt, written in place.                *)
BeginSnap ==
  /\ pc = "snap"
  /\ PeriodicDue(epoch)
  /\ pc' = "writeSnap"
  /\ snaps' = [snaps EXCEPT ![epoch + 1] = Torn]
  /\ UNCHANGED <<epoch, weights, bestVal, ckpt, last, best, crashes, served, setup>>

EndSnap ==
  /\ pc = "writeSnap"
  /\ pc' = "barrier"
  /\ snaps' = [snaps EXCEPT ![epoch + 1] = last]
  /\ UNCHANGED <<epoch, weights, bestVal, ckpt, last, best, crashes, served, setup>>

\* Mutant: the snapshot of the final epoch is forgotten.
Final_NoSnap ==
  /\ pc = "snap"
  /\ ~ PeriodicDue(epoch) \/ epoch = NEpochs - 1
  /\ pc' = "barrier"
  /\ UNCHANGED <<epoch, weights, bestVal, ckpt, files, crashes, served, setup>>

NoSnap ==
  /\ pc = "snap"
  /\ ~ PeriodicDue(epoch)
  /\ pc' = "barrier"
  /\ UNCHANGED <<epoch, weights, bestVal, ckpt, files, crashes, served, setup>>

\* Mutant: one epoch too many.
Extra_NextEpoch ==
  /\ pc = "barrier"
  /\ IF epoch < NEpochs THEN pc' = "train" /\ epoch' = epoch + 1
                        ELSE pc' = "done" /\ UNCHANGED epoch
  /\ UNCHANGED <<weights, bestVal, ckpt, files, crashes, served, setup>>

NextEpoch ==
  /\ pc = "barrier"
  /\ IF epoch + 1 < NEpochs THEN pc' = "train" /\ epoch' = epoch + 1
                            ELSE pc' = "done" /\ UNCHANGED epoch
  /\ UNCHANGED <<weights, bestVal, ckpt, files, crashes, served, setup>>

(* The allocation dies: the files stay as they are at that instant.        *)
Crash ==
  /\ pc \notin {"off", "done"}
  /\ crashes < MaxCrashes
  /\ crashes' = crashes + 1
  /\ pc' = "off"
  /\ epoch' = 0
  /\ weights' = 0
  /\ bestVal' = Inf
  /\ ckpt' = NoFile
  /\ UNCHANGED <<files, served, setup>>

Train ==
  \/ RunEpoch \/ BeginLast \/ EndLast \/ KeepBest \/ BeginBest \/ EndBest
  \/ BeginSnap \/ EndSnap \/ NoSnap \/ NextEpoch

Next ==
  \/ Fresh
  \/ Resume
  \/ \E n \in 1 .. NEpochs : ResumeSnap(n)
  \/ ResumeRefused
  \/ Train
  \/ Crash

Spec == Init /\ [][Next]_vars

(* A live process goes on; an operator launches the run, the watchdog      *)
(* relaunches it.  Crashes are not fair and come at most MaxCrashes times. *)
FairSpec ==
  /\ Spec
  /\ WF_vars(Fresh)
  /\ WF_vars(Resume)
  /\ WF_vars(Train)

-----------------------------------------------------------------------------
(* Properties.                                                             *)

(* Types of the process state and of the files.                            *)
TypeOK ==
  /\ atomic \in BOOLEAN /\ operator \in BOOLEAN
  /\ pc \in {"off", "train", "last", "writeLast", "best", "writeBest", "snap",
             "writeSnap", "barrier", "done"}
  /\ epoch \in 0 .. NEpochs
  /\ weights \in 0 .. NEpochs
  /\ bestVal \in Losses
  /\ ckpt \in File /\ last \in File /\ best \in File
  /\ snaps \in [1 .. NEpochs -> File]
  /\ crashes \in 0 .. MaxCrashes
  /\ served \in Losses

(* Every loadable file holds weights trained for exactly the epochs its    *)
(* epoch field claims, through any sequence of crashes and resumes, and    *)
(* epN_model.pt is the checkpoint of epoch N - 1.                          *)
FilesConsistent ==
  /\ \A f \in {last, best} : f.state = "whole" => f.weights = f.epoch + 1
  /\ \A n \in 1 .. NEpochs :
       snaps[n].state = "whole" => snaps[n].weights = n /\ snaps[n].epoch + 1 = n

(* As long as nobody resumes from a periodic snapshot, a complete          *)
(* best_model.pt is the best one that was ever complete: no resumed run    *)
(* puts a worse model over a better one.                                   *)
BestNeverWorsens == ~ operator /\ best.state = "whole" => best.val = served

(* A crash costs at most one periodic snapshot: the one of the epoch that  *)
(* last_model.pt already counts as done when its copy is still to come.    *)
SnapshotsKept ==
  pc = "done" =>
    Cardinality({n \in 1 .. NEpochs :
                   PeriodicDue(n - 1) /\ snaps[n].state # "whole"}) <= crashes

(* With renamed files, resumed by a watchdog, the run is a DurableProgress *)
(* (runs set up otherwise are mapped to the initial state): at most        *)
(* SaveEvery epochs are lost in a crash, what is on disk never falls back, *)
(* no epoch is skipped or repeated.                                        *)
Tracked == atomic /\ ~ operator

DurableEpochs == IF Tracked /\ last.state = "whole" THEN last.epoch + 1 ELSE 0

Now == IF ~ Tracked THEN 0
       ELSE IF pc \in {"off", "done"} THEN DurableEpochs ELSE weights

Progress == INSTANCE DurableProgress WITH
  N       <- NEpochs,
  Every   <- SaveEvery,
  durable <- DurableEpochs,
  now     <- Now

ImplementsDurableProgress == Progress!Spec

(* The run finishes, whatever crashes it meets, unless one of them tore    *)
(* last_model.pt; renamed files are never torn.                            *)
FinishesUnlessTorn == <>(pc = "done" \/ (~ atomic /\ pc = "off" /\ last.state = "torn"))
=============================================================================
